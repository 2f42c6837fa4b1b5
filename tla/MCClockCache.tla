---------------------------- MODULE MCClockCache ----------------------------
(* ClockCache for TLC: a record with one cached and one uncached field.     *)
EXTENDS ClockCache, TLC

CONSTANTS c1, c2, c3, r1, r2, r3

TwoClients == {c1, c2}
ThreeClients == {c1, c2, c3}
TwoRids    == {r1, r2}
ThreeRids  == {r1, r2, r3}
TwoFields  == {"hot", "cold"}
HotField   == {"hot"}
\* One query the cached item satisfies and one that needs the row as well.
TwoQueries == {{"hot"}, {"hot", "cold"}}

HotQuery   == {{"hot"}}

Symmetry == Permutations(Clients) \cup Permutations(Rids)
=============================================================================
