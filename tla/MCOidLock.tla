----------------------------- MODULE MCOidLock ------------------------------
(* OidLock for TLC: a few interchangeable clients on one oid.              *)
EXTENDS OidLock, TLC

CONSTANTS c1, c2, c3

ThreeClients == {c1, c2, c3}
TwoClients   == {c1, c2}
ClientSymmetry == Permutations(Clients)
=============================================================================
