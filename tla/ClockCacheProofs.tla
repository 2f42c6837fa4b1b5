-------------------------- MODULE ClockCacheProofs --------------------------
(***************************************************************************)
(* Proofs about ClockCache for any sets of clients, records and fields,    *)
(* any number of slots and any probe length.                               *)
(*                                                                         *)
(* Every step is a step of one client c, and the argument is the same for  *)
(* each: c changes the oid of a record, or the slot that holds one, only   *)
(* while it has the write lock of that record, so whatever another client  *)
(* holds a guard on stays as it was (Untouched).  What remains to be shown *)
(* for a step is that c keeps its own promises (CallOK, QueryOK) and that  *)
(* oids and slots still agree.                                             *)
(***************************************************************************)
EXTENDS ClockCache, TLAPS

\* A write lock has one holder and no readers beside it.
LEMMA OneWriter ==
  ASSUME LocksOK, NEW c \in Clients, NEW d \in Clients, NEW r \in Rids,
         c \in writers[r]
  PROVE  Holds(d, r) => d = c
  BY DEF LocksOK, Holds

LEMMA SlotOfFields ==
  ASSUME NEW i
  PROVE  SlotOf(i).cached /\ SlotOf(i).id = i
  BY Zenon DEF SlotOf

\* What d has a guard on is left alone by a step, and so is d.
Untouched(d) ==
  /\ pc'[d] = pc[d] /\ loc'[d] = loc[d] /\ hand'[d] = hand[d] /\ qv'[d] = qv[d]
  /\ allocd \subseteq allocd'
  /\ \A r \in Rids :
       /\ d \in readers[r] => d \in readers'[r]
       /\ d \in writers[r] => d \in writers'[r]
       /\ Holds(d, r) => oid'[r] = oid[r]
       /\ Holds(d, r) => \A i \in Slots : slots[i].rid = r => slots'[i].rid = r

LEMMA UntouchedCall ==
  ASSUME TypeOK, NEW d \in Clients, Untouched(d), CallOK(d)
  PROVE  CallOK(d)'
<1>1. CASE pc[d] = "idle"
  BY <1>1 DEF Untouched, CallOK
<1>2. CASE pc[d] # "idle"
  <2>1. OwnOK(d) /\ VictimOK(d)
    BY <1>2 DEF CallOK
  <2>2. hand[d] \in Slots /\ loc[d].rid \in Rids /\ allocd \subseteq Rids
    BY <2>1 DEF OwnOK, TypeOK, Calls
  <2>3. OwnOK(d)'
    BY <2>1, <2>2 DEF OwnOK, Untouched, Holds
  <2>4. VictimOK(d)'
    BY <2>1, <2>2 DEF VictimOK, Untouched, Holds, Evicting
  <2> QED
    BY <1>2, <2>3, <2>4 DEF CallOK, Untouched
<1> QED
  BY <1>1, <1>2

LEMMA UntouchedQuery ==
  ASSUME TypeOK, NEW d \in Clients, Untouched(d), NEW r \in Rids, QueryOK(d, r)
  PROVE  QueryOK(d, r)'
<1>1. CASE qv[d][r] = None
  BY <1>1 DEF Untouched, QueryOK, Located, Satisfied
<1>2. CASE qv[d][r] # None
  <2>1. qv[d][r] \in QueryValues
    BY <1>2 DEF TypeOK
  <2> QED
    BY <1>2, <2>1 DEF Untouched, QueryOK, Located, Satisfied, Holds, QueryValues
<1> QED
  BY <1>1, <1>2

\* A step of c that leaves the others alone keeps what all clients know if it
\* keeps what c knows.
LEMMA Others ==
  ASSUME TypeOK, CallsOK, QueriesOK, NEW c \in Clients,
         \A d \in Clients \ {c} : Untouched(d),
         CallOK(c)', \A r \in Rids : QueryOK(c, r)'
  PROVE  CallsOK' /\ QueriesOK'
  BY UntouchedCall, UntouchedQuery DEF CallsOK, QueriesOK

-----------------------------------------------------------------------------
(* Locks                                                                   *)

LEMMA ReadLockInd ==
  ASSUME IndInv, NEW c \in Clients, NEW r \in Rids, ReadLock(c, r)
  PROVE  IndInv'
<1> USE DEF IndInv
<1>1. TypeOK'
  BY DEF ReadLock, TypeOK
<1>2. \A d \in Clients : Untouched(d)
  BY DEF ReadLock, Untouched, TypeOK
<1>3. LocksOK'
  BY DEF ReadLock, LocksOK, Free, TypeOK
<1>4. OidsOK' /\ SlotsOK' /\ RecordsOK'
  BY DEF ReadLock, OidsOK, SlotsOK, Moving, RecordsOK
<1>5. CallsOK' /\ QueriesOK'
  BY <1>2, UntouchedCall, UntouchedQuery DEF CallsOK, QueriesOK
<1> QED
  BY <1>1, <1>3, <1>4, <1>5

LEMMA TryWriteLockInd ==
  ASSUME IndInv, NEW c \in Clients, NEW r \in Rids, TryWriteLock(c, r)
  PROVE  IndInv'
<1> USE DEF IndInv
<1>1. TypeOK'
  BY DEF TryWriteLock, WriteLock, TypeOK
<1>2. \A d \in Clients : Untouched(d)
  BY DEF TryWriteLock, WriteLock, Free, Untouched, TypeOK
<1>3. LocksOK'
  BY DEF TryWriteLock, WriteLock, LocksOK, Free, TypeOK
<1>4. OidsOK' /\ SlotsOK' /\ RecordsOK'
  BY DEF TryWriteLock, OidsOK, SlotsOK, Moving, RecordsOK
<1>5. CallsOK' /\ QueriesOK'
  BY <1>2, UntouchedCall, UntouchedQuery DEF CallsOK, QueriesOK
<1> QED
  BY <1>1, <1>3, <1>4, <1>5

LEMMA UpgradeLockInd ==
  ASSUME IndInv, NEW c \in Clients, NEW r \in Rids, UpgradeLock(c, r)
  PROVE  IndInv'
<1> USE DEF IndInv
<1>1. TypeOK'
  BY DEF UpgradeLock, WriteLock, TypeOK
<1>2. \A d \in Clients \ {c} : Untouched(d)
  BY DEF UpgradeLock, WriteLock, LocksOK, Untouched, TypeOK
<1>3. LocksOK'
  BY DEF UpgradeLock, WriteLock, LocksOK, Free, TypeOK
<1>4. OidsOK' /\ SlotsOK' /\ RecordsOK'
  BY DEF UpgradeLock, OidsOK, SlotsOK, Moving, RecordsOK
<1>5. CallOK(c)'
  BY DEF UpgradeLock, Idle, CallsOK, CallOK
<1>6. \A s \in Rids : QueryOK(c, s)'
  BY DEF UpgradeLock, WriteLock, QueriesOK, QueryOK, Located, Satisfied, Holds, TypeOK
<1> QED
  BY <1>1, <1>2, <1>3, <1>4, <1>5, <1>6, Others

LEMMA DropGuardInd ==
  ASSUME IndInv, NEW c \in Clients, NEW r \in Rids, DropGuard(c, r)
  PROVE  IndInv'
<1> USE DEF IndInv
<1>1. TypeOK'
  BY DEF DropGuard, WriteUnlock, TypeOK
<1>2. \A d \in Clients \ {c} : Untouched(d)
  BY DEF DropGuard, WriteUnlock, Untouched, TypeOK
<1>3. LocksOK'
  BY ZenonT(40) DEF DropGuard, WriteUnlock, LocksOK, Free, TypeOK
<1>4. OidsOK' /\ SlotsOK' /\ RecordsOK'
  BY DEF DropGuard, OidsOK, SlotsOK, Moving, RecordsOK
<1>5. CallOK(c)'
  BY DEF DropGuard, Idle, CallsOK, CallOK
<1>6. \A s \in Rids : QueryOK(c, s)'
  BY DEF DropGuard, WriteUnlock, QueriesOK, QueryOK, Located, Satisfied, Holds, TypeOK
<1> QED
  BY <1>1, <1>2, <1>3, <1>4, <1>5, <1>6, Others

-----------------------------------------------------------------------------
(* Calls that begin, or end at once                                        *)

LEMMA InsertInd ==
  ASSUME IndInv, NEW c \in Clients, NEW t \in Tuples, Insert(c, t)
  PROVE  IndInv'
<1> USE DEF IndInv
<1>1. PICK r \in Rids \ allocd :
        /\ allocd' = allocd \cup {r}
        /\ oid' = [oid EXCEPT ![r] = RowOf(r)]
        /\ WriteLock(c, r)
        /\ loc' = [loc EXCEPT ![c] =
                     [kind |-> "insert", rid |-> r, tuple |-> t, query |-> {},
                      node |-> ClockNode(r, to_cached(t)), probe |-> 0,
                      seen |-> None, old |-> None]]
  BY DEF Insert
<1>2. /\ pc[c] = "idle"
      /\ pc' = [pc EXCEPT ![c] = IF ProbeLen > 0 THEN "probe" ELSE "store"]
      /\ UNCHANGED <<readers, slots, store, hand, qv, out, rec>>
  BY DEF Insert, Idle, Goto
<1>3. Free(r)
  BY DEF LocksOK
<1>4. to_cached(t) \in CachedItems
  BY CacheAssumption DEF to_cached, CachedItems, Tuples
<1>5. ClockNode(r, to_cached(t)) \in Nodes /\ ClockNode(r, to_cached(t)).rid = r
  BY <1>4 DEF ClockNode, Nodes
<1>6. loc'[c] \in Calls /\ loc'[c].rid = r /\ loc'[c].kind = "insert"
      /\ loc'[c].probe = 0 /\ loc'[c].node = ClockNode(r, to_cached(t)) /\ loc'[c].tuple = t
  BY <1>1, <1>5, CacheAssumption DEF Calls, TypeOK
<1>7. /\ pc'[c] \in {"probe", "store"}
      /\ pc'[c] = "probe" => 0 < ProbeLen
  BY <1>2 DEF TypeOK
<1>8. TypeOK'
  BY <1>1, <1>2, <1>6 DEF TypeOK, WriteLock, RowOf, Oids, PCs
<1>9. \A d \in Clients \ {c} : Untouched(d)
  BY <1>1, <1>2, <1>3 DEF Untouched, WriteLock, Free, Holds, TypeOK
<1>10. LocksOK'
  BY <1>1, <1>2, <1>3 DEF LocksOK, WriteLock, Free, TypeOK
<1>11. ~oid[r].cached /\ \A i \in Slots : slots[i].rid # r
  BY DEF OidsOK, SlotsOK
<1>12. OidsOK'
  BY <1>1, <1>2, <1>11 DEF OidsOK, RowOf, TypeOK
<1>13. SlotsOK'
  <2>1. \A i \in Slots, s \in Rids, d \in Clients : Moving(d, i, s) => Moving(d, i, s)'
    BY <1>1, <1>2 DEF Moving, TypeOK
  <2> QED
    BY <1>1, <1>2, <1>11, <2>1 DEF SlotsOK, TypeOK
<1>14. RecordsOK'
  BY <1>1, <1>2, <1>6, <1>7 DEF RecordsOK, TypeOK
<1>15. qv[c][r] = None
  BY <1>3 DEF QueriesOK, QueryOK, Located, Satisfied, Holds, Free
<1>16. CallOK(c)'
  <2>1. ~oid'[r].cached /\ c \in writers'[r] /\ r \in allocd' /\ qv'[c][r] = None
    BY <1>1, <1>2, <1>15 DEF RowOf, WriteLock, TypeOK
  <2>2. OwnOK(c)'
    BY <1>5, <1>6, <1>7, <2>1 DEF OwnOK, Probing
  <2>3. VictimOK(c)'
    BY <1>7 DEF VictimOK, Evicting
  <2> QED
    BY <1>7, <2>2, <2>3 DEF CallOK
<1>17. \A s \in Rids : QueryOK(c, s)'
  BY <1>1, <1>2, <1>15 DEF QueriesOK, QueryOK, Located, Satisfied, Holds, WriteLock, TypeOK
<1> QED
  BY <1>8, <1>9, <1>10, <1>12, <1>13, <1>14, <1>16, <1>17, Others

\* Setting a ref bit changes no rid.
LEMMA NodeRef ==
  ASSUME NEW n \in Nodes, NEW b \in BOOLEAN
  PROVE  [n EXCEPT !.ref = b] \in Nodes /\ [n EXCEPT !.ref = b].rid = n.rid
  BY Zenon DEF Nodes

LEMMA SetRef ==
  ASSUME TypeOK, NEW i \in Slots, MaybeSetRef(i)
  PROVE  /\ slots' \in [Slots -> Nodes]
         /\ \A j \in Slots : slots'[j].rid = slots[j].rid
<1>1. slots[i].ref \in BOOLEAN
  BY DEF TypeOK, Nodes
<1>2. PICK b \in BOOLEAN : slots' = [slots EXCEPT ![i].ref = b]
  BY <1>1 DEF MaybeSetRef
<1> DEFINE n == [slots[i] EXCEPT !.ref = b]
<1>3. n \in Nodes /\ n.rid = slots[i].rid
  BY NodeRef DEF TypeOK
<1>4. slots' = [slots EXCEPT ![i] = n]
  BY <1>2, Zenon
<1> HIDE DEF n
<1> QED
  BY <1>3, <1>4 DEF TypeOK

\* What read() hands out points to where the record is.
LEMMA LookupValid ==
  ASSUME IndInv, NEW c \in Clients, NEW r \in Rids, NEW q \in Queries, Holds(c, r)
  PROVE  LET v == Lookup(r, q) IN
           /\ v \in QueryValues
           /\ v.slot # None => oid[r] = SlotOf(v.slot) /\ slots[v.slot].rid = r
           /\ v.slot = None => oid[r] = RowOf(r)
           /\ v.row \in {r, None}
           /\ \A f \in v.query : InCache(v, f) \/ v.row # None
<1> USE DEF IndInv
<1>1. r \in allocd /\ oid[r] \in Oids
  BY DEF LocksOK, Free, Holds, TypeOK
<1>2. CASE oid[r].cached
  <2>1. oid[r].id \in Slots /\ slots[oid[r].id].rid = r /\ oid[r] = SlotOf(oid[r].id)
    BY <1>1, <1>2 DEF OidsOK, Oids, SlotOf
  <2>2. oid[r].id # None
    BY <2>1, CacheAssumption
  <2> QED
    BY <1>2, <2>1, <2>2, CacheAssumption DEF Lookup, QueryValue, QueryValues, InCache, matches
<1>3. CASE ~oid[r].cached
  <2>1. oid[r].id = r /\ oid[r] = RowOf(r)
    BY <1>1, <1>3 DEF OidsOK, Oids, RowOf
  <2> QED
    BY <1>3, <2>1, CacheAssumption DEF Lookup, QueryValue, QueryValues
<1> QED
  BY <1>2, <1>3

LEMMA ReadInd ==
  ASSUME IndInv, NEW c \in Clients, NEW r \in Rids, NEW q \in Queries, Read(c, r, q)
  PROVE  IndInv'
<1> USE DEF IndInv
<1>1. /\ pc[c] = "idle" /\ Holds(c, r)
      /\ qv' = [qv EXCEPT ![c][r] = Lookup(r, q)]
      /\ UNCHANGED <<allocd, oid, readers, writers, store, hand, pc, loc, out, rec>>
  BY DEF Read, Idle
<1>2. slots' \in [Slots -> Nodes] /\ \A j \in Slots : slots'[j].rid = slots[j].rid
  <2>1. CASE oid[r].cached
    <3>1. oid[r].id \in Slots
      BY <2>1 DEF TypeOK, Oids
    <3> QED
      BY <2>1, <3>1, SetRef DEF Read
  <2>2. CASE ~oid[r].cached
    BY <2>2 DEF Read, TypeOK
  <2> QED
    BY <2>1, <2>2
<1> DEFINE v == Lookup(r, q)
<1>3. /\ v \in QueryValues
      /\ v.slot # None => oid[r] = SlotOf(v.slot) /\ slots[v.slot].rid = r
      /\ v.slot = None => oid[r] = RowOf(r)
      /\ v.row \in {r, None}
      /\ \A f \in v.query : InCache(v, f) \/ v.row # None
  BY <1>1, LookupValid
<1> HIDE DEF v
<1>4. TypeOK'
  BY <1>1, <1>2, <1>3 DEF TypeOK, v
<1>5. \A d \in Clients \ {c} : Untouched(d)
  BY <1>1, <1>2 DEF Untouched, Holds, TypeOK
<1>6. LocksOK' /\ OidsOK' /\ SlotsOK' /\ RecordsOK'
  <2>1. LocksOK' /\ RecordsOK'
    BY <1>1 DEF LocksOK, Free, RecordsOK
  <2>2. OidsOK'
    BY <1>1, <1>2 DEF OidsOK, TypeOK, Oids
  <2>3. SlotsOK'
    BY <1>1, <1>2 DEF SlotsOK, Moving
  <2> QED
    BY <2>1, <2>2, <2>3
<1>7. CallOK(c)'
  BY <1>1 DEF CallsOK, CallOK
<1>8. ASSUME NEW s \in Rids PROVE QueryOK(c, s)'
  <2>1. CASE s = r
    <3>1. qv'[c][r] = v
      BY <1>1 DEF TypeOK, v
    <3> QED
      BY <1>1, <1>2, <1>3, <2>1, <3>1 DEF QueryOK, Located, Satisfied, Holds, QueryValues
  <2>2. CASE s # r
    <3>1. qv'[c][s] = qv[c][s] /\ QueryOK(c, s)
      BY <1>1, <2>2 DEF TypeOK, QueriesOK
    <3>2. qv[c][s] # None => qv[c][s] \in QueryValues
      BY DEF TypeOK
    <3> QED
      BY <1>1, <1>2, <3>1, <3>2 DEF QueryOK, Located, Satisfied, Holds, QueryValues
  <2> QED
    BY <2>1, <2>2
<1> QED
  BY <1>4, <1>5, <1>6, <1>7, <1>8, Others

LEMMA ReadAndPromoteInd ==
  ASSUME IndInv, NEW c \in Clients, NEW r \in Rids, NEW q \in Queries,
         ReadAndPromote(c, r, q)
  PROVE  IndInv'
<1> USE DEF IndInv
<1>1. /\ pc[c] = "idle" /\ c \in writers[r] /\ ~oid[r].cached /\ ProbeLen > 0
      /\ loc' = [loc EXCEPT ![c] =
                   [kind |-> "promote", rid |-> oid[r].id, tuple |-> None,
                    query |-> q, node |-> None, probe |-> 0, seen |-> None,
                    old |-> None]]
      /\ pc' = [pc EXCEPT ![c] = "await"]
      /\ qv' = [qv EXCEPT ![c][r] = None]
      /\ UNCHANGED <<allocd, oid, readers, writers, slots, store, hand, out, rec>>
  BY DEF ReadAndPromote, Idle, Goto
<1>2. r \in allocd /\ oid[r].id = r
  BY <1>1 DEF LocksOK, Free, OidsOK
<1>3. loc'[c] \in Calls /\ loc'[c].rid = r /\ loc'[c].kind = "promote"
      /\ loc'[c].probe = 0 /\ loc'[c].query = q
  BY <1>1, <1>2, CacheAssumption DEF Calls, TypeOK
<1>4. TypeOK'
  BY <1>1, <1>3 DEF TypeOK, PCs
<1>5. \A d \in Clients \ {c} : Untouched(d)
  BY <1>1 DEF Untouched, TypeOK
<1>6. LocksOK' /\ OidsOK'
  BY <1>1 DEF LocksOK, Free, OidsOK
<1>7. SlotsOK'
  <2>1. \A i \in Slots, s \in Rids, d \in Clients : Moving(d, i, s) => Moving(d, i, s)'
    BY <1>1 DEF Moving, TypeOK
  <2> QED
    BY <1>1, <2>1 DEF SlotsOK
<1>8. RecordsOK'
  BY <1>1 DEF RecordsOK, TypeOK
<1>9. CallOK(c)'
  <2>1. pc'[c] = "await" /\ qv'[c][r] = None
    BY <1>1 DEF TypeOK
  <2>2. OwnOK(c)'
    BY <1>1, <1>2, <1>3, <2>1 DEF OwnOK, Probing
  <2>3. VictimOK(c)'
    BY <2>1 DEF VictimOK, Evicting
  <2> QED
    BY <2>1, <2>2, <2>3 DEF CallOK
<1>10. \A s \in Rids : QueryOK(c, s)'
  BY <1>1 DEF QueriesOK, QueryOK, Located, Satisfied, Holds, TypeOK
<1> QED
  BY <1>4, <1>5, <1>6, <1>7, <1>8, <1>9, <1>10, Others

-----------------------------------------------------------------------------
(* Inside a call                                                           *)

\* What is known of a client inside a call.
LEMMA InCall ==
  ASSUME IndInv, NEW c \in Clients, pc[c] # "idle"
  PROVE  /\ OwnOK(c) /\ VictimOK(c)
         /\ loc[c] \in Calls /\ loc[c].rid \in Rids /\ loc[c].rid \in allocd
         /\ c \in writers[loc[c].rid] /\ hand[c] \in Slots
  BY DEF IndInv, CallsOK, CallOK, OwnOK, Calls, TypeOK

\* A step of c that moves no record and no guard.
LEMMA Quiet ==
  ASSUME IndInv, NEW c \in Clients, pc[c] # "idle", pc'[c] # "idle", TypeOK',
         UNCHANGED <<allocd, oid, readers, writers, qv, rec>>,
         \A j \in Slots : slots'[j].rid = slots[j].rid,
         \A d \in Clients \ {c} : pc'[d] = pc[d] /\ loc'[d] = loc[d] /\ hand'[d] = hand[d],
         loc'[c].rid = loc[c].rid, loc'[c].kind = loc[c].kind,
         \A i \in Slots, r \in Rids : Moving(c, i, r) => Moving(c, i, r)',
         CallOK(c)'
  PROVE  IndInv'
<1> USE DEF IndInv
<1>1. \A d \in Clients \ {c} : Untouched(d)
  BY DEF Untouched
<1>2. LocksOK'
  BY DEF LocksOK, Free
<1>3. OidsOK'
  BY ZenonT(40) DEF OidsOK, TypeOK, Oids
<1>4. SlotsOK'
  <2>1. \A i \in Slots, s \in Rids, d \in Clients : Moving(d, i, s) => Moving(d, i, s)'
    BY DEF Moving
  <2> QED
    BY <2>1 DEF SlotsOK
<1>5. RecordsOK'
  BY DEF RecordsOK
<1>6. ASSUME NEW r \in Rids PROVE QueryOK(c, r)'
  <2>1. qv[c][r] # None => qv[c][r] \in QueryValues
    BY DEF TypeOK
  <2> QED
    BY <2>1 DEF QueriesOK, QueryOK, Located, Satisfied, Holds, QueryValues
<1> QED
  BY <1>1, <1>2, <1>3, <1>4, <1>5, <1>6, Others

\* The locals of a call with one of them changed.
LEMMA CallSet ==
  ASSUME NEW l \in Calls,
         NEW p \in 0..ProbeLen, NEW s \in Rids \cup {None}, NEW n \in Nodes \cup {None}
  PROVE  /\ [l EXCEPT !.probe = p] \in Calls /\ [l EXCEPT !.seen = s] \in Calls
         /\ [l EXCEPT !.node = n] \in Calls /\ [l EXCEPT !.old = n] \in Calls
  BY DEF Calls

\* A round of the probe that ends without a slot.
LEMMA NextProbeLocals ==
  ASSUME IndInv, NEW c \in Clients, pc[c] \in Probing, NextProbe(c)
  PROVE  /\ \A d \in Clients \ {c} : pc'[d] = pc[d] /\ loc'[d] = loc[d]
         /\ loc' \in [Clients -> Calls \cup {None}] /\ pc' \in [Clients -> PCs]
         /\ loc'[c] \in Calls /\ loc'[c].rid = loc[c].rid /\ loc'[c].kind = loc[c].kind
         /\ loc'[c].node = loc[c].node /\ loc'[c].tuple = loc[c].tuple
         /\ loc'[c].query = loc[c].query
         /\ pc'[c] \in {"probe", "store", "miss"}
         /\ pc'[c] = "probe" => loc'[c].probe < ProbeLen
         /\ pc'[c] = "store" => loc[c].kind = "insert"
         /\ pc'[c] = "miss" => loc[c].kind = "promote"
<1> USE DEF IndInv
<1>1. pc[c] # "idle" /\ pc[c] # "await"
  BY DEF Probing
<1>2. OwnOK(c) /\ loc[c] \in Calls
  BY <1>1, InCall
<1>3. loc[c].probe < ProbeLen /\ loc[c].probe \in 0..ProbeLen /\ loc[c].kind \in {"insert", "promote"}
  BY <1>2 DEF OwnOK, Calls
<1>4. loc[c].probe + 1 \in 0..ProbeLen
  BY <1>3, CacheAssumption
<1> DEFINE m == [loc[c] EXCEPT !.probe = @ + 1]
<1>5. m \in Calls
  BY <1>2, <1>4, CallSet
<1>6. /\ m.probe = loc[c].probe + 1 /\ m.rid = loc[c].rid /\ m.kind = loc[c].kind
      /\ m.node = loc[c].node /\ m.tuple = loc[c].tuple /\ m.query = loc[c].query
  BY <1>2 DEF Calls
<1> HIDE DEF m
<1>7. loc' = [loc EXCEPT ![c] = m]
  BY DEF NextProbe, m
<1>8. pc' = [pc EXCEPT ![c] = IF loc[c].probe + 1 < ProbeLen THEN "probe"
                              ELSE IF loc[c].kind = "insert" THEN "store" ELSE "miss"]
  BY DEF NextProbe, Goto
<1> QED
  BY <1>3, <1>5, <1>6, <1>7, <1>8 DEF TypeOK, PCs

\* Such a round is a quiet step, unless it gives up a victim.
LEMMA NextProbeOwn ==
  ASSUME IndInv, NEW c \in Clients, pc[c] \in Probing, NextProbe(c),
         UNCHANGED <<allocd, oid, qv>>, c \in writers'[loc[c].rid]
  PROVE  CallOK(c)'
<1>1. pc[c] # "idle" /\ pc[c] # "await"
      /\ pc[c] \notin {"hit", "write_back", "drop_victim", "store"}
  BY DEF Probing
<1>2. OwnOK(c)
  BY <1>1, InCall
<1>3. OwnOK(c)'
  BY <1>1, <1>2, NextProbeLocals DEF OwnOK, Probing
<1>4. VictimOK(c)'
  BY NextProbeLocals DEF VictimOK, Evicting
<1> QED
  BY <1>3, <1>4, NextProbeLocals DEF CallOK

LEMMA NextProbeQuiet ==
  ASSUME IndInv, NEW c \in Clients, pc[c] \in Probing, NextProbe(c),
         UNCHANGED <<allocd, oid, readers, writers, store, hand, qv, out, rec>>,
         slots' \in [Slots -> Nodes], \A j \in Slots : slots'[j].rid = slots[j].rid
  PROVE  IndInv'
<1>1. pc[c] # "idle" /\ pc[c] \notin {"fill", "index", "reindex", "replace"}
  BY DEF Probing
<1>2. c \in writers[loc[c].rid]
  BY <1>1, InCall
<1>3. CallOK(c)'
  BY <1>2, NextProbeOwn
<1>4. TypeOK'
  BY NextProbeLocals DEF IndInv, TypeOK
<1>5. \A i \in Slots, r \in Rids : ~Moving(c, i, r)
  BY <1>1 DEF Moving
<1> QED
  BY <1>1, <1>3, <1>4, <1>5, NextProbeLocals, Quiet

LEMMA ResumeInd ==
  ASSUME IndInv, NEW c \in Clients, Resume(c)
  PROVE  IndInv'
<1> USE DEF IndInv
<1>1. pc[c] = "await"
  BY DEF Resume
<1>2. OwnOK(c) /\ loc[c] \in Calls /\ loc[c].rid \in Rids
  BY <1>1, InCall
<1> DEFINE n == ClockNode(loc[c].rid, to_cached(store[loc[c].rid]))
           m == [loc[c] EXCEPT !.node = n]
<1>3. store[loc[c].rid] \in Tuples
  BY <1>2 DEF TypeOK
<1>4. to_cached(store[loc[c].rid]) \in CachedItems
  BY <1>3, CacheAssumption DEF to_cached, CachedItems, Tuples
<1>5. n \in Nodes /\ n.rid = loc[c].rid
  BY <1>2, <1>4 DEF ClockNode, Nodes
<1> HIDE DEF n
<1>6. /\ m \in Calls /\ m.node = n /\ m.rid = loc[c].rid /\ m.kind = loc[c].kind
      /\ m.probe = loc[c].probe /\ m.query = loc[c].query /\ m.tuple = loc[c].tuple
  BY <1>2, <1>5 DEF Calls
<1> HIDE DEF m
<1>7. /\ loc' = [loc EXCEPT ![c] = m]
      /\ UNCHANGED <<allocd, oid, readers, writers, slots, store, hand, qv, out, rec>>
  BY DEF Resume, n, m
<1>8. /\ pc'[c] \in {"probe", "miss"}
      /\ pc' \in [Clients -> PCs] /\ \A d \in Clients \ {c} : pc'[d] = pc[d]
  BY DEF Resume, Goto, TypeOK, PCs
<1>9. loc'[c] = m /\ \A d \in Clients \ {c} : loc'[d] = loc[d]
  BY <1>7 DEF TypeOK
<1>10. TypeOK'
  BY <1>6, <1>7, <1>8 DEF TypeOK
<1>11. CallOK(c)'
  <2>1. OwnOK(c)'
    BY <1>1, <1>2, <1>5, <1>6, <1>7, <1>8, <1>9 DEF OwnOK, Probing
  <2>2. VictimOK(c)'
    BY <1>8 DEF VictimOK, Evicting
  <2> QED
    BY <1>8, <2>1, <2>2 DEF CallOK
<1>12. \A i \in Slots, r \in Rids : ~Moving(c, i, r)
  BY <1>1 DEF Moving
<1> QED
  BY <1>1, <1>6, <1>7, <1>8, <1>9, <1>10, <1>11, <1>12, Quiet

\* advance_index stays inside the array.
LEMMA AdvancedInRange ==
  ASSUME TypeOK, NEW c \in Clients
  PROVE  Advanced(c) \in Slots
<1>1. hand[c] \in 0..(Cap - 1)
  BY DEF TypeOK, Slots
<1> QED
  BY <1>1, CacheAssumption DEF Advanced, Slots

LEMMA ProbeInd ==
  ASSUME IndInv, NEW c \in Clients, Probe(c)
  PROVE  IndInv'
<1> USE DEF IndInv
<1> DEFINE s == slots[Advanced(c)].rid
           m == [loc[c] EXCEPT !.seen = s]
<1>1. pc[c] = "probe"
  BY DEF Probe
<1>2. OwnOK(c) /\ loc[c] \in Calls
  BY <1>1, InCall
<1>3. Advanced(c) \in Slots
  BY AdvancedInRange
<1>4. s \in Rids \cup {None}
  BY <1>3 DEF TypeOK, Nodes
<1>5. s # None => s \in allocd
  BY <1>3, <1>4 DEF SlotsOK
<1> HIDE DEF s
<1>6. /\ m \in Calls /\ m.seen = s /\ m.rid = loc[c].rid /\ m.kind = loc[c].kind /\ m.node = loc[c].node
      /\ m.probe = loc[c].probe /\ m.query = loc[c].query /\ m.tuple = loc[c].tuple
  BY <1>2, <1>4 DEF Calls
<1> HIDE DEF m
<1>7. /\ loc' = [loc EXCEPT ![c] = m]
      /\ hand' = [hand EXCEPT ![c] = Advanced(c)]
      /\ pc' = [pc EXCEPT ![c] = IF s = None THEN "claim" ELSE "check"]
      /\ UNCHANGED <<allocd, oid, readers, writers, slots, store, qv, out, rec>>
  BY DEF Probe, Goto, s, m
<1>8. /\ loc'[c] = m /\ pc'[c] \in {"claim", "check"} /\ (pc'[c] = "check" => s # None)
      /\ \A d \in Clients \ {c} : loc'[d] = loc[d] /\ pc'[d] = pc[d] /\ hand'[d] = hand[d]
  BY <1>7 DEF TypeOK
<1>9. TypeOK'
  BY <1>3, <1>6, <1>7 DEF TypeOK, PCs
<1>10. CallOK(c)'
  <2>1. OwnOK(c)'
    BY <1>1, <1>2, <1>6, <1>7, <1>8 DEF OwnOK, Probing
  <2>2. VictimOK(c)'
    BY <1>5, <1>6, <1>7, <1>8 DEF VictimOK, Evicting
  <2> QED
    BY <1>8, <2>1, <2>2 DEF CallOK
<1>11. \A i \in Slots, r \in Rids : ~Moving(c, i, r)
  BY <1>1 DEF Moving
<1> QED
  BY <1>1, <1>6, <1>7, <1>8, <1>9, <1>10, <1>11, Quiet

LEMMA ClaimInd ==
  ASSUME IndInv, NEW c \in Clients, Claim(c)
  PROVE  IndInv'
<1> USE DEF IndInv
<1> DEFINE i == hand[c]
           r == loc[c].rid
           n == [slots[i] EXCEPT !.rid = r]
<1>1. pc[c] = "claim" /\ pc[c] \in Probing
      /\ UNCHANGED <<allocd, oid, readers, writers, store, hand, qv, out, rec>>
  BY DEF Claim, Probing
<1>2. CASE slots[i].rid # None
  BY <1>1, <1>2, NextProbeQuiet DEF Claim, TypeOK
<1>3. CASE slots[i].rid = None
  <2>1. OwnOK(c) /\ i \in Slots /\ r \in Rids /\ r \in allocd /\ c \in writers[r]
    BY <1>1, InCall
  <2>2. n \in Nodes /\ n.rid = r
    <3>1. slots[i] \in Nodes
      BY <2>1 DEF TypeOK
    <3> QED
      BY <2>1, <3>1, Zenon DEF Nodes
  <2>3. slots' = [slots EXCEPT ![i] = n] /\ pc' = [pc EXCEPT ![c] = "fill"] /\ loc' = loc
    BY <1>3 DEF Claim, Goto
  <2> HIDE DEF n
  <2>4. /\ slots'[i].rid = r /\ \A j \in Slots \ {i} : slots'[j] = slots[j]
        /\ pc'[c] = "fill" /\ \A d \in Clients \ {c} : pc'[d] = pc[d]
    BY <2>1, <2>2, <2>3 DEF TypeOK
  <2>5. TypeOK'
    BY <1>1, <2>1, <2>2, <2>3 DEF TypeOK, PCs
  <2>6. \A d \in Clients \ {c} : Untouched(d)
    BY <1>1, <1>3, <2>1, <2>3, <2>4, CacheAssumption DEF Untouched
  <2>7. LocksOK' /\ RecordsOK'
    BY <1>1, <2>3, <2>4 DEF LocksOK, Free, RecordsOK
  <2>8. OidsOK'
    <3>1. ASSUME NEW s \in Rids, oid[s].cached PROVE slots'[oid[s].id].rid = s
      <4>1. oid[s].id \in Slots /\ slots[oid[s].id].rid = s
        BY <3>1 DEF OidsOK, TypeOK, Oids
      <4>2. oid[s].id # i
        BY <1>3, <4>1, CacheAssumption
      <4> QED
        BY <2>4, <4>1, <4>2
    <3> QED
      BY <1>1, <3>1 DEF OidsOK
  <2>9. SlotsOK'
    <3>1. \A j \in Slots, s \in Rids, d \in Clients : Moving(d, j, s) => Moving(d, j, s)'
      BY <1>1, <2>3, <2>4 DEF Moving
    <3>2. ASSUME NEW j \in Slots, NEW s \in Rids, slots'[j].rid = s
          PROVE  s \in allocd /\ (oid[s] = SlotOf(j) \/ \E d \in Clients : Moving(d, j, s)')
      <4>1. CASE j = i
        <5>1. s = r
          BY <2>4, <3>2, <4>1
        <5>2. Moving(c, j, s)'
          BY <1>1, <2>3, <2>4, <4>1, <5>1 DEF Moving
        <5> QED
          BY <2>1, <5>1, <5>2
      <4>2. CASE j # i
        BY <2>4, <3>1, <3>2, <4>2 DEF SlotsOK
      <4> QED
        BY <4>1, <4>2
    <3> QED
      BY <1>1, <3>2 DEF SlotsOK
  <2>10. CallOK(c)'
    <3>1. OwnOK(c)'
      BY <1>1, <2>1, <2>3, <2>4 DEF OwnOK, Probing
    <3>2. VictimOK(c)'
      BY <2>4 DEF VictimOK, Evicting
    <3> QED
      BY <2>4, <3>1, <3>2 DEF CallOK
  <2>11. ASSUME NEW s \in Rids PROVE QueryOK(c, s)'
    <3>1. qv[c][s] # None => qv[c][s] \in QueryValues
      BY DEF TypeOK
    <3> QED
      BY <1>1, <1>3, <2>1, <2>4, <3>1, CacheAssumption
      DEF QueriesOK, QueryOK, Located, Satisfied, Holds, QueryValues
  <2> QED
    BY <2>5, <2>6, <2>7, <2>8, <2>9, <2>10, <2>11, Others
<1> QED
  BY <1>2, <1>3

LEMMA FillInd ==
  ASSUME IndInv, NEW c \in Clients, Fill(c)
  PROVE  IndInv'
<1> USE DEF IndInv
<1>1. /\ pc[c] = "fill" /\ slots' = [slots EXCEPT ![hand[c]] = loc[c].node]
      /\ pc' = [pc EXCEPT ![c] = "index"]
      /\ UNCHANGED <<allocd, oid, readers, writers, store, hand, loc, qv, out, rec>>
  BY DEF Fill, Goto
<1>2. OwnOK(c) /\ hand[c] \in Slots
  BY <1>1, InCall
<1>3. /\ loc[c].node \in Nodes /\ loc[c].node.rid = loc[c].rid /\ slots[hand[c]].rid = loc[c].rid
  BY <1>1, <1>2 DEF OwnOK
<1>4. \A j \in Slots : slots'[j].rid = slots[j].rid
  BY <1>1, <1>2, <1>3 DEF TypeOK
<1>5. pc'[c] = "index" /\ \A d \in Clients \ {c} : pc'[d] = pc[d]
  BY <1>1 DEF TypeOK
<1>6. TypeOK'
  BY <1>1, <1>2, <1>3 DEF TypeOK, PCs
<1>7. CallOK(c)'
  <2>1. OwnOK(c)'
    BY <1>1, <1>2, <1>4, <1>5 DEF OwnOK, Probing
  <2>2. VictimOK(c)'
    BY <1>5 DEF VictimOK, Evicting
  <2> QED
    BY <1>5, <2>1, <2>2 DEF CallOK
<1>8. \A i \in Slots, r \in Rids : Moving(c, i, r) => Moving(c, i, r)'
  BY <1>1, <1>5 DEF Moving
<1> QED
  BY <1>1, <1>4, <1>5, <1>6, <1>7, <1>8, Quiet

LEMMA CheckRefInd ==
  ASSUME IndInv, NEW c \in Clients, CheckRef(c)
  PROVE  IndInv'
<1> USE DEF IndInv
<1>1. /\ pc[c] = "check"
      /\ pc' = [pc EXCEPT ![c] = IF slots[hand[c]].ref THEN "clear" ELSE "lock"]
      /\ UNCHANGED <<allocd, oid, readers, writers, slots, store, hand, loc, qv, out, rec>>
  BY DEF CheckRef, Goto
<1>2. OwnOK(c) /\ VictimOK(c)
  BY <1>1, InCall
<1>3. pc'[c] \in {"clear", "lock"} /\ \A d \in Clients \ {c} : pc'[d] = pc[d]
  BY <1>1 DEF TypeOK
<1>4. TypeOK'
  BY <1>1 DEF TypeOK, PCs
<1>5. CallOK(c)'
  <2>1. OwnOK(c)'
    BY <1>1, <1>2, <1>3 DEF OwnOK, Probing
  <2>2. VictimOK(c)'
    BY <1>1, <1>2, <1>3 DEF VictimOK, Evicting
  <2> QED
    BY <1>3, <2>1, <2>2 DEF CallOK
<1>6. \A i \in Slots, r \in Rids : ~Moving(c, i, r)
  BY <1>1 DEF Moving
<1> QED
  BY <1>1, <1>3, <1>4, <1>5, <1>6, Quiet

LEMMA ClearRefInd ==
  ASSUME IndInv, NEW c \in Clients, ClearRef(c)
  PROVE  IndInv'
<1>1. /\ pc[c] \in Probing /\ NextProbe(c)
      /\ slots' = [slots EXCEPT ![hand[c]].ref = FALSE]
      /\ UNCHANGED <<allocd, oid, readers, writers, store, hand, qv, out, rec>>
  BY DEF ClearRef, Probing
<1>2. hand[c] \in Slots
  BY DEF IndInv, TypeOK
<1> DEFINE n == [slots[hand[c]] EXCEPT !.ref = FALSE]
<1>3. n \in Nodes /\ n.rid = slots[hand[c]].rid
  BY <1>2, NodeRef DEF IndInv, TypeOK
<1>4. slots' = [slots EXCEPT ![hand[c]] = n]
  BY <1>1, Zenon
<1> HIDE DEF n
<1>5. slots' \in [Slots -> Nodes] /\ \A j \in Slots : slots'[j].rid = slots[j].rid
  BY <1>2, <1>3, <1>4 DEF IndInv, TypeOK
<1> QED
  BY <1>1, <1>5, NextProbeQuiet

-----------------------------------------------------------------------------
(* Eviction                                                                *)

\* Only the holder of a record's write lock moves it.
LEMMA MoverHolds ==
  ASSUME IndInv, NEW d \in Clients, NEW i \in Slots, NEW r \in Rids, Moving(d, i, r)
  PROVE  d \in writers[r]
<1>1. pc[d] # "idle"
  BY DEF Moving
<1>2. OwnOK(d) /\ VictimOK(d)
  BY <1>1, InCall
<1> QED
  BY <1>2 DEF Moving, OwnOK, VictimOK, Evicting

LEMMA OneMover ==
  ASSUME IndInv, NEW c \in Clients, NEW d \in Clients, NEW i \in Slots, NEW r \in Rids,
         c \in writers[r], Moving(d, i, r)
  PROVE  d = c
  BY MoverHolds, OneWriter DEF IndInv, Holds

LEMMA LockVictimInd ==
  ASSUME IndInv, NEW c \in Clients, LockVictim(c)
  PROVE  IndInv'
<1> USE DEF IndInv
<1> DEFINE s == loc[c].seen
<1>1. pc[c] = "lock" /\ pc[c] \in Probing
      /\ UNCHANGED <<allocd, oid, readers, slots, store, hand, qv, out, rec>>
  BY DEF LockVictim, Probing
<1>2. CASE NextProbe(c) /\ UNCHANGED writers
  BY <1>1, <1>2, NextProbeQuiet DEF TypeOK
<1>3. CASE /\ Free(s) /\ WriteLock(c, s)
           /\ Goto(c, "validate") /\ UNCHANGED loc
  <2>1. OwnOK(c) /\ VictimOK(c) /\ loc[c].rid \in Rids /\ c \in writers[loc[c].rid]
    BY <1>1, InCall
  <2>2. s \in allocd /\ s \in Rids
    BY <1>1, <2>1 DEF VictimOK, TypeOK
  <2>3. s # loc[c].rid /\ qv[c][s] = None
    BY <1>3, <2>1, <2>2 DEF Free, QueriesOK, QueryOK, Located, Satisfied, Holds
  <2>4. writers' = [writers EXCEPT ![s] = {c}] /\ pc' = [pc EXCEPT ![c] = "validate"] /\ loc' = loc
    BY <1>3 DEF WriteLock, Goto
  <2>5. pc'[c] = "validate" /\ \A d \in Clients \ {c} : pc'[d] = pc[d]
    BY <2>4 DEF TypeOK
  <2>6. writers'[s] = {c} /\ \A r \in Rids \ {s} : writers'[r] = writers[r]
    BY <2>2, <2>4 DEF TypeOK
  <2>7. TypeOK'
    BY <1>1, <2>2, <2>4 DEF TypeOK, PCs
  <2>8. \A d \in Clients \ {c} : Untouched(d)
    BY <1>1, <1>3, <2>4, <2>5, <2>6 DEF Untouched, Free
  <2>9. LocksOK'
    BY <1>1, <1>3, <2>2, <2>6 DEF LocksOK, Free
  <2>10. OidsOK' /\ RecordsOK'
    BY <1>1, <2>4, <2>5 DEF OidsOK, RecordsOK
  <2>11. SlotsOK'
    <3>1. \A i \in Slots, r \in Rids, d \in Clients : Moving(d, i, r) => Moving(d, i, r)'
      BY <1>1, <2>4, <2>5 DEF Moving
    <3> QED
      BY <1>1, <3>1 DEF SlotsOK
  <2>12. CallOK(c)'
    <3>1. OwnOK(c)'
      BY <1>1, <2>1, <2>3, <2>4, <2>5, <2>6 DEF OwnOK, Probing
    <3>2. VictimOK(c)'
      BY <1>1, <2>2, <2>3, <2>4, <2>5, <2>6 DEF VictimOK, Evicting
    <3> QED
      BY <2>5, <3>1, <3>2 DEF CallOK
  <2>13. \A r \in Rids : QueryOK(c, r)'
    BY <1>1, <2>3, <2>6 DEF QueriesOK, QueryOK, Located, Satisfied, Holds
  <2> QED
    BY <2>7, <2>8, <2>9, <2>10, <2>11, <2>12, <2>13, Others
<1> QED
  BY <1>2, <1>3 DEF LockVictim

LEMMA ValidateInd ==
  ASSUME IndInv, NEW c \in Clients, Validate(c)
  PROVE  IndInv'
<1> USE DEF IndInv
<1> DEFINE s == loc[c].seen
<1>1. pc[c] = "validate" /\ pc[c] \in Probing
      /\ UNCHANGED <<allocd, oid, readers, slots, store, hand, qv, out, rec>>
  BY DEF Validate, Probing
<1>2. OwnOK(c) /\ VictimOK(c) /\ loc[c].rid \in Rids /\ c \in writers[loc[c].rid]
  BY <1>1, InCall
<1>3. s \in allocd /\ s \in Rids /\ s # loc[c].rid /\ c \in writers[s] /\ qv[c][s] = None
  BY <1>1, <1>2 DEF VictimOK, Evicting, TypeOK
<1>4. CASE /\ slots[hand[c]].rid = s
           /\ Goto(c, "unindex") /\ UNCHANGED <<writers, loc>>
  <2>1. pc' = [pc EXCEPT ![c] = "unindex"]
    BY <1>4 DEF Goto
  <2>2. pc'[c] = "unindex" /\ \A d \in Clients \ {c} : pc'[d] = pc[d]
    BY <2>1 DEF TypeOK
  <2>3. TypeOK'
    BY <1>1, <1>4, <2>1 DEF TypeOK, PCs
  <2>4. CallOK(c)'
    <3>1. OwnOK(c)'
      BY <1>1, <1>2, <1>4, <2>2 DEF OwnOK, Probing
    <3>2. VictimOK(c)'
      BY <1>1, <1>2, <1>4, <2>2 DEF VictimOK, Evicting
    <3> QED
      BY <2>2, <3>1, <3>2 DEF CallOK
  <2>5. \A i \in Slots, r \in Rids : ~Moving(c, i, r)
    BY <1>1 DEF Moving
  <2> QED
    BY <1>1, <1>4, <2>2, <2>3, <2>4, <2>5, Quiet
<1>5. CASE /\ slots[hand[c]].rid # s
           /\ WriteUnlock(c, s) /\ NextProbe(c)
  <2>1. writers' = [writers EXCEPT ![s] = @ \ {c}]
    BY <1>5 DEF WriteUnlock
  <2>2. writers'[s] = writers[s] \ {c} /\ \A r \in Rids \ {s} : writers'[r] = writers[r]
    BY <1>3, <2>1 DEF TypeOK
  <2>3. TypeOK'
    BY <1>1, <1>3, <1>5, <2>1, NextProbeLocals DEF TypeOK
  <2>4. \A d \in Clients \ {c} : Untouched(d)
    BY <1>1, <1>5, <2>2, NextProbeLocals DEF Untouched
  <2>5. LocksOK'
    BY <1>1, <2>2 DEF LocksOK, Free
  <2>6. OidsOK'
    BY <1>1 DEF OidsOK
  <2>7. SlotsOK'
    <3>1. \A i \in Slots, r \in Rids, d \in Clients : Moving(d, i, r) => Moving(d, i, r)'
      BY <1>1, <1>5, NextProbeLocals DEF Moving
    <3> QED
      BY <1>1, <3>1 DEF SlotsOK
  <2>8. RecordsOK'
    BY <1>1, <1>5, NextProbeLocals DEF RecordsOK
  <2>9. CallOK(c)'
    BY <1>1, <1>2, <1>3, <1>5, <2>2, NextProbeOwn
  <2>10. \A r \in Rids : QueryOK(c, r)'
    BY <1>1, <1>3, <2>2 DEF QueriesOK, QueryOK, Located, Satisfied, Holds
  <2> QED
    BY <2>3, <2>4, <2>5, <2>6, <2>7, <2>8, <2>9, <2>10, Others
<1> QED
  BY <1>4, <1>5 DEF Validate

LEMMA UnindexInd ==
  ASSUME IndInv, NEW c \in Clients, Unindex(c)
  PROVE  IndInv'
<1> USE DEF IndInv
<1> DEFINE s == loc[c].seen
<1>1. /\ pc[c] = "unindex"
      /\ UNCHANGED <<allocd, readers, writers, slots, store, hand, loc, qv, out, rec>>
  BY DEF Unindex
<1>2. /\ OwnOK(c) /\ VictimOK(c) /\ loc[c].rid \in Rids /\ c \in writers[loc[c].rid]
      /\ hand[c] \in Slots
  BY <1>1, InCall
<1>3. /\ s \in allocd /\ s \in Rids /\ s # loc[c].rid /\ c \in writers[s] /\ qv[c][s] = None
      /\ slots[hand[c]].rid = s
  BY <1>1, <1>2 DEF VictimOK, Evicting, TypeOK
<1>4. oid' = [oid EXCEPT ![s] = RowOf(s)] /\ pc' = [pc EXCEPT ![c] = "replace"]
  BY <1>3 DEF Unindex, Goto
<1>5. /\ oid'[s] = RowOf(s) /\ \A r \in Rids \ {s} : oid'[r] = oid[r]
      /\ pc'[c] = "replace" /\ \A d \in Clients \ {c} : pc'[d] = pc[d]
  BY <1>3, <1>4 DEF TypeOK
<1>6. TypeOK'
  BY <1>1, <1>3, <1>4 DEF TypeOK, PCs, Oids, RowOf
<1>7. \A d \in Clients \ {c} : Untouched(d)
  <2>1. \A d \in Clients \ {c} : ~Holds(d, s)
    BY <1>3, OneWriter
  <2> QED
    BY <1>1, <1>5, <2>1 DEF Untouched
<1>8. LocksOK'
  BY <1>1 DEF LocksOK, Free
<1>9. OidsOK'
  BY <1>1, <1>3, <1>5 DEF OidsOK, RowOf
\* c is the only one that could be moving the victim, and has not begun to.
<1>10. \A i \in Slots : slots[i].rid = s => i = hand[c]
  <2>1. \A i \in Slots, d \in Clients : ~Moving(d, i, s)
    <3>1. \A i \in Slots : ~Moving(c, i, s)
      BY <1>1 DEF Moving
    <3> QED
      BY <1>3, <3>1, OneMover
  <2>2. \A i \in Slots : slots[i].rid = s => oid[s] = SlotOf(i)
    BY <1>3, <2>1 DEF SlotsOK
  <2>3. \A i \in Slots : slots[i].rid = s => oid[s].id = i
    BY <2>2, SlotOfFields
  <2> QED
    BY <1>2, <1>3, <2>3
<1>11. SlotsOK'
  <2>1. \A i \in Slots, r \in Rids, d \in Clients : Moving(d, i, r) => Moving(d, i, r)'
    BY <1>1, <1>5 DEF Moving
  <2>2. ASSUME NEW i \in Slots, NEW r \in Rids, slots[i].rid = r
        PROVE  r \in allocd /\ (oid'[r] = SlotOf(i) \/ \E d \in Clients : Moving(d, i, r)')
    <3>1. CASE r = s
      <4>1. Moving(c, i, r)'
        BY <1>1, <1>5, <1>10, <2>2, <3>1 DEF Moving
      <4> QED
        BY <1>3, <3>1, <4>1
    <3>2. CASE r # s
      BY <1>5, <2>1, <2>2, <3>2 DEF SlotsOK
    <3> QED
      BY <3>1, <3>2
  <2> QED
    BY <1>1, <2>2 DEF SlotsOK
<1>12. RecordsOK'
  BY <1>1, <1>5 DEF RecordsOK
<1>13. CallOK(c)'
  <2>1. OwnOK(c)'
    BY <1>1, <1>2, <1>3, <1>5 DEF OwnOK, Probing
  <2>2. VictimOK(c)'
    BY <1>1, <1>2, <1>3, <1>5 DEF VictimOK, Evicting, RowOf
  <2> QED
    BY <1>5, <2>1, <2>2 DEF CallOK
<1>14. \A r \in Rids : QueryOK(c, r)'
  BY <1>1, <1>3, <1>5 DEF QueriesOK, QueryOK, Located, Satisfied, Holds
<1> QED
  BY <1>6, <1>7, <1>8, <1>9, <1>11, <1>12, <1>13, <1>14, Others

LEMMA ReplaceInd ==
  ASSUME IndInv, NEW c \in Clients, Replace(c)
  PROVE  IndInv'
<1> USE DEF IndInv
<1> DEFINE s == loc[c].seen
           r == loc[c].rid
           i == hand[c]
           m == [loc[c] EXCEPT !.old = slots[i]]
<1>1. /\ pc[c] = "replace"
      /\ slots' = [slots EXCEPT ![i] = loc[c].node]
      /\ pc' = [pc EXCEPT ![c] = "reindex"]
      /\ UNCHANGED <<allocd, oid, readers, writers, store, hand, qv, out, rec>>
  BY DEF Replace, Goto
<1>2. /\ OwnOK(c) /\ VictimOK(c) /\ loc[c] \in Calls /\ r \in Rids /\ r \in allocd
      /\ c \in writers[r] /\ i \in Slots
  BY <1>1, InCall
<1>3. /\ s \in allocd /\ s \in Rids /\ s # r /\ c \in writers[s] /\ qv[c][s] = None
      /\ slots[i].rid = s /\ ~oid[s].cached
  BY <1>1, <1>2 DEF VictimOK, Evicting, TypeOK
<1>4. loc[c].node \in Nodes /\ loc[c].node.rid = r /\ ~oid[r].cached /\ qv[c][r] = None
  BY <1>1, <1>2 DEF OwnOK
<1>5. slots[i] \in Nodes
  BY <1>2 DEF TypeOK
<1>6. /\ m \in Calls /\ m.old = slots[i] /\ m.rid = r /\ m.kind = loc[c].kind /\ m.node = loc[c].node
      /\ m.probe = loc[c].probe /\ m.query = loc[c].query /\ m.tuple = loc[c].tuple /\ m.seen = s
  BY <1>2, <1>5 DEF Calls
<1> HIDE DEF m
<1>7. loc' = [loc EXCEPT ![c] = m]
  BY DEF Replace, m
<1>8. /\ slots'[i].rid = r /\ \A j \in Slots \ {i} : slots'[j] = slots[j]
      /\ pc'[c] = "reindex" /\ loc'[c] = m
      /\ \A d \in Clients \ {c} : pc'[d] = pc[d] /\ loc'[d] = loc[d]
  BY <1>1, <1>2, <1>4, <1>7 DEF TypeOK
<1>9. TypeOK'
  BY <1>1, <1>2, <1>4, <1>6, <1>7 DEF TypeOK, PCs
<1>10. \A d \in Clients \ {c} : Untouched(d)
  <2>1. \A d \in Clients \ {c} : ~Holds(d, s)
    BY <1>3, OneWriter
  <2> QED
    BY <1>1, <1>3, <1>8, <2>1 DEF Untouched
<1>11. LocksOK'
  BY <1>1 DEF LocksOK, Free
<1>12. OidsOK'
  <2>1. ASSUME NEW x \in Rids, oid[x].cached PROVE slots'[oid[x].id].rid = x
    <3>1. oid[x].id \in Slots /\ slots[oid[x].id].rid = x
      BY <2>1 DEF OidsOK, TypeOK, Oids
    <3>2. oid[x].id # i
      BY <1>3, <2>1, <3>1
    <3> QED
      BY <1>8, <3>1, <3>2
  <2> QED
    BY <1>1, <2>1 DEF OidsOK
<1>13. SlotsOK'
  <2>1. ASSUME NEW j \in Slots, NEW x \in Rids, slots'[j].rid = x
        PROVE  x \in allocd /\ (oid[x] = SlotOf(j) \/ \E d \in Clients : Moving(d, j, x)')
    <3>1. CASE j = i
      <4>1. x = r
        BY <1>8, <2>1, <3>1
      <4>2. Moving(c, j, x)'
        BY <1>1, <1>6, <1>8, <3>1, <4>1 DEF Moving
      <4> QED
        BY <1>2, <4>1, <4>2
    <3>2. CASE j # i
      <4>1. slots[j].rid = x
        BY <1>8, <2>1, <3>2
      <4>2. \A d \in Clients : Moving(d, j, x) => Moving(d, j, x)'
        BY <1>1, <1>8, <3>2 DEF Moving
      <4> QED
        BY <4>1, <4>2 DEF SlotsOK
    <3> QED
      BY <3>1, <3>2
  <2> QED
    BY <1>1, <2>1 DEF SlotsOK
<1>14. RecordsOK'
  BY <1>1, <1>6, <1>8 DEF RecordsOK
<1>15. CallOK(c)'
  <2>1. OwnOK(c)'
    BY <1>1, <1>2, <1>4, <1>6, <1>8 DEF OwnOK, Probing
  <2>2. VictimOK(c)'
    BY <1>1, <1>3, <1>5, <1>6, <1>8 DEF VictimOK, Evicting
  <2> QED
    BY <1>8, <2>1, <2>2 DEF CallOK
<1>16. ASSUME NEW x \in Rids PROVE QueryOK(c, x)'
  <2>1. CASE qv[c][x] = None
    BY <1>1, <2>1 DEF QueryOK, Located, Satisfied
  <2>2. CASE qv[c][x] # None
    <3>1. qv[c][x] \in QueryValues /\ QueryOK(c, x) /\ x # s
      BY <1>3, <2>2 DEF TypeOK, QueriesOK
    <3>2. qv[c][x].slot # i
      BY <1>2, <1>3, <2>2, <3>1, CacheAssumption DEF QueryOK, Located, Satisfied
    <3> QED
      BY <1>1, <1>8, <3>1, <3>2 DEF QueryOK, Located, Satisfied, Holds, QueryValues
  <2> QED
    BY <2>1, <2>2
<1> QED
  BY <1>9, <1>10, <1>11, <1>12, <1>13, <1>14, <1>15, <1>16, Others

\* store_index: the slot under the hand becomes the place of the client's record.
LEMMA StoreIndexInd ==
  ASSUME IndInv, NEW c \in Clients, pc[c] \in {"index", "reindex"},
         NEW l \in {"store", "hit", "write_back"}, StoreIndex(c, l),
         l = "write_back" <=> pc[c] = "reindex",
         l = "store" => loc[c].kind = "insert", l = "hit" => loc[c].kind = "promote"
  PROVE  IndInv'
<1> USE DEF IndInv
<1> DEFINE r == loc[c].rid
           i == hand[c]
<1>1. /\ oid' = [oid EXCEPT ![r] = SlotOf(i)] /\ pc' = [pc EXCEPT ![c] = l]
      /\ UNCHANGED <<allocd, readers, writers, store, hand, loc, qv, out, rec>>
  BY DEF StoreIndex, Goto
<1>2. /\ OwnOK(c) /\ VictimOK(c) /\ loc[c] \in Calls /\ r \in Rids /\ r \in allocd
      /\ c \in writers[r] /\ i \in Slots
  BY InCall
<1>3. slots[i].rid = r /\ ~oid[r].cached /\ qv[c][r] = None
  BY <1>2 DEF OwnOK
<1>4. slots' \in [Slots -> Nodes] /\ \A j \in Slots : slots'[j].rid = slots[j].rid
  <2>1. CASE loc[c].kind = "promote"
    BY <1>2, <2>1, SetRef DEF StoreIndex
  <2>2. CASE loc[c].kind # "promote"
    BY <2>2 DEF StoreIndex, TypeOK
  <2> QED
    BY <2>1, <2>2
<1>5. /\ oid'[r] = SlotOf(i) /\ \A x \in Rids \ {r} : oid'[x] = oid[x]
      /\ pc'[c] = l /\ \A d \in Clients \ {c} : pc'[d] = pc[d]
  BY <1>1, <1>2 DEF TypeOK
<1>6. TypeOK'
  BY <1>1, <1>2, <1>4 DEF TypeOK, PCs, Oids, SlotOf
<1>7. \A d \in Clients \ {c} : Untouched(d)
  <2>1. \A d \in Clients \ {c} : ~Holds(d, r)
    BY <1>2, OneWriter
  <2> QED
    BY <1>1, <1>4, <1>5, <2>1 DEF Untouched
<1>8. LocksOK'
  BY <1>1 DEF LocksOK, Free
<1>9. OidsOK'
  <2>1. ASSUME NEW x \in Rids
        PROVE  /\ oid'[x].cached => x \in allocd /\ slots'[oid'[x].id].rid = x
               /\ ~oid'[x].cached /\ x \in allocd => oid'[x].id = x
    <3>1. CASE x = r
      BY <1>2, <1>3, <1>4, <1>5, <3>1 DEF SlotOf
    <3>2. CASE x # r
      <4>1. oid[x].cached => oid[x].id \in Slots
        BY DEF TypeOK, Oids
      <4> QED
        BY <1>4, <1>5, <3>2, <4>1 DEF OidsOK
    <3> QED
      BY <3>1, <3>2
  <2> QED
    BY <1>1, <2>1 DEF OidsOK
<1>10. SlotsOK'
  <2>1. ASSUME NEW j \in Slots, NEW x \in Rids, slots[j].rid = x
        PROVE  x \in allocd /\ (oid'[x] = SlotOf(j) \/ \E d \in Clients : Moving(d, j, x)')
    <3>1. CASE x = r
      <4>1. PICK d \in Clients : Moving(d, j, x)
        BY <1>3, <2>1, <3>1, SlotOfFields DEF SlotsOK
      <4>2. d = c
        BY <1>2, <3>1, <4>1, OneMover
      <4> QED
        BY <1>2, <1>5, <3>1, <4>1, <4>2 DEF Moving
    <3>2. CASE x # r
      <4>1. \A d \in Clients : Moving(d, j, x) => Moving(d, j, x)'
        BY <1>1, <1>5, <3>2 DEF Moving
      <4> QED
        BY <1>5, <2>1, <3>2, <4>1 DEF SlotsOK
    <3> QED
      BY <3>1, <3>2
  <2> QED
    BY <1>1, <1>4, <2>1 DEF SlotsOK
<1>11. RecordsOK'
  BY <1>1, <1>5 DEF RecordsOK
<1>12. CallOK(c)'
  <2>1. OwnOK(c)'
    BY <1>1, <1>2, <1>5 DEF OwnOK, Probing
  <2>2. l = "write_back" => loc[c].seen # r
    BY <1>2 DEF VictimOK, Evicting
  <2>3. l = "write_back" => loc[c].seen \in Rids /\ ~oid'[loc[c].seen].cached
    BY <1>2, <1>5, <2>2 DEF VictimOK, Evicting, TypeOK
  <2>4. VictimOK(c)'
    BY <1>1, <1>2, <1>5, <2>3 DEF VictimOK, Evicting
  <2> QED
    BY <1>5, <2>1, <2>4 DEF CallOK
<1>13. ASSUME NEW x \in Rids PROVE QueryOK(c, x)'
  <2>1. CASE qv[c][x] = None
    BY <1>1, <2>1 DEF QueryOK, Located, Satisfied
  <2>2. CASE qv[c][x] # None
    <3>1. qv[c][x] \in QueryValues /\ QueryOK(c, x) /\ x # r
      BY <1>3, <2>2 DEF TypeOK, QueriesOK
    <3> QED
      BY <1>1, <1>4, <1>5, <3>1 DEF QueryOK, Located, Satisfied, Holds, QueryValues
  <2> QED
    BY <2>1, <2>2
<1> QED
  BY <1>6, <1>7, <1>8, <1>9, <1>10, <1>11, <1>12, <1>13, Others

LEMMA IndexInd ==
  ASSUME IndInv, NEW c \in Clients, Index(c) \/ Reindex(c)
  PROVE  IndInv'
<1>1. CASE Index(c)
  <2>1. pc[c] = "index" /\ StoreIndex(c, Placed(c))
    BY <1>1 DEF Index
  <2>2. loc[c].kind \in {"insert", "promote"}
    BY <2>1, InCall DEF Calls
  <2>3. Placed(c) = IF loc[c].kind = "insert" THEN "store" ELSE "hit"
    BY DEF Placed
  <2> QED
    BY <2>1, <2>2, <2>3, StoreIndexInd
<1>2. CASE Reindex(c)
  BY <1>2, StoreIndexInd DEF Reindex
<1> QED
  BY <1>1, <1>2

LEMMA WriteBackInd ==
  ASSUME IndInv, NEW c \in Clients, WriteBack(c)
  PROVE  IndInv'
<1> USE DEF IndInv
<1> DEFINE o == loc[c].old
           t == write_back(o.val, store[o.rid])
<1>1. /\ pc[c] = "write_back" /\ pc' = [pc EXCEPT ![c] = "drop_victim"]
      /\ store' = [store EXCEPT ![o.rid] = t]
      /\ UNCHANGED <<allocd, oid, readers, writers, slots, hand, loc, qv, out, rec>>
  BY DEF WriteBack, Goto
<1>2. OwnOK(c) /\ VictimOK(c)
  BY <1>1, InCall
<1>3. o \in Nodes /\ o.rid = loc[c].seen /\ o.rid \in Rids
  BY <1>1, <1>2 DEF VictimOK, Evicting, TypeOK
<1>4. o.val \in CachedItems /\ store[o.rid] \in Tuples
  BY <1>3 DEF Nodes, TypeOK
<1>5. t \in Tuples
  BY <1>4, CacheAssumption DEF write_back, Tuples, CachedItems
<1> HIDE DEF t
<1>6. pc'[c] = "drop_victim" /\ \A d \in Clients \ {c} : pc'[d] = pc[d]
  BY <1>1 DEF TypeOK
<1>7. TypeOK'
  BY <1>1, <1>3, <1>5 DEF TypeOK, PCs
<1>8. CallOK(c)'
  <2>1. OwnOK(c)'
    BY <1>1, <1>2, <1>6 DEF OwnOK, Probing
  <2>2. VictimOK(c)'
    BY <1>1, <1>2, <1>6 DEF VictimOK, Evicting
  <2> QED
    BY <1>6, <2>1, <2>2 DEF CallOK
<1>9. \A i \in Slots, r \in Rids : ~Moving(c, i, r)
  BY <1>1 DEF Moving
<1> QED
  BY <1>1, <1>6, <1>7, <1>8, <1>9, Quiet

LEMMA DropVictimInd ==
  ASSUME IndInv, NEW c \in Clients, DropVictim(c)
  PROVE  IndInv'
<1> USE DEF IndInv
<1> DEFINE s == loc[c].seen
           m == [loc[c] EXCEPT !.old = None]
<1>1. /\ pc[c] = "drop_victim" /\ pc' = [pc EXCEPT ![c] = Placed(c)]
      /\ writers' = [writers EXCEPT ![s] = @ \ {c}]
      /\ UNCHANGED <<allocd, oid, readers, slots, store, hand, qv, out, rec>>
  BY DEF DropVictim, WriteUnlock, Goto
<1>2. OwnOK(c) /\ VictimOK(c) /\ loc[c] \in Calls /\ loc[c].rid \in Rids /\ c \in writers[loc[c].rid]
  BY <1>1, InCall
<1>3. s \in Rids /\ s # loc[c].rid /\ qv[c][s] = None
  BY <1>1, <1>2 DEF VictimOK, Evicting, TypeOK
<1>4. /\ m \in Calls /\ m.rid = loc[c].rid /\ m.kind = loc[c].kind /\ m.node = loc[c].node
      /\ m.probe = loc[c].probe /\ m.query = loc[c].query /\ m.tuple = loc[c].tuple
  BY <1>2 DEF Calls
<1>5. loc[c].kind \in {"insert", "promote"}
  BY <1>2 DEF Calls
<1> HIDE DEF m
<1>6. loc' = [loc EXCEPT ![c] = m]
  BY DEF DropVictim, m
<1>7. /\ pc'[c] = IF loc[c].kind = "insert" THEN "store" ELSE "hit"
      /\ loc'[c] = m /\ \A d \in Clients \ {c} : pc'[d] = pc[d] /\ loc'[d] = loc[d]
      /\ writers'[s] = writers[s] \ {c} /\ \A r \in Rids \ {s} : writers'[r] = writers[r]
  BY <1>1, <1>3, <1>6 DEF TypeOK, Placed
<1>8. TypeOK'
  BY <1>1, <1>3, <1>4, <1>6 DEF TypeOK, PCs, Placed
<1>9. \A d \in Clients \ {c} : Untouched(d)
  BY <1>1, <1>7 DEF Untouched
<1>10. LocksOK'
  BY <1>1, <1>7 DEF LocksOK, Free
<1>11. OidsOK'
  BY <1>1 DEF OidsOK
<1>12. SlotsOK'
  <2>1. \A i \in Slots, r \in Rids, d \in Clients : Moving(d, i, r) => Moving(d, i, r)'
    BY <1>1, <1>7 DEF Moving
  <2> QED
    BY <1>1, <2>1 DEF SlotsOK
<1>13. RecordsOK'
  BY <1>1, <1>4, <1>5, <1>7 DEF RecordsOK
<1>14. CallOK(c)'
  <2>1. OwnOK(c)'
    BY <1>1, <1>2, <1>3, <1>4, <1>5, <1>7 DEF OwnOK, Probing
  <2>2. VictimOK(c)'
    BY <1>7 DEF VictimOK, Evicting
  <2> QED
    BY <1>7, <2>1, <2>2 DEF CallOK
<1>15. \A r \in Rids : QueryOK(c, r)'
  BY <1>1, <1>3, <1>7 DEF QueriesOK, QueryOK, Located, Satisfied, Holds
<1> QED
  BY <1>8, <1>9, <1>10, <1>11, <1>12, <1>13, <1>14, <1>15, Others

-----------------------------------------------------------------------------
(* Calls that end, and what callers do with what they got                  *)

LEMMA StoreTupleInd ==
  ASSUME IndInv, NEW c \in Clients, StoreTuple(c)
  PROVE  IndInv'
<1> USE DEF IndInv
<1> DEFINE r == loc[c].rid
           t == loc[c].tuple
<1>1. /\ pc[c] = "store" /\ pc' = [pc EXCEPT ![c] = "idle"] /\ loc' = [loc EXCEPT ![c] = None]
      /\ store' = [store EXCEPT ![r] = t] /\ rec' = [rec EXCEPT ![r] = t]
      /\ UNCHANGED <<allocd, oid, readers, writers, slots, hand, qv, out>>
  BY DEF StoreTuple, Goto
<1>2. OwnOK(c) /\ r \in Rids
  BY <1>1, InCall
<1>3. t \in Tuples
  BY <1>1, <1>2 DEF OwnOK
<1>4. /\ pc'[c] = "idle" /\ loc'[c] = None
      /\ \A d \in Clients \ {c} : pc'[d] = pc[d] /\ loc'[d] = loc[d]
      /\ rec'[r] = t /\ \A x \in Rids \ {r} : rec'[x] = rec[x]
  BY <1>1, <1>2 DEF TypeOK
<1>5. TypeOK'
  BY <1>1, <1>2, <1>3 DEF TypeOK, PCs
<1>6. \A d \in Clients \ {c} : Untouched(d)
  BY <1>1, <1>4 DEF Untouched
<1>7. LocksOK' /\ OidsOK'
  BY <1>1 DEF LocksOK, Free, OidsOK
<1>8. SlotsOK'
  <2>1. \A i \in Slots, x \in Rids, d \in Clients : Moving(d, i, x) => Moving(d, i, x)'
    BY <1>1, <1>4 DEF Moving
  <2> QED
    BY <1>1, <2>1 DEF SlotsOK
<1>9. RecordsOK'
  <2>1. ASSUME NEW x \in allocd
        PROVE  \/ rec'[x] \in Tuples
               \/ \E d \in Clients : pc'[d] # "idle" /\ loc'[d].kind = "insert" /\ loc'[d].rid = x
    <3>1. CASE x = r
      BY <1>3, <1>4, <3>1
    <3>2. CASE x # r
      <4>1. x \in Rids
        BY DEF TypeOK
      <4> QED
        BY <1>4, <3>2, <4>1 DEF RecordsOK
    <3> QED
      BY <3>1, <3>2
  <2> QED
    BY <1>1, <2>1 DEF RecordsOK
<1>10. CallOK(c)'
  BY <1>4 DEF CallOK
<1>11. \A x \in Rids : QueryOK(c, x)'
  BY <1>1 DEF QueriesOK, QueryOK, Located, Satisfied, Holds
<1> QED
  BY <1>5, <1>6, <1>7, <1>8, <1>9, <1>10, <1>11, Others

\* read_and_promote hands out a value that points to where the record is.
LEMMA EndPromoteInd ==
  ASSUME IndInv, NEW c \in Clients, pc[c] \in {"hit", "miss"},
         NEW v \in QueryValues, EndPromote(c, v),
         v.slot # None => oid[loc[c].rid] = SlotOf(v.slot) /\ slots[v.slot].rid = loc[c].rid,
         v.slot = None => oid[loc[c].rid] = RowOf(loc[c].rid),
         v.row \in {loc[c].rid, None},
         \A f \in v.query : InCache(v, f) \/ v.row # None
  PROVE  IndInv'
<1> USE DEF IndInv
<1> DEFINE r == loc[c].rid
<1>1. /\ pc' = [pc EXCEPT ![c] = "idle"] /\ loc' = [loc EXCEPT ![c] = None]
      /\ qv' = [qv EXCEPT ![c][r] = v]
      /\ UNCHANGED <<allocd, oid, readers, writers, slots, store, hand, out, rec>>
  BY DEF EndPromote, Goto
<1>2. OwnOK(c) /\ r \in Rids /\ c \in writers[r]
  BY InCall
<1>3. loc[c].kind = "promote"
  BY <1>2 DEF OwnOK
<1>4. /\ pc'[c] = "idle" /\ loc'[c] = None
      /\ \A d \in Clients \ {c} : pc'[d] = pc[d] /\ loc'[d] = loc[d] /\ qv'[d] = qv[d]
      /\ qv'[c][r] = v /\ \A x \in Rids \ {r} : qv'[c][x] = qv[c][x]
  BY <1>1, <1>2 DEF TypeOK
<1>5. TypeOK'
  BY <1>1, <1>2 DEF TypeOK, PCs
<1>6. \A d \in Clients \ {c} : Untouched(d)
  BY <1>1, <1>4 DEF Untouched
<1>7. LocksOK' /\ OidsOK'
  BY <1>1 DEF LocksOK, Free, OidsOK
<1>8. SlotsOK'
  <2>1. \A i \in Slots, x \in Rids, d \in Clients : Moving(d, i, x) => Moving(d, i, x)'
    BY <1>1, <1>4 DEF Moving
  <2> QED
    BY <1>1, <2>1 DEF SlotsOK
<1>9. RecordsOK'
  BY <1>1, <1>3, <1>4 DEF RecordsOK
<1>10. CallOK(c)'
  BY <1>4 DEF CallOK
<1>11. ASSUME NEW x \in Rids PROVE QueryOK(c, x)'
  <2>1. CASE x = r
    BY <1>1, <1>2, <1>4, <2>1 DEF QueryOK, Located, Satisfied, Holds
  <2>2. CASE x # r
    BY <1>1, <1>4, <2>2 DEF QueriesOK, QueryOK, Located, Satisfied, Holds
  <2> QED
    BY <2>1, <2>2
<1> QED
  BY <1>5, <1>6, <1>7, <1>8, <1>9, <1>10, <1>11, Others

LEMMA PromotedInd ==
  ASSUME IndInv, NEW c \in Clients, Promoted(c)
  PROVE  IndInv'
<1> DEFINE q == loc[c].query
           r == loc[c].rid
           v == QueryValue(q, hand[c], IF matches(q) THEN None ELSE slots[hand[c]].rid)
<1>1. pc[c] = "hit" /\ EndPromote(c, v)
  BY DEF Promoted
<1>2. OwnOK(c) /\ hand[c] \in Slots /\ r \in Rids /\ hand[c] # None
  BY <1>1, InCall, CacheAssumption
<1>3. q \in Queries /\ oid[r] = SlotOf(hand[c])
  BY <1>1, <1>2 DEF OwnOK
<1>4. slots[hand[c]].rid = r
  BY <1>2, <1>3, SlotOfFields DEF IndInv, OidsOK
<1>5. /\ v \in QueryValues /\ v.slot = hand[c] /\ v.row \in {r, None}
      /\ \A f \in v.query : InCache(v, f) \/ v.row # None
  BY <1>2, <1>3, <1>4, CacheAssumption DEF QueryValue, QueryValues, InCache, matches
<1> HIDE DEF v
<1> QED
  BY <1>1, <1>2, <1>3, <1>4, <1>5, EndPromoteInd

LEMMA NotPromotedInd ==
  ASSUME IndInv, NEW c \in Clients, NotPromoted(c)
  PROVE  IndInv'
<1> DEFINE q == loc[c].query
           r == loc[c].rid
           v == QueryValue(q, None, r)
<1>1. pc[c] = "miss" /\ EndPromote(c, v)
  BY DEF NotPromoted
<1>2. OwnOK(c) /\ r \in Rids /\ r \in allocd
  BY <1>1, InCall
<1>3. q \in Queries /\ ~oid[r].cached
  BY <1>1, <1>2 DEF OwnOK
<1>4. oid[r].id = r /\ oid[r] \in Oids
  BY <1>2, <1>3 DEF IndInv, OidsOK, TypeOK
<1>5. oid[r] = RowOf(r)
  BY <1>3, <1>4 DEF Oids, RowOf
<1>6. v \in QueryValues /\ v.slot = None /\ v.row = r
  BY <1>2, <1>3 DEF QueryValue, QueryValues
<1> HIDE DEF v
<1> QED
  BY <1>1, <1>2, <1>5, <1>6, CacheAssumption, EndPromoteInd

LEMMA GetValueInd ==
  ASSUME IndInv, NEW c \in Clients, NEW r \in Rids, NEW f \in Fields, GetValue(c, r, f)
  PROVE  IndInv'
<1> USE DEF IndInv
<1> DEFINE v == qv[c][r]
           x == IF InCache(v, f) THEN slots[v.slot].val[f] ELSE store[v.row][f]
<1>1. /\ v # None /\ f \in v.query /\ out' = [out EXCEPT ![c] = x]
      /\ UNCHANGED <<allocd, oid, readers, writers, slots, store, hand, pc, loc, qv, rec>>
  BY DEF GetValue
<1>2. v \in QueryValues /\ (InCache(v, f) \/ v.row # None)
  BY <1>1 DEF TypeOK, QueriesOK, QueryOK, Satisfied
<1>3. x \in Values
  <2>1. CASE InCache(v, f)
    <3>1. v.slot \in Slots /\ f \in Cached
      BY <1>2, <2>1 DEF InCache, QueryValues
    <3>2. slots[v.slot].val \in CachedItems
      BY <3>1 DEF TypeOK, Nodes
    <3> QED
      BY <2>1, <3>1, <3>2 DEF CachedItems
  <2>2. CASE ~InCache(v, f)
    <3>1. v.row \in Rids
      BY <1>2, <2>2 DEF QueryValues
    <3> QED
      BY <2>2, <3>1 DEF TypeOK, Tuples
  <2> QED
    BY <2>1, <2>2
<1> HIDE DEF x
<1>4. TypeOK'
  BY <1>1, <1>3 DEF TypeOK
<1>5. LocksOK' /\ OidsOK' /\ RecordsOK'
  BY <1>1 DEF LocksOK, Free, OidsOK, RecordsOK
<1>6. SlotsOK'
  BY <1>1 DEF SlotsOK, Moving
<1>7. \A d \in Clients : Untouched(d)
  BY <1>1 DEF Untouched
<1>8. CallsOK' /\ QueriesOK'
  BY <1>7, UntouchedCall, UntouchedQuery DEF CallsOK, QueriesOK
<1> QED
  BY <1>4, <1>5, <1>6, <1>8

\* A record that an idle client may write has a value.
LEMMA WrittenRecord ==
  ASSUME IndInv, NEW c \in Clients, NEW r \in Rids, pc[c] = "idle", c \in writers[r]
  PROVE  rec[r] \in Tuples
<1> USE DEF IndInv
<1>1. r \in allocd
  BY DEF LocksOK, Free
<1>2. ASSUME NEW d \in Clients, pc[d] # "idle", loc[d].rid = r PROVE FALSE
  <2>1. d \in writers[r]
    BY <1>2, InCall
  <2> QED
    BY <1>2, <2>1, OneWriter DEF Holds
<1> QED
  BY <1>1, <1>2 DEF RecordsOK

LEMMA SetValueInd ==
  ASSUME IndInv, NEW c \in Clients, NEW r \in Rids, NEW f \in Fields, NEW x \in Values,
         SetValue(c, r, f, x)
  PROVE  IndInv'
<1> USE DEF IndInv
<1> DEFINE v == qv[c][r]
           t == [rec[r] EXCEPT ![f] = x]
<1>1. /\ pc[c] = "idle" /\ c \in writers[r] /\ v # None /\ f \in v.query
      /\ UNCHANGED <<allocd, oid, readers, writers, hand, pc, loc, qv, out>>
  BY DEF SetValue, Idle
<1>2. v \in QueryValues /\ (InCache(v, f) \/ v.row # None)
  BY <1>1 DEF TypeOK, QueriesOK, QueryOK, Satisfied
<1>3. rec[r] \in Tuples
  BY <1>1, WrittenRecord
<1>4. t \in Tuples
  BY <1>3 DEF Tuples
<1>5. rec' = [rec EXCEPT ![r] = t]
  BY DEF SetValue
<1> HIDE DEF t
<1>6. /\ store' \in [Rids -> Tuples] /\ slots' \in [Slots -> Nodes]
      /\ \A j \in Slots : slots'[j].rid = slots[j].rid
  <2>1. CASE InCache(v, f)
    <3>1. v.slot \in Slots /\ f \in Cached
      BY <1>2, <2>1 DEF InCache, QueryValues
    <3> DEFINE i == v.slot
               n == [slots[i] EXCEPT !.val[f] = x]
               w == [slots[i].val EXCEPT ![f] = x]
    <3>2. slots[i] \in Nodes /\ slots[i].val \in CachedItems
      BY <3>1 DEF TypeOK, Nodes
    <3>3. w \in CachedItems
      BY <3>1, <3>2 DEF CachedItems
    <3>4. n = [slots[i] EXCEPT !.val = w]
      BY Zenon
    <3> HIDE DEF w
    <3>5. [slots[i] EXCEPT !.val = w] \in Nodes /\ [slots[i] EXCEPT !.val = w].rid = slots[i].rid
      BY <3>2, <3>3, Zenon DEF Nodes
    <3>6. slots' = [slots EXCEPT ![i] = n] /\ store' = store
      BY <2>1 DEF SetValue
    <3> HIDE DEF n
    <3> QED
      BY <3>1, <3>4, <3>5, <3>6 DEF TypeOK
  <2>2. CASE ~InCache(v, f)
    <3>1. v.row \in Rids
      BY <1>2, <2>2 DEF QueryValues
    <3> DEFINE w == [store[v.row] EXCEPT ![f] = x]
    <3>2. w \in Tuples
      BY <3>1 DEF TypeOK, Tuples
    <3>3. store' = [store EXCEPT ![v.row] = w] /\ slots' = slots
      BY <2>2 DEF SetValue
    <3> HIDE DEF w
    <3> QED
      BY <3>1, <3>2, <3>3 DEF TypeOK
  <2> QED
    BY <2>1, <2>2
<1>7. TypeOK'
  BY <1>1, <1>4, <1>5, <1>6 DEF TypeOK
<1>8. LocksOK'
  BY <1>1 DEF LocksOK, Free
<1>9. OidsOK'
  BY <1>1, <1>6 DEF OidsOK, TypeOK, Oids
<1>10. SlotsOK'
  BY <1>1, <1>6 DEF SlotsOK, Moving
<1>11. RecordsOK'
  <2>1. \A s \in Rids : rec[s] \in Tuples => rec'[s] \in Tuples
    BY <1>4, <1>5 DEF TypeOK
  <2>2. allocd \subseteq Rids
    BY DEF TypeOK
  <2> QED
    BY <1>1, <2>1, <2>2 DEF RecordsOK
<1>12. \A d \in Clients : Untouched(d)
  BY <1>1, <1>6 DEF Untouched
<1>13. CallsOK' /\ QueriesOK'
  BY <1>12, UntouchedCall, UntouchedQuery DEF CallsOK, QueriesOK
<1> QED
  BY <1>7, <1>8, <1>9, <1>10, <1>11, <1>13

LEMMA ResetInd ==
  ASSUME IndInv, Reset
  PROVE  IndInv'
<1> USE DEF IndInv
<1>1. /\ \A c \in Clients : pc[c] = "idle"
      /\ \A r \in Rids : readers[r] = {} /\ writers[r] = {}
      /\ allocd' = {} /\ oid' = [r \in Rids |-> RowOf(None)] /\ rec' = [r \in Rids |-> None]
      /\ UNCHANGED <<readers, writers, store, hand, pc, loc, qv, out>>
  BY DEF Reset, Idle, Free
<1>2. slots' \in [Slots -> Nodes] /\ \A i \in Slots : slots'[i].rid = None
  <2>1. \A i \in Slots : /\ [slots[i] EXCEPT !.rid = None] \in Nodes
                         /\ [slots[i] EXCEPT !.rid = None].rid = None
    <3>1. \A i \in Slots : slots[i] \in Nodes
      BY DEF TypeOK
    <3> QED
      BY <3>1, Zenon DEF Nodes
  <2>2. slots' = [i \in Slots |-> [slots[i] EXCEPT !.rid = None]]
    BY DEF Reset
  <2> QED
    BY <2>1, <2>2, Zenon
<1>3. TypeOK'
  BY <1>1, <1>2 DEF TypeOK, Oids, RowOf
<1>4. LocksOK' /\ RecordsOK' /\ CallsOK'
  BY <1>1 DEF LocksOK, Free, RecordsOK, CallsOK, CallOK
<1>5. OidsOK'
  BY <1>1 DEF OidsOK, RowOf
<1>6. SlotsOK'
  BY <1>2, CacheAssumption DEF SlotsOK
<1>7. \A c \in Clients, r \in Rids : qv[c][r] = None
  BY <1>1 DEF QueriesOK, QueryOK, Located, Holds
<1>8. QueriesOK'
  BY <1>1, <1>7 DEF QueriesOK, QueryOK, Located, Satisfied
<1> QED
  BY <1>3, <1>4, <1>5, <1>6, <1>8

-----------------------------------------------------------------------------
LEMMA InitInd == Init => IndInv
<1> SUFFICES ASSUME Init PROVE IndInv
  OBVIOUS
<1>1. PICK t \in Tuples : /\ slots = [i \in Slots |-> ClockNode(None, to_cached(t))]
                          /\ store = [r \in Rids |-> t]
  BY DEF Init
<1>2. to_cached(t) \in CachedItems
  BY CacheAssumption DEF to_cached, CachedItems, Tuples
<1>3. ClockNode(None, to_cached(t)) \in Nodes /\ ClockNode(None, to_cached(t)).rid = None
  BY <1>2 DEF ClockNode, Nodes
<1>4. /\ allocd = {} /\ oid = [r \in Rids |-> RowOf(None)]
      /\ readers = [r \in Rids |-> {}] /\ writers = [r \in Rids |-> {}]
      /\ hand \in [Clients -> Slots] /\ pc = [c \in Clients |-> "idle"]
      /\ loc = [c \in Clients |-> None] /\ qv = [c \in Clients |-> [r \in Rids |-> None]]
      /\ rec = [r \in Rids |-> None] /\ out \in [Clients -> Values]
  BY DEF Init
<1>5. TypeOK
  BY <1>1, <1>3, <1>4 DEF TypeOK, Oids, RowOf, PCs
<1>6. LocksOK /\ RecordsOK /\ CallsOK
  BY <1>4 DEF LocksOK, Free, RecordsOK, CallsOK, CallOK
<1>7. OidsOK
  BY <1>4 DEF OidsOK, RowOf
<1>8. SlotsOK
  BY <1>1, <1>3, CacheAssumption DEF SlotsOK
<1>9. QueriesOK
  BY <1>4 DEF QueriesOK, QueryOK, Located, Satisfied
<1> QED
  BY <1>5, <1>6, <1>7, <1>8, <1>9 DEF IndInv

LEMMA StutterInd == IndInv /\ UNCHANGED vars => IndInv'
<1> SUFFICES ASSUME IndInv, UNCHANGED vars PROVE IndInv'
  OBVIOUS
<1> USE DEF vars
<1>1. TypeOK' /\ LocksOK' /\ OidsOK' /\ RecordsOK'
  BY DEF IndInv, TypeOK, LocksOK, Free, OidsOK, RecordsOK
<1>2. SlotsOK'
  BY DEF IndInv, SlotsOK, Moving
<1>3. \A d \in Clients : Untouched(d)
  BY DEF Untouched
<1>4. CallsOK' /\ QueriesOK'
  BY <1>3, UntouchedCall, UntouchedQuery DEF IndInv, CallsOK, QueriesOK
<1> QED
  BY <1>1, <1>2, <1>4 DEF IndInv

LEMMA StepInd == IndInv /\ [Next]_vars => IndInv'
<1>1. ASSUME IndInv, NEW c \in Clients, Caller(c) PROVE IndInv'
  BY <1>1, ReadLockInd, TryWriteLockInd, UpgradeLockInd, DropGuardInd, InsertInd,
     ReadInd, ReadAndPromoteInd, GetValueInd, SetValueInd DEF Caller
<1>2. ASSUME IndInv, NEW c \in Clients, Proceed(c) PROVE IndInv'
  BY <1>2, ResumeInd, ProbeInd, ClaimInd, FillInd, CheckRefInd, ClearRefInd,
     LockVictimInd, ValidateInd, UnindexInd, ReplaceInd, IndexInd, WriteBackInd,
     DropVictimInd, StoreTupleInd, PromotedInd, NotPromotedInd DEF Proceed
<1> QED
  BY <1>1, <1>2, ResetInd, StutterInd DEF Next

\* The invariant of the cache: guards exclude each other, an oid that names a
\* slot names the one that holds its record, a slot that holds a record is
\* named by its oid unless the holder of the write lock is just moving it, and
\* every call and every QueryValue still relies on facts that hold.
THEOREM CacheInvariant == Spec => []IndInv
  BY InitInd, StepInd, PTL DEF Spec

\* A QueryValue obtained from read() or read_and_promote() stays valid as long
\* as its guard is held, whatever other clients insert, promote or evict.
THEOREM QueriesNeverStale == Spec => []QueryStaysValid
<1>1. IndInv => QueryStaysValid
  BY DEF IndInv, QueriesOK, QueryOK, QueryStaysValid
<1> QED
  BY CacheInvariant, <1>1, PTL

\* get_value never panics: the fields of a query are in the slot or the row.
THEOREM QueriesSatisfied == Spec => []QueryIsSatisfied
<1>1. IndInv => QueryIsSatisfied
  BY DEF IndInv, QueriesOK, QueryOK, QueryIsSatisfied
<1> QED
  BY CacheInvariant, <1>1, PTL

\* A record that nobody is writing to is where its oid says.
THEOREM OidsAgree == Spec => []UnlockedIsIndexed
<1>1. IndInv => UnlockedIsIndexed
  <2> SUFFICES ASSUME IndInv, NEW r \in allocd, writers[r] = {}
               PROVE  /\ oid[r].cached => slots[oid[r].id].rid = r
                      /\ ~oid[r].cached => oid[r].id = r /\ \A i \in Slots : slots[i].rid # r
    BY DEF UnlockedIsIndexed
  <2>1. r \in Rids
    BY DEF IndInv, TypeOK
  <2>2. \A d \in Clients, i \in Slots : ~Moving(d, i, r)
    BY <2>1, MoverHolds
  <2>3. ~oid[r].cached => \A i \in Slots : slots[i].rid # r
    BY <2>1, <2>2, SlotOfFields DEF IndInv, SlotsOK
  <2> QED
    BY <2>1, <2>3 DEF IndInv, OidsOK
<1> QED
  BY CacheInvariant, <1>1, PTL

\* No two slots claim to hold the same record, at any moment of any eviction.
THEOREM OneSlot == Spec => []OneSlotPerRecord
<1>1. IndInv => OneSlotPerRecord
  <2> SUFFICES ASSUME IndInv, NEW i \in Slots, NEW j \in Slots,
                      slots[i].rid = slots[j].rid, slots[i].rid # None
               PROVE  i = j
    BY DEF OneSlotPerRecord
  <2> DEFINE r == slots[i].rid
  <2>1. r \in Rids
    BY DEF IndInv, TypeOK, Nodes
  \* A slot in which a record is being moved is not named by its oid.
  <2>2. \A k \in Slots, d \in Clients : Moving(d, k, r) => ~oid[r].cached
    <3>1. ASSUME NEW k \in Slots, NEW d \in Clients, Moving(d, k, r)
          PROVE  ~oid[r].cached
      <4>1. pc[d] # "idle"
        BY <3>1 DEF Moving
      <4>2. OwnOK(d) /\ VictimOK(d)
        BY <4>1, InCall
      <4> QED
        BY <3>1, <4>2 DEF Moving, OwnOK, VictimOK
    <3> QED
      BY <3>1
  <2>3. \A k \in Slots : slots[k].rid = r =>
          oid[r] = SlotOf(k) \/ \E d \in Clients : Moving(d, k, r)
    BY <2>1 DEF IndInv, SlotsOK
  <2>4. CASE oid[r].cached
    BY <2>2, <2>3, <2>4, SlotOfFields
  <2>5. CASE ~oid[r].cached
    <3>1. PICK d \in Clients : Moving(d, i, r)
      BY <2>3, <2>5, SlotOfFields
    <3>2. PICK e \in Clients : Moving(e, j, r)
      BY <2>3, <2>5, SlotOfFields
    <3>3. d = e
      BY <2>1, <3>1, <3>2, MoverHolds, OneMover
    <3> QED
      BY <3>1, <3>2, <3>3 DEF Moving
  <2> QED
    BY <2>4, <2>5
<1> QED
  BY CacheInvariant, <1>1, PTL
-----------------------------------------------------------------------------
(* No update is lost: DataInv is preserved by every step, given IndInv       *)
(* before and after it.                                                      *)

\* Record r is what its writers made it.
RecOK(r) == rec[r] # None => write_back(CachedPart(r), store[r]) = rec[r]

\* The cached fields of a record that c evicts.
Part(c) == IF pc[c] = "replace" THEN slots[hand[c]].val ELSE loc[c].old.val

\* An evictor has the write lock of its victim, so there is one of them; the
\* victim's oid names the row, and its slot is the evictor's until it is replaced.
LEMMA Evictor ==
  ASSUME IndInv, NEW r \in Rids, NEW c \in Evictors(r)
  PROVE  /\ c \in Clients /\ c \in writers[r] /\ Evictors(r) = {c} /\ pc[c] # "idle"
         /\ ~oid[r].cached
         /\ pc[c] = "replace" => hand[c] \in Slots /\ slots[hand[c]].rid = r
<1> USE DEF Evictors
<1>1. \A d \in Evictors(r) : d \in Clients /\ pc[d] # "idle" /\ d \in writers[r]
  <2> SUFFICES ASSUME NEW d \in Evictors(r)
               PROVE  d \in Clients /\ pc[d] # "idle" /\ d \in writers[r]
    OBVIOUS
  <2>1. VictimOK(d)
    BY InCall
  <2> QED
    BY <2>1 DEF VictimOK, Evicting
<1>2. Evictors(r) = {c}
  BY <1>1, OneWriter DEF IndInv, Holds
<1>3. VictimOK(c) /\ hand[c] \in Slots
  BY <1>1, InCall
<1> QED
  BY <1>1, <1>2, <1>3 DEF VictimOK

\* Where the cached fields are, without the choice.
LEMMA PartOf ==
  IndInv => \A r \in Rids :
    /\ \A c \in Evictors(r) : CachedPart(r) = Part(c)
    /\ Evictors(r) = {} =>
         CachedPart(r) = IF oid[r].cached THEN slots[oid[r].id].val ELSE to_cached(store[r])
<1> SUFFICES ASSUME IndInv, NEW r \in Rids
             PROVE  /\ \A c \in Evictors(r) : CachedPart(r) = Part(c)
                    /\ Evictors(r) = {} =>
                         CachedPart(r) = IF oid[r].cached THEN slots[oid[r].id].val
                                         ELSE to_cached(store[r])
  OBVIOUS
<1>1. ASSUME NEW c \in Evictors(r) PROVE CachedPart(r) = Part(c)
  <2>1. Evictors(r) = {c}
    BY Evictor
  <2>2. (CHOOSE d \in Evictors(r) : TRUE) = c
    BY <2>1
  <2> QED
    BY <2>1, <2>2 DEF CachedPart, Part
<1>2. Evictors(r) = {} =>
        CachedPart(r) = IF oid[r].cached THEN slots[oid[r].id].val ELSE to_cached(store[r])
  BY DEF CachedPart
<1> QED
  BY <1>1, <1>2

\* The same after a step.
LEMMA PartOfNext ==
  IndInv' => \A r \in Rids :
    /\ \A c \in Evictors(r)' : CachedPart(r)' = Part(c)'
    /\ Evictors(r)' = {} =>
         CachedPart(r)' = IF oid'[r].cached THEN slots'[oid'[r].id].val ELSE to_cached(store'[r])
<1>1. (IndInv => \A r \in Rids :
        /\ \A c \in Evictors(r) : CachedPart(r) = Part(c)
        /\ Evictors(r) = {} =>
             CachedPart(r) = IF oid[r].cached THEN slots[oid[r].id].val ELSE to_cached(store[r]))'
  BY PartOf, PTL
<1> QED
  BY <1>1 DEF to_cached

\* write_back and to_cached undo each other.
LEMMA WriteBackFacts ==
  ASSUME NEW t \in Tuples, NEW x \in CachedItems
  PROVE  /\ write_back(to_cached(t), t) = t
         /\ write_back(x, write_back(x, t)) = write_back(x, t)
         /\ to_cached(write_back(x, t)) = x
         /\ write_back(x, t) \in Tuples
<1> USE CacheAssumption
<1>1. to_cached(t) \in CachedItems
  BY DEF to_cached, CachedItems, Tuples
<1>2. write_back(to_cached(t), t) = t
  BY DEF write_back, to_cached, Tuples
<1>3. write_back(x, t) \in Tuples
  BY DEF write_back, CachedItems, Tuples
<1>4. write_back(x, write_back(x, t)) = write_back(x, t)
  BY DEF write_back, Tuples, CachedItems
<1>5. to_cached(write_back(x, t)) = x
  BY DEF write_back, to_cached, Tuples, CachedItems
<1> QED
  BY <1>2, <1>3, <1>4, <1>5

\* A step of c leaves the other clients where they are.
Elsewhere(c) ==
  \A d \in Clients \ {c} : pc'[d] = pc[d] /\ loc'[d] = loc[d] /\ hand'[d] = hand[d]

\* A step leaves record r, and whatever copy of it a slot holds, as it was.
Same(r) ==
  /\ oid'[r] = oid[r] /\ store'[r] = store[r] /\ rec'[r] = rec[r]
  /\ \A i \in Slots : slots[i].rid = r => slots'[i].val = slots[i].val

\* A step of c takes no part of r out of its hands.
SameEvictor(c, r) ==
  /\ c \in Evictors(r)' <=> c \in Evictors(r)
  /\ c \in Evictors(r) => Part(c)' = Part(c)

\* A record nobody touches stays what its writers made it.
LEMMA KeepRecord ==
  ASSUME IndInv, IndInv', NEW c \in Clients, Elsewhere(c), NEW r \in Rids,
         oid'[r] = oid[r], store'[r] = store[r], rec'[r] = rec[r], SameEvictor(c, r),
         c \in Evictors(r) \/ Same(r), RecOK(r)
  PROVE  RecOK(r)'
<1>1. CachedPart(r)' = CachedPart(r)
  <2>1. \A d \in Clients \ {c} : d \in Evictors(r)' <=> d \in Evictors(r)
    BY DEF Elsewhere, Evictors
  <2>2. CASE c \in Evictors(r)
    BY <2>2, PartOf, PartOfNext DEF SameEvictor
  <2>3. CASE c \notin Evictors(r) /\ Evictors(r) # {}
    <3>1. PICK d \in Evictors(r) : d # c
      BY <2>3
    <3>2. /\ d \in Clients
          /\ pc[d] = "replace" => hand[d] \in Slots /\ slots[hand[d]].rid = r
      BY Evictor
    <3>3. pc'[d] = pc[d] /\ loc'[d] = loc[d] /\ hand'[d] = hand[d] /\ d \in Evictors(r)'
      BY <2>1, <3>1, <3>2 DEF Elsewhere
    <3>4. Part(d)' = Part(d)
      BY <2>3, <3>2, <3>3 DEF Part, Same
    <3> QED
      BY <3>3, <3>4, PartOf, PartOfNext
  <2>4. CASE Evictors(r) = {}
    <3>1. Evictors(r)' = {}
      BY <2>1, <2>4 DEF SameEvictor, Evictors
    <3>2. Same(r)
      BY <2>4
    <3>3. oid[r].cached => oid[r].id \in Slots /\ slots[oid[r].id].rid = r
      BY DEF IndInv, OidsOK, TypeOK, Oids
    <3>4. to_cached(store'[r]) = to_cached(store[r])
      BY <3>2 DEF Same
    <3>5. CASE oid[r].cached
      BY <2>4, <3>1, <3>2, <3>3, <3>5, PartOf, PartOfNext DEF Same
    <3>6. CASE ~oid[r].cached
      BY <2>4, <3>1, <3>2, <3>4, <3>6, PartOf, PartOfNext DEF Same
    <3> QED
      BY <3>5, <3>6
  <2> QED
    BY <2>2, <2>3, <2>4
<1> QED
  BY <1>1 DEF RecOK, write_back

\* The call of another client still carries the right item.
LEMMA KeepItem ==
  ASSUME IndInv, NEW c \in Clients, Elsewhere(c), NEW d \in Clients \ {c},
         pc[d] # "idle" => Same(loc[d].rid), ItemOK(d)
  PROVE  ItemOK(d)'
<1>1. CASE pc[d] = "idle"
  BY <1>1 DEF Elsewhere, ItemOK
<1>2. CASE pc[d] # "idle"
  <2>1. OwnOK(d) /\ loc[d].rid \in Rids /\ hand[d] \in Slots
    BY <1>2, InCall
  <2>2. pc'[d] = pc[d] /\ loc'[d] = loc[d] /\ hand'[d] = hand[d]
    BY DEF Elsewhere
  <2>3. Same(loc[d].rid)
    BY <1>2
  <2>4. Source(d)' = Source(d)
    BY <2>2, <2>3 DEF Source, Same
  <2>5. to_cached(Source(d)') = to_cached(Source(d))
    BY <2>4
  <2>6. pc[d] \in {"index", "reindex"} => slots'[hand[d]].val = slots[hand[d]].val
    BY <2>1, <2>3 DEF OwnOK, Same
  <2>7. oid[loc[d].rid].cached =>
          slots'[oid[loc[d].rid].id].val = slots[oid[loc[d].rid].id].val
    BY <2>1, <2>3 DEF IndInv, OidsOK, TypeOK, Oids, Same
  <2> QED
    BY <1>2, <2>2, <2>3, <2>5, <2>6, <2>7 DEF ItemOK, Same
<1> QED
  BY <1>1, <1>2

\* A step of c keeps the data if it does so where c has a write lock.
LEMMA DataStep ==
  ASSUME IndInv, IndInv', DataInv, NEW c \in Clients, Elsewhere(c), FreshOK', ItemOK(c)',
         \A r \in Rids : \/ Same(r) /\ SameEvictor(c, r)
                         \/ RecOK(r)' /\ (c \in writers[r] \/ r \notin allocd)
  PROVE  DataInv'
<1>1. ASSUME NEW r \in Rids PROVE RecOK(r)'
  <2>1. RecOK(r)
    BY DEF DataInv, NoLostUpdate, RecOK
  <2>2. CASE Same(r) /\ SameEvictor(c, r)
    BY <2>1, <2>2, KeepRecord DEF Same
  <2> QED
    BY <2>2
<1>2. ASSUME NEW d \in Clients \ {c} PROVE ItemOK(d)'
  <2>1. pc[d] # "idle" => Same(loc[d].rid)
    <3> SUFFICES ASSUME pc[d] # "idle" PROVE Same(loc[d].rid)
      OBVIOUS
    <3>1. loc[d].rid \in Rids /\ loc[d].rid \in allocd /\ d \in writers[loc[d].rid]
      BY InCall
    <3>2. c \notin writers[loc[d].rid]
      BY <3>1, OneWriter DEF IndInv, Holds
    <3> QED
      BY <3>1, <3>2
  <2> QED
    BY <2>1, KeepItem DEF DataInv
<1>3. NoLostUpdate'
  BY <1>1 DEF NoLostUpdate, RecOK
<1> QED
  BY <1>2, <1>3 DEF DataInv

\* A step that moves no data.
LEMMA DataQuiet ==
  ASSUME IndInv, IndInv', DataInv, NEW c \in Clients, Elsewhere(c),
         UNCHANGED <<oid, store, rec>>, allocd \subseteq allocd',
         \A i \in Slots : slots'[i].val = slots[i].val,
         pc[c] \notin {"replace", "reindex", "write_back"},
         pc'[c] \notin {"replace", "reindex", "write_back"},
         ItemOK(c)'
  PROVE  DataInv'
<1>1. \A r \in Rids : Same(r) /\ SameEvictor(c, r)
  BY DEF Same, SameEvictor, Evictors
<1>2. FreshOK'
  BY DEF FreshOK, DataInv
<1> QED
  BY <1>1, <1>2, DataStep

\* A caller that only takes, drops or uses a guard.
LEMMA DataLocks ==
  ASSUME IndInv, IndInv', DataInv, NEW c \in Clients, pc[c] = "idle",
         UNCHANGED <<allocd, oid, slots, store, hand, pc, loc, rec>>
  PROVE  DataInv'
<1>1. Elsewhere(c) /\ ItemOK(c)'
  BY DEF Elsewhere, ItemOK
<1> QED
  BY <1>1, DataQuiet

\* Setting or clearing a ref bit changes no item.
LEMMA RefVal ==
  ASSUME TypeOK, NEW i \in Slots, NEW b, slots' = [slots EXCEPT ![i].ref = b]
  PROVE  \A j \in Slots : slots'[j].val = slots[j].val /\ slots'[j].rid = slots[j].rid
<1>1. slots[i] \in Nodes
  BY DEF TypeOK
<1> DEFINE n == [slots[i] EXCEPT !.ref = b]
<1>2. n.val = slots[i].val /\ n.rid = slots[i].rid
  BY <1>1, Zenon DEF Nodes
<1>3. slots' = [slots EXCEPT ![i] = n]
  BY Zenon
<1> HIDE DEF n
<1> QED
  BY <1>2, <1>3 DEF TypeOK

\* Nor does read(), which sets the ref bit at random.
LEMMA MaybeRefVal ==
  ASSUME TypeOK, NEW i \in Slots, MaybeSetRef(i)
  PROVE  \A j \in Slots : slots'[j].val = slots[j].val /\ slots'[j].rid = slots[j].rid
  BY RefVal DEF MaybeSetRef

LEMMA ReadData ==
  ASSUME IndInv, IndInv', DataInv, NEW c \in Clients, NEW r \in Rids, NEW q \in Queries,
         Read(c, r, q)
  PROVE  DataInv'
<1>1. /\ pc[c] = "idle" /\ UNCHANGED <<allocd, oid, store, hand, pc, loc, rec>>
  BY DEF Read, Idle
<1>2. \A j \in Slots : slots'[j].val = slots[j].val
  <2>1. CASE oid[r].cached
    <3>1. oid[r].id \in Slots
      BY <2>1 DEF IndInv, TypeOK, Oids
    <3> QED
      BY <2>1, <3>1, MaybeRefVal DEF Read, IndInv
  <2>2. CASE ~oid[r].cached
    BY <2>2 DEF Read
  <2> QED
    BY <2>1, <2>2
<1>3. Elsewhere(c) /\ ItemOK(c)'
  BY <1>1 DEF Elsewhere, ItemOK
<1> QED
  BY <1>1, <1>2, <1>3, DataQuiet

LEMMA InsertData ==
  ASSUME IndInv, IndInv', DataInv, NEW c \in Clients, NEW t \in Tuples, Insert(c, t)
  PROVE  DataInv'
<1>1. PICK r \in Rids \ allocd :
        /\ allocd' = allocd \cup {r}
        /\ oid' = [oid EXCEPT ![r] = RowOf(r)]
        /\ loc' = [loc EXCEPT ![c] =
                     [kind |-> "insert", rid |-> r, tuple |-> t, query |-> {},
                      node |-> ClockNode(r, to_cached(t)), probe |-> 0,
                      seen |-> None, old |-> None]]
  BY DEF Insert
<1>2. /\ pc[c] = "idle" /\ pc' = [pc EXCEPT ![c] = IF ProbeLen > 0 THEN "probe" ELSE "store"]
      /\ UNCHANGED <<slots, store, hand, rec>>
  BY DEF Insert, Idle, Goto
<1>3. /\ loc'[c].kind = "insert" /\ loc'[c].rid = r /\ loc'[c].tuple = t
      /\ loc'[c].node.val = to_cached(t) /\ pc'[c] \in {"probe", "store"}
      /\ Elsewhere(c)
  BY <1>1, <1>2 DEF IndInv, TypeOK, ClockNode, Elsewhere
<1>4. rec[r] = None /\ FreshOK'
  BY <1>1, <1>2 DEF DataInv, FreshOK
<1>5. ~oid'[r].cached
  BY <1>1 DEF RowOf, IndInv, TypeOK
<1>6. ItemOK(c)'
  BY <1>2, <1>3, <1>4, <1>5 DEF ItemOK, Source
<1>7. ASSUME NEW s \in Rids \ {r} PROVE Same(s) /\ SameEvictor(c, s)
  BY <1>1, <1>2, <1>3 DEF Same, SameEvictor, Evictors, IndInv, TypeOK
<1>8. RecOK(r)'
  BY <1>2, <1>4 DEF RecOK
<1> QED
  BY <1>3, <1>4, <1>6, <1>7, <1>8, DataStep

LEMMA ReadAndPromoteData ==
  ASSUME IndInv, IndInv', DataInv, NEW c \in Clients, NEW r \in Rids, NEW q \in Queries,
         ReadAndPromote(c, r, q)
  PROVE  DataInv'
<1>1. /\ pc[c] = "idle" /\ pc' = [pc EXCEPT ![c] = "await"]
      /\ loc' = [loc EXCEPT ![c] =
                   [kind |-> "promote", rid |-> oid[r].id, tuple |-> None,
                    query |-> q, node |-> None, probe |-> 0, seen |-> None,
                    old |-> None]]
      /\ UNCHANGED <<allocd, oid, slots, store, hand, rec>>
  BY DEF ReadAndPromote, Idle, Goto
<1>2. loc'[c].kind = "promote" /\ pc'[c] = "await" /\ Elsewhere(c)
  BY <1>1 DEF IndInv, TypeOK, Elsewhere
<1>3. ItemOK(c)'
  BY <1>2 DEF ItemOK, Carrying, Probing
<1> QED
  BY <1>1, <1>2, <1>3, DataQuiet

LEMMA ResumeData ==
  ASSUME IndInv, IndInv', DataInv, NEW c \in Clients, Resume(c)
  PROVE  DataInv'
<1> DEFINE n == ClockNode(loc[c].rid, to_cached(store[loc[c].rid]))
<1>1. /\ pc[c] = "await" /\ loc' = [loc EXCEPT ![c].node = n]
      /\ UNCHANGED <<allocd, oid, slots, store, hand, rec>>
  BY DEF Resume
<1>2. OwnOK(c) /\ loc[c] \in Calls
  BY <1>1, InCall
<1>3. n.val = to_cached(store[loc[c].rid])
  BY DEF ClockNode
<1> HIDE DEF n
<1>4. /\ loc'[c].node = n /\ loc'[c].rid = loc[c].rid /\ loc'[c].kind = "promote"
      /\ pc'[c] \in {"probe", "miss"} /\ Elsewhere(c)
  BY <1>1, <1>2 DEF Resume, Goto, IndInv, TypeOK, OwnOK, Calls, Elsewhere
<1>5. ItemOK(c)'
  BY <1>1, <1>3, <1>4 DEF ItemOK, Source
<1> QED
  BY <1>1, <1>4, <1>5, DataQuiet

\* The probe goes on with the same node.
LEMMA DataProbe ==
  ASSUME IndInv, IndInv', DataInv, NEW c \in Clients, pc[c] \in Probing,
         pc'[c] \in Probing \cup {"fill", "unindex", "store", "miss"}, Elsewhere(c),
         loc'[c].kind = loc[c].kind, loc'[c].rid = loc[c].rid,
         loc'[c].node = loc[c].node, loc'[c].tuple = loc[c].tuple,
         UNCHANGED <<allocd, oid, store, rec>>,
         \A i \in Slots : slots'[i].val = slots[i].val
  PROVE  DataInv'
<1>1. /\ pc[c] \in Carrying /\ pc[c] # "idle"
      /\ pc[c] \notin {"replace", "index", "reindex", "write_back", "drop_victim", "hit", "store"}
      /\ pc'[c] \notin {"replace", "index", "reindex", "write_back"}
  BY DEF Probing, Carrying
<1>2. ItemOK(c) /\ OwnOK(c)
  BY <1>1, InCall DEF DataInv
<1>3. ~oid[loc[c].rid].cached
  BY <1>1, <1>2 DEF OwnOK
<1>4. Source(c)' = Source(c)
  BY DEF Source
<1>5. to_cached(Source(c)') = to_cached(Source(c))
  BY <1>4
<1>6. ItemOK(c)'
  BY <1>1, <1>2, <1>3, <1>5 DEF ItemOK
<1> QED
  BY <1>1, <1>6, DataQuiet

LEMMA NextProbeData ==
  ASSUME IndInv, IndInv', DataInv, NEW c \in Clients, pc[c] \in Probing, NextProbe(c),
         UNCHANGED <<allocd, oid, store, hand, rec>>,
         \A i \in Slots : slots'[i].val = slots[i].val
  PROVE  DataInv'
<1>1. Elsewhere(c)
  BY NextProbeLocals DEF Elsewhere
<1>2. pc'[c] \in Probing \cup {"store", "miss"}
  BY NextProbeLocals DEF Probing
<1> QED
  BY <1>1, <1>2, NextProbeLocals, DataProbe

LEMMA ProbeData ==
  ASSUME IndInv, IndInv', DataInv, NEW c \in Clients, Probe(c)
  PROVE  DataInv'
<1> DEFINE s == slots[Advanced(c)].rid
<1>1. /\ pc[c] = "probe" /\ loc' = [loc EXCEPT ![c].seen = s]
      /\ hand' = [hand EXCEPT ![c] = Advanced(c)]
      /\ pc' = [pc EXCEPT ![c] = IF s = None THEN "claim" ELSE "check"]
      /\ UNCHANGED <<allocd, oid, slots, store, rec>>
  BY DEF Probe, Goto
<1>2. loc[c] \in Calls
  BY <1>1, InCall
<1> HIDE DEF s
<1>3. /\ pc[c] \in Probing /\ pc'[c] \in Probing /\ Elsewhere(c)
      /\ loc'[c].kind = loc[c].kind /\ loc'[c].rid = loc[c].rid
      /\ loc'[c].node = loc[c].node /\ loc'[c].tuple = loc[c].tuple
  BY <1>1, <1>2 DEF Probing, Elsewhere, IndInv, TypeOK, Calls
<1> QED
  BY <1>1, <1>3, DataProbe

LEMMA ClaimData ==
  ASSUME IndInv, IndInv', DataInv, NEW c \in Clients, Claim(c)
  PROVE  DataInv'
<1>1. /\ pc[c] = "claim" /\ pc[c] \in Probing
      /\ UNCHANGED <<allocd, oid, store, hand, rec>>
  BY DEF Claim, Probing
<1>2. CASE slots[hand[c]].rid # None
  BY <1>1, <1>2, NextProbeData DEF Claim
<1>3. CASE slots[hand[c]].rid = None
  <2> DEFINE n == [slots[hand[c]] EXCEPT !.rid = loc[c].rid]
  <2>1. hand[c] \in Slots /\ slots[hand[c]] \in Nodes
    BY <1>1, InCall DEF IndInv, TypeOK
  <2>2. n.val = slots[hand[c]].val
    BY <2>1, Zenon DEF Nodes
  <2>3. slots' = [slots EXCEPT ![hand[c]] = n] /\ pc' = [pc EXCEPT ![c] = "fill"] /\ loc' = loc
    BY <1>3 DEF Claim, Goto
  <2> HIDE DEF n
  <2>4. \A j \in Slots : slots'[j].val = slots[j].val
    BY <2>1, <2>2, <2>3 DEF IndInv, TypeOK
  <2>5. pc'[c] = "fill" /\ Elsewhere(c)
    BY <1>1, <2>3 DEF IndInv, TypeOK, Elsewhere
  <2> QED
    BY <1>1, <2>3, <2>4, <2>5, DataProbe
<1> QED
  BY <1>2, <1>3

LEMMA CheckRefData ==
  ASSUME IndInv, IndInv', DataInv, NEW c \in Clients, CheckRef(c)
  PROVE  DataInv'
<1>1. /\ pc[c] \in Probing /\ pc'[c] \in Probing /\ Elsewhere(c)
      /\ UNCHANGED <<allocd, oid, slots, store, loc, rec>>
  BY DEF CheckRef, Goto, Probing, Elsewhere, IndInv, TypeOK
<1> QED
  BY <1>1, DataProbe

LEMMA ClearRefData ==
  ASSUME IndInv, IndInv', DataInv, NEW c \in Clients, ClearRef(c)
  PROVE  DataInv'
<1>1. /\ pc[c] \in Probing /\ pc[c] = "clear" /\ NextProbe(c)
      /\ UNCHANGED <<allocd, oid, store, hand, rec>>
  BY DEF ClearRef, Probing
<1>2. hand[c] \in Slots /\ TypeOK
  BY DEF IndInv, TypeOK
<1>3. \A i \in Slots : slots'[i].val = slots[i].val
  BY <1>2, RefVal DEF ClearRef
<1> QED
  BY <1>1, <1>3, NextProbeData

LEMMA LockVictimData ==
  ASSUME IndInv, IndInv', DataInv, NEW c \in Clients, LockVictim(c)
  PROVE  DataInv'
<1>1. pc[c] \in Probing /\ UNCHANGED <<allocd, oid, slots, store, hand, rec>>
  BY DEF LockVictim, Probing
<1>2. CASE NextProbe(c)
  BY <1>1, <1>2, NextProbeData
<1>3. CASE Goto(c, "validate") /\ loc' = loc
  <2>1. pc'[c] \in Probing /\ Elsewhere(c)
    BY <1>1, <1>3 DEF Goto, Probing, Elsewhere, IndInv, TypeOK
  <2> QED
    BY <1>1, <1>3, <2>1, DataProbe
<1> QED
  BY <1>2, <1>3 DEF LockVictim

LEMMA ValidateData ==
  ASSUME IndInv, IndInv', DataInv, NEW c \in Clients, Validate(c)
  PROVE  DataInv'
<1>1. pc[c] \in Probing /\ UNCHANGED <<allocd, oid, slots, store, hand, rec>>
  BY DEF Validate, Probing
<1>2. CASE NextProbe(c)
  BY <1>1, <1>2, NextProbeData
<1>3. CASE Goto(c, "unindex") /\ loc' = loc
  <2>1. pc'[c] = "unindex" /\ Elsewhere(c)
    BY <1>1, <1>3 DEF Goto, Elsewhere, IndInv, TypeOK
  <2> QED
    BY <1>1, <1>3, <2>1, DataProbe
<1> QED
  BY <1>2, <1>3 DEF Validate

\* A record that c writes and does not evict is in a slot or in its row.
LEMMA OwnRecord ==
  ASSUME IndInv, IndInv', NEW c \in Clients, Elsewhere(c), NEW r \in Rids,
         c \in writers[r], c \notin Evictors(r)
  PROVE  /\ CachedPart(r) = IF oid[r].cached THEN slots[oid[r].id].val ELSE to_cached(store[r])
         /\ c \notin Evictors(r)' =>
              CachedPart(r)' = IF oid'[r].cached THEN slots'[oid'[r].id].val
                               ELSE to_cached(store'[r])
<1>1. Evictors(r) = {}
  BY Evictor, OneWriter DEF IndInv, Holds
<1>2. \A d \in Clients \ {c} : d \notin Evictors(r)'
  BY <1>1 DEF Elsewhere, Evictors
<1>3. c \notin Evictors(r)' => Evictors(r)' = {}
  BY <1>2 DEF Evictors
<1> QED
  BY <1>1, <1>3, PartOf, PartOfNext

LEMMA FillData ==
  ASSUME IndInv, IndInv', DataInv, NEW c \in Clients, Fill(c)
  PROVE  DataInv'
<1> PICK r : r = loc[c].rid
  OBVIOUS
<1>1. /\ pc[c] = "fill" /\ slots' = [slots EXCEPT ![hand[c]] = loc[c].node]
      /\ pc' = [pc EXCEPT ![c] = "index"]
      /\ UNCHANGED <<allocd, oid, store, hand, loc, rec>>
  BY DEF Fill, Goto
<1>2. /\ OwnOK(c) /\ ItemOK(c) /\ hand[c] \in Slots /\ r \in Rids /\ c \in writers[r]
  BY <1>1, InCall DEF DataInv
<1>3. slots[hand[c]].rid = r /\ ~oid[r].cached /\ loc[c].node.val = to_cached(Source(c))
  BY <1>1, <1>2 DEF OwnOK, ItemOK, Carrying
<1>4. /\ pc'[c] = "index" /\ Elsewhere(c) /\ slots'[hand[c]] = loc[c].node
      /\ \A i \in Slots \ {hand[c]} : slots'[i] = slots[i]
  BY <1>1, <1>2 DEF IndInv, TypeOK, Elsewhere
<1>5. \A s \in Rids : c \notin Evictors(s) /\ c \notin Evictors(s)'
  BY <1>1, <1>4 DEF Evictors
<1>6. \A s \in Rids \ {r} : Same(s) /\ SameEvictor(c, s)
  BY <1>1, <1>3, <1>4, <1>5 DEF Same, SameEvictor
<1>7. CachedPart(r)' = CachedPart(r)
  BY <1>1, <1>2, <1>3, <1>4, <1>5, OwnRecord
<1>8. RecOK(r)'
  BY <1>1, <1>2, <1>7 DEF RecOK, DataInv, NoLostUpdate
<1>9. Source(c)' = Source(c)
  BY <1>1 DEF Source
<1>10. to_cached(Source(c)') = to_cached(Source(c))
  BY <1>9
<1>11. ItemOK(c)'
  BY <1>1, <1>2, <1>3, <1>4, <1>10 DEF ItemOK
<1>12. FreshOK'
  BY <1>1 DEF FreshOK, DataInv
<1> QED
  BY <1>2, <1>4, <1>6, <1>8, <1>11, <1>12, DataStep

LEMMA UnindexData ==
  ASSUME IndInv, IndInv', DataInv, NEW c \in Clients, Unindex(c)
  PROVE  DataInv'
<1> PICK r, v : r = loc[c].rid /\ v = loc[c].seen
  OBVIOUS
<1>1. /\ pc[c] = "unindex" /\ oid' = [oid EXCEPT ![v] = RowOf(slots[hand[c]].rid)]
      /\ pc' = [pc EXCEPT ![c] = "replace"]
      /\ UNCHANGED <<allocd, slots, store, hand, loc, rec>>
  BY DEF Unindex, Goto
<1>2. /\ OwnOK(c) /\ VictimOK(c) /\ ItemOK(c) /\ hand[c] \in Slots /\ r \in Rids
      /\ allocd \subseteq Rids
  BY <1>1, InCall DEF DataInv, IndInv, TypeOK
<1>3. /\ v \in Rids /\ v # r /\ c \in writers[v] /\ slots[hand[c]].rid = v /\ ~oid[r].cached
  BY <1>1, <1>2 DEF OwnOK, VictimOK, Evicting
<1>4. pc'[c] = "replace" /\ Elsewhere(c) /\ \A s \in Rids \ {v} : oid'[s] = oid[s]
  BY <1>1 DEF IndInv, TypeOK, Elsewhere
<1>5. /\ \A s \in Rids : c \notin Evictors(s)
      /\ \A s \in Rids : c \in Evictors(s)' <=> s = v
  BY <1>1, <1>4 DEF Evictors
<1>6. \A s \in Rids \ {v} : Same(s) /\ SameEvictor(c, s)
  BY <1>1, <1>4, <1>5 DEF Same, SameEvictor
<1>7. oid[v] = SlotOf(hand[c])
  <2>1. \A d \in Clients : ~Moving(d, hand[c], v)
    BY <1>1, <1>2, <1>3, MoverHolds, OneWriter DEF Moving, IndInv, Holds
  <2> QED
    BY <1>2, <1>3, <2>1 DEF IndInv, SlotsOK
<1>8. CachedPart(v) = slots[hand[c]].val
  BY <1>3, <1>4, <1>5, <1>7, OwnRecord, SlotOfFields
<1>9. CachedPart(v)' = slots[hand[c]].val
  BY <1>1, <1>3, <1>4, <1>5, PartOfNext DEF Part
<1>10. RecOK(v)'
  BY <1>1, <1>3, <1>8, <1>9 DEF RecOK, DataInv, NoLostUpdate
<1>11. Source(c)' = Source(c)
  BY <1>1 DEF Source
<1>12. to_cached(Source(c)') = to_cached(Source(c))
  BY <1>11
<1>13. ItemOK(c)'
  BY <1>1, <1>2, <1>3, <1>4, <1>12 DEF ItemOK, Carrying
<1>14. FreshOK'
  BY <1>1 DEF FreshOK, DataInv
<1> QED
  BY <1>3, <1>4, <1>6, <1>10, <1>13, <1>14, DataStep

LEMMA ReplaceData ==
  ASSUME IndInv, IndInv', DataInv, NEW c \in Clients, Replace(c)
  PROVE  DataInv'
<1> PICK r, v : r = loc[c].rid /\ v = loc[c].seen
  OBVIOUS
<1> DEFINE m == [loc[c] EXCEPT !.old = slots[hand[c]]]
<1>1. /\ pc[c] = "replace" /\ loc' = [loc EXCEPT ![c] = m]
      /\ slots' = [slots EXCEPT ![hand[c]] = loc[c].node]
      /\ pc' = [pc EXCEPT ![c] = "reindex"]
      /\ UNCHANGED <<allocd, oid, store, hand, rec>>
  BY DEF Replace, Goto
<1>2. /\ OwnOK(c) /\ VictimOK(c) /\ ItemOK(c) /\ hand[c] \in Slots /\ r \in Rids
      /\ allocd \subseteq Rids /\ loc[c] \in Calls
  BY <1>1, InCall DEF DataInv, IndInv, TypeOK
<1>3. /\ v \in Rids /\ v # r /\ c \in writers[v] /\ slots[hand[c]].rid = v /\ ~oid[r].cached
      /\ loc[c].node.val = to_cached(Source(c))
  BY <1>1, <1>2 DEF OwnOK, VictimOK, Evicting, ItemOK, Carrying
<1>4. /\ m.old = slots[hand[c]] /\ m.rid = r /\ m.seen = v /\ m.kind = loc[c].kind
      /\ m.tuple = loc[c].tuple /\ m.node = loc[c].node
  BY <1>2 DEF Calls
<1> HIDE DEF m
<1>5. /\ pc'[c] = "reindex" /\ loc'[c] = m /\ Elsewhere(c)
      /\ slots'[hand[c]] = loc[c].node
      /\ \A i \in Slots \ {hand[c]} : slots'[i] = slots[i]
  BY <1>1, <1>2 DEF IndInv, TypeOK, Elsewhere
<1>6. /\ \A s \in Rids : c \in Evictors(s) <=> s = v
      /\ \A s \in Rids : c \in Evictors(s)' <=> s = v
  BY <1>1, <1>4, <1>5 DEF Evictors
<1>7. Part(c)' = Part(c)
  BY <1>1, <1>4, <1>5 DEF Part
<1>8. \A s \in Rids \ {v} : Same(s) /\ SameEvictor(c, s)
  BY <1>1, <1>3, <1>5, <1>6 DEF Same, SameEvictor
<1>9. RecOK(v)'
  <2>1. RecOK(v) /\ SameEvictor(c, v)
    BY <1>3, <1>6, <1>7 DEF RecOK, DataInv, NoLostUpdate, SameEvictor
  <2> QED
    BY <1>1, <1>3, <1>5, <1>6, <2>1, KeepRecord
<1>10. Source(c)' = Source(c)
  BY <1>1, <1>4, <1>5 DEF Source
<1>11. to_cached(Source(c)') = to_cached(Source(c))
  BY <1>10
<1>12. ItemOK(c)'
  BY <1>1, <1>2, <1>3, <1>4, <1>5, <1>11 DEF ItemOK
<1>13. FreshOK'
  BY <1>1 DEF FreshOK, DataInv
<1> QED
  BY <1>3, <1>5, <1>8, <1>9, <1>12, <1>13, DataStep

LEMMA StoreIndexData ==
  ASSUME IndInv, IndInv', DataInv, NEW c \in Clients, pc[c] \in {"index", "reindex"},
         NEW l \in {"write_back", "store", "hit"},
         pc[c] = "reindex" <=> l = "write_back", StoreIndex(c, l)
  PROVE  DataInv'
<1> PICK r : r = loc[c].rid
  OBVIOUS
<1>1. /\ oid' = [oid EXCEPT ![r] = SlotOf(hand[c])] /\ pc' = [pc EXCEPT ![c] = l]
      /\ UNCHANGED <<allocd, store, hand, loc, rec>>
  BY DEF StoreIndex, Goto
<1>2. /\ OwnOK(c) /\ VictimOK(c) /\ ItemOK(c) /\ hand[c] \in Slots /\ r \in Rids
      /\ c \in writers[r] /\ pc[c] # "idle"
  BY InCall DEF DataInv
<1>3. /\ slots[hand[c]].rid = r /\ ~oid[r].cached
      /\ slots[hand[c]].val = to_cached(Source(c))
  BY <1>2 DEF OwnOK, ItemOK
<1>4. \A j \in Slots : slots'[j].val = slots[j].val
  BY <1>2, MaybeRefVal DEF StoreIndex, IndInv
<1>5. /\ pc'[c] = l /\ Elsewhere(c) /\ oid'[r] = SlotOf(hand[c])
      /\ \A s \in Rids \ {r} : oid'[s] = oid[s]
  BY <1>1, <1>2 DEF IndInv, TypeOK, Elsewhere
<1>6. \A s \in Rids : SameEvictor(c, s)
  BY <1>1, <1>5 DEF SameEvictor, Evictors, Part
<1>7. \A s \in Rids \ {r} : Same(s)
  BY <1>1, <1>4, <1>5 DEF Same
<1>8. c \notin Evictors(r) /\ c \notin Evictors(r)'
  <2>1. pc[c] = "reindex" => loc[c].seen # r
    BY <1>2 DEF VictimOK, Evicting
  <2>2. c \notin Evictors(r)
    BY <2>1 DEF Evictors
  <2> QED
    BY <1>2, <1>6, <2>2 DEF SameEvictor
<1>9. oid'[r].cached /\ oid'[r].id = hand[c]
  BY <1>5, SlotOfFields
<1>10. RecOK(r)'
  <2>1. CASE loc[c].kind = "insert"
    BY <1>1, <1>2, <2>1 DEF ItemOK, RecOK
  <2>2. CASE loc[c].kind # "insert"
    <3>1. CachedPart(r)' = to_cached(store[r])
      BY <1>2, <1>3, <1>4, <1>5, <1>8, <1>9, <2>2, OwnRecord DEF Source
    <3>2. CachedPart(r) = to_cached(store[r])
      BY <1>2, <1>3, <1>5, <1>8, OwnRecord
    <3> QED
      BY <1>1, <1>2, <3>1, <3>2 DEF RecOK, DataInv, NoLostUpdate
  <2> QED
    BY <2>1, <2>2
<1>11. ItemOK(c)'
  <2>1. l \notin Carrying /\ l \notin {"index", "reindex"}
    BY DEF Carrying, Probing
  <2>2. loc[c].kind = "insert" => slots'[hand[c]].val = to_cached(loc[c].tuple)
    BY <1>2, <1>3, <1>4 DEF Source
  <2> QED
    BY <1>1, <1>2, <1>5, <1>9, <2>1, <2>2 DEF ItemOK
<1>12. FreshOK'
  BY <1>1 DEF FreshOK, DataInv
<1> QED
  BY <1>2, <1>5, <1>6, <1>7, <1>10, <1>11, <1>12, DataStep

LEMMA IndexData ==
  ASSUME IndInv, IndInv', DataInv, NEW c \in Clients, Index(c) \/ Reindex(c)
  PROVE  DataInv'
<1>1. CASE Index(c)
  <2>1. pc[c] = "index" /\ Placed(c) \in {"store", "hit"}
    BY <1>1 DEF Index, Placed
  <2> QED
    BY <1>1, <2>1, StoreIndexData DEF Index
<1>2. CASE Reindex(c)
  BY <1>2, StoreIndexData DEF Reindex
<1> QED
  BY <1>1, <1>2

LEMMA WriteBackData ==
  ASSUME IndInv, IndInv', DataInv, NEW c \in Clients, WriteBack(c)
  PROVE  DataInv'
<1> PICK r, v : r = loc[c].rid /\ v = loc[c].seen
  OBVIOUS
<1> DEFINE t == write_back(loc[c].old.val, store[v])
<1>1. /\ pc[c] = "write_back" /\ pc' = [pc EXCEPT ![c] = "drop_victim"]
      /\ UNCHANGED <<allocd, oid, slots, hand, loc, rec>>
  BY DEF WriteBack, Goto
<1>2. /\ OwnOK(c) /\ VictimOK(c) /\ ItemOK(c) /\ r \in Rids /\ allocd \subseteq Rids
  BY <1>1, InCall DEF DataInv, IndInv, TypeOK
<1>3. /\ v \in Rids /\ v # r /\ c \in writers[v] /\ ~oid[v].cached
      /\ loc[c].old.rid = v /\ loc[c].old.val \in CachedItems /\ store[v] \in Tuples
  BY <1>1, <1>2 DEF VictimOK, Evicting, Nodes, IndInv, TypeOK
<1>4. store' = [store EXCEPT ![v] = t]
  BY <1>3 DEF WriteBack
<1>5. t \in Tuples
  BY <1>3, WriteBackFacts
<1>6. /\ pc'[c] = "drop_victim" /\ Elsewhere(c) /\ store'[v] = t
      /\ \A s \in Rids \ {v} : store'[s] = store[s]
  BY <1>1, <1>3, <1>4 DEF IndInv, TypeOK, Elsewhere
<1>7. /\ \A s \in Rids : c \in Evictors(s) <=> s = v
      /\ \A s \in Rids : c \notin Evictors(s)'
  BY <1>1, <1>6 DEF Evictors
<1>8. \A s \in Rids \ {v} : Same(s) /\ SameEvictor(c, s)
  BY <1>1, <1>6, <1>7 DEF Same, SameEvictor
<1>9. CachedPart(v) = loc[c].old.val
  BY <1>1, <1>3, <1>7, PartOf DEF Part
<1>10. CachedPart(v)' = to_cached(t)
  <2>1. Evictors(v) = {c}
    BY <1>3, <1>7, Evictor
  <2>2. Evictors(v)' = {}
    BY <1>3, <1>6, <1>7, <2>1 DEF Evictors, Elsewhere
  <2> QED
    BY <1>1, <1>3, <1>6, <2>2, PartOfNext
<1>11. RecOK(v)'
  <2>1. write_back(to_cached(t), t) = t
    BY <1>3, <1>5, WriteBackFacts
  <2>2. rec[v] # None => t = rec[v]
    BY <1>3, <1>9 DEF DataInv, NoLostUpdate
  <2> HIDE DEF t
  <2> QED
    BY <1>1, <1>6, <1>10, <2>1, <2>2 DEF RecOK
<1>12. ItemOK(c)'
  BY <1>1, <1>2, <1>6 DEF ItemOK, Carrying, Probing
<1>13. FreshOK'
  BY <1>1 DEF FreshOK, DataInv
<1> QED
  BY <1>3, <1>6, <1>8, <1>11, <1>12, <1>13, DataStep

LEMMA DropVictimData ==
  ASSUME IndInv, IndInv', DataInv, NEW c \in Clients, DropVictim(c)
  PROVE  DataInv'
<1>1. /\ pc[c] = "drop_victim" /\ loc' = [loc EXCEPT ![c].old = None]
      /\ pc' = [pc EXCEPT ![c] = Placed(c)] /\ Placed(c) \in {"store", "hit"}
      /\ UNCHANGED <<allocd, oid, slots, store, hand, rec>>
  BY DEF DropVictim, Goto, Placed
<1>2. ItemOK(c) /\ loc[c] \in Calls
  BY <1>1, InCall DEF DataInv
<1>3. /\ loc'[c].kind = loc[c].kind /\ loc'[c].rid = loc[c].rid /\ loc'[c].tuple = loc[c].tuple
      /\ pc'[c] \in {"store", "hit"} /\ Elsewhere(c)
  BY <1>1, <1>2 DEF IndInv, TypeOK, Calls, Elsewhere
<1>4. ItemOK(c)'
  BY <1>1, <1>2, <1>3 DEF ItemOK, Carrying, Probing
<1> QED
  BY <1>1, <1>3, <1>4, DataQuiet

LEMMA StoreTupleData ==
  ASSUME IndInv, IndInv', DataInv, NEW c \in Clients, StoreTuple(c)
  PROVE  DataInv'
<1>0. PICK r, t : r = loc[c].rid /\ t = loc[c].tuple
  OBVIOUS
<1>1. /\ pc[c] = "store" /\ store' = [store EXCEPT ![r] = t] /\ rec' = [rec EXCEPT ![r] = t]
      /\ pc' = [pc EXCEPT ![c] = "idle"] /\ loc' = [loc EXCEPT ![c] = None]
      /\ UNCHANGED <<allocd, oid, slots, hand>>
  BY <1>0 DEF StoreTuple, Goto
<1>2. OwnOK(c) /\ ItemOK(c) /\ r \in Rids /\ r \in allocd /\ c \in writers[r]
  BY <1>0, <1>1, InCall DEF DataInv
<1>3. t \in Tuples /\ loc[c].kind = "insert"
  BY <1>0, <1>1, <1>2 DEF OwnOK
<1>4. /\ pc'[c] = "idle" /\ Elsewhere(c) /\ store'[r] = t /\ rec'[r] = t
      /\ \A s \in Rids \ {r} : store'[s] = store[s] /\ rec'[s] = rec[s]
  BY <1>1, <1>2 DEF IndInv, TypeOK, Elsewhere
<1>5. \A s \in Rids : c \notin Evictors(s) /\ c \notin Evictors(s)'
  BY <1>1, <1>4 DEF Evictors
<1>6. \A s \in Rids \ {r} : Same(s) /\ SameEvictor(c, s)
  BY <1>1, <1>4, <1>5 DEF Same, SameEvictor
<1>7. CachedPart(r)' = to_cached(t)
  <2>1. oid[r].cached => slots[oid[r].id].val = to_cached(t)
    BY <1>0, <1>1, <1>2, <1>3 DEF ItemOK
  <2>2. CachedPart(r)' = IF oid[r].cached THEN slots[oid[r].id].val ELSE to_cached(store'[r])
    BY <1>1, <1>2, <1>4, <1>5, OwnRecord
  <2> QED
    BY <1>4, <2>1, <2>2
<1>8. to_cached(t) \in CachedItems
  BY <1>3, CacheAssumption DEF to_cached, CachedItems, Tuples
<1>9. RecOK(r)'
  BY <1>3, <1>4, <1>7, <1>8, WriteBackFacts DEF RecOK
<1>10. ItemOK(c)' /\ FreshOK'
  BY <1>1, <1>2, <1>4 DEF ItemOK, FreshOK, DataInv
<1> QED
  BY <1>2, <1>4, <1>6, <1>9, <1>10, DataStep

LEMMA EndPromoteData ==
  ASSUME IndInv, IndInv', DataInv, NEW c \in Clients, Promoted(c) \/ NotPromoted(c)
  PROVE  DataInv'
<1>1. /\ pc[c] \in {"hit", "miss"} /\ pc' = [pc EXCEPT ![c] = "idle"]
      /\ loc' = [loc EXCEPT ![c] = None]
      /\ UNCHANGED <<allocd, oid, slots, store, hand, rec>>
  BY DEF Promoted, NotPromoted, EndPromote, Goto
<1>2. pc'[c] = "idle" /\ Elsewhere(c)
  BY <1>1 DEF IndInv, TypeOK, Elsewhere
<1>3. ItemOK(c)'
  BY <1>2 DEF ItemOK
<1> QED
  BY <1>1, <1>2, <1>3, DataQuiet

\* An oid that names a row names no slot.
LEMMA RowOfFields ==
  ASSUME NEW r
  PROVE  ~RowOf(r).cached
  BY Zenon DEF RowOf

\* The item of a row is written back without effect.
LEMMA ToCached ==
  ASSUME NEW t \in Tuples
  PROVE  to_cached(t) \in CachedItems /\ write_back(to_cached(t), t) = t
<1>1. to_cached(t) \in CachedItems
  BY CacheAssumption DEF to_cached, CachedItems, Tuples
<1> QED
  BY <1>1, WriteBackFacts

LEMMA SetValueData ==
  ASSUME IndInv, IndInv', DataInv, NEW c \in Clients, NEW r \in Rids, NEW f \in Fields,
         NEW x \in Values, SetValue(c, r, f, x)
  PROVE  DataInv'
<1> DEFINE v == qv[c][r]
<1>1. /\ pc[c] = "idle" /\ c \in writers[r] /\ v # None /\ f \in v.query
      /\ UNCHANGED <<allocd, oid, hand, pc, loc, qv>>
  BY DEF SetValue, Idle
<1>2. /\ v \in QueryValues /\ Located(c, r) /\ (InCache(v, f) \/ v.row # None)
  BY <1>1 DEF IndInv, TypeOK, QueriesOK, QueryOK, Satisfied
<1>3. /\ v.slot # None => v.slot \in Slots /\ oid[r] = SlotOf(v.slot) /\ slots[v.slot].rid = r
      /\ v.slot = None => oid[r] = RowOf(r)
      /\ v.row \in {r, None}
  BY <1>1, <1>2 DEF Located, QueryValues
<1>4. rec[r] \in Tuples /\ store[r] \in Tuples
  BY <1>1, WrittenRecord DEF IndInv, TypeOK
<1>5. /\ rec'[r] = [rec[r] EXCEPT ![f] = x] /\ \A s \in Rids \ {r} : rec'[s] = rec[s]
  BY DEF SetValue, IndInv, TypeOK
<1>6. /\ Elsewhere(c) /\ \A s \in Rids : c \notin Evictors(s) /\ c \notin Evictors(s)'
  BY <1>1 DEF Elsewhere, Evictors
<1>7. /\ CachedPart(r) = IF oid[r].cached THEN slots[oid[r].id].val ELSE to_cached(store[r])
      /\ CachedPart(r)' = IF oid[r].cached THEN slots'[oid[r].id].val ELSE to_cached(store'[r])
  BY <1>1, <1>6, OwnRecord
<1>8. write_back(CachedPart(r), store[r]) = rec[r]
  <2>1. rec[r] # None
    BY <1>4, CacheAssumption
  <2> QED
    BY <2>1 DEF DataInv, NoLostUpdate
<1>9. ItemOK(c)' /\ FreshOK'
  <2>1. r \in allocd
    BY <1>1 DEF IndInv, LocksOK, Free
  <2> QED
    BY <1>1, <1>5, <2>1 DEF ItemOK, FreshOK, DataInv
<1>10. (\A s \in Rids \ {r} : Same(s)) /\ RecOK(r)'
  <2>1. CASE InCache(v, f)
    <3> PICK i : i = v.slot
      OBVIOUS
    <3>1. i \in Slots /\ oid[r] = SlotOf(i) /\ slots[i].rid = r /\ f \in Cached
      BY <1>3, <2>1 DEF InCache
    <3> DEFINE n == [slots[i] EXCEPT !.val[f] = x]
               w == [slots[i].val EXCEPT ![f] = x]
    <3>2. slots[i] \in Nodes /\ slots[i].val \in CachedItems
      BY <3>1 DEF IndInv, TypeOK, Nodes
    <3>3. n = [slots[i] EXCEPT !.val = w]
      BY Zenon
    <3>4. write_back(w, store[r]) = [write_back(slots[i].val, store[r]) EXCEPT ![f] = x]
      BY <1>4, <3>1, <3>2, CacheAssumption DEF write_back, Tuples, CachedItems
    <3> HIDE DEF w
    <3>5. [slots[i] EXCEPT !.val = w].val = w
      BY <3>2, Zenon DEF Nodes
    <3>6. slots' = [slots EXCEPT ![i] = n] /\ store' = store
      <4>1. slots' = [slots EXCEPT ![v.slot].val[f] = x] /\ store' = store
        BY <2>1 DEF SetValue
      <4> QED
        BY <4>1
    <3> HIDE DEF n
    <3>7. slots'[i].val = w /\ \A j \in Slots \ {i} : slots'[j] = slots[j]
      BY <3>1, <3>3, <3>5, <3>6 DEF IndInv, TypeOK
    <3>8. \A s \in Rids \ {r} : Same(s)
      BY <1>1, <1>5, <3>1, <3>6, <3>7 DEF Same
    <3>9. oid[r].cached /\ oid[r].id = i
      BY <3>1, SlotOfFields
    <3>10. CachedPart(r)' = w /\ CachedPart(r) = slots[i].val
      BY <1>7, <3>7, <3>9
    <3> QED
      BY <1>5, <1>8, <3>4, <3>6, <3>8, <3>10 DEF RecOK
  <2>2. CASE ~InCache(v, f)
    <3> DEFINE w == [store[r] EXCEPT ![f] = x]
    <3>1. v.row = r /\ (f \notin Cached \/ v.slot = None)
      BY <1>2, <1>3, <2>2 DEF InCache
    <3>2. store' = [store EXCEPT ![r] = w] /\ slots' = slots
      <4>1. store' = [store EXCEPT ![v.row][f] = x] /\ slots' = slots
        BY <2>2 DEF SetValue
      <4> QED
        BY <3>1, <4>1
    <3>3. /\ w \in Tuples
          /\ \A y \in CachedItems : f \notin Cached =>
               write_back(y, w) = [write_back(y, store[r]) EXCEPT ![f] = x]
      BY <1>4, CacheAssumption DEF write_back, Tuples, CachedItems
    <3>4. write_back(to_cached(store[r]), store[r]) = store[r]
      BY <1>4, ToCached
    <3>5. write_back(to_cached(w), w) = w
      BY <3>3, ToCached
    <3>6. w = [store[r] EXCEPT ![f] = x]
      OBVIOUS
    <3> HIDE DEF w
    <3>7. store'[r] = w /\ \A s \in Rids \ {r} : store'[s] = store[s]
      BY <3>2 DEF IndInv, TypeOK
    <3>8. \A s \in Rids \ {r} : Same(s)
      BY <1>1, <1>5, <3>2, <3>7 DEF Same
    <3>9. CASE oid[r].cached
      <4>1. oid[r].id \in Slots /\ f \notin Cached
        <5>1. v.slot # None
          BY <1>3, <3>9, RowOfFields
        <5> QED
          BY <1>3, <3>1, <5>1, SlotOfFields
      <4>2. slots[oid[r].id].val \in CachedItems
        BY <4>1 DEF IndInv, TypeOK, Nodes
      <4>3. CachedPart(r)' = CachedPart(r) /\ CachedPart(r) \in CachedItems
        BY <1>7, <3>2, <3>9, <4>2
      <4>4. write_back(CachedPart(r), w) = [rec[r] EXCEPT ![f] = x]
        BY <1>8, <3>3, <4>1, <4>3
      <4> QED
        BY <1>5, <3>7, <3>8, <4>3, <4>4 DEF RecOK
    <3>10. CASE ~oid[r].cached
      <4>1. CachedPart(r)' = to_cached(w) /\ CachedPart(r) = to_cached(store[r])
        BY <1>7, <3>7, <3>10
      <4>2. rec[r] = store[r]
        BY <1>8, <3>4, <4>1
      <4> QED
        BY <1>5, <3>5, <3>6, <3>7, <3>8, <4>1, <4>2 DEF RecOK
    <3> QED
      BY <3>9, <3>10
  <2> QED
    BY <2>1, <2>2
<1>11. \A s \in Rids \ {r} : SameEvictor(c, s)
  BY <1>6 DEF SameEvictor
<1> QED
  BY <1>1, <1>6, <1>9, <1>10, <1>11, DataStep

LEMMA ResetData ==
  ASSUME IndInv, IndInv', DataInv, Reset
  PROVE  DataInv'
<1>1. /\ \A c \in Clients : pc'[c] = "idle"
      /\ rec' = [r \in Rids |-> None]
  BY DEF Reset, Idle
<1>2. FreshOK' /\ NoLostUpdate'
  BY <1>1 DEF FreshOK, NoLostUpdate
<1>3. \A c \in Clients : ItemOK(c)'
  BY <1>1 DEF ItemOK
<1> QED
  BY <1>2, <1>3 DEF DataInv

LEMMA InitData == Init => DataInv
<1> SUFFICES ASSUME Init PROVE DataInv
  OBVIOUS
<1>1. FreshOK /\ NoLostUpdate
  BY DEF Init, FreshOK, NoLostUpdate
<1>2. \A c \in Clients : ItemOK(c)
  BY DEF Init, ItemOK
<1> QED
  BY <1>1, <1>2 DEF DataInv

LEMMA StutterData ==
  ASSUME DataInv, UNCHANGED vars
  PROVE  DataInv'
<1> USE DEF vars
<1>1. FreshOK'
  BY DEF DataInv, FreshOK
<1>2. \A r \in Rids : CachedPart(r)' = CachedPart(r)
  BY DEF CachedPart, Evictors, to_cached
<1>3. NoLostUpdate'
  BY <1>2 DEF DataInv, NoLostUpdate, write_back
<1>4. \A c \in Clients : ItemOK(c)'
  BY DEF DataInv, ItemOK, Source, to_cached
<1> QED
  BY <1>1, <1>3, <1>4 DEF DataInv

LEMMA StepData == IndInv /\ DataInv /\ [Next]_vars => DataInv'
<1>1. ASSUME IndInv, IndInv', DataInv, NEW c \in Clients, Caller(c) PROVE DataInv'
  <2>1. ASSUME NEW r \in Rids, \/ ReadLock(c, r) \/ TryWriteLock(c, r)
                               \/ UpgradeLock(c, r) \/ DropGuard(c, r)
        PROVE  DataInv'
    BY <1>1, <2>1, DataLocks
       DEF ReadLock, TryWriteLock, UpgradeLock, DropGuard, Idle
  <2>2. ASSUME NEW r \in Rids, NEW f \in Fields, GetValue(c, r, f) PROVE DataInv'
    BY <1>1, <2>2, DataLocks DEF GetValue, Idle
  <2> QED
    BY <1>1, <2>1, <2>2, ReadData, ReadAndPromoteData, InsertData, SetValueData DEF Caller
<1>2. ASSUME IndInv, IndInv', DataInv, NEW c \in Clients, Proceed(c) PROVE DataInv'
  BY <1>2, ResumeData, ProbeData, ClaimData, FillData, CheckRefData, ClearRefData,
     LockVictimData, ValidateData, UnindexData, ReplaceData, IndexData, WriteBackData,
     DropVictimData, StoreTupleData, EndPromoteData DEF Proceed
<1> QED
  BY <1>1, <1>2, StepInd, ResetData, StutterData DEF Next

\* The data invariant of the cache: no update is lost, and a call moves into
\* its slot what it inserts or what it read from the row.
THEOREM DataInvariant == Spec => []DataInv
  BY CacheInvariant, InitInd, InitData, StepInd, StepData, PTL DEF Spec

\* No update is lost and none is invented, whatever is inserted, promoted,
\* evicted and written back at the same time: a record that exists is, field
\* by field, what its writers made it.
THEOREM NothingLost == Spec => []NoLostUpdate
<1>1. DataInv => NoLostUpdate
  BY DEF DataInv
<1> QED
  BY DataInvariant, <1>1, PTL

\* A guard taken or dropped by the caller or by an eviction.
LEMMA LockSteps ==
  ASSUME IndInv, NEW c \in Clients, NEW r \in Rids,
         \/ ReadLock(c, r) \/ TryWriteLock(c, r) \/ UpgradeLock(c, r) \/ DropGuard(c, r)
  PROVE  Records!Next
<1> USE DEF Records!Next
<1>1. CASE ReadLock(c, r)
  <2>1. Records!LockRead(c, r)
    BY <1>1 DEF ReadLock, Records!LockRead
  <2> QED
    BY <2>1
<1>2. CASE TryWriteLock(c, r)
  <2>1. Records!LockWrite(c, r)
    BY <1>2 DEF TryWriteLock, Records!LockWrite, Free, WriteLock
  <2> QED
    BY <2>1
<1>3. CASE UpgradeLock(c, r)
  <2>1. Records!Upgrade(c, r)
    BY <1>3 DEF UpgradeLock, Records!Upgrade, WriteLock, IndInv, LocksOK
  <2> QED
    BY <2>1
<1>4. CASE DropGuard(c, r)
  <2>1. Records!Unlock(c, r)
    BY <1>4 DEF DropGuard, Records!Unlock, WriteUnlock, Holds
  <2> QED
    BY <2>1
<1> QED
  BY <1>1, <1>2, <1>3, <1>4

\* insert, and the guard an eviction takes on its victim.
LEMMA WriteLockStep ==
  ASSUME IndInv, NEW c \in Clients, NEW r \in Rids, Free(r), WriteLock(c, r),
         UNCHANGED <<rec, readers, out>>
  PROVE  Records!Next
<1>1. Records!LockWrite(c, r)
  BY DEF Records!LockWrite, Free, WriteLock
<1> QED
  BY <1>1 DEF Records!Next

\* An eviction gives up its guard, before or after it moved the victim.
LEMMA WriteUnlockStep ==
  ASSUME IndInv, NEW c \in Clients, NEW r \in Rids, c \in writers[r], WriteUnlock(c, r),
         UNCHANGED <<rec, readers, out>>
  PROVE  Records!Next
<1>1. readers' = [readers EXCEPT ![r] = @ \ {c}]
  BY DEF IndInv, LocksOK, TypeOK
<1>2. Records!Unlock(c, r)
  BY <1>1 DEF Records!Unlock, WriteUnlock
<1> QED
  BY <1>2 DEF Records!Next

LEMMA InsertStep ==
  ASSUME IndInv, NEW c \in Clients, NEW t \in Tuples, Insert(c, t)
  PROVE  Records!Next
<1>1. PICK r \in Rids \ allocd : WriteLock(c, r)
  BY DEF Insert
<1>2. Free(r)
  BY DEF IndInv, LocksOK
<1>3. UNCHANGED <<rec, readers, out>>
  BY DEF Insert
<1> QED
  BY <1>1, <1>2, <1>3, WriteLockStep

LEMMA VictimSteps ==
  ASSUME IndInv, NEW c \in Clients, LockVictim(c) \/ Validate(c) \/ DropVictim(c)
  PROVE  Records!Next \/ UNCHANGED <<rec, readers, writers, out>>
<1>1. UNCHANGED <<rec, readers, out>>
  BY DEF LockVictim, Validate, DropVictim
<1>2. VictimOK(c) /\ allocd \subseteq Rids
  BY InCall DEF LockVictim, Validate, DropVictim, IndInv, TypeOK
<1>3. CASE LockVictim(c)
  <2>1. loc[c].seen \in Rids
    BY <1>2, <1>3 DEF LockVictim, VictimOK
  <2> QED
    BY <1>1, <1>3, <2>1, WriteLockStep DEF LockVictim
<1>4. CASE Validate(c) \/ DropVictim(c)
  <2>1. loc[c].seen \in Rids /\ c \in writers[loc[c].seen]
    BY <1>2, <1>4 DEF Validate, DropVictim, VictimOK, Evicting
  <2> QED
    BY <1>1, <1>4, <2>1, WriteUnlockStep DEF Validate, DropVictim
<1> QED
  BY <1>3, <1>4

LEMMA StoreTupleStep ==
  ASSUME IndInv, DataInv, NEW c \in Clients, StoreTuple(c)
  PROVE  Records!Next
<1> DEFINE r == loc[c].rid
           t == loc[c].tuple
<1>1. /\ pc[c] = "store" /\ rec' = [rec EXCEPT ![r] = t]
      /\ UNCHANGED <<readers, writers, out>>
  BY DEF StoreTuple
<1>2. /\ OwnOK(c) /\ ItemOK(c) /\ r \in Rids /\ c \in writers[r]
  BY <1>1, InCall DEF DataInv
<1>3. t \in Tuples /\ rec[r] = None
  BY <1>1, <1>2 DEF OwnOK, ItemOK
<1>4. writers[r] = {c}
  BY <1>2 DEF IndInv, LocksOK
<1>5. Records!Create(c, r)
  BY <1>1, <1>3, <1>4 DEF Records!Create, Records!Tuples, Tuples
<1> QED
  BY <1>2, <1>5 DEF Records!Next

\* The record under a guard of an idle client has a value.
LEMMA GuardedRecord ==
  ASSUME IndInv, NEW c \in Clients, NEW r \in Rids, pc[c] = "idle", Holds(c, r)
  PROVE  rec[r] \in Tuples /\ rec[r] # None /\ Evictors(r) = {}
<1>1. r \in allocd
  BY DEF IndInv, LocksOK, Free, Holds
<1>2. ASSUME NEW d \in Clients, pc[d] # "idle", d \in writers[r] PROVE FALSE
  BY <1>2, OneWriter DEF IndInv
<1>3. \A d \in Clients : pc[d] # "idle" => loc[d].rid # r
  BY <1>2, InCall
<1>4. rec[r] \in Tuples
  BY <1>1, <1>3 DEF IndInv, RecordsOK
<1>5. Evictors(r) = {}
  BY <1>2, Evictor
<1> QED
  BY <1>4, <1>5, CacheAssumption

LEMMA GetValueStep ==
  ASSUME IndInv, DataInv, NEW c \in Clients, NEW r \in Rids, NEW f \in Fields,
         GetValue(c, r, f)
  PROVE  Records!Next
<1> DEFINE v == qv[c][r]
<1>1. /\ pc[c] = "idle" /\ v # None /\ f \in v.query
      /\ UNCHANGED <<rec, readers, writers>>
      /\ out' = [out EXCEPT ![c] = IF InCache(v, f) THEN slots[v.slot].val[f] ELSE store[v.row][f]]
  BY DEF GetValue, Idle
<1>2. /\ v \in QueryValues /\ Located(c, r) /\ (InCache(v, f) \/ v.row # None)
  BY <1>1 DEF IndInv, TypeOK, QueriesOK, QueryOK, Satisfied
<1>3. /\ Holds(c, r)
      /\ v.slot # None => v.slot \in Slots /\ oid[r] = SlotOf(v.slot) /\ slots[v.slot].rid = r
      /\ v.slot = None => oid[r] = RowOf(r)
      /\ v.row \in {r, None}
  BY <1>1, <1>2 DEF Located, QueryValues
<1>4. rec[r] \in Tuples /\ rec[r] # None /\ Evictors(r) = {}
  BY <1>1, <1>3, GuardedRecord
<1>5. /\ write_back(CachedPart(r), store[r]) = rec[r]
      /\ CachedPart(r) = IF oid[r].cached THEN slots[oid[r].id].val ELSE to_cached(store[r])
  BY <1>4, PartOf DEF DataInv, NoLostUpdate
<1>6. rec[r][f] = IF f \in Cached THEN CachedPart(r)[f] ELSE store[r][f]
  BY <1>5 DEF write_back
<1>7. rec[r][f] = IF InCache(v, f) THEN slots[v.slot].val[f] ELSE store[v.row][f]
  <2>1. CASE InCache(v, f)
    BY <1>3, <1>5, <1>6, <2>1, SlotOfFields DEF InCache
  <2>2. CASE ~InCache(v, f)
    <3>1. v.row = r /\ (f \notin Cached \/ v.slot = None)
      BY <1>2, <1>3, <2>2 DEF InCache
    <3>2. v.slot = None => CachedPart(r) = to_cached(store[r])
      BY <1>3, <1>5, RowOfFields
    <3> QED
      BY <1>6, <2>2, <3>1, <3>2 DEF to_cached
  <2> QED
    BY <2>1, <2>2
<1>8. Records!Get(c, r, f)
  BY <1>1, <1>3, <1>4, <1>7 DEF Records!Get, Holds
<1> QED
  BY <1>8 DEF Records!Next

LEMMA SetValueStep ==
  ASSUME IndInv, NEW c \in Clients, NEW r \in Rids, NEW f \in Fields, NEW x \in Values,
         SetValue(c, r, f, x)
  PROVE  Records!Next
<1>1. pc[c] = "idle" /\ c \in writers[r]
  BY DEF SetValue, Idle
<1>2. rec[r] # None
  BY <1>1, GuardedRecord DEF Holds
<1>3. Records!Set(c, r, f)
  BY <1>1, <1>2 DEF Records!Set, SetValue
<1> QED
  BY <1>3 DEF Records!Next

LEMMA ResetStep ==
  ASSUME Reset
  PROVE  Records!Next
<1>1. Records!Clear
  BY DEF Reset, Free, Records!Clear
<1> QED
  BY <1>1 DEF Records!Next

LEMMA StepRecords == IndInv /\ DataInv /\ [Next]_vars => [Records!Next]_(Records!vars)
<1> DEFINE Kept == UNCHANGED <<rec, readers, writers, out>>
<1>1. ASSUME IndInv, DataInv, NEW c \in Clients, Caller(c) PROVE Records!Next \/ Kept
  <2>1. ASSUME NEW r \in Rids, NEW q \in Queries, Read(c, r, q) \/ ReadAndPromote(c, r, q)
        PROVE  Kept
    BY <2>1 DEF Read, ReadAndPromote
  <2> QED
    BY <1>1, <2>1, LockSteps, InsertStep, GetValueStep, SetValueStep DEF Caller
<1>2. ASSUME IndInv, DataInv, NEW c \in Clients, Proceed(c) PROVE Records!Next \/ Kept
  <2>1. \/ LockVictim(c) \/ Validate(c) \/ DropVictim(c) \/ StoreTuple(c)
        \/ Kept
    BY <1>2 DEF Proceed, Resume, Probe, Claim, Fill, CheckRef, ClearRef, Unindex, Replace,
       Index, Reindex, StoreIndex, WriteBack, Promoted, NotPromoted, EndPromote
  <2> QED
    BY <1>2, <2>1, VictimSteps, StoreTupleStep
<1>3. UNCHANGED vars => Kept
  BY DEF vars
<1>4. Kept = UNCHANGED Records!vars
  BY DEF Records!vars
<1> QED
  BY <1>1, <1>2, <1>3, <1>4, ResetStep DEF Next

\* The cache implements records under record locks: every insert, get_value,
\* get_value_mut, guard and reset is a step of RecordStore, and everything that
\* moves a record between row and slot is invisible there.
THEOREM CacheRefinement == Spec => ImplementsRecordStore
<1>1. Init => Records!Init
  BY DEF Init, Records!Init
<1> QED
  BY <1>1, StepRecords, CacheInvariant, DataInvariant, PTL
     DEF Spec, ImplementsRecordStore, Records!Spec
=============================================================================
