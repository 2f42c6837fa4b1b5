------------------------------ MODULE DbTable -------------------------------
(***************************************************************************)
(* A table (src/src/table.rs): the attribute cache and an index from the   *)
(* primary key to the rid.  The cache is ClockCache, step by step; on top  *)
(* of it insert adds the key to the index after the record, and a lookup   *)
(* reads a rid from the index and locks the record later (an await, or     *)
(* just another thread, comes in between).  The index itself (congee or    *)
(* flurry) is a library: each of its operations is one step here.          *)
(***************************************************************************)
EXTENDS ClockCache

CONSTANTS KeyField,   \* the field Schema::key returns
          BufLen      \* length of the rid_buffer given to range

ASSUME TableAssumption ==
  /\ KeyField \in Fields
  /\ Values \subseteq Nat
  /\ BufLen \in Nat
  /\ None \notin Tuples

VARIABLES index,      \* index[k]: the rid of key k
          call        \* call[c]: the DbTable call of c, with the rids it works on

tvars == <<vars, index, call>>

\* Schema::key
key(t) == t[KeyField]

\* DbIndex: an insert replaces what the index had for the key.
index_new == [k \in Values |-> None]
index_get(k) == index[k]
index_insert(e) == index' = [index EXCEPT ![e.key] = e.rid]

Entry(k, r) == [key |-> k, rid |-> r]
\* What the index has for the keys of ks.
Entries(ks) == {Entry(k, index_get(k)) : k \in {x \in Values \cap ks : index_get(x) # None}}
TableCall(op, hits) == [op |-> op, hits |-> hits]
NoCall == TableCall("none", {})

\* c is between two calls; with a buffer of scanned rids left to lock it may
\* still use the guards it has.
Between(c) == call[c].op = "none"
Ready(c) == call[c].op \in {"none", "range"}

-----------------------------------------------------------------------------
TableInit ==
  /\ Init
  /\ index = index_new
  /\ call = [c \in Clients |-> NoCall]

\* Mutant: the key is in the index before the record is in its row.
TableInsert_IndexFirst(c, t) ==
  /\ Between(c)
  /\ Insert(c, t)
  /\ index_insert(Entry(key(t), loc'[c].rid))
  /\ call' = [call EXCEPT ![c] = TableCall("insert", {Entry(key(t), loc'[c].rid)})]

\* insert: the record goes into the cache under a fresh, write-locked rid ...
TableInsert(c, t) ==
  /\ Between(c)
  /\ Insert(c, t)
  /\ call' = [call EXCEPT ![c] = TableCall("insert", {Entry(key(t), loc'[c].rid)})]
  /\ UNCHANGED index

\* Mutant: the index may refuse the key, and nobody looks.
IndexInsert_Ignored(c) ==
  /\ call[c].op = "insert" /\ Idle(c)
  /\ \E e \in call[c].hits : index_insert(e) \/ UNCHANGED index
  /\ call' = [call EXCEPT ![c] = NoCall]
  /\ UNCHANGED vars

\* ... then its key into the index, in the place of an earlier record of the
\* same key, and the caller has the write guard.
IndexInsert(c) ==
  /\ call[c].op = "insert" /\ Idle(c)
  /\ \E e \in call[c].hits : index_insert(e)
  /\ call' = [call EXCEPT ![c] = NoCall]
  /\ UNCHANGED vars

\* read_oid, write_oid and their sync forms, up to the lock.  A key that is not
\* there (IndexNotFound) changes nothing.
IndexGet(c, k) ==
  /\ Between(c) /\ Idle(c)
  /\ index_get(k) # None
  /\ call' = [call EXCEPT ![c] = TableCall("get", Entries({k}))]
  /\ UNCHANGED <<vars, index>>

\* range: the rids of the first BufLen keys in low..(high - 1).
Range(c, low, high) ==
  /\ Between(c) /\ Idle(c)
  /\ \E hits \in SUBSET Entries(low..(high - 1)) :
       /\ hits # {}
       /\ \A h \in hits, e \in Entries(low..(high - 1)) \ hits : h.key < e.key
       /\ Cardinality(hits) <= BufLen
       /\ hits = Entries(low..(high - 1)) \/ Cardinality(hits) = BufLen
       /\ call' = [call EXCEPT ![c] = TableCall("range", hits)]
  /\ UNCHANGED <<vars, index>>

\* The call of c without entry e, and its end when no entry is left.
Without(c, e) ==
  IF call[c].hits = {e} THEN NoCall ELSE TableCall(call[c].op, call[c].hits \ {e})

\* read_lock or write_lock of a rid read from the index some time ago, by
\* read_oid and write_oid or by lock_rid_r and lock_rid_w.
LockHit(c, e) ==
  /\ call[c].op \in {"get", "range"} /\ Idle(c)
  /\ ReadLock(c, e.rid) \/ TryWriteLock(c, e.rid)
  /\ call' = [call EXCEPT ![c] = Without(c, e)]
  /\ UNCHANGED index

\* The lock was not granted, or the caller does not want the rest of its rids.
GiveUp(c) ==
  /\ call[c].op \in {"get", "range"}
  /\ call' = [call EXCEPT ![c] = NoCall]
  /\ UNCHANGED <<vars, index>>

\* read, read_and_promote, upgrade and the end of a guard, by a caller that is
\* in no other call.  Updates go to fields other than the key, which nothing
\* here depends on.
UseGuard(c) ==
  /\ Ready(c)
  /\ \E r \in Rids :
       \/ UpgradeLock(c, r)
       \/ DropGuard(c, r)
       \/ \E q \in Queries : Read(c, r, q) \/ ReadAndPromote(c, r, q)
  /\ UNCHANGED <<index, call>>

\* Steps inside the cache's insert and read_and_promote.
CacheStep(c) == Proceed(c) /\ UNCHANGED <<index, call>>

\* reset(&mut self): a new index and an empty cache; no call is under way.
TableReset ==
  /\ \A c \in Clients : Between(c)
  /\ Reset
  /\ index' = index_new
  /\ UNCHANGED call

Step(c) ==
  \/ \E t \in Tuples : TableInsert(c, t)
  \/ IndexInsert(c)
  \/ \E k \in Values : IndexGet(c, k)
  \/ \E low, high \in Values : Range(c, low, high + 1)
  \/ \E e \in call[c].hits : LockHit(c, e)
  \/ GiveUp(c)
  \/ UseGuard(c)
  \/ CacheStep(c)

TableNext == (\E c \in Clients : Step(c)) \/ TableReset

TableSpec == TableInit /\ [][TableNext]_tvars

\* A thread inside insert keeps running.
TableFairness == \A c \in Clients : WF_tvars(CacheStep(c) \/ IndexInsert(c))
TableFairSpec == TableSpec /\ TableFairness

-----------------------------------------------------------------------------
\* An insert is under way that has given r to key k.
Inserting(k, r) ==
  \E c \in Clients : call[c].op = "insert" /\ Entry(k, r) \in call[c].hits

\* A record that is complete: insert wrote its row, and it has key k.
Keyed(k, r) == r \in allocd /\ rec[r] # None /\ key(rec[r]) = k

\* Whoever gets a rid by its key, from the index or from a scan, gets the rid
\* of a complete record with that key, also when it locks it much later: no
\* half-inserted record and no rid of another key is ever handed out.
FoundHasKey ==
  /\ \A k \in Values : index[k] # None => Keyed(k, index[k])
  /\ \A c \in Clients : call[c].op \in {"get", "range"} =>
       \A e \in call[c].hits : Keyed(e.key, e.rid)

\* Every record whose insert returned can be found by its key, unless another
\* record was inserted under the same key: nothing else orphans a record.
InsertedIsFound ==
  \A r \in Rids : rec[r] # None =>
    LET k == key(rec[r]) IN
      Inserting(k, r) \/ (index[k] # None /\ Keyed(k, index[k]))

\* Every insert ends with its key in the index, whatever slots the other
\* clients fight over and whatever they keep locked; and read_and_promote ends.
TableCallsReturn ==
  \A c \in Clients :
    /\ (call[c].op = "insert") ~> Between(c)
    /\ pc[c] # "idle" ~> pc[c] = "idle"

-----------------------------------------------------------------------------
(* The inductive invariant behind FoundHasKey and InsertedIsFound, on top  *)
(* of ClockCache's IndInv.                                                 *)

TableTypeOK ==
  /\ index \in [Values -> Rids \cup {None}]
  /\ call \in [Clients -> [op : {"none", "insert", "get", "range"},
                           hits : SUBSET [key : Values, rid : Rids]]]

\* The cache is inside insert for c, which works on r and on a tuple of key k.
InsertingIn(c, k, r) ==
  loc[c].kind = "insert" /\ loc[c].rid = r /\ key(loc[c].tuple) = k

\* An insert has one entry to add, for its own record, which is complete once
\* the cache has returned.
InsertCallOK(c) ==
  call[c].op = "insert" =>
    \E k \in Values, r \in Rids :
      /\ call[c].hits = {Entry(k, r)}
      /\ IF Idle(c) THEN Keyed(k, r) ELSE InsertingIn(c, k, r)

\* The record of an insert under way has no value yet, and the cache inserts for
\* nobody but a caller of DbTable::insert.
InsertOwnOK(c) ==
  pc[c] # "idle" /\ loc[c].kind = "insert" =>
    call[c].op = "insert" /\ rec[loc[c].rid] = None

TableInv ==
  /\ IndInv /\ TableTypeOK /\ FreshOK
  /\ \A c \in Clients : InsertCallOK(c) /\ InsertOwnOK(c)
  /\ FoundHasKey /\ InsertedIsFound
=============================================================================
