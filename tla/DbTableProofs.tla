---------------------------- MODULE DbTableProofs ---------------------------
(***************************************************************************)
(* For any number of clients, records, keys and cache slots: whoever gets  *)
(* a rid by its key gets a complete record of that key, and a record whose *)
(* insert returned is found unless its key was inserted again (DbTable).   *)
(***************************************************************************)
EXTENDS DbTable, ClockCacheProofs

Hits == [key : Values, rid : Rids]
TableCalls == [op : {"none", "insert", "get", "range"}, hits : SUBSET Hits]

LEMMA CallFields ==
  ASSUME NEW op, NEW hits
  PROVE  TableCall(op, hits).op = op /\ TableCall(op, hits).hits = hits
  BY DEF TableCall

LEMMA CallType ==
  ASSUME NEW op \in {"none", "insert", "get", "range"}, NEW hits \in SUBSET Hits
  PROVE  TableCall(op, hits) \in TableCalls
  BY DEF TableCall, TableCalls

LEMMA NoCallType == NoCall \in TableCalls /\ NoCall.op = "none" /\ NoCall.hits = {}
  BY CallFields, CallType DEF NoCall

LEMMA EntryFields ==
  ASSUME NEW k, NEW r
  PROVE  Entry(k, r).key = k /\ Entry(k, r).rid = r /\ (k \in Values /\ r \in Rids => Entry(k, r) \in Hits)
  BY DEF Entry, Hits

\* A step of the table is a step of the cache, or leaves the cache alone.
LEMMA CacheRefined == TableTypeOK /\ [TableNext]_tvars => [Next]_vars
<1>1. ASSUME NEW c \in Clients, NEW t \in Tuples, TableInsert(c, t) PROVE Next
  BY <1>1 DEF TableInsert, Next, Caller
<1>2. ASSUME TableTypeOK, NEW c \in Clients, NEW e \in call[c].hits, LockHit(c, e) PROVE Next
  <2>1. e.rid \in Rids
    BY <1>2 DEF TableTypeOK
  <2> QED
    BY <1>2, <2>1 DEF LockHit, Next, Caller
<1>3. ASSUME NEW c \in Clients, UseGuard(c) PROVE Next
  BY <1>3 DEF UseGuard, Next, Caller
<1>4. ASSUME NEW c \in Clients, CacheStep(c) PROVE Next
  BY <1>4 DEF CacheStep, Next
<1>5. TableReset => Next
  BY DEF TableReset, Next
<1>6. UNCHANGED tvars => UNCHANGED vars
  BY DEF tvars
<1> QED
  BY <1>1, <1>2, <1>3, <1>4, <1>5, <1>6
     DEF TableNext, Step, IndexInsert, IndexGet, Range, GiveUp

-----------------------------------------------------------------------------
(* What a step does to the call of its client and to records.              *)

\* The steps inside the cache's calls, but for the last one of insert, leave
\* records alone and know all along what they insert.
LEMMA ProceedLocals ==
  ASSUME IndInv, NEW c \in Clients, Proceed(c), ~StoreTuple(c)
  PROVE  /\ UNCHANGED <<allocd, rec>> /\ pc[c] # "idle"
         /\ \A d \in Clients \ {c} : pc'[d] = pc[d] /\ loc'[d] = loc[d]
         /\ \/ pc'[c] = "idle" /\ loc[c].kind = "promote"
            \/ /\ pc'[c] # "idle" /\ loc'[c].kind = loc[c].kind
               /\ loc'[c].rid = loc[c].rid /\ loc'[c].tuple = loc[c].tuple
<1> USE DEF IndInv
<1>0. UNCHANGED <<allocd, rec>> /\ pc[c] # "idle"
  BY DEF Proceed, Resume, Probe, Claim, Fill, CheckRef, ClearRef, LockVictim, Validate,
         Unindex, Replace, Index, Reindex, StoreIndex, WriteBack, DropVictim, Promoted,
         NotPromoted, EndPromote
<1>1. pc \in [Clients -> PCs] /\ loc \in [Clients -> Calls \cup {None}] /\ loc[c] \in Calls
  BY <1>0, InCall DEF TypeOK
<1>2. CASE NextProbe(c) /\ pc[c] \in Probing
  BY <1>0, <1>2, NextProbeLocals
<1>3. CASE Resume(c)
  BY <1>0, <1>1, <1>3 DEF Resume, Goto, Calls
<1>4. CASE Probe(c)
  BY <1>0, <1>1, <1>4 DEF Probe, Goto, Calls
<1>5. CASE ~NextProbe(c) /\ (Claim(c) \/ LockVictim(c) \/ Validate(c))
  BY <1>0, <1>1, <1>5 DEF Claim, LockVictim, Validate, Goto
<1>6. CASE Fill(c) \/ CheckRef(c) \/ Unindex(c) \/ WriteBack(c)
  BY <1>0, <1>1, <1>6 DEF Fill, CheckRef, Unindex, WriteBack, Goto
<1>7. CASE Replace(c)
  BY <1>0, <1>1, <1>7 DEF Replace, Goto, Calls
<1>8. CASE Index(c) \/ Reindex(c)
  BY <1>0, <1>1, <1>8 DEF Index, Reindex, StoreIndex, Placed, Goto
<1>9. CASE DropVictim(c)
  BY <1>0, <1>1, <1>9 DEF DropVictim, Placed, Goto, Calls
<1>10. CASE Promoted(c) \/ NotPromoted(c)
  <2>1. loc[c].kind = "promote"
    BY <1>0, <1>10, InCall DEF OwnOK, Promoted, NotPromoted
  <2> QED
    BY <1>0, <1>1, <1>10, <2>1 DEF Promoted, NotPromoted, EndPromote, Goto
<1>11. ClearRef(c) => NextProbe(c) /\ pc[c] \in Probing
  BY DEF ClearRef, Probing
<1>12. NextProbe(c) /\ (Claim(c) \/ LockVictim(c) \/ Validate(c)) => pc[c] \in Probing
  BY DEF Claim, LockVictim, Validate, Probing
<1> QED
  BY <1>2, <1>3, <1>4, <1>5, <1>6, <1>7, <1>8, <1>9, <1>10, <1>11, <1>12 DEF Proceed

\* Using a guard leaves records alone and starts no insert.
LEMMA UseGuardLocals ==
  ASSUME TypeOK, NEW c \in Clients, UseGuard(c)
  PROVE  /\ UNCHANGED <<allocd, rec, index, call>> /\ pc[c] = "idle" /\ call[c].op # "insert"
         /\ \A d \in Clients \ {c} : pc'[d] = pc[d] /\ loc'[d] = loc[d]
         /\ pc'[c] = "idle" \/ loc'[c].kind = "promote"
<1>1. UNCHANGED <<allocd, rec, index, call>> /\ pc[c] = "idle" /\ call[c].op # "insert"
  BY DEF UseGuard, Ready, Idle, UpgradeLock, DropGuard, Read, ReadAndPromote
<1>2. CASE UNCHANGED <<pc, loc>>
  BY <1>1, <1>2
<1>3. CASE \E r \in Rids, q \in Queries : ReadAndPromote(c, r, q)
  BY <1>1, <1>3 DEF ReadAndPromote, TypeOK, Goto
<1> QED
  BY <1>1, <1>2, <1>3 DEF UseGuard, UpgradeLock, DropGuard, Read

\* A complete record stays so as long as its value is not written over.
LEMMA KeyedStays ==
  ASSUME allocd \subseteq allocd',
         \A r \in allocd : rec[r] # None => rec'[r] = rec[r],
         NEW k, NEW r, Keyed(k, r)
  PROVE  Keyed(k, r)'
  BY DEF Keyed, key

-----------------------------------------------------------------------------
(* One lemma per kind of step.                                             *)

\* d neither enters nor leaves an insert, and looks up complete records only.
LooksUp(d) ==
  \/ call'[d] = call[d]
  \/ /\ call[d].op # "insert" /\ call'[d].op # "insert"
     /\ call'[d].op \in {"get", "range"} => \A e \in call'[d].hits : Keyed(e.key, e.rid)

\* Steps that change neither records nor the index.
LEMMA SameRecords ==
  ASSUME TableInv, IndInv', TableTypeOK', UNCHANGED <<allocd, rec, index>>,
         \A d \in Clients : LooksUp(d) /\ InsertCallOK(d)' /\ InsertOwnOK(d)'
  PROVE  TableInv'
<1>1. \A k, r : Keyed(k, r)' <=> Keyed(k, r)
  BY DEF Keyed, key
<1>2. FreshOK'
  BY DEF TableInv, FreshOK
<1>3. FoundHasKey'
  BY <1>1 DEF TableInv, FoundHasKey, LooksUp
<1>4. \A k, r : Inserting(k, r) => Inserting(k, r)'
  BY DEF Inserting, LooksUp
<1>5. InsertedIsFound'
  BY <1>1, <1>4 DEF TableInv, InsertedIsFound, key
<1> QED
  BY <1>2, <1>3, <1>5 DEF TableInv

\* The call of d is as it was, and so are its locals in the cache.
LEMMA SameCall ==
  ASSUME NEW d \in Clients, InsertCallOK(d), InsertOwnOK(d),
         call'[d] = call[d], pc'[d] = pc[d], loc'[d] = loc[d],
         \A k, r : Keyed(k, r) => Keyed(k, r)',
         pc[d] # "idle" /\ loc[d].kind = "insert" => rec'[loc[d].rid] = rec[loc[d].rid]
  PROVE  InsertCallOK(d)' /\ InsertOwnOK(d)'
<1>1. InsertCallOK(d)'
  <2> SUFFICES ASSUME call'[d].op = "insert"
               PROVE  \E k \in Values, r \in Rids :
                        /\ call'[d].hits = {Entry(k, r)}
                        /\ IF Idle(d)' THEN Keyed(k, r)' ELSE InsertingIn(d, k, r)'
    BY DEF InsertCallOK
  <2>1. PICK k \in Values, r \in Rids :
          /\ call[d].hits = {Entry(k, r)}
          /\ IF Idle(d) THEN Keyed(k, r) ELSE InsertingIn(d, k, r)
    BY DEF InsertCallOK
  <2> QED
    BY <2>1 DEF Idle, InsertingIn, key
<1>2. InsertOwnOK(d)'
  BY DEF InsertOwnOK
<1> QED
  BY <1>1, <1>2

LEMMA CallEffect ==
  ASSUME NEW c \in Clients, NEW f, call' = [call EXCEPT ![c] = f], TableTypeOK
  PROVE  call'[c] = f /\ \A d \in Clients \ {c} : call'[d] = call[d]
  BY DEF TableTypeOK

LEMMA CallsType ==
  ASSUME NEW c \in Clients, NEW f \in TableCalls, call' = [call EXCEPT ![c] = f],
         TableTypeOK, index' \in [Values -> Rids \cup {None}]
  PROVE  TableTypeOK'
  BY DEF TableTypeOK, TableCalls, Hits

\* IndexGet, Range, LockHit, GiveUp: c gets a call that is no insert.
LEMMA LookupInv ==
  ASSUME TableInv, IndInv', NEW c \in Clients, NEW f \in TableCalls,
         call' = [call EXCEPT ![c] = f],
         call[c].op # "insert", f.op # "insert",
         \A e \in f.hits : Keyed(e.key, e.rid),
         UNCHANGED <<allocd, rec, pc, loc, index>>
  PROVE  TableInv'
<1>1. call'[c] = f /\ \A d \in Clients \ {c} : call'[d] = call[d]
  BY CallEffect DEF TableInv
<1>2. TableTypeOK'
  <2>1. index' \in [Values -> Rids \cup {None}]
    BY DEF TableInv, TableTypeOK
  <2> QED
    BY <2>1, CallsType DEF TableInv
<1>3. \A d \in Clients : LooksUp(d)
  BY <1>1 DEF LooksUp
<1>4. \A k, r : Keyed(k, r) => Keyed(k, r)'
  BY DEF Keyed, key
<1>5. \A d \in Clients \ {c} : InsertCallOK(d)' /\ InsertOwnOK(d)'
  BY <1>1, <1>4, SameCall DEF TableInv
<1>6. InsertCallOK(c)' /\ InsertOwnOK(c)'
  BY <1>1 DEF TableInv, InsertCallOK, InsertOwnOK
<1> QED
  BY <1>2, <1>3, <1>5, <1>6, SameRecords

LEMMA EntriesKeyed ==
  ASSUME TableInv, NEW ks
  PROVE  \A e \in Entries(ks) : e \in Hits /\ Keyed(e.key, e.rid)
<1> SUFFICES ASSUME NEW k \in Values, index[k] # None
             PROVE  Entry(k, index[k]) \in Hits /\ Keyed(k, index[k])
  BY EntryFields DEF Entries, index_get
<1>1. index[k] \in Rids
  BY DEF TableInv, TableTypeOK
<1> QED
  BY <1>1, EntryFields DEF TableInv, FoundHasKey

LEMMA IndexGetInv ==
  ASSUME TableInv, IndInv', NEW c \in Clients, NEW k \in Values, IndexGet(c, k)
  PROVE  TableInv'
<1> DEFINE f == TableCall("get", Entries({k}))
<1>1. f \in TableCalls /\ f.op = "get" /\ \A e \in f.hits : Keyed(e.key, e.rid)
  BY EntriesKeyed, CallType, CallFields
<1>2. /\ call' = [call EXCEPT ![c] = f] /\ call[c].op = "none"
      /\ UNCHANGED <<allocd, rec, pc, loc, index>>
  BY DEF IndexGet, Between, vars
<1> HIDE DEF f
<1> QED
  BY <1>1, <1>2, LookupInv

LEMMA RangeInv ==
  ASSUME TableInv, IndInv', NEW c \in Clients, NEW low, NEW high, Range(c, low, high)
  PROVE  TableInv'
<1>1. PICK hits \in SUBSET Entries(low..(high - 1)) :
        call' = [call EXCEPT ![c] = TableCall("range", hits)]
  BY DEF Range
<1> DEFINE f == TableCall("range", hits)
<1>2. f \in TableCalls /\ f.op = "range" /\ \A e \in f.hits : Keyed(e.key, e.rid)
  BY EntriesKeyed, CallType, CallFields
<1>3. /\ call' = [call EXCEPT ![c] = f] /\ call[c].op = "none"
      /\ UNCHANGED <<allocd, rec, pc, loc, index>>
  BY <1>1 DEF Range, Between, vars
<1> HIDE DEF f
<1> QED
  BY <1>2, <1>3, LookupInv

LEMMA LockHitInv ==
  ASSUME TableInv, IndInv', NEW c \in Clients, NEW e \in call[c].hits, LockHit(c, e)
  PROVE  TableInv'
<1> DEFINE f == Without(c, e)
<1>1. call[c] \in TableCalls /\ call[c].op \in {"get", "range"}
  BY DEF TableInv, TableTypeOK, TableCalls, Hits, LockHit
<1>2. f \in TableCalls /\ f.op # "insert" /\ f.hits \subseteq call[c].hits
  <2>1. call[c].hits \ {e} \in SUBSET Hits
    BY <1>1 DEF TableCalls
  <2> QED
    BY <1>1, <2>1, NoCallType, CallType, CallFields DEF Without
<1>3. \A h \in f.hits : Keyed(h.key, h.rid)
  BY <1>1, <1>2 DEF TableInv, FoundHasKey
<1>4. /\ call' = [call EXCEPT ![c] = f]
      /\ UNCHANGED <<allocd, rec, pc, loc, index>>
  BY DEF LockHit, ReadLock, TryWriteLock
<1> HIDE DEF f
<1> QED
  BY <1>1, <1>2, <1>3, <1>4, LookupInv

LEMMA GiveUpInv ==
  ASSUME TableInv, IndInv', NEW c \in Clients, GiveUp(c)
  PROVE  TableInv'
<1>1. /\ call' = [call EXCEPT ![c] = NoCall] /\ call[c].op # "insert"
      /\ UNCHANGED <<allocd, rec, pc, loc, index>>
  BY DEF GiveUp, vars
<1> QED
  BY <1>1, NoCallType, LookupInv

\* Steps of c in the cache that write no record.
LEMMA CacheOnlyInv ==
  ASSUME TableInv, IndInv', NEW c \in Clients,
         UNCHANGED <<allocd, rec, index, call>>,
         \A d \in Clients \ {c} : pc'[d] = pc[d] /\ loc'[d] = loc[d],
         InsertCallOK(c)', InsertOwnOK(c)'
  PROVE  TableInv'
<1>1. TableTypeOK'
  BY DEF TableInv, TableTypeOK
<1>2. \A k, r : Keyed(k, r) => Keyed(k, r)'
  BY DEF Keyed, key
<1>3. \A d \in Clients \ {c} : InsertCallOK(d)' /\ InsertOwnOK(d)'
  BY <1>2, SameCall DEF TableInv
<1> QED
  BY <1>1, <1>3, SameRecords DEF LooksUp

LEMMA UseGuardInv ==
  ASSUME TableInv, IndInv', NEW c \in Clients, UseGuard(c)
  PROVE  TableInv'
<1>1. /\ UNCHANGED <<allocd, rec, index, call>> /\ call[c].op # "insert"
      /\ \A d \in Clients \ {c} : pc'[d] = pc[d] /\ loc'[d] = loc[d]
      /\ pc'[c] = "idle" \/ loc'[c].kind = "promote"
  BY UseGuardLocals DEF TableInv, IndInv
<1>2. InsertCallOK(c)' /\ InsertOwnOK(c)'
  BY <1>1 DEF InsertCallOK, InsertOwnOK
<1> QED
  BY <1>1, <1>2, CacheOnlyInv

LEMMA InnerStepInv ==
  ASSUME TableInv, IndInv', NEW c \in Clients, CacheStep(c), ~StoreTuple(c)
  PROVE  TableInv'
<1>1. /\ UNCHANGED <<allocd, rec, index, call>> /\ pc[c] # "idle"
      /\ \A d \in Clients \ {c} : pc'[d] = pc[d] /\ loc'[d] = loc[d]
      /\ \/ pc'[c] = "idle" /\ loc[c].kind = "promote"
         \/ /\ pc'[c] # "idle" /\ loc'[c].kind = loc[c].kind
            /\ loc'[c].rid = loc[c].rid /\ loc'[c].tuple = loc[c].tuple
  BY ProceedLocals DEF TableInv, CacheStep
<1>2. InsertCallOK(c)'
  <2> SUFFICES ASSUME call[c].op = "insert"
               PROVE  \E k \in Values, r \in Rids :
                        /\ call'[c].hits = {Entry(k, r)}
                        /\ IF Idle(c)' THEN Keyed(k, r)' ELSE InsertingIn(c, k, r)'
    BY <1>1 DEF InsertCallOK
  <2>1. PICK k \in Values, r \in Rids :
          call[c].hits = {Entry(k, r)} /\ InsertingIn(c, k, r)
    BY <1>1 DEF TableInv, InsertCallOK, Idle
  <2> QED
    BY <1>1, <2>1 DEF InsertingIn, Idle, key
<1>3. InsertOwnOK(c)'
  BY <1>1 DEF TableInv, InsertOwnOK
<1> QED
  BY <1>1, <1>2, <1>3, CacheOnlyInv

\* The row is written: the record is complete, and nobody else inserts it.
LEMMA StoreTupleInv ==
  ASSUME TableInv, IndInv', NEW c \in Clients, CacheStep(c), StoreTuple(c)
  PROVE  TableInv'
<1>0. PICK s, t : s = loc[c].rid /\ t = loc[c].tuple
  OBVIOUS
<1>1. /\ UNCHANGED <<allocd, index, call>> /\ pc[c] = "store"
      /\ rec' = [rec EXCEPT ![s] = t]
      /\ pc' = [pc EXCEPT ![c] = "idle"] /\ loc' = [loc EXCEPT ![c] = None]
  BY <1>0 DEF CacheStep, StoreTuple, Goto
<1>2. /\ s \in Rids /\ s \in allocd /\ c \in writers[s] /\ loc[c].kind = "insert"
      /\ t \in Tuples
  BY <1>0, <1>1, InCall DEF TableInv, OwnOK
<1>3. /\ rec \in [Rids -> Tuples \cup {None}]
      /\ pc \in [Clients -> PCs] /\ loc \in [Clients -> Calls \cup {None}]
      /\ allocd \subseteq Rids
  BY DEF TableInv, IndInv, TypeOK
<1>4. /\ rec'[s] = t /\ t # None /\ \A r \in Rids \ {s} : rec'[r] = rec[r]
      /\ pc'[c] = "idle"
      /\ \A d \in Clients \ {c} : pc'[d] = pc[d] /\ loc'[d] = loc[d]
  BY <1>1, <1>2, <1>3, TableAssumption
<1>5. call[c].op = "insert" /\ rec[s] = None
  BY <1>0, <1>1, <1>2 DEF TableInv, InsertOwnOK
<1>6. PICK k \in Values : call[c].hits = {Entry(k, s)} /\ key(t) = k
  BY <1>0, <1>1, <1>5 DEF TableInv, InsertCallOK, InsertingIn, Idle
<1>7. Keyed(k, s)'
  BY <1>1, <1>2, <1>4, <1>6 DEF Keyed, key
<1>8. \A j, r : Keyed(j, r) => Keyed(j, r)'
  BY <1>1, <1>3, <1>4, <1>5 DEF Keyed, key
<1>9. TableTypeOK'
  BY <1>1 DEF TableInv, TableTypeOK
<1>10. FreshOK'
  BY <1>1, <1>2, <1>4 DEF TableInv, FreshOK
<1>11. InsertCallOK(c)' /\ InsertOwnOK(c)'
  BY <1>1, <1>2, <1>4, <1>6, <1>7 DEF InsertCallOK, InsertOwnOK, Idle
<1>12. ASSUME NEW d \in Clients \ {c} PROVE InsertCallOK(d)' /\ InsertOwnOK(d)'
  <2>1. pc[d] # "idle" => loc[d].rid \in Rids /\ loc[d].rid # s
    <3> SUFFICES ASSUME pc[d] # "idle" PROVE loc[d].rid \in Rids /\ loc[d].rid # s
      OBVIOUS
    <3>1. loc[d].rid \in Rids /\ d \in writers[loc[d].rid]
      BY InCall DEF TableInv
    <3> QED
      BY <1>2, <3>1, OneWriter DEF TableInv, IndInv, Holds
  <2> QED
    BY <1>1, <1>4, <1>8, <2>1, SameCall DEF TableInv
<1>13. FoundHasKey'
  BY <1>1, <1>8 DEF TableInv, FoundHasKey
<1>14. InsertedIsFound'
  <2> SUFFICES ASSUME NEW r \in Rids, NEW j, rec'[r] # None, key(rec'[r]) = j
               PROVE  Inserting(j, r)' \/ (index[j] # None /\ Keyed(j, index[j]))'
    BY DEF InsertedIsFound, key
  <2>1. CASE r = s
    BY <1>1, <1>4, <1>5, <1>6, <2>1 DEF Inserting
  <2>2. CASE r # s
    <3>1. rec'[r] = rec[r]
      BY <1>4, <2>2
    <3> QED
      BY <1>1, <1>8, <3>1 DEF TableInv, InsertedIsFound, Inserting, key
  <2> QED
    BY <2>1, <2>2
<1> QED
  BY <1>9, <1>10, <1>11, <1>12, <1>13, <1>14 DEF TableInv

LEMMA TableInsertInv ==
  ASSUME TableInv, IndInv', NEW c \in Clients, NEW t \in Tuples, TableInsert(c, t)
  PROVE  TableInv'
<1>1. PICK s \in Rids \ allocd :
        /\ allocd' = allocd \cup {s}
        /\ loc' = [loc EXCEPT ![c] =
                     [kind |-> "insert", rid |-> s, tuple |-> t, query |-> {},
                      node |-> ClockNode(s, to_cached(t)), probe |-> 0,
                      seen |-> None, old |-> None]]
  BY DEF TableInsert, Insert
<1>2. /\ call[c].op = "none" /\ pc[c] = "idle"
      /\ pc' = [pc EXCEPT ![c] = IF ProbeLen > 0 THEN "probe" ELSE "store"]
      /\ call' = [call EXCEPT ![c] = TableCall("insert", {Entry(key(t), loc'[c].rid)})]
      /\ UNCHANGED <<rec, index>>
  BY DEF TableInsert, Insert, Between, Idle, Goto
<1>3. pc \in [Clients -> PCs] /\ loc \in [Clients -> Calls \cup {None}]
  BY DEF TableInv, IndInv, TypeOK
<1>4. /\ loc'[c].kind = "insert" /\ loc'[c].rid = s /\ loc'[c].tuple = t
      /\ pc'[c] # "idle"
      /\ \A d \in Clients \ {c} : pc'[d] = pc[d] /\ loc'[d] = loc[d]
  BY <1>1, <1>2, <1>3
<1>5. PICK k \in Values : k = key(t)
  BY TableAssumption DEF key, Tuples
<1> DEFINE f == TableCall("insert", {Entry(k, s)})
<1>6. f \in TableCalls /\ f.op = "insert" /\ f.hits = {Entry(k, s)}
  BY EntryFields, CallType, CallFields
<1>7. call' = [call EXCEPT ![c] = f]
  BY <1>2, <1>4, <1>5
<1> HIDE DEF f
<1>8. call'[c] = f /\ \A d \in Clients \ {c} : call'[d] = call[d]
  BY <1>7, CallEffect DEF TableInv
<1>9. TableTypeOK'
  <2>1. index' \in [Values -> Rids \cup {None}]
    BY <1>2 DEF TableInv, TableTypeOK
  <2> QED
    BY <1>6, <1>7, <2>1, CallsType DEF TableInv
<1>10. \A j, r : Keyed(j, r) => Keyed(j, r)'
  BY <1>1, <1>2 DEF Keyed, key
<1>11. FreshOK' /\ rec[s] = None
  BY <1>1, <1>2 DEF TableInv, FreshOK
<1>12. InsertCallOK(c)' /\ InsertOwnOK(c)'
  <2>1. InsertingIn(c, k, s)'
    BY <1>4, <1>5 DEF InsertingIn, key
  <2>2. InsertCallOK(c)'
    BY <1>1, <1>4, <1>6, <1>8, <2>1 DEF InsertCallOK, Idle
  <2>3. InsertOwnOK(c)'
    BY <1>2, <1>4, <1>6, <1>8, <1>11 DEF InsertOwnOK
  <2> QED
    BY <2>2, <2>3
<1>13. \A d \in Clients \ {c} : InsertCallOK(d)' /\ InsertOwnOK(d)'
  BY <1>2, <1>4, <1>8, <1>10, SameCall DEF TableInv
<1>14. FoundHasKey'
  BY <1>2, <1>6, <1>8, <1>10 DEF TableInv, FoundHasKey
<1>15. \A j, r : Inserting(j, r) => Inserting(j, r)'
  BY <1>2, <1>8 DEF Inserting
<1>16. InsertedIsFound'
  BY <1>2, <1>10, <1>15 DEF TableInv, InsertedIsFound, key
<1> QED
  BY <1>9, <1>11, <1>12, <1>13, <1>14, <1>16 DEF TableInv

\* The entry replaces an earlier one of the same key, whose record is then the
\* one that its key no longer finds.
LEMMA IndexInsertInv ==
  ASSUME TableInv, IndInv', NEW c \in Clients, IndexInsert(c)
  PROVE  TableInv'
<1>1. /\ call[c].op = "insert" /\ pc[c] = "idle"
      /\ call' = [call EXCEPT ![c] = NoCall]
      /\ UNCHANGED <<allocd, rec, pc, loc>>
  BY DEF IndexInsert, Idle, vars
<1>2. PICK k \in Values, s \in Rids : call[c].hits = {Entry(k, s)} /\ Keyed(k, s)
  BY <1>1 DEF TableInv, InsertCallOK, Idle
<1>3. index' = [index EXCEPT ![k] = s]
  <2>1. \E e \in call[c].hits : index' = [index EXCEPT ![e.key] = e.rid]
    BY DEF IndexInsert, index_insert
  <2>2. index' = [index EXCEPT ![Entry(k, s).key] = Entry(k, s).rid]
    BY <1>2, <2>1
  <2>3. Entry(k, s).key = k /\ Entry(k, s).rid = s
    BY EntryFields
  <2> QED
    BY <2>2, <2>3
<1>4. /\ index' \in [Values -> Rids \cup {None}] /\ index'[k] = s /\ s # None
      /\ \A j \in Values \ {k} : index'[j] = index[j]
  BY <1>3, CacheAssumption DEF TableInv, TableTypeOK
<1>5. call'[c] = NoCall /\ \A d \in Clients \ {c} : call'[d] = call[d]
  BY <1>1, CallEffect DEF TableInv
<1>6. TableTypeOK'
  BY <1>1, <1>4, NoCallType, CallsType DEF TableInv
<1>7. \A j, r : Keyed(j, r)' <=> Keyed(j, r)
  BY <1>1 DEF Keyed, key
<1>8. FreshOK'
  BY <1>1 DEF TableInv, FreshOK
<1>9. InsertCallOK(c)' /\ InsertOwnOK(c)'
  BY <1>1, <1>5, NoCallType DEF InsertCallOK, InsertOwnOK
<1>10. \A d \in Clients \ {c} : InsertCallOK(d)' /\ InsertOwnOK(d)'
  BY <1>1, <1>5, <1>7, SameCall DEF TableInv
<1>11. FoundHasKey'
  <2>1. \A j \in Values : index'[j] # None => (index[j] # None /\ index'[j] = index[j]) \/ j = k
    BY <1>4
  <2>2. \A j \in Values : index'[j] # None => Keyed(j, index[j])'
    BY <1>2, <1>4, <1>7, <2>1 DEF TableInv, FoundHasKey
  <2> QED
    BY <1>5, <1>7, <2>2, NoCallType DEF TableInv, FoundHasKey
<1>12. InsertedIsFound'
  <2> SUFFICES ASSUME NEW r \in Rids, NEW j, rec[r] # None, key(rec[r]) = j
               PROVE  Inserting(j, r)' \/ (index[j] # None /\ Keyed(j, index[j]))'
    BY <1>1 DEF InsertedIsFound, key
  <2>1. j \in Values
    BY TableAssumption DEF TableInv, IndInv, TypeOK, Tuples, key
  <2>2. (index[k] # None /\ Keyed(k, index[k]))'
    BY <1>2, <1>4, <1>7
  <2>3. CASE Inserting(j, r)
    <3>1. PICK d \in Clients : call[d].op = "insert" /\ Entry(j, r) \in call[d].hits
      BY <2>3 DEF Inserting
    <3>2. CASE d = c
      BY <1>2, <2>2, <3>1, <3>2, EntryFields
    <3>3. CASE d # c
      BY <1>5, <3>1, <3>3 DEF Inserting
    <3> QED
      BY <3>2, <3>3
  <2>4. CASE index[j] # None /\ Keyed(j, index[j])
    BY <1>4, <1>7, <2>1, <2>2, <2>4
  <2> QED
    BY <2>3, <2>4 DEF TableInv, InsertedIsFound
<1> QED
  BY <1>6, <1>8, <1>9, <1>10, <1>11, <1>12 DEF TableInv

LEMMA TableResetInv ==
  ASSUME TableInv, IndInv', TableReset
  PROVE  TableInv'
<1>1. /\ \A c \in Clients : pc'[c] = "idle" /\ call'[c].op = "none"
      /\ index' = [k \in Values |-> None] /\ rec' = [r \in Rids |-> None]
      /\ UNCHANGED call
  BY DEF TableReset, Reset, Between, Idle, index_new
<1>2. TableTypeOK'
  BY <1>1 DEF TableInv, TableTypeOK
<1>3. FreshOK' /\ FoundHasKey' /\ InsertedIsFound'
  BY <1>1 DEF FreshOK, FoundHasKey, InsertedIsFound
<1>4. \A c \in Clients : InsertCallOK(c)' /\ InsertOwnOK(c)'
  BY <1>1 DEF InsertCallOK, InsertOwnOK
<1> QED
  BY <1>2, <1>3, <1>4 DEF TableInv

LEMMA TableInitInv == TableInit => TableInv
<1> SUFFICES ASSUME TableInit PROVE TableInv
  OBVIOUS
<1>1. /\ \A c \in Clients : pc[c] = "idle" /\ call[c] = NoCall
      /\ index = [k \in Values |-> None] /\ rec = [r \in Rids |-> None]
      /\ call = [c \in Clients |-> NoCall]
  BY DEF TableInit, Init, index_new
<1>2. TableTypeOK
  BY <1>1, NoCallType DEF TableTypeOK, TableCalls, Hits
<1>3. FreshOK /\ FoundHasKey /\ InsertedIsFound
  BY <1>1, NoCallType DEF FreshOK, FoundHasKey, InsertedIsFound
<1>4. \A c \in Clients : InsertCallOK(c) /\ InsertOwnOK(c)
  BY <1>1, NoCallType DEF InsertCallOK, InsertOwnOK
<1> QED
  BY <1>2, <1>3, <1>4, InitInd DEF TableInit, TableInv

LEMMA TableStutterInv ==
  ASSUME TableInv, IndInv', UNCHANGED tvars
  PROVE  TableInv'
<1>1. UNCHANGED <<allocd, rec, pc, loc, index, call>>
  BY DEF tvars, vars
<1>2. TableTypeOK'
  BY <1>1 DEF TableInv, TableTypeOK
<1>3. \A k, r : Keyed(k, r) => Keyed(k, r)'
  BY <1>1 DEF Keyed, key
<1>4. \A d \in Clients : InsertCallOK(d)' /\ InsertOwnOK(d)'
  BY <1>1, <1>3, SameCall DEF TableInv
<1> QED
  BY <1>1, <1>2, <1>4, SameRecords DEF LooksUp

LEMMA TableStepInv == TableInv /\ [TableNext]_tvars => TableInv'
<1> SUFFICES ASSUME TableInv, [TableNext]_tvars PROVE TableInv'
  OBVIOUS
<1>1. IndInv'
  BY CacheRefined, StepInd DEF TableInv
<1>2. ASSUME NEW c \in Clients, Step(c) PROVE TableInv'
  BY <1>1, <1>2, TableInsertInv, IndexInsertInv, IndexGetInv, RangeInv, LockHitInv,
     GiveUpInv, UseGuardInv, InnerStepInv, StoreTupleInv DEF Step
<1> QED
  BY <1>1, <1>2, TableResetInv, TableStutterInv DEF TableNext

-----------------------------------------------------------------------------
\* The invariant of a table, of which the cache's is a part.
THEOREM DbTableInvariant == TableSpec => []TableInv
  BY TableInitInv, TableStepInv, PTL DEF TableSpec

\* No lookup and no scan ever hands out a half-inserted record or the rid of
\* another key, however late the caller locks it.
THEOREM LookupsAreComplete == TableSpec => []FoundHasKey
<1>1. TableInv => FoundHasKey
  BY DEF TableInv
<1> QED
  BY <1>1, DbTableInvariant, PTL

\* A record whose insert returned stays reachable by its key until another
\* record is inserted under that key.
THEOREM InsertsAreFound == TableSpec => []InsertedIsFound
<1>1. TableInv => InsertedIsFound
  BY DEF TableInv
<1> QED
  BY <1>1, DbTableInvariant, PTL
=============================================================================
