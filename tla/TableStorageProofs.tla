-------------------------- MODULE TableStorageProofs ------------------------
(***************************************************************************)
(* Where a table's records live, for any number of threads, arenas, items  *)
(* per arena, owners and addresses.  The oid array (HeapArray) never       *)
(* returns the index of a record that exists, never loses an item, even    *)
(* when any thread deletes any item, and runs out of space only when the   *)
(* records asked for are there.  Frames in use (PmHeap) have an address    *)
(* and a file of their own, across restarts.  A table on a frame           *)
(* (TableStorage) keeps both, and every rid in use has a row in the frame. *)
(***************************************************************************)
EXTENDS TableStorage, FiniteSetTheorems, TLAPS

(* The oid array.                                                          *)

\* The number of arenas is a natural number.
LEMMA ArenaCntNat == ArenaCnt \in Nat
<1>1. (Records + N - 1) \in Nat
  BY HeapArrayAssumption
<1>2. (Records + N - 1) \div N \in Nat
  BY <1>1, HeapArrayAssumption
<1> QED
  BY <1>2, HeapArrayAssumption DEF ArenaCnt

\* Arenas do not overlap: ptr_to_index is injective.
LEMMA ArenasDisjoint ==
  ASSUME NEW a \in Arenas, NEW b \in Arenas, a # b
  PROVE  ItemsOf(a) \cap ItemsOf(b) = {}
<1>1. \A x, y, n \in Nat : x < y => x * n + n <= y * n
  <2> SUFFICES ASSUME NEW x \in Nat, NEW y \in Nat, NEW n \in Nat, x < y
               PROVE  x * n + n <= y * n
    OBVIOUS
  <2>1. PICK d \in Nat : y = x + 1 + d
    <3>1. y - x - 1 \in Nat /\ y = x + 1 + (y - x - 1)
      OBVIOUS
    <3> QED
      BY <3>1
  <2>2. y * n = x * n + n + d * n /\ d * n \in Nat /\ x * n \in Nat
    BY <2>1
  <2> QED
    BY <2>2
<1>2. a \in Nat /\ b \in Nat /\ N \in Nat /\ a * N \in Nat /\ b * N \in Nat
  BY ArenaCntNat, HeapArrayAssumption DEF Arenas
<1>3. a * N + N <= b * N \/ b * N + N <= a * N
  BY <1>1, <1>2
<1>4. ASSUME NEW i \in Items, a * N <= i, i < a * N + N, b * N <= i, i < b * N + N
      PROVE  FALSE
  <2>1. i \in Int
    BY <1>2, ArenaCntNat, HeapArrayAssumption DEF Items
  <2> QED
    BY <1>2, <1>3, <1>4, <2>1
<1> QED
  BY <1>4 DEF ItemsOf

\* Every item is in an arena.
LEMMA ArenasCover ==
  ASSUME NEW i \in Items
  PROVE  \E a \in Arenas : i \in ItemsOf(a)
<1>1. N \in Nat /\ N > 0 /\ ArenaCnt \in Nat /\ ArenaCnt * N \in Nat
  BY ArenaCntNat, HeapArrayAssumption
<1>2. i \in Nat /\ i < ArenaCnt * N
  BY <1>1 DEF Items
<1>3. i \div N \in Nat /\ (i \div N) * N <= i /\ i < (i \div N) * N + N
  BY <1>1, <1>2
<1>4. i \div N < ArenaCnt
  BY <1>1, <1>2, <1>3
<1>5. i \div N \in Arenas
  BY <1>1, <1>3, <1>4 DEF Arenas
<1>6. i \in ItemsOf(i \div N)
  BY <1>3 DEF ItemsOf
<1> QED
  BY <1>5, <1>6

\* What a thread keeps after its TlsAllocator changed.
LEMMA KeptAfter ==
  ASSUME TypeOK, NEW t \in Threads, NEW v \in TlsAllocators,
         tls' = [tls EXCEPT ![t] = v]
  PROVE  /\ tls' \in [Threads -> TlsAllocators \cup {None}]
         /\ tls'[t] = v
         /\ Kept(t)' = v.arena \cup v.list
         /\ \A u \in Threads \ {t} : tls'[u] = tls[u] /\ Kept(u)' = Kept(u)
BY HeapArrayAssumption DEF TypeOK, Kept

-----------------------------------------------------------------------------
\* new() leaves every arena to be given out.
LEMMA InitInd == Init => IndInv
<1> SUFFICES ASSUME Init PROVE IndInv
  OBVIOUS
<1>1. TypeOK
  BY DEF Init, Fresh, TypeOK
<1>2. \A t \in Threads : Kept(t) = {} /\ tls[t] = None
  BY DEF Init, Fresh, Kept
<1>3. live = {} /\ free = Arenas
  BY DEF Init, Fresh
<1>4. OnePlace
  BY <1>2, <1>3 DEF OnePlace
<1>5. NoneLost
  BY <1>3, ArenasCover DEF NoneLost
<1> QED
  BY <1>1, <1>4, <1>5 DEF IndInv

\* An item moves out of what t keeps (into live) or back into it.
LEMMA MoveKeeps ==
  ASSUME IndInv, NEW t \in Threads, NEW v \in TlsAllocators,
         tls[t] # None, tls' = [tls EXCEPT ![t] = v],
         live' \subseteq Items,
         v.arena \cap v.list = {},
         (v.arena \cup v.list) \cap live' = {},
         v.arena \cup v.list \cup live' = Kept(t) \cup live,
         free' = free, oom' \in [Threads -> BOOLEAN]
  PROVE  IndInv'
<1>1. TypeOK'
  BY KeptAfter DEF IndInv, TypeOK
<1>2. /\ tls'[t] = v /\ Kept(t)' = v.arena \cup v.list
      /\ \A u \in Threads \ {t} : tls'[u] = tls[u] /\ Kept(u)' = Kept(u)
  BY KeptAfter DEF IndInv
<1>3. OnePlace'
  <2>1. \A u \in Threads \ {t} : (Kept(t) \cup live) \cap Kept(u) = {}
    BY DEF IndInv, OnePlace
  <2>2. \A u \in Threads : Kept(u)' \cap live' = {}
    BY <1>2, <2>1
  <2>3. \A u \in Threads : tls'[u] # None => tls'[u].arena \cap tls'[u].list = {}
    BY <1>2 DEF IndInv, OnePlace
  <2>4. \A u, w \in Threads : u # w => Kept(u)' \cap Kept(w)' = {}
    BY <1>2, <2>1 DEF IndInv, OnePlace
  <2>5. \A a \in free : /\ ItemsOf(a) \cap live' = {}
                        /\ \A u \in Threads : ItemsOf(a) \cap Kept(u)' = {}
    BY <1>2 DEF IndInv, OnePlace
  <2> QED
    BY <2>2, <2>3, <2>4, <2>5 DEF OnePlace, ItemsOf
<1>4. NoneLost'
  BY <1>2 DEF IndInv, NoneLost, ItemsOf
<1> QED
  BY <1>1, <1>3, <1>4 DEF IndInv

\* A thread that keeps nothing takes an arena; item i goes from live into its
\* list or out of the arena into live.
LEMMA ArenaKeeps ==
  ASSUME IndInv, NEW t \in Threads, NEW a \in free, NEW v \in TlsAllocators,
         Kept(t) = {}, tls' = [tls EXCEPT ![t] = v],
         live' \subseteq Items,
         v.arena \cap v.list = {},
         (v.arena \cup v.list) \cap live' = {},
         v.arena \cup v.list \cup live' = ItemsOf(a) \cup live,
         free' = free \ {a}, oom' \in [Threads -> BOOLEAN]
  PROVE  IndInv'
<1>0. a \in Arenas /\ free \subseteq Arenas
  BY DEF IndInv, TypeOK
<1>1. TypeOK'
  BY KeptAfter DEF IndInv, TypeOK
<1>2. /\ tls'[t] = v /\ Kept(t)' = v.arena \cup v.list
      /\ \A u \in Threads \ {t} : tls'[u] = tls[u] /\ Kept(u)' = Kept(u)
  BY KeptAfter DEF IndInv
<1>3. OnePlace'
  <2>1. \A u \in Threads \ {t} : (ItemsOf(a) \cup live) \cap Kept(u) = {}
    BY DEF IndInv, OnePlace
  <2>2. \A u \in Threads : Kept(u)' \cap live' = {}
    BY <1>2, <2>1
  <2>3. \A u \in Threads : tls'[u] # None => tls'[u].arena \cap tls'[u].list = {}
    BY <1>2 DEF IndInv, OnePlace
  <2>4. \A u, w \in Threads : u # w => Kept(u)' \cap Kept(w)' = {}
    BY <1>2, <2>1 DEF IndInv, OnePlace
  <2>5. \A b \in free \ {a} : ItemsOf(b) \cap ItemsOf(a) = {}
    BY <1>0, ArenasDisjoint
  <2>6. \A b \in free \ {a} : /\ ItemsOf(b) \cap live' = {}
                             /\ \A u \in Threads : ItemsOf(b) \cap Kept(u)' = {}
    BY <1>2, <2>5 DEF IndInv, OnePlace
  <2> QED
    BY <2>2, <2>3, <2>4, <2>6 DEF OnePlace, ItemsOf
<1>4. NoneLost'
  BY <1>2 DEF IndInv, NoneLost, ItemsOf
<1> QED
  BY <1>1, <1>3, <1>4 DEF IndInv

\* Every call keeps the invariant.
LEMMA StepKeeps ==
  ASSUME IndInv, [Next]_vars
  PROVE  IndInv'
<1>0. TypeOK
  BY DEF IndInv
<1>1. ASSUME NEW t \in Threads, AppendRecycled(t)
      PROVE  IndInv'
  <2>1. PICK i \in tls[t].list : tls' = [tls EXCEPT ![t].list = @ \ {i}] /\ Return(t, i)
    BY <1>1 DEF AppendRecycled
  <2> DEFINE v == [arena |-> tls[t].arena, list |-> tls[t].list \ {i}]
  <2>2. tls[t] \in TlsAllocators /\ tls[t] # None
    BY <1>0, <1>1 DEF TypeOK, AppendRecycled
  <2>3. v \in TlsAllocators /\ tls' = [tls EXCEPT ![t] = v]
    <3>1. v \in TlsAllocators /\ v = [tls[t] EXCEPT !.list = @ \ {i}]
      BY <2>2 DEF TlsAllocators
    <3> QED
      BY <2>1, <3>1
  <2>4. Kept(t) = v.arena \cup v.list \cup {i} /\ i \notin live
        /\ tls[t].arena \cap tls[t].list = {} /\ Kept(t) \cap live = {} /\ i \in Items
    BY <2>1, <2>2 DEF Kept, IndInv, OnePlace, TlsAllocators
  <2>5. live' = live \cup {i} /\ oom' \in [Threads -> BOOLEAN] /\ free' = free
    BY <1>0, <1>1, <2>1 DEF Return, TypeOK, AppendRecycled
  <2>6. live' \subseteq Items
    BY <1>0, <2>4, <2>5 DEF TypeOK
  <2> HIDE DEF v
  <2>7. v.arena \cap v.list = {} /\ (v.arena \cup v.list) \cap live' = {}
    BY <2>1, <2>4, <2>5 DEF v
  <2>8. v.arena \cup v.list \cup live' = Kept(t) \cup live
    BY <2>4, <2>5
  <2> QED
    BY <2>2, <2>3, <2>5, <2>6, <2>7, <2>8, MoveKeeps
<1>2. ASSUME NEW t \in Threads, AppendFromArena(t)
      PROVE  IndInv'
  <2>1. PICK i \in tls[t].arena : tls' = [tls EXCEPT ![t].arena = @ \ {i}] /\ Return(t, i)
    BY <1>2 DEF AppendFromArena
  <2> DEFINE v == [arena |-> tls[t].arena \ {i}, list |-> tls[t].list]
  <2>2. tls[t] \in TlsAllocators /\ tls[t] # None
    BY <1>0, <1>2 DEF TypeOK, AppendFromArena
  <2>3. v \in TlsAllocators /\ tls' = [tls EXCEPT ![t] = v]
    <3>1. v \in TlsAllocators /\ v = [tls[t] EXCEPT !.arena = @ \ {i}]
      BY <2>2 DEF TlsAllocators
    <3> QED
      BY <2>1, <3>1
  <2>4. Kept(t) = v.arena \cup v.list \cup {i} /\ i \notin live
        /\ tls[t].arena \cap tls[t].list = {} /\ Kept(t) \cap live = {} /\ i \in Items
    BY <2>1, <2>2 DEF Kept, IndInv, OnePlace, TlsAllocators
  <2>5. live' = live \cup {i} /\ oom' \in [Threads -> BOOLEAN] /\ free' = free
    BY <1>0, <1>2, <2>1 DEF Return, TypeOK, AppendFromArena
  <2>6. live' \subseteq Items
    BY <1>0, <2>4, <2>5 DEF TypeOK
  <2> HIDE DEF v
  <2>7. v.arena \cap v.list = {} /\ (v.arena \cup v.list) \cap live' = {}
    BY <2>1, <2>4, <2>5 DEF v
  <2>8. v.arena \cup v.list \cup live' = Kept(t) \cup live
    BY <2>4, <2>5
  <2> QED
    BY <2>2, <2>3, <2>5, <2>6, <2>7, <2>8, MoveKeeps
<1>3. ASSUME NEW t \in Threads, AppendNewArena(t)
      PROVE  IndInv'
  <2>1. PICK a \in free : \E i \in ItemsOf(a) :
          /\ free' = free \ {a}
          /\ tls' = [tls EXCEPT ![t] = [arena |-> ItemsOf(a) \ {i}, list |-> {}]]
          /\ Return(t, i)
    BY <1>3 DEF AppendNewArena
  <2>2. PICK i \in ItemsOf(a) :
          /\ free' = free \ {a}
          /\ tls' = [tls EXCEPT ![t] = [arena |-> ItemsOf(a) \ {i}, list |-> {}]]
          /\ Return(t, i)
    BY <2>1
  <2> DEFINE v == [arena |-> ItemsOf(a) \ {i}, list |-> {}]
  <2>3. v \in TlsAllocators /\ ItemsOf(a) \subseteq Items
    BY DEF TlsAllocators, ItemsOf
  <2>4. ItemsOf(a) \cap live = {}
    BY DEF IndInv, OnePlace
  <2>5. live' = live \cup {i} /\ oom' \in [Threads -> BOOLEAN] /\ Kept(t) = {}
    BY <1>0, <1>3, <2>2 DEF Return, TypeOK, AppendNewArena, Exhausted
  <2>6. live' \subseteq Items
    BY <1>0, <2>2, <2>3, <2>5 DEF TypeOK
  <2>7. tls' = [tls EXCEPT ![t] = v]
    BY <2>2
  <2>8. v.arena = ItemsOf(a) \ {i} /\ v.list = {}
    OBVIOUS
  <2> HIDE DEF v
  <2>9. v.arena \cap v.list = {} /\ (v.arena \cup v.list) \cap live' = {}
    BY <2>4, <2>5, <2>8
  <2>10. v.arena \cup v.list \cup live' = ItemsOf(a) \cup live
    BY <2>5, <2>8
  <2> QED
    BY <2>2, <2>3, <2>5, <2>6, <2>7, <2>9, <2>10, ArenaKeeps
<1>4. ASSUME NEW t \in Threads, AppendFail(t)
      PROVE  IndInv'
  BY <1>0, <1>4 DEF AppendFail, IndInv, TypeOK, OnePlace, NoneLost, Kept
<1>5. ASSUME NEW t \in Threads, Delete(t)
      PROVE  IndInv'
  <2>1. PICK i \in live :
          /\ live' = live \ {i}
          /\ \/ /\ tls[t] # None
                /\ tls' = [tls EXCEPT ![t].list = @ \cup {i}]
                /\ UNCHANGED free
             \/ /\ tls[t] = None
                /\ \E a \in free :
                     /\ free' = free \ {a}
                     /\ tls' = [tls EXCEPT ![t] = [arena |-> ItemsOf(a), list |-> {i}]]
    BY <1>5 DEF Delete
  <2>2. live' \subseteq Items /\ i \in Items /\ oom' \in [Threads -> BOOLEAN]
    BY <1>0, <1>5, <2>1 DEF TypeOK, Delete
  <2>3. CASE tls[t] # None
    <3> DEFINE v == [arena |-> tls[t].arena, list |-> tls[t].list \cup {i}]
    <3>1. tls[t] \in TlsAllocators
      BY <1>0, <2>3 DEF TypeOK
    <3>0. v \in TlsAllocators /\ v = [tls[t] EXCEPT !.list = @ \cup {i}]
      BY <2>2, <3>1 DEF TlsAllocators
    <3>2. v \in TlsAllocators /\ tls' = [tls EXCEPT ![t] = v]
      BY <2>1, <2>3, <3>0
    <3>3. Kept(t) = tls[t].arena \cup tls[t].list /\ Kept(t) \cap live = {}
          /\ tls[t].arena \cap tls[t].list = {}
      BY <2>3 DEF Kept, IndInv, OnePlace
    <3>4. v.arena = tls[t].arena /\ v.list = tls[t].list \cup {i}
      OBVIOUS
    <3> HIDE DEF v
    <3>5. v.arena \cap v.list = {} /\ (v.arena \cup v.list) \cap live' = {}
      BY <2>1, <3>3, <3>4
    <3>6. v.arena \cup v.list \cup live' = Kept(t) \cup live /\ free' = free
      BY <2>1, <2>3, <3>3, <3>4
    <3> QED
      BY <2>2, <2>3, <3>2, <3>5, <3>6, MoveKeeps
  <2>4. CASE tls[t] = None
    <3>1. PICK a \in free :
            /\ free' = free \ {a}
            /\ tls' = [tls EXCEPT ![t] = [arena |-> ItemsOf(a), list |-> {i}]]
      BY <2>1, <2>4
    <3> DEFINE v == [arena |-> ItemsOf(a), list |-> {i}]
    <3>2. v \in TlsAllocators /\ tls' = [tls EXCEPT ![t] = v]
      BY <2>2, <3>1 DEF TlsAllocators, ItemsOf
    <3>3. Kept(t) = {} /\ ItemsOf(a) \cap live = {}
      BY <2>4 DEF Kept, IndInv, OnePlace
    <3>4. v.arena = ItemsOf(a) /\ v.list = {i}
      OBVIOUS
    <3> HIDE DEF v
    <3>5. v.arena \cap v.list = {} /\ (v.arena \cup v.list) \cap live' = {}
      BY <2>1, <3>3, <3>4
    <3>6. v.arena \cup v.list \cup live' = ItemsOf(a) \cup live
      BY <2>1, <3>3, <3>4
    <3> QED
      BY <2>2, <3>1, <3>2, <3>3, <3>5, <3>6, ArenaKeeps
  <2> QED
    BY <2>3, <2>4
<1>6. CASE Reset
  <2>1. TypeOK'
    BY <1>6 DEF Reset, Fresh, TypeOK
  <2>2. \A t \in Threads : Kept(t)' = {} /\ tls'[t] = None
    BY <1>6 DEF Reset, Fresh, Kept
  <2>3. live' = {} /\ free' = Arenas
    BY <1>6 DEF Reset, Fresh
  <2>4. OnePlace'
    BY <2>2, <2>3 DEF OnePlace
  <2>5. NoneLost'
    <3>1. \A i \in Items : \E a \in free' : i \in ItemsOf(a)
      BY <2>3, ArenasCover
    <3> QED
      BY <3>1 DEF NoneLost, ItemsOf
  <2> QED
    BY <2>1, <2>4, <2>5 DEF IndInv
<1>7. CASE UNCHANGED vars
  BY <1>7 DEF vars, IndInv, TypeOK, OnePlace, NoneLost, Kept
<1> QED
  BY <1>1, <1>2, <1>3, <1>4, <1>5, <1>6, <1>7 DEF Next, append

-----------------------------------------------------------------------------
\* The invariant of the oid array's allocator.
THEOREM HeapArrayInvariant == Spec => []IndInv
  BY InitInd, StepKeeps, PTL DEF Spec

\* Whatever threads append and delete, append never returns the index of a
\* record that exists, and no two threads keep the same item.
THEOREM ItemsInOnePlace == Spec => []OnePlace
<1>1. IndInv => OnePlace
  BY DEF IndInv
<1> QED
  BY <1>1, HeapArrayInvariant, PTL

\* No item is lost by appends, deletes and changes of arena.
THEOREM ItemsConserved == Spec => []NoneLost
<1>1. IndInv => NoneLost
  BY DEF IndInv
<1> QED
  BY <1>1, HeapArrayInvariant, PTL

\* What makes RecordsFit inductive: a thread keeps what is left of one arena,
\* and after an append failed nothing is left to give out or in its arena.
FitOK ==
  \A t \in Threads :
    /\ tls[t] # None => \E a \in Arenas : tls[t].arena \subseteq ItemsOf(a)
    /\ oom[t] => free = {} /\ (tls[t] # None => tls[t].arena = {})

\* A step of t leaves what the other threads keep alone.
LEMMA FitOther ==
  ASSUME TypeOK, FitOK, NEW t \in Threads, NEW v \in TlsAllocators,
         tls' = [tls EXCEPT ![t] = v], free' \subseteq free,
         oom' = oom \/ oom' = [oom EXCEPT ![t] = FALSE],
         \E a \in Arenas : v.arena \subseteq ItemsOf(a),
         oom'[t] => oom[t] /\ v.arena = {}
  PROVE  FitOK'
<1>1. tls'[t] = v /\ \A u \in Threads \ {t} : tls'[u] = tls[u]
  BY KeptAfter
<1>2. \A u \in Threads : oom'[u] => oom[u]
  BY DEF TypeOK
<1>3. \A u \in Threads : tls'[u] # None => \E a \in Arenas : tls'[u].arena \subseteq ItemsOf(a)
  BY <1>1 DEF FitOK
<1>4. \A u \in Threads : oom'[u] => free' = {} /\ (tls'[u] # None => tls'[u].arena = {})
  BY <1>1, <1>2 DEF FitOK
<1> QED
  BY <1>3, <1>4 DEF FitOK, ItemsOf

\* Every call keeps it.
LEMMA FitStep ==
  ASSUME TypeOK, FitOK, [Next]_vars
  PROVE  FitOK'
<1>1. ASSUME NEW t \in Threads, AppendRecycled(t) \/ AppendFromArena(t) PROVE FitOK'
  <2>1. PICK i, v : /\ tls[t] \in TlsAllocators /\ v \in TlsAllocators
                    /\ v.arena \subseteq tls[t].arena
                    /\ tls' = [tls EXCEPT ![t] = v] /\ Return(t, i) /\ free' = free
    <3>1. tls[t] \in TlsAllocators /\ tls[t] # None
      BY <1>1 DEF TypeOK, AppendRecycled, AppendFromArena
    <3>2. CASE AppendRecycled(t)
      <4>1. PICK i : tls' = [tls EXCEPT ![t].list = @ \ {i}] /\ Return(t, i)
        BY <3>2 DEF AppendRecycled
      <4> DEFINE v == [tls[t] EXCEPT !.list = @ \ {i}]
      <4>2. v \in TlsAllocators /\ v.arena = tls[t].arena /\ tls' = [tls EXCEPT ![t] = v]
        BY <3>1, <4>1 DEF TlsAllocators
      <4> QED
        BY <3>1, <3>2, <4>1, <4>2 DEF AppendRecycled
    <3>3. CASE AppendFromArena(t)
      <4>1. PICK i : tls' = [tls EXCEPT ![t].arena = @ \ {i}] /\ Return(t, i)
        BY <3>3 DEF AppendFromArena
      <4> DEFINE v == [tls[t] EXCEPT !.arena = @ \ {i}]
      <4>2. v \in TlsAllocators /\ v.arena \subseteq tls[t].arena /\ tls' = [tls EXCEPT ![t] = v]
        BY <3>1, <4>1 DEF TlsAllocators
      <4> QED
        BY <3>1, <3>3, <4>1, <4>2 DEF AppendFromArena
    <3> QED
      BY <1>1, <3>2, <3>3
  <2>2. oom' = [oom EXCEPT ![t] = FALSE] /\ ~oom'[t]
    BY <2>1 DEF Return, TypeOK
  <2>3. \E a \in Arenas : v.arena \subseteq ItemsOf(a)
    BY <1>1, <2>1 DEF FitOK, AppendRecycled, AppendFromArena
  <2> QED
    BY <2>1, <2>2, <2>3, FitOther
<1>2. ASSUME NEW t \in Threads, AppendNewArena(t) PROVE FitOK'
  <2>1. PICK a \in free : \E i \in ItemsOf(a) :
          /\ free' = free \ {a}
          /\ tls' = [tls EXCEPT ![t] = [arena |-> ItemsOf(a) \ {i}, list |-> {}]]
          /\ Return(t, i)
    BY <1>2 DEF AppendNewArena
  <2>2. PICK i \in ItemsOf(a) :
          /\ free' = free \ {a}
          /\ tls' = [tls EXCEPT ![t] = [arena |-> ItemsOf(a) \ {i}, list |-> {}]]
          /\ Return(t, i)
    BY <2>1
  <2> DEFINE v == [arena |-> ItemsOf(a) \ {i}, list |-> {}]
  <2>3. v \in TlsAllocators /\ v.arena \subseteq ItemsOf(a) /\ tls' = [tls EXCEPT ![t] = v]
    BY <2>2 DEF TlsAllocators, ItemsOf
  <2>4. oom' = [oom EXCEPT ![t] = FALSE] /\ ~oom'[t] /\ a \in Arenas /\ free' \subseteq free
    BY <2>2 DEF Return, TypeOK
  <2> HIDE DEF v
  <2> QED
    BY <2>3, <2>4, FitOther
<1>3. ASSUME NEW t \in Threads, AppendFail(t) PROVE FitOK'
  <2>1. /\ free = {} /\ free' = free /\ tls' = tls
        /\ \A u \in Threads : oom'[u] => oom[u] \/ u = t
    BY <1>3 DEF AppendFail, TypeOK
  <2>2. tls[t] # None => tls[t].arena = {}
    BY <1>3 DEF AppendFail, Exhausted, Kept
  <2> QED
    BY <2>1, <2>2 DEF FitOK, ItemsOf
<1>4. ASSUME NEW t \in Threads, Delete(t) PROVE FitOK'
  <2>1. CASE tls[t] # None
    <3>1. PICK i \in live : tls' = [tls EXCEPT ![t].list = @ \cup {i}]
      BY <1>4, <2>1 DEF Delete
    <3> DEFINE v == [tls[t] EXCEPT !.list = @ \cup {i}]
    <3>2. tls[t] \in TlsAllocators /\ i \in Items
      BY <2>1 DEF TypeOK
    <3>3. v \in TlsAllocators /\ v.arena = tls[t].arena /\ tls' = [tls EXCEPT ![t] = v]
      BY <3>1, <3>2 DEF TlsAllocators
    <3>4. free' = free /\ oom' = oom
      BY <1>4, <2>1 DEF Delete
    <3> HIDE DEF v
    <3>5. \E a \in Arenas : v.arena \subseteq ItemsOf(a)
      BY <2>1, <3>3 DEF FitOK
    <3>6. oom'[t] => oom[t] /\ v.arena = {}
      BY <2>1, <3>3, <3>4 DEF FitOK
    <3> QED
      BY <3>3, <3>4, <3>5, <3>6, FitOther
  <2>2. CASE tls[t] = None
    <3>1. PICK i \in live, a \in free :
            /\ free' = free \ {a}
            /\ tls' = [tls EXCEPT ![t] = [arena |-> ItemsOf(a), list |-> {i}]]
      BY <1>4, <2>2 DEF Delete
    <3> DEFINE v == [arena |-> ItemsOf(a), list |-> {i}]
    <3>2. v \in TlsAllocators /\ v.arena = ItemsOf(a) /\ tls' = [tls EXCEPT ![t] = v]
      BY <3>1 DEF TlsAllocators, ItemsOf, TypeOK
    <3>3. oom' = oom /\ ~oom[t] /\ a \in Arenas
      BY <1>4, <3>1 DEF Delete, FitOK, TypeOK
    <3> HIDE DEF v
    <3>4. free' \subseteq free /\ \E b \in Arenas : v.arena \subseteq ItemsOf(b)
      BY <3>1, <3>2, <3>3
    <3> QED
      BY <3>2, <3>3, <3>4, FitOther
  <2> QED
    BY <2>1, <2>2
<1>5. CASE Reset
  BY <1>5 DEF Reset, Fresh, FitOK
<1>6. CASE UNCHANGED vars
  BY <1>6 DEF vars, FitOK, ItemsOf
<1> QED
  BY <1>1, <1>2, <1>3, <1>4, <1>5, <1>6 DEF Next, append

\* The arenas hold the records asked for and the spare arenas.
LEMMA Capacity ==
  /\ IsFiniteSet(Items) /\ Cardinality(Items) \in Nat
  /\ Cardinality(Items) >= Records + Slack * N
<1> DEFINE K == (Records + N - 1) \div N
<1>1. N \in Nat /\ N > 0 /\ Records \in Nat /\ Slack \in Nat /\ Records + N - 1 \in Nat
  BY HeapArrayAssumption
<1>2. K \in Nat /\ K * N \in Nat /\ Records + N - 1 < K * N + N
  BY <1>1
<1>3. ArenaCnt = Slack + K
  BY DEF ArenaCnt
<1> HIDE DEF K
<1>4. ArenaCnt * N = Slack * N + K * N /\ Slack * N \in Nat
  BY <1>1, <1>2, <1>3
<1>5. ArenaCnt * N \in Nat /\ ArenaCnt * N >= Records + Slack * N
  BY <1>1, <1>2, <1>4
<1>6. /\ IsFiniteSet(Items)
      /\ Cardinality(Items) = IF 0 > ArenaCnt * N - 1 THEN 0 ELSE ArenaCnt * N - 1 - 0 + 1
  BY <1>5, FS_Interval, SMTT(20) DEF Items
<1> QED
  BY <1>5, <1>6, <1>1, <1>4

\* What the arenas of the other threads hold back, at most an arena each.
LEMMA Stranded ==
  ASSUME TypeOK, FitOK, NEW t \in Threads,
         NEW S, \A i \in S : \E u \in Threads \ {t} : tls[u] # None /\ i \in tls[u].arena
  PROVE  /\ IsFiniteSet(S)
         /\ Cardinality(S) <= (Cardinality(Threads) - 1) * N
<1> DEFINE T == (Threads \ {t}) \X (0..(N - 1))
           holder(i) == CHOOSE u \in Threads \ {t} : tls[u] # None /\ i \in tls[u].arena
           base(u) == CHOOSE a \in Arenas : tls[u].arena \subseteq ItemsOf(a)
           f == [i \in S |-> <<holder(i), i - base(holder(i)) * N>>]
<1>1. N \in Nat /\ N > 0 /\ ArenaCnt \in Nat
  BY HeapArrayAssumption, ArenaCntNat
<1>2. ASSUME NEW i \in S
      PROVE  /\ holder(i) \in Threads \ {t} /\ tls[holder(i)] # None
             /\ i \in tls[holder(i)].arena
  OBVIOUS
<1>3. ASSUME NEW u \in Threads, tls[u] # None
      PROVE  base(u) \in Arenas /\ tls[u].arena \subseteq ItemsOf(base(u))
  BY <1>3 DEF FitOK
<1> HIDE DEF holder, base
<1>4. ASSUME NEW i \in S
      PROVE  /\ i \in Int /\ base(holder(i)) * N \in Int
             /\ i - base(holder(i)) * N \in 0..(N - 1)
  <2>1. base(holder(i)) \in Nat /\ i \in ItemsOf(base(holder(i)))
    BY <1>1, <1>2, <1>3 DEF Arenas
  <2>2. base(holder(i)) * N \in Nat /\ ArenaCnt * N \in Nat
    BY <1>1, <2>1
  <2> QED
    BY <1>1, <2>1, <2>2 DEF ItemsOf, Items
<1>5. f \in [S -> T]
  BY <1>2, <1>4
<1>6. \A i, j \in S : f[i] = f[j] => i = j
  <2> SUFFICES ASSUME NEW i \in S, NEW j \in S, f[i] = f[j] PROVE i = j
    OBVIOUS
  <2>1. /\ holder(i) = holder(j)
        /\ i - base(holder(i)) * N = j - base(holder(j)) * N
    OBVIOUS
  <2>2. base(holder(i)) * N = base(holder(j)) * N
    BY <2>1
  <2> QED
    BY <1>4, <2>1, <2>2
<1> HIDE DEF f
<1>7. f \in Injection(S, T)
  BY <1>5, <1>6 DEF Injection, IsInjective
<1>8. /\ IsFiniteSet(Threads \ {t}) /\ Cardinality(Threads \ {t}) = Cardinality(Threads) - 1
      /\ Cardinality(Threads) \in Nat
  BY HeapArrayAssumption, FS_RemoveElement, FS_CardinalityType
<1>9. IsFiniteSet(0..(N - 1)) /\ Cardinality(0..(N - 1)) = N
  <2>1. /\ IsFiniteSet(0..(N - 1))
        /\ Cardinality(0..(N - 1)) = IF 0 > N - 1 THEN 0 ELSE N - 1 - 0 + 1
    <3>1. N - 1 \in Int /\ 0 \in Int
      BY <1>1
    <3> QED
      BY <3>1, FS_Interval
  <2> QED
    BY <1>1, <2>1
<1>10. IsFiniteSet(T) /\ Cardinality(T) = Cardinality(Threads \ {t}) * Cardinality(0..(N - 1))
  BY <1>8, <1>9, FS_Product
<1> HIDE DEF T
<1>11. IsFiniteSet(S) /\ Cardinality(S) <= Cardinality(T)
  BY <1>7, <1>10, FS_Injection
<1> QED
  BY <1>8, <1>9, <1>10, <1>11

\* An append that fails leaves no room for Records records.
LEMMA Fits == IndInv /\ FitOK => RecordsFit
<1> SUFFICES ASSUME IndInv, FitOK, Cardinality(Threads) <= Slack + 1,
                    NEW t \in Threads, oom[t]
             PROVE  Cardinality(live \cup Recycled) >= Records
  BY DEF RecordsFit
<1> DEFINE P == live \cup Recycled
           S == Items \ P
<1>1. ASSUME NEW i \in S
      PROVE  \E u \in Threads \ {t} : tls[u] # None /\ i \in tls[u].arena
  <2>1. PICK u \in Threads : i \in Kept(u)
    BY DEF IndInv, NoneLost, FitOK
  <2>2. tls[u] # None /\ i \in tls[u].arena
    BY <2>1 DEF Kept, Recycled
  <2>3. u # t
    BY <2>2 DEF FitOK
  <2> QED
    BY <2>2, <2>3
<1>2. P \subseteq Items
  BY DEF IndInv, TypeOK, TlsAllocators, Recycled
<1> HIDE DEF P
<1>3. IsFiniteSet(P) /\ Cardinality(P) \in Nat
  BY <1>2, Capacity, FS_Subset, FS_CardinalityType
<1>4. Cardinality(S) = Cardinality(Items) - Cardinality(P)
  <2>1. Items \cap P = P
    BY <1>2
  <2> QED
    BY <2>1, Capacity, FS_Difference
<1>5. Cardinality(S) <= (Cardinality(Threads) - 1) * N
  BY <1>1, Stranded DEF IndInv
<1>6. Cardinality(Threads) \in Nat /\ Slack \in Nat /\ N \in Nat /\ Records \in Nat
  BY HeapArrayAssumption, FS_CardinalityType
<1>7. (Cardinality(Threads) - 1) * N <= Slack * N
  <2>1. PICK d \in Nat : Slack = (Cardinality(Threads) - 1) + d
    <3>1. Slack - (Cardinality(Threads) - 1) \in Nat
      BY <1>6
    <3> QED
      BY <1>6, <3>1
  <2>2. Slack * N = (Cardinality(Threads) - 1) * N + d * N /\ d * N \in Nat
    BY <1>6, <2>1
  <2>3. (Cardinality(Threads) - 1) * N \in Int
    BY <1>6
  <2> QED
    BY <2>2, <2>3
<1>8. Slack * N \in Nat /\ (Cardinality(Threads) - 1) * N \in Int
  BY <1>6
<1>9. Cardinality(P) >= Records
  BY <1>3, <1>4, <1>5, <1>6, <1>7, <1>8, Capacity
<1> QED
  BY <1>9 DEF P

\* For any number of threads up to one more than the spare arenas, and any way
\* they share the array: an append fails only when Records records exist or
\* wait in the free list of the thread that deleted them.
THEOREM AllRecordsFit == Spec => []RecordsFit
<1>1. Init => FitOK
  BY DEF Init, Fresh, FitOK
<1>2. IndInv /\ FitOK /\ [Next]_vars => FitOK'
  BY FitStep DEF IndInv
<1> QED
  BY <1>1, <1>2, Fits, HeapArrayInvariant, PTL DEF Spec

-----------------------------------------------------------------------------
(* Frames.                                                                 *)

\* A frame as an owner's call leaves it.
Frames == [at : {"none", "create", "map", "enter", "live", "unmap", "remove", "refused"},
           file : Nat \cup {NoFile}, addr : Addrs \cup {NoFile}, try : 1..3]

LEMMA NoFrameType == NoFrame \in Frames /\ NoFrame.at = "none"
  BY DEF NoFrame, Frames, NoFile

LEMMA InitInv == PmInit => PmInv
<1> SUFFICES ASSUME PmInit PROVE PmInv
  OBVIOUS
<1>1. \A o \in Owners : frame[o] = NoFrame
  BY DEF PmInit
<1>2. PmTypeOK
  BY NoFrameType DEF PmInit, PmTypeOK, Frames
<1>3. Holders = {} /\ Users = {}
  BY <1>1, NoFrameType DEF Holders, Users
<1>4. NamesOK /\ AddrsOK
  BY <1>3 DEF NamesOK, AddrsOK
<1>5. MappedIsUsed
  BY DEF PmInit, MappedIsUsed, Kinds
<1> QED
  BY <1>2, <1>4, <1>5 DEF PmInv

\* The effect on the frame of o of a step that writes its at field only.
LEMMA GoEffect ==
  ASSUME NEW o \in Owners, NEW l \in {"map", "live", "remove", "refused"},
         PmTypeOK, Go(o, l)
  PROVE  /\ frame' \in [Owners -> Frames]
         /\ frame'[o].at = l /\ frame'[o].file = frame[o].file
         /\ frame'[o].addr = frame[o].addr /\ frame'[o].try = frame[o].try
         /\ \A p \in Owners \ {o} : frame'[p] = frame[p]
<1> DEFINE g == [frame[o] EXCEPT !.at = l]
<1>1. frame \in [Owners -> Frames]
  BY DEF PmTypeOK, Frames
<1>2. /\ g \in Frames /\ g.at = l /\ g.file = frame[o].file
      /\ g.addr = frame[o].addr /\ g.try = frame[o].try
  BY <1>1 DEF Frames
<1>3. frame' = [frame EXCEPT ![o] = g]
  BY DEF Go
<1> HIDE DEF g
<1> QED
  BY <1>1, <1>2, <1>3

-----------------------------------------------------------------------------
(* One lemma per action: the frame it writes, then the parts of PmInv.     *)

LEMMA AllocFrameInv ==
  ASSUME NEW o \in Owners, PmInv, AllocFrame(o)
  PROVE  PmInv'
<1> DEFINE g == [NoFrame EXCEPT !.at = "create", !.file = fileId]
<1> USE DEF PmInv
<1>1. frame \in [Owners -> Frames] /\ fileId \in Nat
  BY DEF PmTypeOK, Frames
<1>2. g \in Frames /\ g.at = "create" /\ g.file = fileId
  <2>1. NoFrame \in Frames
    BY NoFrameType
  <2> QED
    BY <1>1, <2>1 DEF Frames
<1>3. /\ frame' = [frame EXCEPT ![o] = g] /\ frame[o].at = "none"
      /\ fileId' = fileId + 1
      /\ UNCHANGED <<files, mapped, fileMapping>>
  BY DEF AllocFrame, At
<1> HIDE DEF g
<1>4. /\ frame' \in [Owners -> Frames]
      /\ frame'[o] = g
      /\ \A p \in Owners \ {o} : frame'[p] = frame[p]
  BY <1>1, <1>2, <1>3
<1>5. PmTypeOK'
  BY <1>1, <1>3, <1>4 DEF PmTypeOK, Frames
<1>6. Holders' = Holders \cup {o} /\ o \notin Holders
  BY <1>2, <1>3, <1>4 DEF Holders
<1>7. Users' = Users /\ o \notin Users
  BY <1>2, <1>3, <1>4 DEF Users
<1>8. NamesOK'
  <2>1. \A p \in Holders : frame[p].file \in 0..(fileId - 1) /\ frame'[p] = frame[p]
    BY <1>4, <1>6 DEF NamesOK, Holders
  <2>2. \A p \in Holders : frame'[p].file \in 0..(fileId' - 1) /\ frame'[p].file # fileId
    BY <1>1, <1>3, <2>1
  <2>3. frame'[o].file \in 0..(fileId' - 1)
    BY <1>1, <1>2, <1>3, <1>4
  <2> QED
    BY <1>2, <1>3, <1>4, <1>6, <2>1, <2>2, <2>3 DEF NamesOK
<1>9. AddrsOK'
  BY <1>3, <1>4, <1>7 DEF AddrsOK, Users, Live, At
<1>10. MappedIsUsed'
  BY <1>3, <1>4, <1>7 DEF MappedIsUsed, Users
<1> QED
  BY <1>5, <1>8, <1>9, <1>10

\* A step that writes the at field of o, and files at most for o's own file.
LEMMA CreateFileInv ==
  ASSUME NEW o \in Owners, PmInv, CreateFile(o)
  PROVE  PmInv'
<1> USE DEF PmInv
<1>0. PICK l \in {"map", "refused"} :
        /\ Go(o, l) /\ files \subseteq files' /\ (l = "map" => frame[o].file \in files')
        /\ files' \subseteq files \cup {frame[o].file}
  BY DEF CreateFile
<1>1. /\ frame \in [Owners -> Frames] /\ frame[o].at = "create"
      /\ UNCHANGED <<fileId, mapped, fileMapping>>
  BY DEF PmTypeOK, Frames, CreateFile, At
<1>2. /\ frame' \in [Owners -> Frames]
      /\ frame'[o].at = l /\ frame'[o].file = frame[o].file
      /\ \A p \in Owners \ {o} : frame'[p] = frame[p]
  BY <1>0, GoEffect
<1>3. Holders' \subseteq Holders /\ o \in Holders
  BY <1>1, <1>2 DEF Holders
<1>4. Users' = Users /\ o \notin Users
  BY <1>1, <1>2 DEF Users
<1>5. PmTypeOK'
  <2>1. frame[o].file \in Nat
    BY <1>3 DEF NamesOK, PmTypeOK
  <2> QED
    BY <1>0, <1>1, <1>2, <2>1 DEF PmTypeOK, Frames
<1>6. NamesOK'
  <2>1. \A p \in Owners : frame'[p].file = frame[p].file
    BY <1>2
  <2>2. \A p \in Holders' : frame'[p].at # "create" => frame'[p].file \in files'
    BY <1>0, <1>2, <1>3 DEF NamesOK, Holders
  <2> QED
    BY <1>1, <1>3, <2>1, <2>2 DEF NamesOK, Holders
<1>7. AddrsOK'
  BY <1>1, <1>2, <1>4 DEF AddrsOK, Users, Live, At
<1>8. MappedIsUsed'
  BY <1>1, <1>2, <1>4 DEF MappedIsUsed, Users
<1> QED
  BY <1>5, <1>6, <1>7, <1>8

LEMMA MmapInv ==
  ASSUME NEW o \in Owners, NEW a \in Addrs, PmInv, At(o, "map"), Mmap(o, a),
         UNCHANGED <<fileId, files, fileMapping>>
  PROVE  PmInv'
<1> DEFINE g == [frame[o] EXCEPT !.at = "enter", !.addr = a]
<1> DEFINE k == Attempts(o)[frame[o].try]
<1> USE DEF PmInv
<1>1. frame \in [Owners -> Frames] /\ mapped \in [Addrs -> Kinds \cup {"free"}]
  BY DEF PmTypeOK, Frames
<1>2. /\ g \in Frames /\ g.at = "enter" /\ g.addr = a /\ g.file = frame[o].file
  BY <1>1 DEF Frames
<1>3. frame' = [frame EXCEPT ![o] = g] /\ mapped' = [mapped EXCEPT ![a] = k]
  BY DEF Mmap
<1>4. k \in Kinds
  <2>1. frame[o].try \in 1..3
    BY <1>1 DEF Frames
  <2>2. map_dram_builder(o, TRUE) \in Kinds /\ map_dram_builder(o, FALSE) \in Kinds
    BY DEF map_dram_builder, Kinds
  <2>3. map_nvm_builder \in Kinds
    BY DEF map_nvm_builder, Kinds
  <2>4. /\ Attempts(o)[1] = map_nvm_builder
        /\ Attempts(o)[2] = map_dram_builder(o, TRUE)
        /\ Attempts(o)[3] = map_dram_builder(o, FALSE)
    BY DEF Attempts
  <2>5. frame[o].try = 1 \/ frame[o].try = 2 \/ frame[o].try = 3
    BY <2>1
  <2> QED
    BY <2>2, <2>3, <2>4, <2>5
<1>5. mapped[a] = "free" /\ frame[o].at = "map" /\ "free" \notin Kinds
  BY DEF Mmap, At, Kinds
<1> HIDE DEF g, k
<1>6. /\ frame' \in [Owners -> Frames] /\ frame'[o] = g
      /\ \A p \in Owners \ {o} : frame'[p] = frame[p]
      /\ mapped' \in [Addrs -> Kinds \cup {"free"}] /\ mapped'[a] = k
      /\ \A b \in Addrs \ {a} : mapped'[b] = mapped[b]
  BY <1>1, <1>2, <1>3, <1>4
<1>7. Holders' = Holders
  BY <1>2, <1>5, <1>6 DEF Holders
<1>8. Users' = Users \cup {o} /\ o \notin Users
  BY <1>2, <1>5, <1>6 DEF Users
<1>9. \A p \in Users : frame[p].addr # a
  BY <1>5 DEF AddrsOK
<1>10. PmTypeOK'
  BY <1>6 DEF PmTypeOK, Frames
<1>11. NamesOK'
  BY <1>2, <1>5, <1>6, <1>7 DEF NamesOK, Holders
<1>12. AddrsOK'
  <2>1. \A p \in Users : frame'[p] = frame[p] /\ mapped'[frame[p].addr] = mapped[frame[p].addr]
    BY <1>6, <1>8, <1>9 DEF AddrsOK, Users
  <2>2. \A p \in Users' : frame'[p].addr \in Addrs /\ mapped'[frame'[p].addr] # "free"
    BY <1>2, <1>4, <1>5, <1>6, <1>8, <2>1 DEF AddrsOK
  <2>3. \A p \in Users' : Live(p)' => fileMapping'[frame'[p].addr] = frame'[p].file
    BY <1>2, <1>6, <1>8, <2>1 DEF AddrsOK, Live, At
  <2>4. \A p \in Users', q \in Users' : p # q => frame'[p].addr # frame'[q].addr
    BY <1>2, <1>6, <1>8, <1>9, <2>1 DEF AddrsOK
  <2> QED
    BY <2>2, <2>3, <2>4 DEF AddrsOK
<1>13. MappedIsUsed'
  <2>1. \A b \in Addrs \ {a} : mapped'[b] \in Kinds \ {"ragged"} =>
          \E p \in Users' : frame'[p].addr = b
    BY <1>6, <1>8 DEF MappedIsUsed, Users
  <2>2. o \in Users' /\ frame'[o].addr = a
    BY <1>2, <1>6, <1>8
  <2> QED
    BY <2>1, <2>2 DEF MappedIsUsed
<1> QED
  BY <1>10, <1>11, <1>12, <1>13

\* Steps of o that change its call and no more.
LEMMA QuietInv ==
  ASSUME NEW o \in Owners, PmInv, frame[o].at = "map",
         frame' \in [Owners -> Frames], \A p \in Owners \ {o} : frame'[p] = frame[p],
         frame'[o].at \in {"map", "refused"}, frame'[o].file = frame[o].file,
         UNCHANGED <<fileId, files, mapped, fileMapping>>
  PROVE  PmInv'
<1> USE DEF PmInv
<1>1. PmTypeOK'
  BY DEF PmTypeOK, Frames
<1>2. Holders' \subseteq Holders
  BY DEF Holders
<1>3. Users' = Users /\ o \notin Users
  BY DEF Users
<1>4. NamesOK'
  BY <1>2 DEF NamesOK, Holders
<1>5. AddrsOK'
  BY <1>3 DEF AddrsOK, Users, Live, At
<1>6. MappedIsUsed'
  BY <1>3 DEF MappedIsUsed, Users
<1> QED
  BY <1>1, <1>4, <1>5, <1>6

LEMMA MapInv ==
  ASSUME NEW o \in Owners, PmInv, Map(o)
  PROVE  PmInv'
<1>1. CASE \E a \in Addrs : Mmap(o, a)
  BY <1>1, MmapInv DEF Map
<1>2. CASE MmapFail(o)
  <2>0. /\ frame \in [Owners -> Frames] /\ frame[o].at = "map"
        /\ UNCHANGED <<fileId, files, mapped, fileMapping>>
    BY <1>2 DEF PmInv, PmTypeOK, Frames, Map, MmapFail, At
  <2>1. CASE frame[o].try < 3 /\ frame' = [frame EXCEPT ![o].try = @ + 1]
    <3> DEFINE g == [frame[o] EXCEPT !.try = frame[o].try + 1]
    <3>1. g \in Frames /\ g.at = "map" /\ g.file = frame[o].file
      BY <2>0, <2>1 DEF Frames
    <3>2. frame' = [frame EXCEPT ![o] = g]
      BY <2>1
    <3> HIDE DEF g
    <3>3. /\ frame' \in [Owners -> Frames] /\ frame'[o] = g
          /\ \A p \in Owners \ {o} : frame'[p] = frame[p]
      BY <2>0, <3>1, <3>2
    <3> QED
      BY <2>0, <3>1, <3>3, QuietInv
  <2>2. CASE Go(o, "refused")
    <3>1. /\ frame' \in [Owners -> Frames]
          /\ frame'[o].at = "refused" /\ frame'[o].file = frame[o].file
          /\ \A p \in Owners \ {o} : frame'[p] = frame[p]
      BY <2>2, GoEffect DEF PmInv
    <3> QED
      BY <2>0, <3>1, QuietInv
  <2> QED
    BY <1>2, <2>1, <2>2 DEF MmapFail
<1> QED
  BY <1>1, <1>2 DEF Map

LEMMA EnterFrameInv ==
  ASSUME NEW o \in Owners, PmInv, EnterFrame(o)
  PROVE  PmInv'
<1> USE DEF PmInv
<1>1. /\ frame \in [Owners -> Frames] /\ frame[o].at = "enter"
      /\ fileMapping \in [Addrs -> Nat \cup {NoFile}]
      /\ fileMapping' = [fileMapping EXCEPT ![frame[o].addr] = frame[o].file]
      /\ UNCHANGED <<fileId, files, mapped>>
  BY DEF PmTypeOK, Frames, EnterFrame, At
<1>2. /\ frame' \in [Owners -> Frames] /\ frame'[o].at = "live"
      /\ frame'[o].file = frame[o].file /\ frame'[o].addr = frame[o].addr
      /\ \A p \in Owners \ {o} : frame'[p] = frame[p]
  BY GoEffect DEF EnterFrame
<1>3. Holders' = Holders /\ Users' = Users /\ o \in Users
  BY <1>1, <1>2 DEF Holders, Users
<1>4. frame[o].addr \in Addrs /\ frame[o].file \in Nat \cup {NoFile}
  BY <1>1, <1>3 DEF AddrsOK, Frames
<1>5. PmTypeOK'
  BY <1>1, <1>2, <1>4 DEF PmTypeOK, Frames
<1>6. NamesOK'
  BY <1>1, <1>2, <1>3 DEF NamesOK, Holders
<1>7. \A p \in Users \ {o} : fileMapping'[frame[p].addr] = fileMapping[frame[p].addr]
  BY <1>1, <1>3, <1>4 DEF AddrsOK
<1>8. fileMapping'[frame[o].addr] = frame[o].file
  BY <1>1, <1>4
<1>9. AddrsOK'
  <2>1. \A p \in Users : frame'[p].addr = frame[p].addr /\ frame'[p].file = frame[p].file
    BY <1>2 DEF Users
  <2>2. \A p \in Users : Live(p)' => fileMapping'[frame'[p].addr] = frame'[p].file
    BY <1>2, <1>7, <1>8, <2>1 DEF AddrsOK, Live, At, Users
  <2> QED
    BY <1>1, <1>3, <2>1, <2>2 DEF AddrsOK
<1>10. MappedIsUsed'
  BY <1>1, <1>2, <1>3 DEF MappedIsUsed, Users
<1> QED
  BY <1>5, <1>6, <1>9, <1>10

LEMMA DeallocFrameInv ==
  ASSUME NEW o \in Owners, PmInv, DeallocFrame(o)
  PROVE  PmInv'
<1> DEFINE g == [frame[o] EXCEPT !.at = "unmap", !.file = frame[o].file]
<1> USE DEF PmInv
<1>1. /\ frame \in [Owners -> Frames] /\ frame[o].at = "live"
      /\ fileMapping \in [Addrs -> Nat \cup {NoFile}]
      /\ fileMapping' = [fileMapping EXCEPT ![frame[o].addr] = NoFile]
      /\ UNCHANGED <<fileId, files, mapped>>
  BY DEF PmTypeOK, Frames, DeallocFrame, At
<1>2. o \in Users /\ o \in Holders
  BY <1>1 DEF Users, Holders
<1>3. /\ frame[o].addr \in Addrs /\ frame[o].file \in Nat
      /\ fileMapping[frame[o].addr] = frame[o].file
  BY <1>1, <1>2 DEF AddrsOK, NamesOK, PmTypeOK, Live, At
<1>4. frame[o].file # NoFile
  BY <1>3 DEF NoFile
<1>5. frame' = [frame EXCEPT ![o] = g]
  BY <1>1, <1>3, <1>4 DEF DeallocFrame
<1>6. /\ g \in Frames /\ g.at = "unmap" /\ g.file = frame[o].file
      /\ g.addr = frame[o].addr
  BY <1>1 DEF Frames
<1> HIDE DEF g
<1>7. /\ frame' \in [Owners -> Frames] /\ frame'[o] = g
      /\ \A p \in Owners \ {o} : frame'[p] = frame[p]
  BY <1>1, <1>5, <1>6
<1>8. Holders' = Holders /\ Users' = Users
  BY <1>1, <1>6, <1>7 DEF Holders, Users
<1>9. PmTypeOK'
  BY <1>1, <1>3, <1>7 DEF PmTypeOK, Frames
<1>10. NamesOK'
  BY <1>1, <1>6, <1>7, <1>8 DEF NamesOK, Holders
<1>11. AddrsOK'
  <2>1. \A p \in Users \ {o} : fileMapping'[frame[p].addr] = fileMapping[frame[p].addr]
    BY <1>1, <1>2, <1>3 DEF AddrsOK
  <2>2. \A p \in Users : frame'[p].addr = frame[p].addr /\ frame'[p].file = frame[p].file
    BY <1>6, <1>7 DEF Users
  <2>3. \A p \in Users : Live(p)' => fileMapping'[frame'[p].addr] = frame'[p].file
    BY <1>6, <1>7, <2>1, <2>2 DEF AddrsOK, Live, At, Users
  <2> QED
    BY <1>1, <1>8, <2>2, <2>3 DEF AddrsOK
<1>12. MappedIsUsed'
  BY <1>1, <1>6, <1>7, <1>8 DEF MappedIsUsed, Users
<1> QED
  BY <1>9, <1>10, <1>11, <1>12

LEMMA UnmapInv ==
  ASSUME NEW o \in Owners, PmInv, Unmap(o)
  PROVE  PmInv'
<1> DEFINE k == IF mapped[frame[o].addr] = "ragged" THEN "ragged" ELSE "free"
<1> USE DEF PmInv
<1>1. /\ frame \in [Owners -> Frames] /\ frame[o].at = "unmap"
      /\ mapped \in [Addrs -> Kinds \cup {"free"}]
      /\ UNCHANGED <<fileId, files, fileMapping>>
  BY DEF PmTypeOK, Frames, Unmap, At
<1>2. /\ frame' \in [Owners -> Frames] /\ frame'[o].at = "remove"
      /\ frame'[o].file = frame[o].file
      /\ \A p \in Owners \ {o} : frame'[p] = frame[p]
  BY GoEffect DEF Unmap
<1>3. mapped' = [mapped EXCEPT ![frame[o].addr] = k]
  BY DEF Unmap
<1>4. k \in {"ragged", "free"} /\ k \in Kinds \cup {"free"}
  BY DEF Kinds
<1> HIDE DEF k
<1>5. Holders' = Holders /\ Users' = Users \ {o} /\ o \in Users
  BY <1>1, <1>2 DEF Holders, Users
<1>6. /\ frame[o].addr \in Addrs /\ mapped'[frame[o].addr] = k
      /\ mapped' \in [Addrs -> Kinds \cup {"free"}]
      /\ \A b \in Addrs \ {frame[o].addr} : mapped'[b] = mapped[b]
  BY <1>1, <1>3, <1>4, <1>5 DEF AddrsOK
<1>7. PmTypeOK'
  BY <1>1, <1>2, <1>6 DEF PmTypeOK, Frames
<1>8. NamesOK'
  BY <1>1, <1>2, <1>5 DEF NamesOK, Holders
<1>9. AddrsOK'
  <2>1. \A p \in Users' : frame'[p] = frame[p] /\ frame[p].addr # frame[o].addr
    BY <1>2, <1>5 DEF AddrsOK, Users
  <2> QED
    BY <1>1, <1>5, <1>6, <2>1 DEF AddrsOK, Live, At
<1>10. MappedIsUsed'
  <2>1. \A b \in Addrs \ {frame[o].addr} : mapped[b] \in Kinds \ {"ragged"} =>
          \E p \in Users \ {o} : frame[p].addr = b
    BY DEF MappedIsUsed
  <2>2. \A b \in Addrs \ {frame[o].addr} : mapped'[b] \in Kinds \ {"ragged"} =>
          \E p \in Users' : frame'[p].addr = b
    BY <1>2, <1>5, <1>6, <2>1 DEF Users
  <2>3. mapped'[frame[o].addr] \notin Kinds \ {"ragged"}
    BY <1>4, <1>6 DEF Kinds
  <2> QED
    BY <2>2, <2>3 DEF MappedIsUsed
<1> QED
  BY <1>7, <1>8, <1>9, <1>10

LEMMA RemoveFileInv ==
  ASSUME NEW o \in Owners, PmInv, RemoveFile(o)
  PROVE  PmInv'
<1> USE DEF PmInv
<1>1. /\ frame \in [Owners -> Frames] /\ frame[o].at = "remove"
      /\ UNCHANGED <<fileId, mapped, fileMapping>>
  BY DEF PmTypeOK, Frames, RemoveFile, At
<1>2. o \in Holders /\ o \notin Users
  BY <1>1 DEF Users, Holders
<1>3. frame[o].file \in files
  BY <1>1, <1>2 DEF NamesOK
<1>4. /\ files' \subseteq files /\ files \ files' \subseteq {frame[o].file}
      /\ frame' \in [Owners -> Frames] /\ frame'[o].at \in {"none", "refused"}
      /\ \A p \in Owners \ {o} : frame'[p] = frame[p]
  <2>1. CASE files' = files \ {frame[o].file} /\ frame' = [frame EXCEPT ![o] = NoFrame]
    BY <1>1, <2>1, NoFrameType
  <2>2. CASE UNCHANGED files /\ Go(o, "refused")
    BY <2>2, GoEffect
  <2> QED
    BY <1>3, <2>1, <2>2 DEF RemoveFile
<1>5. Holders' = Holders \ {o} /\ Users' = Users
  BY <1>1, <1>2, <1>4 DEF Holders, Users
<1>6. PmTypeOK'
  BY <1>1, <1>4 DEF PmTypeOK, Frames
<1>7. NamesOK'
  BY <1>1, <1>2, <1>4, <1>5 DEF NamesOK, Holders
<1>8. AddrsOK'
  BY <1>1, <1>2, <1>4, <1>5 DEF AddrsOK, Users, Live, At
<1>9. MappedIsUsed'
  BY <1>1, <1>2, <1>4, <1>5 DEF MappedIsUsed, Users
<1> QED
  BY <1>6, <1>7, <1>8, <1>9

LEMMA RestartInv == ASSUME PmInv, Restart PROVE PmInv'
<1>1. /\ fileId' = 0 /\ files' = files /\ mapped' = [a \in Addrs |-> "free"]
      /\ fileMapping' = [a \in Addrs |-> NoFile] /\ frame' = [o \in Owners |-> NoFrame]
  BY DEF Restart
<1>2. PmTypeOK'
  BY <1>1, NoFrameType DEF PmInv, PmTypeOK, Frames
<1>3. Holders' = {} /\ Users' = {}
  BY <1>1, NoFrameType DEF Holders, Users
<1>4. NamesOK' /\ AddrsOK'
  BY <1>3 DEF NamesOK, AddrsOK
<1>5. MappedIsUsed'
  BY <1>1 DEF MappedIsUsed, Kinds
<1> QED
  BY <1>2, <1>4, <1>5 DEF PmInv

LEMMA StepInv == PmInv /\ [PmNext]_pmVars => PmInv'
<1> SUFFICES ASSUME PmInv, [PmNext]_pmVars PROVE PmInv'
  OBVIOUS
<1>1. ASSUME NEW o \in Owners,
             AllocFrame(o) \/ AllocStep(o) \/ DeallocFrame(o) \/ FreeStep(o)
      PROVE  PmInv'
  BY <1>1, AllocFrameInv, CreateFileInv, MapInv, EnterFrameInv, DeallocFrameInv,
     UnmapInv, RemoveFileInv DEF AllocStep, FreeStep
<1>2. CASE UNCHANGED pmVars
  BY <1>2 DEF pmVars, PmInv, PmTypeOK, NamesOK, AddrsOK, MappedIsUsed, Holders, Users,
              Live, At
<1> QED
  BY <1>1, <1>2, RestartInv DEF PmNext

-----------------------------------------------------------------------------
\* Whatever addresses the system picks, whichever calls it refuses and wherever
\* the process dies: names and addresses stay distinct in pm_heap.rs.
THEOREM PmInvariant == PmSpec => []PmInv
  BY InitInv, StepInv, PTL DEF PmSpec

\* A frame in use is mapped, entered in file_mapping and backed by its own file:
\* the unwraps of dealloc_frame find the entry and the file, and panic only where
\* the system refuses to remove a file that is there.
THEOREM FramesAreTracked == PmSpec => []FramesTracked
<1>1. PmInv => FramesTracked
  <2> SUFFICES ASSUME PmInv PROVE FramesTracked
    OBVIOUS
  <2>1. \A o \in Owners : ~At(o, "panic")
    BY DEF PmInv, PmTypeOK, At
  <2>2. \A o \in Owners : Live(o) => o \in Users /\ o \in Holders /\ frame[o].at # "create"
    BY DEF Live, At, Users, Holders
  <2> QED
    BY <2>1, <2>2 DEF PmInv, NamesOK, AddrsOK, FramesTracked
<1> QED
  BY <1>1, PmInvariant, PTL

\* Memory that no frame uses is unmapped, but for the huge pages whose munmap
\* the system refuses.
THEOREM NothingElseIsMapped == PmSpec => []MappedIsUsed
<1>1. PmInv => MappedIsUsed
  BY DEF PmInv
<1> QED
  BY <1>1, PmInvariant, PTL

-----------------------------------------------------------------------------
(* The table on its frame.                                                 *)

\* Every step of the table is a step of the oid array and one of the heap.
LEMMA StepSplits ==
  [TNext]_tsVars => [Next]_vars /\ [PmNext]_pmVars
<1> USE StorageAssumption
<1>1. \A t \in Threads : UseTable(t) => Next /\ UNCHANGED pmVars
  BY DEF UseTable, Next
<1>2. TReset => Next /\ UNCHANGED pmVars
  BY DEF TReset, Next
<1>3. DropTable => Next /\ PmNext
  BY DEF DropTable, Next, PmNext
<1>4. TRestart => Next /\ PmNext
  BY DEF TRestart, Next, PmNext
<1>5. \A o \in Owners : DropOther(o) \/ PmStep(o) => UNCHANGED vars /\ PmNext
  BY DEF DropOther, PmStep, PmNext
<1>6. UNCHANGED tsVars => UNCHANGED vars /\ UNCHANGED pmVars
  BY DEF tsVars
<1> QED
  BY <1>1, <1>2, <1>3, <1>4, <1>5, <1>6 DEF TNext

\* Rids exist only while the table has its frame.
TableOK == live # {} => Live(Rows)

TInv == IndInv /\ PmInv /\ TableOK

\* What is left of a table that is dropped or whose process died.
LEMMA ResetEmpties == Reset => live' = {}
  BY DEF Reset, Fresh

\* A frame that is in use stays so until its owner frees it.
LEMMA LiveStays ==
  ASSUME NEW o \in Owners, NEW p \in Owners, PmTypeOK, Live(p),
         AllocFrame(o) \/ AllocStep(o) \/ FreeStep(o) \/ (DeallocFrame(o) /\ o # p)
  PROVE  Live(p)'
<1>1. frame \in [Owners -> Frames]
  BY DEF PmTypeOK, Frames
<1>2. CASE o # p
  <2>1. frame'[p] = frame[p]
    <3>1. CASE AllocFrame(o)
      BY <1>1, <1>2, <3>1 DEF AllocFrame
    <3>2. CASE CreateFile(o) \/ EnterFrame(o) \/ Unmap(o)
      BY <1>1, <1>2, <3>2 DEF CreateFile, EnterFrame, Unmap, Go
    <3>3. CASE Map(o)
      BY <1>1, <1>2, <3>3 DEF Map, Mmap, MmapFail, Go
    <3>4. CASE DeallocFrame(o)
      BY <1>1, <1>2, <3>4 DEF DeallocFrame
    <3>5. CASE RemoveFile(o)
      BY <1>1, <1>2, <3>5 DEF RemoveFile, Go
    <3> QED
      BY <3>1, <3>2, <3>3, <3>4, <3>5 DEF AllocStep, FreeStep
  <2> QED
    BY <2>1 DEF Live, At
<1>3. CASE o = p
  BY <1>3 DEF Live, At, AllocFrame, AllocStep, CreateFile, Map, EnterFrame, FreeStep,
              Unmap, RemoveFile
<1> QED
  BY <1>2, <1>3

LEMMA TableStep == TInv /\ [TNext]_tsVars => TInv'
<1> SUFFICES ASSUME TInv, [TNext]_tsVars PROVE TInv'
  OBVIOUS
<1>1. IndInv' /\ PmInv'
  BY StepSplits, StepKeeps, StepInv DEF TInv
<1>2. TableOK'
  <2>1. CASE \E t \in Threads : UseTable(t)
    BY <2>1 DEF UseTable, pmVars, TableOK, Live, At
  <2>2. CASE TReset \/ DropTable \/ TRestart
    BY <2>2, ResetEmpties DEF TReset, DropTable, TRestart, TableOK
  <2>3. ASSUME NEW o \in Owners, PmStep(o) \/ (DropOther(o) /\ o # Rows)
        PROVE  TableOK'
    <3>1. UNCHANGED live
      BY <2>3 DEF PmStep, DropOther, vars
    <3>2. Live(Rows) => Live(Rows)'
      BY <2>3, LiveStays, StorageAssumption DEF TInv, PmInv, PmStep, DropOther
    <3> QED
      BY <3>1, <3>2 DEF TInv, TableOK
  <2>4. CASE UNCHANGED tsVars
    BY <2>4 DEF tsVars, vars, pmVars, TInv, TableOK, Live, At
  <2> QED
    BY <2>1, <2>2, <2>3, <2>4 DEF TNext
<1> QED
  BY <1>1, <1>2 DEF TInv

LEMMA TableInitially == TInit => TInv
<1>1. TInit => TableOK
  BY DEF TInit, Init, Fresh, TableOK
<1> QED
  BY <1>1, InitInd, InitInv DEF TInit, TInv

\* The oid array and the heap keep their invariants when they are used together.
THEOREM TableInvariant == TSpec => []TInv
  BY TableInitially, TableStep, PTL DEF TSpec

\* For any number of threads, arenas and owners, and any addresses: a rid that
\* append returned has a row, in a frame that is in use.
THEOREM RowsAreInFrame == TSpec => []RowsInFrame
<1>1. TInv => RowsInFrame
  <2> SUFFICES ASSUME TInv, NEW r \in live PROVE Live(Rows) /\ r < StorageCap
    BY DEF RowsInFrame
  <2>1. Live(Rows)
    BY DEF TInv, TableOK
  <2>2. r \in 0..(ArenaCnt * N - 1)
    BY DEF TInv, IndInv, TypeOK, Items
  <2>3. ArenaCnt * N \in Int
    BY ArenaCntNat, HeapArrayAssumption
  <2> QED
    BY <2>1, <2>2, <2>3 DEF StorageCap
<1> QED
  BY <1>1, TableInvariant, PTL

\* The same of a table on its frame: its oid array runs out of space only when
\* the records asked for exist or wait to be used again.
THEOREM TableRecordsFit == TSpec => []RecordsFit
<1>1. TInit => Init
  BY DEF TInit
<1>2. [TNext]_tsVars => [Next]_vars
  BY StepSplits
<1> QED
  BY <1>1, <1>2, AllRecordsFit, PTL DEF TSpec, Spec
=============================================================================
