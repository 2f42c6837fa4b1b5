----------------------- MODULE InsertonlyTableProofs ------------------------
(***************************************************************************)
(* For any number of threads and blocks: an ArrayAllocator that is only    *)
(* allocated from gives every block to one owner, although threads read    *)
(* list words out of blocks that others own and overwrite, and it fails    *)
(* only when every block is given out.  For any sizes of tuples and pages: *)
(* an InsertonlyTable on such an allocator keeps every tuple once, and has *)
(* pages for as many tuples as it was built for.                           *)
(***************************************************************************)
EXTENDS InsertonlyTable, FiniteSetTheorems, WellFoundedInduction, TLAPS

\* The part of the invariant about the locals of one thread.
LocalsOK(t) ==
  /\ pc[t] \in {"idle", "next", "cas"}
  /\ pc[t] # "idle" => node[t] >= head /\ node[t] # Null
  /\ pc[t] = "cas" /\ node[t] = head => nxt[t] = head - 1
  /\ oom[t] => head = Null

\* new() builds the whole list and nobody owns anything.
LEMMA InitInd == Init => IndInv
<1> SUFFICES ASSUME Init PROVE IndInv
  OBVIOUS
<1> USE CapAssumption
<1>1. TypeOK
  BY DEF Init, TypeOK, Ptrs, Blocks, Null, Chain
<1>2. Given = {}
  BY DEF Init, Given
<1>3. \A b \in Blocks : b \in Given <=> b > head
  BY <1>2 DEF Init, Blocks
<1> QED
  BY <1>1, <1>3 DEF IndInv, Init, Chain, OneOwner, Blocks, Null

\* Loading the head gives a thread a block to try, or the truth that there is
\* none left.
LEMMA TryHeadKeeps ==
  ASSUME IndInv, NEW t \in Threads, TryHead(t), UNCHANGED <<head, next, nxt, owned>>
  PROVE  IndInv'
<1> USE CapAssumption
<1>1. TypeOK'
  BY DEF IndInv, TypeOK, TryHead, Goto, Ptrs
<1>2. \A u \in Threads : LocalsOK(u)'
  BY DEF IndInv, TypeOK, TryHead, Goto, LocalsOK, Ptrs, Blocks, Null
<1>3. Given' = Given /\ OneOwner'
  BY DEF IndInv, Given, OneOwner
<1> QED
  BY <1>1, <1>2, <1>3 DEF IndInv, LocalsOK

\* The step in which the abstract allocator gives t a free block.
LEMMA TakeKeeps ==
  ASSUME IndInv, NEW t \in Threads, pc[t] = "cas", head = node[t], Take(t),
         UNCHANGED <<next, nxt>>
  PROVE  IndInv' /\ Heap!Alloc(t)
<1> USE CapAssumption
<1>0. TypeOK
  BY DEF IndInv
<1>1. head \in Blocks /\ head' = head - 1 /\ node[t] \notin Given
  BY <1>0 DEF IndInv, TypeOK, Take, Ptrs, Null, Blocks
<1>2. owned' = [owned EXCEPT ![t] = @ \cup {node[t]}]
  BY DEF Take
<1>3. Given' = Given \cup {node[t]}
  BY <1>0, <1>2 DEF Given, TypeOK
<1>4. TypeOK'
  BY <1>0, <1>1 DEF TypeOK, Take, Goto, Ptrs, Blocks, Null
<1>5. \A b \in Blocks : (b \in Given)' <=> b > head'
  BY <1>0, <1>1, <1>3 DEF IndInv, Blocks
<1>6. \A b \in Blocks : b <= head' => next'[b] = b - 1
  BY <1>0, <1>1 DEF IndInv, Blocks
<1>7. \A u \in Threads : node[t] \notin owned[u]
  BY <1>1 DEF Given
<1>8. OneOwner'
  BY <1>0, <1>2, <1>7 DEF IndInv, OneOwner, TypeOK
<1>9. \A u \in Threads : LocalsOK(u)'
  <2> SUFFICES ASSUME NEW u \in Threads PROVE LocalsOK(u)'
    OBVIOUS
  <2>1. pc'[u] # "idle" => node'[u] >= head /\ head' < head
    BY <1>0, <1>1 DEF IndInv, TypeOK, Take, Goto, Blocks, Ptrs
  <2>2. oom'[u] => head = Null
    BY <1>0 DEF IndInv, TypeOK, Take
  <2> QED
    BY <1>0, <1>1, <2>1, <2>2 DEF IndInv, TypeOK, Take, Goto, LocalsOK, Blocks, Ptrs, Null
<1>10. Heap!Alloc(t)
  BY <1>0, <1>1, <1>2 DEF Take, Heap!Alloc, Heap!Given, Given, IndInv
<1> QED
  BY <1>4, <1>5, <1>6, <1>8, <1>9, <1>10 DEF IndInv, LocalsOK

\* A thread is told that memory is out only when all of it is given out.
LEMMA TryHeadMaps ==
  ASSUME IndInv, NEW t \in Threads, TryHead(t), UNCHANGED <<head, owned>>
  PROVE  Heap!Fail(t) \/ UNCHANGED Heap!vars
<1> USE CapAssumption
<1>1. CASE head = Null
  <2>1. Given = Blocks
    BY <1>1 DEF IndInv, TypeOK, Given, Blocks, Null
  <2> QED
    BY <1>1, <2>1 DEF TryHead, Heap!Fail, Heap!Given, Given
<1>2. CASE head # Null
  BY <1>2 DEF TryHead, Heap!vars
<1> QED
  BY <1>1, <1>2

-----------------------------------------------------------------------------
\* Every step keeps the invariant and is a step of the abstract allocator.
LEMMA StepKeeps ==
  ASSUME IndInv, [NextState]_vars
  PROVE  IndInv' /\ [Heap!Next]_(Heap!vars)
<1> USE CapAssumption
<1>0. TypeOK
  BY DEF IndInv
<1>1. ASSUME NEW t \in Threads, Alloc(t)
      PROVE  IndInv' /\ [Heap!Next]_(Heap!vars)
  BY <1>1, TryHeadKeeps, TryHeadMaps DEF Alloc, Heap!Next
<1>2. ASSUME NEW t \in Threads, AllocNext(t)
      PROVE  IndInv' /\ [Heap!Next]_(Heap!vars)
  <2>1. node[t] \in Blocks
    BY <1>0, <1>2 DEF IndInv, AllocNext, TypeOK, Ptrs
  <2>2. TypeOK'
    BY <1>0, <1>2, <2>1 DEF AllocNext, TypeOK, Goto
  <2>3. \A u \in Threads : LocalsOK(u)'
    BY <1>0, <1>2, <2>1 DEF IndInv, AllocNext, TypeOK, Goto, LocalsOK, Blocks
  <2>4. Given' = Given /\ OneOwner' /\ UNCHANGED Heap!vars
    BY <1>2 DEF IndInv, AllocNext, Given, OneOwner, Heap!vars
  <2> QED
    BY <1>2, <2>2, <2>3, <2>4 DEF IndInv, AllocNext, LocalsOK
<1>3. ASSUME NEW t \in Threads, AllocCas(t)
      PROVE  IndInv' /\ [Heap!Next]_(Heap!vars)
  <2>1. CASE head = node[t]
    BY <1>3, <2>1, TakeKeeps DEF AllocCas, Heap!Next
  <2>2. CASE head # node[t]
    BY <1>3, <2>2, TryHeadKeeps, TryHeadMaps DEF AllocCas, Heap!Next
  <2> QED
    BY <2>1, <2>2
<1>4. ASSUME NEW t \in Threads, UseBlock(t)
      PROVE  IndInv' /\ [Heap!Next]_(Heap!vars)
  <2>1. PICK b \in owned[t], p \in Ptrs : next' = [next EXCEPT ![b] = p]
    BY <1>4 DEF UseBlock
  <2>2. b \in Blocks /\ b > head
    BY <1>0, <2>1 DEF IndInv, TypeOK, Given
  <2>3. TypeOK'
    BY <1>0, <1>4, <2>1, <2>2 DEF UseBlock, TypeOK
  <2>4. \A d \in Blocks : d <= head => next'[d] = d - 1
    BY <1>0, <2>1, <2>2 DEF IndInv, TypeOK, Blocks, Ptrs, Null
  <2>5. \A u \in Threads : LocalsOK(u)'
    BY <1>4 DEF IndInv, UseBlock, LocalsOK
  <2>6. Given' = Given /\ OneOwner' /\ UNCHANGED Heap!vars
    BY <1>4 DEF IndInv, UseBlock, Given, OneOwner, Heap!vars
  <2> QED
    BY <1>4, <2>3, <2>4, <2>5, <2>6 DEF IndInv, UseBlock, LocalsOK
<1>5. CASE Reset
  <2>1. TypeOK'
    BY <1>0, <1>5 DEF Reset, TypeOK, Ptrs, Blocks, Null, Chain
  <2>2. Given' = {} /\ OneOwner'
    BY <1>5 DEF Reset, Given, OneOwner
  <2>3. \A u \in Threads : LocalsOK(u)'
    BY <1>5 DEF Reset, LocalsOK
  <2>4. Heap!Reset
    BY <1>5 DEF Reset, Heap!Reset
  <2> QED
    BY <1>5, <2>1, <2>2, <2>3, <2>4 DEF IndInv, Reset, Chain, Blocks, LocalsOK, Heap!Next
<1>6. CASE UNCHANGED vars
  BY <1>6 DEF vars, IndInv, TypeOK, Given, OneOwner, Heap!vars
<1> QED
  BY <1>1, <1>2, <1>3, <1>4, <1>5, <1>6 DEF NextState, Step

-----------------------------------------------------------------------------
\* The invariant that makes stale list words harmless holds in every behaviour
\* of the alloc-only allocator, for any number of threads and blocks.
THEOREM FreeListInvariant == Spec => []IndInv
<1>1. IndInv /\ [NextState]_vars => IndInv'
  BY StepKeeps
<1> QED
  BY InitInd, <1>1, PTL DEF Spec

\* Without dealloc, alloc() is an allocator: one owner per block, and out of
\* memory only when every block is given out.
THEOREM FreeListRefinement == Spec => ImplementsAllocator
<1>1. Init => Heap!Init
  BY DEF Init, Heap!Init
<1>2. IndInv /\ [NextState]_vars => [Heap!Next]_(Heap!vars)
  BY StepKeeps
<1> QED
  BY <1>1, <1>2, FreeListInvariant, PTL DEF Spec, ImplementsAllocator, Heap!Spec

-----------------------------------------------------------------------------
(* InsertonlyTable: what a thread has in its buffer and its pages.           *)

\* A page has room for a tuple, and there are finitely many pages.
LEMMA PageFacts ==
  /\ PageCap \in Nat /\ PageCap >= 1
  /\ IsFiniteSet(Blocks) /\ Cardinality(Blocks) = Cap
  <1>1. PageSize \in Nat /\ TupleSize \in Nat /\ 1 <= TupleSize /\ TupleSize <= PageSize
    BY InsertonlyAssumption
  <1>2. PageCap \in Nat /\ PageCap >= 1  BY <1>1 DEF PageCap
  <1> QED  BY <1>2, CapAssumption, FS_Interval DEF Blocks

\* One page more holds PageCap tuples more.
LEMMA OneMore ==
  ASSUME NEW p \in Nat, NEW k \in Nat
  PROVE  p * (k + 1) = p * k + p /\ p * k \in Nat
  OBVIOUS

\* A thread whose buffer, call and pages stay the same keeps what it has.
LEMMA SameThread ==
  ASSUME NEW t \in Threads, ThreadOK(t),
         stage'[t] = stage[t], pc'[t] = pc[t], oom'[t] = oom[t], node'[t] = node[t],
         cnt'[t] = cnt[t], buf'[t] = buf[t], owned'[t] = owned[t]
  PROVE  ThreadOK(t)' /\ Hand(t)' = Hand(t) /\ Stored(t)' = Stored(t)
  BY DEF ThreadOK, Hand, Stored

\* Pages keep what they have when none is written: the pages that are given out
\* meanwhile are empty.
LEMMA SamePages ==
  ASSUME PagesOK, page' = page, Given \subseteq Given', Given' \subseteq Blocks,
         \A b \in Given' \ Given : page[b] = <<>>,
         \A t \in Threads : Stored(t)' = Stored(t)
                            /\ owned[t] \ Hand(t) \subseteq (owned[t] \ Hand(t))'
  PROVE  PagesOK'
  <1>1. ASSUME NEW x  PROVE InPages(x)' = InPages(x)
    <2>1. \A b \in Given' \ Given : DOMAIN page[b] = {}  OBVIOUS
    <2> QED  BY <2>1 DEF InPages
  <1>2. \A b \in Blocks : page'[b] # <<>> => \E t \in Threads : b \in (owned[t] \ Hand(t))'
    BY DEF PagesOK
  <1>3. \A b \in Blocks : \A i \in DOMAIN page'[b] :
          \E t \in Threads : \E n \in 1..Stored(t)' : page'[b][i] = <<t, n>>
    BY DEF PagesOK
  <1>4. ASSUME NEW t \in Threads, NEW n \in 1..Stored(t)'
        PROVE  \E b \in Given' : InPages(<<t, n>>)' = {b}
    <2>1. n \in 1..Stored(t)  OBVIOUS
    <2>2. PICK b \in Given : InPages(<<t, n>>) = {b}  BY <2>1 DEF PagesOK
    <2> QED  BY <1>1, <2>2
  <1> QED  BY <1>2, <1>3, <1>4 DEF PagesOK

\* insert into a buffer with room
LEMMA BufferedKeeps ==
  ASSUME TableInv, NEW t \in Threads, InsertBuffered(t)
  PROVE  TableTypeOK' /\ PagesOK' /\ \A u \in Threads : ThreadOK(u)'
  <1>0. TableTypeOK /\ TypeOK /\ ThreadOK(t)  BY DEF TableInv, IndInv
  <1> DEFINE x == Tuple(t)
  <1>1. x \in Threads \X Nat /\ x = <<t, cnt[t] + 1>> /\ cnt[t] \in Nat /\ buf[t] \in Seq(Threads \X Nat)
    BY <1>0 DEF TableTypeOK, Tuple
  <1>2. /\ buf'[t] = Append(buf[t], x) /\ cnt'[t] = cnt[t] + 1
        /\ \A u \in Threads \ {t} : buf'[u] = buf[u] /\ cnt'[u] = cnt[u]
    BY <1>0 DEF InsertBuffered, Inserted, TableTypeOK
  <1>3. UNCHANGED <<head, next, pc, node, nxt, owned, oom, page, stage>>
    BY DEF InsertBuffered, vars
  <1>4. /\ Len(buf'[t]) = Len(buf[t]) + 1 /\ Len(buf[t]) \in Nat
        /\ buf'[t] \in Seq(Threads \X Nat)
        /\ \A i \in 1..Len(buf[t]) : buf'[t][i] = buf[t][i]
        /\ buf'[t][Len(buf[t]) + 1] = x
    <2> HIDE DEF x
    <2> QED  BY <1>1, <1>2
  <1>5. Stored(t)' = Stored(t) /\ Hand(t)' = Hand(t)
    <2>1. cnt'[t] - Len(buf'[t]) = cnt[t] - Len(buf[t])
      <3> HIDE DEF x
      <3>1. cnt'[t] = cnt[t] + 1 /\ cnt[t] \in Nat  BY <1>1, <1>2
      <3>2. Len(buf'[t]) = Len(buf[t]) + 1 /\ Len(buf[t]) \in Nat  BY <1>4
      <3> QED  BY <3>1, <3>2
    <2> QED  BY <1>3, <2>1 DEF Stored, Hand
  <1>6. ThreadOK(t)'
    <2>1. stage[t] = "ready" /\ Len(buf[t]) < PageCap  BY DEF InsertBuffered, Fits
    <2>2. \A i \in 1..Len(buf'[t]) : buf'[t][i] = <<t, Stored(t) + i>>
      <3> SUFFICES ASSUME NEW i \in 1..Len(buf'[t])  PROVE buf'[t][i] = <<t, Stored(t) + i>>
        OBVIOUS
      <3>1. CASE i <= Len(buf[t])
        <4>1. i \in 1..Len(buf[t])  BY <1>4, <3>1
        <4>2. buf[t][i] = <<t, Stored(t) + i>>  BY <1>0, <4>1 DEF ThreadOK
        <4> QED  BY <1>4, <4>1, <4>2
      <3>2. CASE i > Len(buf[t])
        <4>1. i = Len(buf[t]) + 1  BY <1>4, <3>2
        <4>2. Stored(t) + i = cnt[t] + 1  BY <1>1, <1>4, <4>1 DEF Stored
        <4> QED  BY <1>1, <1>4, <4>1, <4>2
      <3>3. i <= Len(buf[t]) \/ i > Len(buf[t])  BY <1>4
      <3> QED  BY <3>1, <3>2, <3>3
    <2>3. Len(buf'[t]) <= PageCap  BY <1>4, <2>1, PageFacts
    <2>4. stage'[t] = "ready" /\ pc'[t] = pc[t] /\ oom'[t] = oom[t] /\ owned'[t] = owned[t]  BY <1>3, <2>1
    <2> HIDE DEF x
    <2> QED  BY <1>0, <1>5, <2>1, <2>2, <2>3, <2>4 DEF ThreadOK
  <1>7. \A u \in Threads \ {t} : ThreadOK(u)' /\ Hand(u)' = Hand(u) /\ Stored(u)' = Stored(u)
    BY <1>2, <1>3, SameThread DEF TableInv
  <1>8. TableTypeOK'
    <2>1. buf' \in [Threads -> Seq(Threads \X Nat)]
      <3>1. \A u \in Threads : buf'[u] \in Seq(Threads \X Nat)  BY <1>0, <1>2, <1>4 DEF TableTypeOK
      <3>2. DOMAIN buf' = Threads /\ buf' = [u \in DOMAIN buf' |-> buf'[u]]
        BY <1>0 DEF InsertBuffered, TableTypeOK
      <3> QED  BY <3>1, <3>2
    <2>2. cnt' \in [Threads -> Nat]  BY <1>0 DEF InsertBuffered, Inserted, TableTypeOK
    <2> QED  BY <1>0, <1>3, <2>1, <2>2 DEF TableTypeOK
  <1>9. PagesOK'
    <2>1. Given' = Given /\ Given \subseteq Blocks  BY <1>0, <1>3 DEF Given, TypeOK
    <2>2. \A u \in Threads : Stored(u)' = Stored(u) /\ Hand(u)' = Hand(u)  BY <1>5, <1>7
    <2> QED  BY <1>3, <2>1, <2>2, SamePages DEF TableInv
  <1> QED  BY <1>6, <1>7, <1>8, <1>9

\* A thread that has the answer of a load of the head: a block to try, or none.
LEMMA TryKeeps ==
  ASSUME TableInv, NEW t \in Threads, TryHead(t), UNCHANGED <<owned, buf, page, cnt>>,
         stage' = [stage EXCEPT ![t] = "alloc"],
         Hand(t) = {}, ~oom[t], Len(buf[t]) = PageCap
  PROVE  TableTypeOK' /\ PagesOK' /\ \A u \in Threads : ThreadOK(u)'
  <1>0. TableTypeOK /\ TypeOK /\ ThreadOK(t)  BY DEF TableInv, IndInv
  <1>1. /\ stage'[t] = "alloc"
        /\ (pc'[t] = "idle" /\ oom'[t]) \/ (pc'[t] = "next" /\ ~oom'[t])
        /\ \A u \in Threads \ {t} : /\ stage'[u] = stage[u] /\ pc'[u] = pc[u]
                                    /\ oom'[u] = oom[u] /\ node'[u] = node[u]
    BY <1>0 DEF TryHead, Goto, TableTypeOK, TypeOK
  <1>2. Hand(t)' = {} /\ Stored(t)' = Stored(t)  BY <1>1 DEF Hand, Stored
  <1>3. ThreadOK(t)'  BY <1>0, <1>1, <1>2 DEF ThreadOK
  <1>4. \A u \in Threads \ {t} : ThreadOK(u)' /\ Hand(u)' = Hand(u) /\ Stored(u)' = Stored(u)
    BY <1>1, SameThread DEF TableInv
  <1>5. TableTypeOK'  BY <1>0 DEF TableTypeOK
  <1>6. PagesOK'
    <2>1. Given' = Given /\ Given \subseteq Blocks  BY <1>0 DEF Given, TypeOK
    <2>2. \A u \in Threads : Stored(u)' = Stored(u) /\ Hand(u)' = Hand(u)  BY <1>2, <1>4
    <2> QED  BY <2>1, <2>2, SamePages DEF TableInv
  <1> QED  BY <1>3, <1>4, <1>5, <1>6

\* alloc, to its end
LEMMA AllocKeeps ==
  ASSUME TableInv, NEW t \in Threads, AllocStep(t)
  PROVE  TableTypeOK' /\ PagesOK' /\ \A u \in Threads : ThreadOK(u)'
  <1>0. TableTypeOK /\ TypeOK /\ ThreadOK(t) /\ IndInv  BY DEF TableInv, IndInv
  <1>1. UNCHANGED <<buf, page, cnt, stage>>  BY DEF AllocStep, tableVars
  <1>2. pc[t] # "idle" /\ stage[t] = "alloc" /\ ~oom[t] /\ Hand(t) = {} /\ Len(buf[t]) = PageCap
    BY <1>0 DEF AllocStep, Step, AllocNext, AllocCas, ThreadOK, TableTypeOK, Hand
  <1>3. CASE AllocNext(t)
    <2>1. /\ pc'[t] = "cas" /\ UNCHANGED <<owned, oom, node>>
          /\ \A u \in Threads \ {t} : pc'[u] = pc[u]
      BY <1>0, <1>3 DEF AllocNext, Goto, TypeOK
    <2>2. Hand(t)' = {} /\ Stored(t)' = Stored(t)  BY <1>1, <2>1 DEF Hand, Stored
    <2>3. ThreadOK(t)'  BY <1>0, <1>1, <1>2, <2>1, <2>2 DEF ThreadOK
    <2>4. \A u \in Threads \ {t} : ThreadOK(u)' /\ Hand(u)' = Hand(u) /\ Stored(u)' = Stored(u)
      BY <1>1, <2>1, SameThread DEF TableInv
    <2>5. Given' = Given /\ Given \subseteq Blocks  BY <1>0, <2>1 DEF Given, TypeOK
    <2>6. \A u \in Threads : Stored(u)' = Stored(u) /\ Hand(u)' = Hand(u)  BY <1>2, <2>2, <2>4
    <2>7. PagesOK'  BY <1>1, <2>1, <2>5, <2>6, SamePages DEF TableInv
    <2> QED  BY <1>0, <1>1, <2>3, <2>4, <2>7 DEF TableTypeOK
  <1>4. CASE AllocCas(t) /\ head # node[t]
    <2>1. TryHead(t) /\ owned' = owned  BY <1>4 DEF AllocCas, Take
    <2>2. stage' = [stage EXCEPT ![t] = "alloc"]  BY <1>0, <1>1, <1>2 DEF TableTypeOK
    <2> QED  BY <1>1, <1>2, <2>1, <2>2, TryKeeps
  <1>5. CASE AllocCas(t) /\ head = node[t]
    <2>1. Take(t) /\ pc[t] = "cas"  BY <1>5 DEF AllocCas
    <2>2. node[t] \in Blocks /\ node[t] \notin Given
      BY <1>0, <1>5, <2>1, CapAssumption DEF IndInv, TypeOK, Ptrs, Blocks, Null
    <2>3. /\ pc'[t] = "idle" /\ ~oom'[t] /\ node' = node
          /\ owned'[t] = owned[t] \cup {node[t]}
          /\ \A u \in Threads \ {t} : pc'[u] = pc[u] /\ oom'[u] = oom[u] /\ owned'[u] = owned[u]
      BY <1>0, <2>1 DEF Take, Goto, TypeOK
    <2>4. Hand(t)' = {node[t]} /\ Stored(t)' = Stored(t)  BY <1>1, <1>2, <2>3 DEF Hand, Stored
    <2>5. node[t] \notin owned[t]  BY <2>2 DEF Given
    <2>6. (owned[t] \ Hand(t))' = owned[t] \ Hand(t)  BY <1>2, <2>3, <2>4, <2>5
    <2>7. ThreadOK(t)'  BY <1>0, <1>1, <1>2, <2>3, <2>4, <2>6 DEF ThreadOK
    <2>8. \A u \in Threads \ {t} : ThreadOK(u)' /\ Hand(u)' = Hand(u) /\ Stored(u)' = Stored(u)
      BY <1>1, <2>3, SameThread DEF TableInv
    <2>9. Given' = Given \cup {node[t]} /\ Given' \subseteq Blocks
      <3>1. owned' = [owned EXCEPT ![t] = @ \cup {node[t]}]  BY <2>1 DEF Take
      <3>2. Given' = Given \cup {node[t]}  BY <1>0, <3>1 DEF Given, TypeOK
      <3>3. Given \subseteq Blocks  BY <1>0 DEF Given, TypeOK
      <3> QED  BY <2>2, <3>2, <3>3
    <2>10. page[node[t]] = <<>>
      BY <2>2 DEF TableInv, PagesOK, Given
    <2>11. \A u \in Threads : Stored(u)' = Stored(u) /\ owned[u] \ Hand(u) \subseteq (owned[u] \ Hand(u))'
      BY <2>3, <2>4, <2>6, <2>8
    <2>12. PagesOK'  BY <1>1, <2>9, <2>10, <2>11, SamePages DEF TableInv
    <2> QED  BY <1>0, <1>1, <2>7, <2>8, <2>12 DEF TableTypeOK
  <1> QED  BY <1>3, <1>4, <1>5 DEF AllocStep, Step

\* insert with a full buffer begins to allocate a page.
LEMMA FullKeeps ==
  ASSUME TableInv, NEW t \in Threads, InsertFull(t)
  PROVE  TableTypeOK' /\ PagesOK' /\ \A u \in Threads : ThreadOK(u)'
  <1>0. TableTypeOK /\ ThreadOK(t)  BY DEF TableInv
  <1>1. stage[t] = "ready" /\ ~(Len(buf[t]) < PageCap)  BY DEF InsertFull, Fits
  <1>2. Len(buf[t]) \in Nat /\ Len(buf[t]) <= PageCap  BY <1>0 DEF TableTypeOK, ThreadOK
  <1>3. Len(buf[t]) = PageCap  BY <1>1, <1>2, PageFacts
  <1>4. Hand(t) = {} /\ ~oom[t]  BY <1>0, <1>1 DEF Hand, ThreadOK
  <1> QED  BY <1>3, <1>4, TryKeeps DEF InsertFull, Alloc

\* The buffer is copied to the page, which has been empty.
LEMMA CopyKeeps ==
  ASSUME TableInv, NEW t \in Threads, CopyPage(t)
  PROVE  TableTypeOK' /\ PagesOK' /\ \A u \in Threads : ThreadOK(u)'
  <1>0. TableTypeOK /\ TypeOK /\ ThreadOK(t) /\ OneOwner  BY DEF TableInv, IndInv
  <1> PICK b : b = node[t]  OBVIOUS
  <1>1. stage[t] = "alloc" /\ pc[t] = "idle" /\ ~oom[t] /\ Hand(t) = {b} /\ b \in owned[t] /\ b \in Blocks
    BY <1>0 DEF CopyPage, Hand, ThreadOK, TypeOK
  <1>2. /\ UNCHANGED <<head, pc, node, nxt, owned, oom>>
        /\ page'[b] = buf[t] /\ \A d \in Blocks \ {b} : page'[d] = page[d]
        /\ cnt'[t] = cnt[t] + 1 /\ stage'[t] = "ready" /\ buf'[t] = <<Tuple(t)>>
        /\ \A u \in Threads \ {t} : buf'[u] = buf[u] /\ cnt'[u] = cnt[u] /\ stage'[u] = stage[u]
    BY <1>0, <1>1 DEF CopyPage, Refill, Inserted, TableTypeOK
  <1>3. Len(buf[t]) = PageCap /\ cnt[t] \in Nat /\ PageCap \in Nat /\ PageCap >= 1
    BY <1>0, <1>1, PageFacts DEF ThreadOK, TableTypeOK
  <1>4. Len(buf'[t]) = 1 /\ buf'[t][1] = <<t, cnt[t] + 1>>  BY <1>2 DEF Tuple
  <1>5. Stored(t)' = cnt[t] /\ Stored(t) = cnt[t] - PageCap /\ Hand(t)' = {}
    BY <1>2, <1>3, <1>4 DEF Stored, Hand
  <1>6. ThreadOK(t)'
    <2>1. \A i \in 1..Len(buf'[t]) : buf'[t][i] = <<t, Stored(t)' + i>>
      <3> SUFFICES ASSUME NEW i \in 1..1  PROVE buf'[t][i] = <<t, cnt[t] + i>>  BY <1>4, <1>5
      <3>1. i = 1  OBVIOUS
      <3> QED  BY <1>4, <3>1
    <2>2. Stored(t)' = PageCap * Cardinality(owned[t])
      <3>1. IsFiniteSet(owned[t])  BY <1>0, PageFacts, FS_Subset DEF TypeOK
      <3>2. Cardinality(owned[t] \ {b}) = Cardinality(owned[t]) - 1 /\ Cardinality(owned[t]) \in Nat
            /\ Cardinality(owned[t] \ {b}) \in Nat
        BY <1>1, <3>1, FS_RemoveElement, FS_CardinalityType
      <3> PICK k : k = Cardinality(owned[t] \ {b})  OBVIOUS
      <3>3. k \in Nat /\ Cardinality(owned[t]) = k + 1  BY <3>2
      <3>4. Stored(t) = PageCap * k  BY <1>0, <1>1 DEF ThreadOK
      <3>5. PageCap * (k + 1) = PageCap * k + PageCap  BY <1>3, <3>3, OneMore
      <3>6. Stored(t)' = Stored(t) + PageCap  BY <1>3, <1>5
      <3> QED  BY <3>3, <3>4, <3>5, <3>6
    <2> QED  BY <1>0, <1>1, <1>2, <1>3, <1>4, <1>5, <2>1, <2>2 DEF ThreadOK
  <1>7. \A u \in Threads \ {t} : ThreadOK(u)' /\ Hand(u)' = Hand(u) /\ Stored(u)' = Stored(u)
    BY <1>2, SameThread DEF TableInv
  <1>8. TableTypeOK'
    <2>1. buf' \in [Threads -> Seq(Threads \X Nat)]
      <3>1. <<Tuple(t)>> \in Seq(Threads \X Nat)  BY <1>0 DEF Tuple, TableTypeOK
      <3>2. buf' = [buf EXCEPT ![t] = <<Tuple(t)>>]  BY DEF CopyPage, Refill
      <3> QED  BY <1>0, <3>1, <3>2 DEF TableTypeOK
    <2>2. page' \in [Blocks -> Seq(Threads \X Nat)]
      <3>1. page' = [page EXCEPT ![node[t]] = buf[t]] /\ buf[t] \in Seq(Threads \X Nat)
        BY <1>0 DEF CopyPage, TableTypeOK
      <3> QED  BY <1>0, <3>1 DEF TableTypeOK
    <2>3. cnt' \in [Threads -> Nat] /\ stage' \in [Threads -> {"ready", "alloc", "panic"}]
      BY <1>0 DEF CopyPage, Inserted, TableTypeOK
    <2> QED  BY <2>1, <2>2, <2>3 DEF TableTypeOK
  <1>9. page[b] = <<>>
    BY <1>0, <1>1 DEF TableInv, PagesOK, OneOwner
  <1>10. Given' = Given /\ b \in Given /\ Given \subseteq Blocks  BY <1>0, <1>1, <1>2 DEF Given, TypeOK
  <1>11. /\ DOMAIN buf[t] = 1..PageCap
         /\ \A i \in 1..PageCap : buf[t][i] = <<t, Stored(t) + i>>
    <2>1. buf[t] \in Seq(Threads \X Nat)  BY <1>0 DEF TableTypeOK
    <2>2. DOMAIN buf[t] = 1..Len(buf[t])  BY <2>1
    <2>3. \A i \in 1..Len(buf[t]) : buf[t][i] = <<t, Stored(t) + i>>  BY <1>0 DEF ThreadOK
    <2> QED  BY <1>3, <2>2, <2>3
  <1>12. \A d \in Blocks : page'[d] # <<>> => \E u \in Threads : d \in (owned[u] \ Hand(u))'
    <2> SUFFICES ASSUME NEW d \in Blocks \ {b}, page[d] # <<>>
                 PROVE  \E u \in Threads : d \in owned[u] \ Hand(u)'
      BY <1>1, <1>2, <1>5
    <2>1. PICK u \in Threads : d \in owned[u] \ Hand(u)  BY DEF TableInv, PagesOK
    <2> QED  BY <1>1, <1>5, <1>7, <2>1
  <1>13. ASSUME NEW d \in Blocks, NEW i \in DOMAIN page'[d]
         PROVE  \E u \in Threads : \E n \in 1..Stored(u)' : page'[d][i] = <<u, n>>
    <2>1. CASE d = b
      <3>1. i \in 1..PageCap /\ page'[d][i] = <<t, Stored(t) + i>>  BY <1>2, <1>11, <1>13, <2>1
      <3>2. Stored(t) + i \in 1..Stored(t)'
        <4>1. Stored(t) = PageCap * Cardinality(owned[t] \ Hand(t))  BY <1>0 DEF ThreadOK
        <4>2. IsFiniteSet(owned[t] \ Hand(t))  BY <1>0, PageFacts, FS_Subset DEF TypeOK
        <4>3. Cardinality(owned[t] \ Hand(t)) \in Nat  BY <4>2, FS_CardinalityType
        <4>4. Stored(t) \in Nat  BY <1>3, <4>1, <4>3, OneMore
        <4> QED  BY <1>3, <1>5, <3>1, <4>4
      <3> QED  BY <3>1, <3>2
    <2>2. CASE d # b
      <3>1. page'[d] = page[d]  BY <1>2, <2>2
      <3>2. PICK u \in Threads, n \in Nat : n \in 1..Stored(u) /\ page[d][i] = <<u, n>>
        BY <1>13, <3>1 DEF TableInv, PagesOK
      <3>3. n \in 1..Stored(u)'
        <4>1. CASE u = t  BY <1>3, <1>5, <3>2, <4>1
        <4>2. CASE u # t  BY <1>7, <3>2, <4>2
        <4> QED  BY <4>1, <4>2
      <3> QED  BY <3>1, <3>2, <3>3
    <2> QED  BY <2>1, <2>2
  <1>14. ASSUME NEW u \in Threads, NEW n \in 1..Stored(u)'
         PROVE  \E d \in Given' : InPages(<<u, n>>)' = {d}
    <2>1. CASE u = t /\ n > Stored(t)
      <3> PICK i : i = n - Stored(t)  OBVIOUS
      <3>1. i \in 1..PageCap /\ Stored(t) + i = n  BY <1>3, <1>5, <2>1
      <3>2. page'[b][i] = <<u, n>> /\ i \in DOMAIN page'[b]  BY <1>2, <1>11, <2>1, <3>1
      <3>3. ASSUME NEW d \in Given, d # b, NEW j \in DOMAIN page'[d]  PROVE page'[d][j] # <<u, n>>
        <4>1. page'[d] = page[d] /\ d \in Blocks  BY <1>2, <1>10, <3>3
        <4>2. PICK v \in Threads, m \in Nat : m \in 1..Stored(v) /\ page[d][j] = <<v, m>>
          BY <3>3, <4>1 DEF TableInv, PagesOK
        <4>3. v = u /\ m = n => FALSE  BY <1>3, <1>5, <2>1, <4>2
        <4> QED  BY <4>1, <4>2, <4>3
      <3>4. InPages(<<u, n>>)' = {b}  BY <1>10, <3>2, <3>3 DEF InPages
      <3> QED  BY <1>10, <3>4
    <2>2. CASE ~(u = t /\ n > Stored(t))
      <3>1. n \in 1..Stored(u)
        <4>1. CASE u = t  BY <1>3, <1>5, <2>2, <4>1
        <4>2. CASE u # t  BY <1>7, <4>2
        <4> QED  BY <4>1, <4>2
      <3>2. PICK d \in Given : InPages(<<u, n>>) = {d}  BY <3>1 DEF TableInv, PagesOK
      <3>3. b \notin InPages(<<u, n>>)  BY <1>9 DEF InPages
      <3>4. ASSUME NEW i \in DOMAIN page'[b]  PROVE page'[b][i] # <<u, n>>
        <4>1. i \in 1..PageCap /\ page'[b][i] = <<t, Stored(t) + i>>  BY <1>2, <1>11, <3>4
        <4>2. u = t /\ n = Stored(t) + i => FALSE  BY <1>3, <1>5, <2>2, <4>1
        <4> QED  BY <4>1, <4>2
      <3>5. InPages(<<u, n>>)' = InPages(<<u, n>>)
        BY <1>2, <1>10, <3>3, <3>4 DEF InPages
      <3> QED  BY <1>10, <3>2, <3>5
    <2> QED  BY <2>1, <2>2
  <1>15. PagesOK'  BY <1>12, <1>13, <1>14 DEF PagesOK
  <1> QED  BY <1>6, <1>7, <1>8, <1>15

\* Out of pages: the buffer stays as it is.
LEMMA OutKeeps ==
  ASSUME TableInv, NEW t \in Threads, OutOfPages(t)
  PROVE  TableTypeOK' /\ PagesOK' /\ \A u \in Threads : ThreadOK(u)'
  <1>0. TableTypeOK /\ TypeOK /\ ThreadOK(t)  BY DEF TableInv, IndInv
  <1>1. /\ UNCHANGED <<head, next, pc, node, nxt, owned, oom, buf, page, cnt>>
        /\ stage[t] = "alloc" /\ pc[t] = "idle" /\ oom[t] /\ stage'[t] = "panic"
        /\ \A u \in Threads \ {t} : stage'[u] = stage[u]
    BY <1>0 DEF OutOfPages, vars, TableTypeOK
  <1>2. Hand(t) = {} /\ Hand(t)' = {} /\ Stored(t)' = Stored(t)  BY <1>1 DEF Hand, Stored
  <1>3. ThreadOK(t)'  BY <1>0, <1>1, <1>2 DEF ThreadOK
  <1>4. \A u \in Threads \ {t} : ThreadOK(u)' /\ Hand(u)' = Hand(u) /\ Stored(u)' = Stored(u)
    BY <1>1, SameThread DEF TableInv
  <1>5. TableTypeOK'  BY <1>0, <1>1 DEF TableTypeOK, OutOfPages
  <1>6. PagesOK'
    <2>1. Given' = Given /\ Given \subseteq Blocks  BY <1>0, <1>1 DEF Given, TypeOK
    <2>2. \A u \in Threads : Stored(u)' = Stored(u) /\ Hand(u)' = Hand(u)  BY <1>2, <1>4
    <2> QED  BY <1>1, <2>1, <2>2, SamePages DEF TableInv
  <1> QED  BY <1>3, <1>4, <1>5, <1>6

\* A table without a tuple.
Fresh ==
  /\ buf = [t \in Threads |-> <<>>] /\ page = [b \in Blocks |-> <<>>]
  /\ cnt = [t \in Threads |-> 0] /\ stage = [t \in Threads |-> "ready"]
  /\ owned = [t \in Threads |-> {}] /\ oom = [t \in Threads |-> FALSE]
  /\ \A t \in Threads : pc[t] = "idle"

\* new and reset leave such a table.
LEMMA FreshOK ==
  Fresh => TableTypeOK /\ PagesOK /\ \A u \in Threads : ThreadOK(u)
  <1> SUFFICES ASSUME Fresh  PROVE TableTypeOK /\ PagesOK /\ \A u \in Threads : ThreadOK(u)
    OBVIOUS
  <1>0. <<>> \in Seq(Threads \X Nat) /\ Len(<<>>) = 0 /\ DOMAIN <<>> = {}  OBVIOUS
  <1>1. TableTypeOK  BY <1>0 DEF Fresh, TableTypeOK
  <1>2. ASSUME NEW t \in Threads  PROVE ThreadOK(t) /\ Stored(t) = 0
    <2>1. stage[t] = "ready" /\ pc[t] = "idle" /\ ~oom[t] /\ buf[t] = <<>> /\ cnt[t] = 0 /\ owned[t] = {}
      BY DEF Fresh
    <2>2. Hand(t) = {} /\ Stored(t) = 0 /\ Len(buf[t]) = 0
      <3>1. Len(buf[t]) = 0
        <4>1. buf[t] = <<>>  BY <2>1
        <4>2. Len(<<>>) = 0  OBVIOUS
        <4> QED  BY <4>1, <4>2, Zenon
      <3>2. cnt[t] = 0  BY DEF Fresh
      <3>3. cnt[t] - Len(buf[t]) = 0  BY <3>1, <3>2
      <3> QED  BY <2>1, <3>1, <3>3 DEF Hand, Stored
    <2>3. Cardinality(owned[t] \ Hand(t)) = 0
      <3>1. owned[t] \ Hand(t) = {}  BY <2>1
      <3> QED  BY <3>1, FS_EmptySet
    <2>4. PageCap * 0 = 0  BY PageFacts
    <2> QED  BY <2>1, <2>2, <2>3, <2>4, PageFacts DEF ThreadOK
  <1>3. \A b \in Blocks : page[b] = <<>>  BY DEF Fresh
  <1>4. PagesOK  BY <1>0, <1>2, <1>3 DEF PagesOK
  <1> QED  BY <1>1, <1>2, <1>4

\* new
LEMMA InitTable == TableInit => TableInv
  <1> SUFFICES ASSUME TableInit  PROVE TableInv  OBVIOUS
  <1>1. Fresh  BY DEF TableInit, Init, Fresh
  <1> QED  BY <1>1, InitInd, FreshOK DEF TableInit, TableInv

\* Every step of a table is one of its allocator, or leaves the allocator alone:
\* the copy of a buffer uses a block that the thread owns.
LEMMA TableSteps ==
  ASSUME TableInv, [TableNext]_<<vars, tableVars>>
  PROVE  [NextState]_vars
  <1>1. ASSUME NEW t \in Threads, CopyPage(t)  PROVE UseBlock(t)
    <2>1. stage[t] = "alloc" /\ pc[t] = "idle" /\ ~oom[t]  BY <1>1 DEF CopyPage
    <2>2. node[t] \in owned[t]  BY <2>1 DEF TableInv, ThreadOK, Hand
    <2> QED  BY <1>1, <2>1, <2>2 DEF CopyPage, UseBlock
  <1> QED
    BY <1>1 DEF TableNext, InsertBuffered, InsertFull, AllocStep, OutOfPages, TableReset, NextState

\* Every step keeps the invariant.
LEMMA TableKeeps ==
  ASSUME TableInv, [TableNext]_<<vars, tableVars>>
  PROVE  TableInv'
  <1>1. IndInv'  BY TableSteps, StepKeeps DEF TableInv
  <1>2. CASE TableReset
    <2>1. Fresh'  BY <1>2 DEF TableReset, Reset, Fresh
    <2>2. (TableTypeOK /\ PagesOK /\ \A u \in Threads : ThreadOK(u))'  BY <2>1, FreshOK, PTL
    <2> QED  BY <1>1, <2>2 DEF TableInv
  <1>3. CASE UNCHANGED <<vars, tableVars>>
    <2>0. UNCHANGED <<head, next, pc, node, nxt, owned, oom, buf, page, cnt, stage>>
      BY <1>3 DEF vars, tableVars
    <2>1. \A u \in Threads : ThreadOK(u)' /\ Hand(u)' = Hand(u) /\ Stored(u)' = Stored(u)
      BY <2>0, SameThread DEF TableInv
    <2>2. Given' = Given /\ Given \subseteq Blocks  BY <2>0 DEF Given, TableInv, IndInv, TypeOK
    <2>3. PagesOK'  BY <2>0, <2>1, <2>2, SamePages DEF TableInv
    <2>4. TableTypeOK'  BY <2>0 DEF TableInv, TableTypeOK
    <2> QED  BY <1>1, <2>1, <2>3, <2>4 DEF TableInv
  <1>4. ASSUME NEW t \in Threads,
               InsertBuffered(t) \/ InsertFull(t) \/ AllocStep(t) \/ CopyPage(t) \/ OutOfPages(t)
        PROVE  TableInv'
    BY <1>1, <1>4, BufferedKeeps, FullKeeps, AllocKeeps, CopyKeeps, OutKeeps DEF TableInv
  <1> QED  BY <1>2, <1>3, <1>4 DEF TableNext

\* For any number of threads and any sizes of tuples and pages, buffers, pages
\* and allocator agree.
THEOREM TableInvariant == TableSpec => []TableInv
  <1>1. TableInv /\ [TableNext]_<<vars, tableVars>> => TableInv'  BY TableKeeps
  <1> QED  BY InitTable, <1>1, PTL DEF TableSpec

\* Pages come from an allocator: one owner for each, out of memory only when all
\* are taken.
THEOREM TableRefinement == TableSpec => ImplementsAllocator
  <1>1. TableInit => Heap!Init  BY DEF TableInit, Init, Heap!Init
  <1>2. TableInv /\ [TableNext]_<<vars, tableVars>> => [Heap!Next]_(Heap!vars)
    BY TableSteps, StepKeeps DEF TableInv
  <1> QED
    BY <1>1, <1>2, TableInvariant, PTL DEF TableSpec, ImplementsAllocator, Heap!Spec

\* Every tuple whose insert returned is kept, once, in a page or in the buffer
\* of its thread: TuplesKept.
THEOREM TuplesStay == TableSpec => []TuplesKept
  <1>1. ASSUME TableInv  PROVE TuplesKept
    <2>0. TableTypeOK /\ TypeOK  BY <1>1 DEF TableInv, IndInv
    <2> SUFFICES ASSUME NEW t \in Threads, NEW n \in 1..(PageCap * (Cap + 1)), n <= cnt[t]
                 PROVE  Cardinality(InPages(<<t, n>>)) + Cardinality(InBuffers(<<t, n>>)) = 1
      BY DEF TuplesKept
    <2>1. \A u \in Threads : /\ Len(buf[u]) \in Nat /\ cnt[u] \in Nat /\ Len(buf[u]) <= PageCap
                              /\ \A i \in 1..Len(buf[u]) : buf[u][i] = <<u, Stored(u) + i>>
                              /\ Stored(u) \in Int
      <3> SUFFICES ASSUME NEW u \in Threads
                   PROVE  /\ Len(buf[u]) \in Nat /\ cnt[u] \in Nat /\ Len(buf[u]) <= PageCap
                          /\ \A i \in 1..Len(buf[u]) : buf[u][i] = <<u, Stored(u) + i>>
                          /\ Stored(u) \in Int
        OBVIOUS
      <3>1. buf[u] \in Seq(Threads \X Nat) /\ cnt[u] \in Nat  BY <2>0 DEF TableTypeOK
      <3>2. Len(buf[u]) \in Nat  BY <3>1
      <3>3. Stored(u) \in Int  BY <3>1, <3>2 DEF Stored
      <3> QED  BY <1>1, <3>1, <3>2, <3>3 DEF TableInv, ThreadOK
    <2>s. Stored(t) \in Int
      <3>1. Len(buf[t]) \in Nat /\ cnt[t] \in Nat  BY <2>1
      <3> QED  BY <3>1 DEF Stored
    <2>2. n \in Nat /\ n >= 1
      <3>1. PageCap * (Cap + 1) \in Nat  BY PageFacts, CapAssumption, OneMore
      <3> QED  BY <3>1
    <2>3. ASSUME NEW s  PROVE s \in InBuffers(<<t, n>>) <=>
                   s \in Threads \X (1..PageCap) /\ s[1] = t /\ s[2] <= Len(buf[t]) /\ Stored(t) + s[2] = n
      <3>1. ASSUME NEW u \in Threads, NEW i \in 1..PageCap, i <= Len(buf[u])
            PROVE  (buf[u][i] = <<t, n>>) <=> (u = t /\ Stored(t) + i = n)
        <4>1. i \in 1..Len(buf[u])  BY <2>1, <3>1, PageFacts
        <4>2. buf[u][i] = <<u, Stored(u) + i>>  BY <2>1, <4>1
        <4> QED  BY <4>2
      <3>2. ASSUME NEW u \in Threads, NEW i \in 1..PageCap, s = <<u, i>>
            PROVE  s \in InBuffers(<<t, n>>) <=> (i <= Len(buf[u]) /\ u = t /\ Stored(t) + i = n)
        BY <3>1, <3>2 DEF InBuffers
      <3>3. s \in InBuffers(<<t, n>>) => s \in Threads \X (1..PageCap)  BY DEF InBuffers
      <3> QED  BY <3>2, <3>3
    <2>4. CASE n <= Stored(t)
      <3>1. n \in 1..Stored(t)  BY <2>1, <2>2, <2>4
      <3>2. PICK b : InPages(<<t, n>>) = {b}  BY <1>1, <3>1 DEF TableInv, PagesOK
      <3>3. InBuffers(<<t, n>>) = {}
        <4>1. ASSUME NEW s, s \in InBuffers(<<t, n>>)  PROVE FALSE
          <5>1. s[2] \in 1..PageCap /\ Stored(t) + s[2] = n  BY <2>3, <4>1
          <5>2. s[2] \in Int /\ s[2] >= 1  BY <5>1, PageFacts
          <5> QED  BY <2>2, <2>4, <2>s, <5>1, <5>2
        <4> QED  BY <4>1
      <3>4. Cardinality(InPages(<<t, n>>)) = 1  BY <3>2, FS_Singleton
      <3>5. Cardinality(InBuffers(<<t, n>>)) = 0  BY <3>3, FS_EmptySet
      <3> QED  BY <3>4, <3>5
    <2>5. CASE n > Stored(t)
      <3> PICK i : i = n - Stored(t)  OBVIOUS
      <3>1. i \in 1..Len(buf[t]) /\ Stored(t) + i = n
        <4>1. Stored(t) = cnt[t] - Len(buf[t])  BY DEF Stored
        <4> QED  BY <2>1, <2>2, <2>5, <4>1
      <3>2. InBuffers(<<t, n>>) = {<<t, i>>}
        <4>1. ASSUME NEW s  PROVE s \in InBuffers(<<t, n>>) <=> s = <<t, i>>
          <5>1. i \in 1..PageCap  BY <2>1, <3>1, PageFacts
          <5>2. ASSUME NEW u \in Threads, NEW j \in 1..PageCap, s = <<u, j>>
                PROVE  s \in InBuffers(<<t, n>>) <=> (u = t /\ j = i)
            <6>1. s[1] = u /\ s[2] = j  BY <5>2
            <6> QED  BY <2>1, <2>3, <3>1, <5>2, <6>1, PageFacts
          <5>3. s \in InBuffers(<<t, n>>) => \E u \in Threads, j \in 1..PageCap : s = <<u, j>>
            BY DEF InBuffers
          <5> QED  BY <5>1, <5>2, <5>3
        <4> QED  BY <4>1
      <3>3. InPages(<<t, n>>) = {}
        <4>1. ASSUME NEW b \in Given, NEW j \in DOMAIN page[b], page[b][j] = <<t, n>>  PROVE FALSE
          <5>1. b \in Blocks  BY <2>0 DEF Given, TypeOK
          <5>2. PICK u \in Threads, m \in Nat : m \in 1..Stored(u) /\ page[b][j] = <<u, m>>
            BY <1>1, <4>1, <5>1 DEF TableInv, PagesOK
          <5>3. u = t /\ m = n  BY <4>1, <5>2
          <5>4. n <= Stored(t)  BY <2>s, <5>2, <5>3
          <5> QED  BY <2>2, <2>s, <2>5, <5>4
        <4> QED  BY <4>1 DEF InPages
      <3>4. Cardinality(InBuffers(<<t, n>>)) = 1  BY <3>2, FS_Singleton
      <3>5. Cardinality(InPages(<<t, n>>)) = 0  BY <3>3, FS_EmptySet
      <3> QED  BY <3>4, <3>5
    <2>6. n <= Stored(t) \/ n > Stored(t)  BY <2>s, <2>2
    <2> QED  BY <2>4, <2>5, <2>6
  <1>2. TableInv => TuplesKept  BY <1>1
  <1> QED  BY <1>2, TableInvariant, PTL

-----------------------------------------------------------------------------
(* Sums over threads.                                                          *)

\* A set of natural numbers has a least element.
LEMMA LeastNat ==
  ASSUME NEW T, T \subseteq Nat, T # {}
  PROVE  \E m \in T : \A y \in T : m <= y
  <1>1. PICK m \in T : \A y \in T : ~(<<y, m>> \in OpToRel(<, Nat))
    BY WFMin, NatLessThanWellFounded
  <1>2. \A y \in T : ~(y < m)  BY <1>1 DEF OpToRel
  <1> QED  BY <1>2

\* The equation of the sum g of f over the subsets of a set.
SumEq(f, g, s) ==
  g[s] = IF s = {} THEN 0
         ELSE f[CHOOSE x \in s : TRUE] + g[s \ {CHOOSE x \in s : TRUE}]

\* The terms are numbers.
Numbers(f, Ds) == \A d \in Ds : f[d] \in Int

IsSum(f, Ds, g) == g \in [SUBSET Ds -> Int] /\ \A s \in SUBSET Ds : SumEq(f, g, s)

\* A set without the element that is taken first is smaller by one.
LEMMA OneLess ==
  ASSUME NEW s, IsFiniteSet(s), s # {}
  PROVE  /\ (CHOOSE x \in s : TRUE) \in s
         /\ IsFiniteSet(s \ {CHOOSE x \in s : TRUE})
         /\ Cardinality(s \ {CHOOSE x \in s : TRUE}) = Cardinality(s) - 1
         /\ Cardinality(s) \in Nat /\ Cardinality(s) >= 1
         /\ Cardinality(s \ {CHOOSE x \in s : TRUE}) \in Nat
  <1> PICK e : e = CHOOSE x \in s : TRUE  OBVIOUS
  <1>1. e \in s  OBVIOUS
  <1>2. Cardinality(s) \in Nat  BY FS_CardinalityType
  <1>3. IsFiniteSet(s \ {e}) /\ Cardinality(s \ {e}) = Cardinality(s) - 1 /\ Cardinality(s \ {e}) \in Nat
    BY <1>1, FS_RemoveElement, FS_CardinalityType
  <1> QED  BY <1>1, <1>2, <1>3

\* Induction over the subsets of a finite set, in the order they are summed.
LEMMA SubsetInduction ==
  ASSUME NEW Ds, IsFiniteSet(Ds), NEW G, {} \in G,
         \A s \in SUBSET Ds : s # {} /\ s \ {CHOOSE x \in s : TRUE} \in G => s \in G
  PROVE  SUBSET Ds \subseteq G
  <1> DEFINE Bad == {Cardinality(s) : s \in (SUBSET Ds) \ G}
  <1>0. \A s \in SUBSET Ds : IsFiniteSet(s) /\ Cardinality(s) \in Nat  BY FS_Subset, FS_CardinalityType
  <1>1. ASSUME NEW z \in SUBSET Ds, z \notin G  PROVE FALSE
    <2>1. Bad \subseteq Nat /\ Bad # {}  BY <1>0, <1>1
    <2>2. PICK m \in Bad : \A y \in Bad : m <= y
      <3> HIDE DEF Bad
      <3> QED  BY <2>1, LeastNat
    <2>3. PICK s \in (SUBSET Ds) \ G : m = Cardinality(s)  BY <2>2
    <2>4. s # {}  BY <2>3
    <2> PICK r : r = s \ {CHOOSE x \in s : TRUE}  OBVIOUS
    <2>5. Cardinality(r) = Cardinality(s) - 1 /\ Cardinality(s) \in Nat  BY <1>0, <2>3, <2>4, OneLess
    <2>6. r \in SUBSET Ds /\ r \notin G  BY <2>3, <2>4
    <2>7. Cardinality(r) \in Bad  BY <2>6
    <2>8. Cardinality(s) <= Cardinality(r)  BY <2>2, <2>3, <2>7
    <2> QED  BY <2>5, <2>8
  <1> QED  BY <1>1

\* A sum over the sets of at most n elements exists, by induction on n.
LEMMA SumStage ==
  ASSUME NEW f, NEW Ds, IsFiniteSet(Ds), \A d \in Ds : f[d] \in Int, NEW n \in Nat
  PROVE  \E g \in [{s \in SUBSET Ds : Cardinality(s) <= n} -> Int] :
           \A s \in SUBSET Ds : Cardinality(s) <= n => SumEq(f, g, s)
  <1> DEFINE Stage(k) == {s \in SUBSET Ds : Cardinality(s) <= k}
             Good(k) == \E g \in [Stage(k) -> Int] : \A s \in Stage(k) : SumEq(f, g, s)
             Bad == {k \in Nat : ~Good(k)}
  <1>0. \A s \in SUBSET Ds : IsFiniteSet(s) /\ Cardinality(s) \in Nat  BY FS_Subset, FS_CardinalityType
  <1>1. ASSUME Bad # {}  PROVE FALSE
    <2>1. PICK m \in Bad : \A y \in Bad : m <= y
      <3>1. Bad \subseteq Nat  OBVIOUS
      <3> HIDE DEF Bad
      <3> QED  BY <1>1, <3>1, LeastNat
    <2>2. CASE m = 0
      <3>1. \A s \in Stage(0) : s = {}
        BY <1>0, FS_EmptySet
      <3> DEFINE g == [s \in Stage(0) |-> 0]
      <3>2. g \in [Stage(0) -> Int] /\ \A s \in Stage(0) : SumEq(f, g, s)
        BY <3>1 DEF SumEq
      <3>3. Good(0)  BY <3>2
      <3> QED  BY <2>1, <2>2, <3>3
    <2>3. CASE m # 0
      <3>1. m \in Nat /\ m - 1 \in Nat /\ m - 1 < m  BY <2>1, <2>3
      <3>2. Good(m - 1)
        <4>1. m - 1 \notin Bad
          <5> HIDE DEF Bad
          <5> QED  BY <2>1, <3>1
        <4> QED  BY <3>1, <4>1
      <3>3. PICK g \in [Stage(m - 1) -> Int] : \A s \in Stage(m - 1) : SumEq(f, g, s)  BY <3>2
      <3> DEFINE v(s) == f[CHOOSE x \in s : TRUE] + g[s \ {CHOOSE x \in s : TRUE}]
                 h == [s \in Stage(m) |-> IF s = {} THEN 0 ELSE v(s)]
      <3>4. ASSUME NEW s \in Stage(m), s # {}
            PROVE  /\ s \ {CHOOSE x \in s : TRUE} \in Stage(m - 1)
                   /\ s \ {CHOOSE x \in s : TRUE} \in Stage(m)
                   /\ (CHOOSE x \in s : TRUE) \in Ds
                   /\ v(s) \in Int
        <4>1. IsFiniteSet(s) /\ s \in SUBSET Ds /\ Cardinality(s) <= m  BY <1>0
        <4> PICK e : e = CHOOSE x \in s : TRUE  OBVIOUS
        <4>2. e \in s /\ Cardinality(s \ {e}) = Cardinality(s) - 1 /\ Cardinality(s) \in Nat /\ Cardinality(s \ {e}) \in Nat
          BY <3>4, <4>1, OneLess
        <4>3. s \ {e} \in Stage(m - 1) /\ s \ {e} \in Stage(m)  BY <3>1, <4>1, <4>2
        <4>4. g[s \ {e}] \in Int /\ f[e] \in Int  BY <4>1, <4>2, <4>3
        <4> QED  BY <4>1, <4>2, <4>3, <4>4
      <3>5. h \in [Stage(m) -> Int]  BY <3>4
      <3>6. \A s \in Stage(m - 1) : s \in Stage(m) /\ h[s] = g[s]
        <4> SUFFICES ASSUME NEW s \in Stage(m - 1)  PROVE s \in Stage(m) /\ h[s] = g[s]  OBVIOUS
        <4>1. s \in Stage(m)  BY <1>0, <3>1
        <4>2. SumEq(f, g, s)  BY <3>3
        <4> QED  BY <4>1, <4>2 DEF SumEq
      <3>7. ASSUME NEW s \in Stage(m)  PROVE SumEq(f, h, s)
        <4>1. CASE s = {}  BY <4>1 DEF SumEq
        <4>2. CASE s # {}
          <5>1. h[s] = v(s)  BY <4>2
          <5>2. h[s \ {CHOOSE x \in s : TRUE}] = g[s \ {CHOOSE x \in s : TRUE}]  BY <3>4, <3>6, <4>2
          <5> QED  BY <4>2, <5>1, <5>2 DEF SumEq
        <4> QED  BY <4>1, <4>2
      <3>8. Good(m)  BY <3>5, <3>7
      <3> QED  BY <2>1, <3>8
    <2> QED  BY <2>2, <2>3
  <1>2. Good(n)  BY <1>1
  <1> QED  BY <1>2

\* The sum is the value at the whole set of a function that satisfies the
\* equation on every subset.
LEMMA SumExists ==
  ASSUME NEW f, NEW Ds, IsFiniteSet(Ds), Numbers(f, Ds)
  PROVE  \E g : IsSum(f, Ds, g) /\ TupleSum(f, Ds) = g[Ds]
  <1> DEFINE Is(g) == g = [s \in SUBSET Ds |-> IF s = {} THEN 0
                             ELSE f[CHOOSE x \in s : TRUE] + g[s \ {CHOOSE x \in s : TRUE}]]
  <1>1. Cardinality(Ds) \in Nat  BY FS_CardinalityType
  <1>2. \A s \in SUBSET Ds : IsFiniteSet(s) /\ Cardinality(s) <= Cardinality(Ds)  BY FS_Subset
  <1>3. PICK h \in [SUBSET Ds -> Int] : \A s \in SUBSET Ds : SumEq(f, h, s)
    <2>1. {s \in SUBSET Ds : Cardinality(s) <= Cardinality(Ds)} = SUBSET Ds  BY <1>2
    <2> QED  BY <1>1, <1>2, <2>1, SumStage DEF Numbers
  <1>4. h = [s \in SUBSET Ds |-> h[s]]  OBVIOUS
  <1>5. Is(h)  BY <1>3, <1>4 DEF SumEq
  <1> DEFINE c == CHOOSE g : Is(g)
  <1>6. Is(c)  BY <1>5
  <1>7. TupleSum(f, Ds) = c[Ds]
    BY DEF TupleSum, MapThenSumSet, MapThenFoldSet
  <1> HIDE DEF c
  <1>8. DOMAIN c = SUBSET Ds /\ \A s \in SUBSET Ds : SumEq(f, c, s)  BY <1>6 DEF SumEq
  <1>9. c[Ds] = h[Ds] /\ \A s \in SUBSET Ds : c[s] \in Int
    <2> DEFINE G == {s \in SUBSET Ds : c[s] = h[s]}
    <2>1. {} \in G  BY <1>3, <1>8 DEF SumEq
    <2>2. ASSUME NEW s \in SUBSET Ds, s # {}, s \ {CHOOSE x \in s : TRUE} \in G  PROVE s \in G
      BY <1>3, <1>8, <2>2 DEF SumEq
    <2>3. SUBSET Ds \subseteq G
      <3> HIDE DEF G
      <3> QED  BY <2>1, <2>2, SubsetInduction
    <2> QED  BY <1>3, <2>3
  <1>10. c = [s \in SUBSET Ds |-> c[s]]  BY <1>6
  <1>11. c \in [SUBSET Ds -> Int]  BY <1>9, <1>10
  <1> QED  BY <1>7, <1>8, <1>11 DEF IsSum

\* A table holds what it was built for once there is a tuple for every place in
\* its pages and in one buffer more.
LEMMA Enough == PageCap * (Cap + 1) >= TableCap
  <1> PICK p, q, s, c, k : p = PageSize /\ q = TupleSize /\ s = PageCap /\ c = TableCap /\ k = Cap
    OBVIOUS
  <1>1. p \in Nat /\ q \in Nat /\ c \in Nat /\ k \in Nat /\ 1 <= q /\ q <= p
    BY InsertonlyAssumption, CapAssumption
  <1>2. s = p \div q /\ k = (c * q + p - 1) \div p /\ k <= s /\ s \in Nat
    BY InsertonlyAssumption, PageFacts DEF PageCap, PageCount
  <1>3. p < s * q + q  BY <1>1, <1>2
  <1>4. c * q <= k * p
    <2>1. c * q \in Nat /\ k * p \in Nat /\ c * q + p - 1 \in Nat  BY <1>1
    <2> PICK m : m = c * q + p - 1  OBVIOUS
    <2>2. m \in Nat /\ p > 0 /\ k = m \div p  BY <1>1, <1>2, <2>1
    <2>3. m < k * p + p
      <3>1. m < p * (m \div p) + p  BY <1>1, <2>2
      <3> QED  BY <1>1, <2>2, <3>1
    <2> QED  BY <1>1, <2>1, <2>3
  <1>5. s * q \in Nat /\ p <= s * q + q - 1  BY <1>1, <1>2, <1>3
  <1>6. k * p <= k * (s * q + q)  BY <1>1, <1>5
  <1>7. k * (s * q + q) = (k * s + k) * q  BY <1>1, <1>2
  <1>8. c <= k * s + k
    <2>1. k * s + k \in Nat /\ c * q <= (k * s + k) * q
      <3>1. k * s \in Nat /\ (k * s + k) * q \in Int /\ c * q \in Int /\ k * p \in Int  BY <1>1, <1>2
      <3> QED  BY <1>1, <1>4, <1>6, <1>7, <3>1
    <2> PICK n : n = k * s + k  OBVIOUS
    <2>2. n \in Nat /\ c * q <= n * q  BY <2>1
    <2>3. ~(c > n)
      <3>1. ASSUME c >= n + 1  PROVE FALSE
        <4>1. c * q >= (n + 1) * q  BY <1>1, <2>2, <3>1
        <4>2. (n + 1) * q = n * q + q /\ n * q \in Nat /\ c * q \in Nat  BY <1>1, <2>2
        <4> QED  BY <1>1, <2>2, <4>1, <4>2
      <3> QED  BY <1>1, <2>2, <3>1
    <2> QED  BY <1>1, <2>2, <2>3
  <1>9. s * (k + 1) = k * s + s /\ k * s \in Nat  BY <1>1, <1>2
  <1> QED  BY <1>1, <1>2, <1>8, <1>9

\* What threads have inserted fills the pages they own, and the buffer of one
\* that found no page.
LEMMA PagesAreFull ==
  ASSUME TableInv, NEW t \in Threads, stage[t] = "panic"
  PROVE  TupleSum(cnt, Threads) >= PageCap * Cardinality(Given) + PageCap
  <1>0. TableTypeOK /\ TypeOK /\ OneOwner /\ IsFiniteSet(Threads)
    BY InsertonlyAssumption DEF TableInv, IndInv
  <1>1. PICK F : IsSum(cnt, Threads, F) /\ TupleSum(cnt, Threads) = F[Threads]
    <2>1. Numbers(cnt, Threads)  BY <1>0 DEF Numbers, TableTypeOK
    <2> QED  BY <1>0, <2>1, SumExists
  <1> DEFINE Own(s) == UNION {owned[u] : u \in s}
             More(s) == IF t \in s THEN PageCap ELSE 0
             G == {s \in SUBSET Threads : F[s] >= PageCap * Cardinality(Own(s)) + More(s)}
  <1>2. \A s \in SUBSET Threads : IsFiniteSet(Own(s)) /\ Cardinality(Own(s)) \in Nat /\ F[s] \in Int
    <2> SUFFICES ASSUME NEW s \in SUBSET Threads
                 PROVE  IsFiniteSet(Own(s)) /\ Cardinality(Own(s)) \in Nat /\ F[s] \in Int
      OBVIOUS
    <2>1. Own(s) \subseteq Blocks  BY <1>0 DEF TypeOK
    <2>2. F[s] \in Int  BY <1>1 DEF IsSum
    <2> HIDE DEF Own
    <2> QED  BY <2>1, <2>2, PageFacts, FS_Subset, FS_CardinalityType
  <1>3. ASSUME NEW u \in Threads
        PROVE  /\ IsFiniteSet(owned[u]) /\ Cardinality(owned[u]) \in Nat /\ cnt[u] \in Nat
               /\ cnt[u] >= PageCap * Cardinality(owned[u]) + (IF u = t THEN PageCap ELSE 0)
    <2>0. ThreadOK(u) /\ Len(buf[u]) \in Nat /\ cnt[u] \in Nat
      <3>1. buf[u] \in Seq(Threads \X Nat) /\ cnt[u] \in Nat  BY <1>0 DEF TableTypeOK
      <3> QED  BY <3>1 DEF TableInv
    <2>1. IsFiniteSet(owned[u])  BY <1>0, PageFacts, FS_Subset DEF TypeOK
    <2>2. Cardinality(owned[u]) \in Nat  BY <2>1, FS_CardinalityType
    <2>3. cnt[u] - Len(buf[u]) = PageCap * Cardinality(owned[u] \ Hand(u))
      BY <2>0 DEF ThreadOK, Stored
    <2>4. CASE Hand(u) = {}
      <3>1. owned[u] \ Hand(u) = owned[u]  BY <2>4
      <3>2. PageCap * Cardinality(owned[u]) \in Nat  BY <2>2, PageFacts
      <3>3. u = t => Len(buf[u]) = PageCap  BY <2>0 DEF ThreadOK
      <3> PICK x, l : x = PageCap * Cardinality(owned[u]) /\ l = Len(buf[u])  OBVIOUS
      <3>4. x \in Nat /\ l \in Nat /\ cnt[u] \in Nat  BY <2>0, <3>2
      <3>5. cnt[u] - l = x  BY <2>3, <3>1
      <3>6. cnt[u] >= x + (IF u = t THEN PageCap ELSE 0)
        <4>1. CASE u = t
          <5>1. l = PageCap  BY <3>3, <4>1
          <5> QED  BY <3>4, <3>5, <4>1, <5>1
        <4>2. CASE u # t  BY <3>4, <3>5, <4>2
        <4> QED  BY <4>1, <4>2
      <3> QED  BY <2>0, <2>1, <2>2, <3>6
    <2>5. CASE Hand(u) # {}
      <3>1. Hand(u) = {node[u]} /\ u # t /\ node[u] \in owned[u] /\ Len(buf[u]) = PageCap
        BY <2>0, <2>5 DEF Hand, ThreadOK
      <3>2. Cardinality(owned[u] \ Hand(u)) = Cardinality(owned[u]) - 1
            /\ Cardinality(owned[u] \ Hand(u)) \in Nat
        BY <2>1, <3>1, FS_RemoveElement, FS_CardinalityType
      <3> PICK k : k = Cardinality(owned[u] \ Hand(u))  OBVIOUS
      <3>3. k \in Nat /\ Cardinality(owned[u]) = k + 1  BY <2>2, <3>2
      <3>4. PageCap * (k + 1) = PageCap * k + PageCap /\ PageCap * k \in Nat  BY <3>3, PageFacts, OneMore
      <3>5. cnt[u] = PageCap + PageCap * k  BY <2>0, <2>3, <3>1, <3>4, PageFacts
      <3>6. PageCap * Cardinality(owned[u]) = PageCap * (k + 1)  BY <3>3
      <3>7. cnt[u] >= PageCap * Cardinality(owned[u])  BY <3>4, <3>5, <3>6, PageFacts
      <3>8. PageCap * Cardinality(owned[u]) \in Nat  BY <3>4, <3>6, PageFacts
      <3>9. cnt[u] >= PageCap * Cardinality(owned[u]) + 0  BY <3>7, <3>8
      <3> QED  BY <2>0, <2>1, <2>2, <3>1, <3>9
    <2> QED  BY <2>4, <2>5
  <1>4. {} \in G
    <2>1. Own({}) = {} /\ More({}) = 0
      <3>1. {owned[u] : u \in {}} = {}  OBVIOUS
      <3> QED  BY <3>1
    <2>2. Cardinality(Own({})) = 0
      <3> HIDE DEF Own
      <3>1. Cardinality({}) = 0  BY FS_EmptySet
      <3> QED  BY <2>1, <3>1
    <2>3. F[{}] = 0  BY <1>1 DEF IsSum, SumEq
    <2>4. PageCap * 0 = 0  BY PageFacts
    <2> QED  BY <2>1, <2>2, <2>3, <2>4
  <1>5. ASSUME NEW s \in SUBSET Threads, s # {}, s \ {CHOOSE x \in s : TRUE} \in G  PROVE s \in G
    <2> PICK u, r : u = (CHOOSE x \in s : TRUE) /\ r = s \ {u}  OBVIOUS
    <2>1. u \in s /\ u \in Threads /\ r \in SUBSET Threads /\ r \in G /\ u \notin r /\ s = r \cup {u}
      BY <1>5
    <2>2. F[s] = cnt[u] + F[r]  BY <1>1, <1>5 DEF IsSum, SumEq
    <2>3. Own(s) = Own(r) \cup owned[u]
      <3>1. s = r \cup {u}  BY <2>1
      <3>2. {owned[v] : v \in s} = {owned[v] : v \in r} \cup {owned[u]}  BY <3>1
      <3> QED  BY <3>2
    <2>4. Own(r) \cap owned[u] = {}  BY <1>0, <2>1 DEF OneOwner
    <2>5. Cardinality(Own(s)) = Cardinality(Own(r)) + Cardinality(owned[u])
      <3>1. IsFiniteSet(Own(r)) /\ IsFiniteSet(owned[u]) /\ Cardinality(Own(r)) \in Nat  BY <1>2, <1>3, <2>1
      <3>2. Cardinality(owned[u]) \in Nat  BY <1>3, <2>1
      <3> HIDE DEF Own
      <3>3. Cardinality({}) = 0  BY FS_EmptySet
      <3>4. Cardinality(Own(r) \cup owned[u]) =
              Cardinality(Own(r)) + Cardinality(owned[u]) - Cardinality(Own(r) \cap owned[u])
        BY <3>1, FS_Union
      <3>5. Cardinality(Own(r) \cap owned[u]) = 0  BY <2>4, <3>3
      <3>6. Cardinality(Own(s)) = Cardinality(Own(r) \cup owned[u])  BY <2>3
      <3> QED  BY <3>1, <3>2, <3>4, <3>5, <3>6
    <2>6. More(s) = More(r) + (IF u = t THEN PageCap ELSE 0) /\ More(r) \in Nat  BY <2>1, PageFacts
    <2> PICK a, b : a = Cardinality(Own(r)) /\ b = Cardinality(owned[u])  OBVIOUS
    <2>7. a \in Nat /\ b \in Nat /\ F[r] \in Int /\ cnt[u] \in Nat  BY <1>2, <1>3, <2>1
    <2>8. PageCap * (a + b) = PageCap * a + PageCap * b /\ PageCap * a \in Nat /\ PageCap * b \in Nat
      BY <2>7, PageFacts
    <2>9. F[r] >= PageCap * a + More(r)  BY <2>1
    <2>10. cnt[u] >= PageCap * b + (IF u = t THEN PageCap ELSE 0)  BY <1>3, <2>1
    <2>11. F[s] >= PageCap * (a + b) + More(s)
      <3> PICK m, e : m = More(r) /\ e = (IF u = t THEN PageCap ELSE 0)  OBVIOUS
      <3>1. m \in Nat /\ e \in Nat /\ More(s) = m + e  BY <2>6, PageFacts
      <3>2. F[r] >= PageCap * a + m /\ cnt[u] >= PageCap * b + e  BY <2>9, <2>10
      <3> HIDE DEF More, Own
      <3> QED  BY <2>2, <2>7, <2>8, <3>1, <3>2
    <2> QED  BY <2>5, <2>11
  <1>6. SUBSET Threads \subseteq G
    <2> HIDE DEF G
    <2> QED  BY <1>0, <1>4, <1>5, SubsetInduction
  <1>7. Threads \in G  BY <1>6
  <1>8. Own(Threads) = Given  BY DEF Given
  <1>9. F[Threads] >= PageCap * Cardinality(Given) + PageCap
    BY <1>7, <1>8
  <1> QED  BY <1>1, <1>9

\* No insert runs out of pages before the table holds what it was built for,
\* although a page holds only whole tuples: RunsOutLate.
THEOREM PagesSuffice == TableSpec => []RunsOutLate
  <1>1. ASSUME TableInv  PROVE RunsOutLate
    <2> SUFFICES ASSUME NEW t \in Threads, stage[t] = "panic"  PROVE TupleSum(cnt, Threads) >= TableCap
      BY DEF RunsOutLate
    <2>0. IndInv /\ TypeOK /\ oom[t]  BY <1>1 DEF TableInv, IndInv, ThreadOK
    <2>1. head = Null  BY <2>0 DEF IndInv
    <2>2. Given = Blocks
      <3>1. \A b \in Blocks : b \in Given  BY <2>0, <2>1, CapAssumption DEF IndInv, Blocks, Null
      <3> QED  BY <2>0, <3>1 DEF Given, TypeOK
    <2>3. TupleSum(cnt, Threads) >= PageCap * Cap + PageCap  BY <1>1, <2>2, PagesAreFull, PageFacts
    <2>4. PageCap * (Cap + 1) = PageCap * Cap + PageCap /\ PageCap * Cap \in Nat
      BY PageFacts, CapAssumption, OneMore
    <2>5. TupleSum(cnt, Threads) \in Int
      <3>1. Numbers(cnt, Threads) /\ IsFiniteSet(Threads)
        BY <1>1, InsertonlyAssumption DEF Numbers, TableInv, TableTypeOK
      <3>2. PICK F : IsSum(cnt, Threads, F) /\ TupleSum(cnt, Threads) = F[Threads]  BY <3>1, SumExists
      <3> QED  BY <3>2 DEF IsSum
    <2>6. TableCap \in Nat /\ PageCap \in Nat  BY InsertonlyAssumption, PageFacts
    <2> QED  BY <2>3, <2>4, <2>5, <2>6, Enough
  <1>2. TableInv => RunsOutLate  BY <1>1
  <1> QED  BY <1>2, TableInvariant, PTL
=============================================================================
