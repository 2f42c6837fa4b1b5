------------------------------ MODULE FreeList ------------------------------
(***************************************************************************)
(* ArrayAllocator (src/src/utils/obj_alloc.rs): a lock-free stack of equal *)
(* blocks of one array.  The first word of a free block holds the address  *)
(* of the next free block; once a block is given out, that word belongs to *)
(* its owner, who may put anything there while other threads still look at *)
(* it.                                                                     *)
(*                                                                         *)
(* A block is its index.  Every access to list_node or to the first word   *)
(* of a block is one step.  Spec is the allocator as the engine uses it:   *)
(* HeapArray and InsertonlyTable only alloc, and reset between two runs.   *)
(* dealloc, which only the unit tests call, is left out.                   *)
(***************************************************************************)
EXTENDS Integers

CONSTANTS Threads, Cap

ASSUME CapAssumption == Cap \in Nat

Blocks == 0..(Cap - 1)
Null == -1
Ptrs == Blocks \cup {Null}

VARIABLES head,     \* list_node: the first free block
          next,     \* next[b]: the first word of block b
          pc,       \* where a thread is inside alloc
          node,     \* the block to take
          nxt,      \* the word read from it
          owned,    \* owned[t]: the blocks t was given
          oom       \* oom[t]: the last alloc of t was ArrayAllocatorOutOfMemory

vars == <<head, next, pc, node, nxt, owned, oom>>

Given == UNION {owned[t] : t \in Threads}

Goto(t, l) == pc' = [pc EXCEPT ![t] = l]

\* The list that new and reset build: every block points to the one before it.
Chain == [b \in Blocks |-> b - 1]

Init ==
  /\ head = Cap - 1
  /\ next = Chain
  /\ pc = [t \in Threads |-> "idle"]
  /\ node = [t \in Threads |-> Null]
  /\ nxt = [t \in Threads |-> Null]
  /\ owned = [t \in Threads |-> {}]
  /\ oom = [t \in Threads |-> FALSE]

\* Only when no thread is inside a call and all blocks are given up.
Reset ==
  /\ \A t \in Threads : pc[t] = "idle"
  /\ head' = Cap - 1
  /\ next' = Chain
  /\ owned' = [t \in Threads |-> {}]
  /\ oom' = [t \in Threads |-> FALSE]
  /\ UNCHANGED <<pc, node, nxt>>

-----------------------------------------------------------------------------
\* Mutant: the caller is told there is no memory when one block is left.
TryHead_LastBlock(t) ==
  IF head \in {Null, 0}
    THEN oom' = [oom EXCEPT ![t] = TRUE] /\ Goto(t, "idle") /\ UNCHANGED node
    ELSE node' = [node EXCEPT ![t] = head] /\ Goto(t, "next") /\ UNCHANGED oom

\* The top of the loop of alloc, with the head just loaded: out of memory, or a
\* block to try.
TryHead(t) ==
  IF head = Null
    THEN oom' = [oom EXCEPT ![t] = TRUE] /\ Goto(t, "idle") /\ UNCHANGED node
    ELSE node' = [node EXCEPT ![t] = head] /\ Goto(t, "next") /\ UNCHANGED oom

\* alloc: load the head.
Alloc(t) ==
  /\ pc[t] = "idle"
  /\ TryHead(t)
  /\ UNCHANGED <<head, next, nxt, owned>>

\* Load the first word of the block, whoever owns it by now.
AllocNext(t) ==
  /\ pc[t] = "next"
  /\ nxt' = [nxt EXCEPT ![t] = next[node[t]]]
  /\ Goto(t, "cas")
  /\ UNCHANGED <<head, next, node, owned, oom>>

\* The exchange succeeded: the block belongs to t.
Take(t) ==
  /\ head' = nxt[t]
  /\ owned' = [owned EXCEPT ![t] = @ \cup {node[t]}]
  /\ oom' = [oom EXCEPT ![t] = FALSE]
  /\ Goto(t, "idle")
  /\ UNCHANGED node

\* Mutant: the head is stored without a comparison.
AllocCas_Store(t) ==
  /\ pc[t] = "cas"
  /\ Take(t)
  /\ UNCHANGED <<next, nxt>>

\* Mutant: after a failed exchange the same block is tried again.
AllocCas_SameNode(t) ==
  /\ pc[t] = "cas"
  /\ \/ head = node[t] /\ Take(t)
     \/ head # node[t] /\ Goto(t, "next") /\ UNCHANGED <<head, node, owned, oom>>
  /\ UNCHANGED <<next, nxt>>

\* compare_exchange of the head, or once more with the head it found.
AllocCas(t) ==
  /\ pc[t] = "cas"
  /\ \/ head = node[t] /\ Take(t)
     \/ head # node[t] /\ TryHead(t) /\ UNCHANGED <<head, owned>>
  /\ UNCHANGED <<next, nxt>>

\* The owner of a block stores its data: any bits, those of an address too.
UseBlock(t) ==
  /\ pc[t] = "idle"
  /\ \E b \in owned[t], p \in Ptrs : next' = [next EXCEPT ![b] = p]
  /\ UNCHANGED <<head, pc, node, nxt, owned, oom>>

-----------------------------------------------------------------------------
Step(t) == AllocNext(t) \/ AllocCas(t)
NextState == (\E t \in Threads : Alloc(t) \/ Step(t) \/ UseBlock(t)) \/ Reset
Spec == Init /\ [][NextState]_vars

-----------------------------------------------------------------------------
\* The types of the head, the link words (anything once a block is owned) and
\* the locals of alloc.
TypeOK ==
  /\ head \in Ptrs
  /\ next \in [Blocks -> Ptrs]
  /\ pc \in [Threads -> {"idle", "next", "cas"}]
  /\ node \in [Threads -> Ptrs]
  /\ nxt \in [Threads -> Ptrs]
  /\ owned \in [Threads -> SUBSET Blocks]
  /\ oom \in [Threads -> BOOLEAN]

\* No block has two owners.
OneOwner == \A t, u \in Threads : t # u => owned[t] \cap owned[u] = {}

\* Why a stale word read from a block somebody else owns does no harm as long
\* as nothing is returned: the head only moves down, the blocks above it are
\* the ones given out, those below it still form the list that new built, and
\* a thread whose exchange can still succeed has read the true next block.
IndInv ==
  /\ TypeOK
  /\ \A b \in Blocks : b \in Given <=> b > head
  /\ \A b \in Blocks : b <= head => next[b] = b - 1
  /\ OneOwner
  /\ \A t \in Threads :
       /\ pc[t] \in {"idle", "next", "cas"}
       /\ pc[t] # "idle" => node[t] >= head /\ node[t] # Null
       /\ pc[t] = "cas" /\ node[t] = head => nxt[t] = head - 1
       /\ oom[t] => head = Null

\* An alloc waits for nobody: it loses a race at most as often as there are
\* blocks to lose it to.
AllocReturns == \A t \in Threads : (pc[t] # "idle") ~> (pc[t] = "idle")

\* The free list gives out every block once and reports out of memory only
\* when every block is taken.
Heap == INSTANCE Allocator
ImplementsAllocator == Heap!Spec
=============================================================================
