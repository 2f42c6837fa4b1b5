----------------------------- MODULE HeapArray ------------------------------
(***************************************************************************)
(* The oid array's allocator: HeapArray in src/src/utils/obj_alloc.rs and  *)
(* OidArray in src/src/storage/oid_array.rs.  A global ArrayAllocator      *)
(* gives out arenas of N items; each thread allocates items from an arena  *)
(* of its own, and keeps the items it deletes in a free list of its own.   *)
(* The index of an item is the rid of a record.                            *)
(*                                                                         *)
(* The global list is used at the level of Allocator, which FreeList       *)
(* implements: an arena is taken in one step.  append and delete touch it  *)
(* at most once and everything else in them is private to the thread, so   *)
(* each is one step.  A thread id is never reused (get_tid), so Threads    *)
(* are all the threads that ever touch the array.  Which item of an arena  *)
(* or of a free list comes first is left open.  Nothing calls delete() yet;*)
(* the model does.                                                         *)
(***************************************************************************)
EXTENDS Integers, FiniteSets

CONSTANTS Threads,
          Records,   \* the capacity asked for: OidArray::new(cap)
          N,         \* items per arena (64)
          Slack,     \* arenas added on top of it (128)
          None

\* Mutant: no spare arenas for what threads strand in theirs.
ArenaCnt_NoSlack == (Records + N - 1) \div N

\* align_up of the requested size, in arenas.
ArenaCnt == Slack + (Records + N - 1) \div N
Arenas == 0..(ArenaCnt - 1)
Items == 0..(ArenaCnt * N - 1)
TlsAllocators == [arena : SUBSET Items, list : SUBSET Items]

ASSUME HeapArrayAssumption ==
  /\ IsFiniteSet(Threads)
  /\ Records \in Nat
  /\ N \in Nat \ {0}
  /\ Slack \in Nat
  /\ None \notin TlsAllocators

\* Mutant: the item size is left out of the distance between two arenas.
ItemsOf_Overlap(a) == {i \in Items : a <= i /\ i < a + N}

\* The items of an arena, by ptr_to_index.
ItemsOf(a) == {i \in Items : a * N <= i /\ i < a * N + N}

VARIABLES free,    \* the arenas not yet given out
          tls,     \* tls[t]: the TlsAllocator of t, or None before its first call
          live,    \* the indices returned by append and not deleted
          oom      \* oom[t]: the last append of t was out of memory

vars == <<free, tls, live, oom>>

\* new and reset leave the same state behind.
Fresh == [free |-> Arenas, tls |-> [t \in Threads |-> None], live |-> {},
          oom |-> [t \in Threads |-> FALSE]]

Init ==
  /\ free = Fresh.free /\ tls = Fresh.tls
  /\ live = Fresh.live /\ oom = Fresh.oom

\* OidArray::reset takes &mut self: no call is under way and no rid is kept.
Reset ==
  /\ free' = Fresh.free /\ tls' = Fresh.tls
  /\ live' = Fresh.live /\ oom' = Fresh.oom

\* The items a thread keeps for itself.
Kept(t) == IF tls[t] = None THEN {} ELSE tls[t].arena \cup tls[t].list

\* Nothing left to a thread: no TlsAllocator, or an empty one.
Exhausted(t) == Kept(t) = {}

Return(t, i) ==
  /\ live' = live \cup {i}
  /\ oom' = [oom EXCEPT ![t] = FALSE]

\* append: the free list first, ...
AppendRecycled(t) ==
  /\ tls[t] # None
  /\ \E i \in tls[t].list :
       tls' = [tls EXCEPT ![t].list = @ \ {i}] /\ Return(t, i)
  /\ UNCHANGED free

\* ... then the arena of the thread, ...
AppendFromArena(t) ==
  /\ tls[t] # None /\ tls[t].list = {}
  /\ \E i \in tls[t].arena :
       tls' = [tls EXCEPT ![t].arena = @ \ {i}] /\ Return(t, i)
  /\ UNCHANGED free

\* Mutant: a fresh arena is taken although the old one has items left.
AppendNewArena_Early(t) ==
  /\ \E a \in free : \E i \in ItemsOf(a) :
       /\ free' = free \ {a}
       /\ tls' = [tls EXCEPT ![t] = [arena |-> ItemsOf(a) \ {i}, list |-> {}]]
       /\ Return(t, i)

\* ... then a new arena, which replaces the empty one (or is the first) ...
AppendNewArena(t) ==
  /\ Exhausted(t)
  /\ \E a \in free : \E i \in ItemsOf(a) :
       /\ free' = free \ {a}
       /\ tls' = [tls EXCEPT ![t] = [arena |-> ItemsOf(a) \ {i}, list |-> {}]]
       /\ Return(t, i)

\* ... or out of memory.
AppendFail(t) ==
  /\ Exhausted(t) /\ free = {}
  /\ oom' = [oom EXCEPT ![t] = TRUE]
  /\ UNCHANGED <<free, tls, live>>

append(t) ==
  AppendRecycled(t) \/ AppendFromArena(t) \/ AppendNewArena(t) \/ AppendFail(t)

\* delete of any item, by any thread: the item moves to the free list of the
\* thread that deletes it, which gets an arena first if it has none (and
\* panics if there is none).
Delete(t) ==
  /\ \E i \in live :
       /\ live' = live \ {i}
       /\ \/ /\ tls[t] # None
             /\ tls' = [tls EXCEPT ![t].list = @ \cup {i}]
             /\ UNCHANGED free
          \/ /\ tls[t] = None
             /\ \E a \in free :
                  /\ free' = free \ {a}
                  /\ tls' = [tls EXCEPT ![t] = [arena |-> ItemsOf(a), list |-> {i}]]
  /\ UNCHANGED oom

Next == (\E t \in Threads : append(t) \/ Delete(t)) \/ Reset
Spec == Init /\ [][Next]_vars

-----------------------------------------------------------------------------
\* The types of the global list, the thread-local allocators and the live items.
TypeOK ==
  /\ free \subseteq Arenas
  /\ tls \in [Threads -> TlsAllocators \cup {None}]
  /\ live \subseteq Items
  /\ oom \in [Threads -> BOOLEAN]

\* An item is in one place only, so append never returns the index of a record
\* that exists: not in the hands of a user and of a thread, nor of two
\* threads, nor in an arena that is still to be given out.
OnePlace ==
  /\ \A t \in Threads :
       /\ Kept(t) \cap live = {}
       /\ tls[t] # None => tls[t].arena \cap tls[t].list = {}
       /\ \A u \in Threads \ {t} : Kept(t) \cap Kept(u) = {}
  /\ \A a \in free :
       /\ ItemsOf(a) \cap live = {}
       /\ \A t \in Threads : ItemsOf(a) \cap Kept(t) = {}

\* No item is lost: what is not in use can still be given out by somebody.
NoneLost ==
  \A i \in Items : \/ i \in live
                   \/ \E t \in Threads : i \in Kept(t)
                   \/ \E a \in free : i \in ItemsOf(a)

IndInv == TypeOK /\ OnePlace /\ NoneLost

\* What a record could still be put in by the thread that deleted another.
Recycled == UNION {tls[t].list : t \in {u \in Threads : tls[u] # None}}

\* As long as no more threads than there are spare arenas (and one) come,
\* Records records fit, however the threads share them: alloc_rid fails with
\* "oid run out of space" only when that many exist or wait, deleted, to be
\* used again by the thread that deleted them.
RecordsFit ==
  Cardinality(Threads) <= Slack + 1 =>
    \A t \in Threads : oom[t] => Cardinality(live \cup Recycled) >= Records
=============================================================================
