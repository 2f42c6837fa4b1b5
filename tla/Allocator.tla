----------------------------- MODULE Allocator ------------------------------
(***************************************************************************)
(* What an allocator of equal blocks promises: a block has at most one     *)
(* owner, and a request fails only when no block is free.                  *)
(***************************************************************************)
CONSTANTS Threads, Blocks

VARIABLES owned,   \* owned[t]: the blocks that thread t was given
          oom      \* oom[t]: the last request of t failed

vars == <<owned, oom>>

Given == UNION {owned[t] : t \in Threads}

Init ==
  /\ owned = [t \in Threads |-> {}]
  /\ oom = [t \in Threads |-> FALSE]

Alloc(t) ==
  /\ \E b \in Blocks \ Given : owned' = [owned EXCEPT ![t] = @ \cup {b}]
  /\ oom' = [oom EXCEPT ![t] = FALSE]

Fail(t) ==
  /\ Given = Blocks
  /\ oom' = [oom EXCEPT ![t] = TRUE]
  /\ UNCHANGED owned

Free(t) ==
  /\ \E b \in owned[t] : owned' = [owned EXCEPT ![t] = @ \ {b}]
  /\ UNCHANGED oom

\* Every block is taken back at once.
Reset ==
  /\ owned' = [t \in Threads |-> {}]
  /\ oom' = [t \in Threads |-> FALSE]

Next == (\E t \in Threads : Alloc(t) \/ Fail(t) \/ Free(t)) \/ Reset

Spec == Init /\ [][Next]_vars
=============================================================================
