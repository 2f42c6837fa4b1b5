-------------------------- MODULE InsertonlyTable ---------------------------
(***************************************************************************)
(* InsertonlyTable and PageBuffer (src/src/table.rs): every thread fills a *)
(* page buffer of its own and copies it, when it is full, to a page of     *)
(* persistent memory.  Pages come from an ArrayAllocator (FreeList, step   *)
(* by step) on a frame of the PmHeap (see TableStorage).  A buffer is      *)
(* touched by its thread only, so what insert does outside of alloc is one *)
(* step.                                                                   *)
(***************************************************************************)
EXTENDS FreeList, Sequences, FiniteSetsExt

CONSTANTS PageSize, TupleSize,   \* in the same unit
          TableCap               \* the cap given to new: tuples

PageCap == PageSize \div TupleSize     \* PageBuffer::CAP
\* new: the pages of a frame of TableCap tuples, aligned up
PageCount == (TableCap * TupleSize + PageSize - 1) \div PageSize

ASSUME InsertonlyAssumption ==
  /\ IsFiniteSet(Threads)
  /\ PageSize \in Nat /\ TableCap \in Nat
  /\ TupleSize \in 1..PageSize
  /\ Cap = PageCount
  /\ PageCount <= PageCap

VARIABLES buf,      \* buf[t]: the tuples in the page buffer of t, up to `next`
          page,     \* page[b]: the tuples in page b of persistent memory
          cnt,      \* cnt[t]: the number of tuples t inserted
          stage     \* stage[t]: "ready", "alloc" while it wants a page, "panic"

tableVars == <<buf, page, cnt, stage>>

-----------------------------------------------------------------------------
TableInit ==
  /\ Init
  /\ buf = [t \in Threads |-> <<>>]
  /\ page = [b \in Blocks |-> <<>>]
  /\ cnt = [t \in Threads |-> 0]
  /\ stage = [t \in Threads |-> "ready"]

\* The tuple that t inserts now.
Tuple(t) == <<t, cnt[t] + 1>>
Inserted(t) == cnt' = [cnt EXCEPT ![t] = @ + 1]

\* Mutant: the buffer is full one tuple early.
Fits_Early(t) == Len(buf[t]) + 1 < PageCap

\* try_insert: there is room in the buffer.
Fits(t) == Len(buf[t]) < PageCap

\* insert into the thread's buffer (get_tls_page makes it on the first call)
InsertBuffered(t) ==
  /\ stage[t] = "ready" /\ Fits(t)
  /\ buf' = [buf EXCEPT ![t] = Append(@, Tuple(t))]
  /\ Inserted(t)
  /\ UNCHANGED <<vars, page, stage>>

\* insert with a full buffer: storage.alloc begins, ...
InsertFull(t) ==
  /\ stage[t] = "ready" /\ ~Fits(t)
  /\ stage' = [stage EXCEPT ![t] = "alloc"]
  /\ Alloc(t)
  /\ UNCHANGED <<buf, page, cnt>>

\* ... goes on, ...
AllocStep(t) == Step(t) /\ UNCHANGED tableVars

\* Mutant: the index of the buffer is not reset, so the second try_insert fails
\* too, and its result is ignored.
Refill_NoReset(t) == buf' = buf

\* reset_index, and try_insert again
Refill(t) == buf' = [buf EXCEPT ![t] = <<Tuple(t)>>]

\* ... and gives a page: the whole buffer is copied over it, its first word
\* too, which other threads may still read as a link of the list.
CopyPage(t) ==
  /\ stage[t] = "alloc" /\ pc[t] = "idle" /\ ~oom[t]
  /\ page' = [page EXCEPT ![node[t]] = buf[t]]
  /\ \E p \in Ptrs : next' = [next EXCEPT ![node[t]] = p]
  /\ Refill(t)
  /\ Inserted(t)
  /\ stage' = [stage EXCEPT ![t] = "ready"]
  /\ UNCHANGED <<head, pc, node, nxt, owned, oom>>

\* There is none: unwrap panics.
OutOfPages(t) ==
  /\ stage[t] = "alloc" /\ pc[t] = "idle" /\ oom[t]
  /\ stage' = [stage EXCEPT ![t] = "panic"]
  /\ UNCHANGED <<vars, buf, page, cnt>>

\* reset, between two runs: the buffers are dropped, the list is built anew.
\* drop, and new on another frame, leave the same state behind.
TableReset ==
  /\ \A t \in Threads : stage[t] # "alloc"
  /\ Reset
  /\ buf' = [t \in Threads |-> <<>>]
  /\ page' = [b \in Blocks |-> <<>>]
  /\ cnt' = [t \in Threads |-> 0]
  /\ stage' = [t \in Threads |-> "ready"]

TableNext ==
  \/ \E t \in Threads :
       \/ InsertBuffered(t) \/ InsertFull(t) \/ AllocStep(t)
       \/ CopyPage(t) \/ OutOfPages(t)
  \/ TableReset

\* A thread inside insert keeps running.
TableSpec ==
  /\ TableInit /\ [][TableNext]_<<vars, tableVars>>
  /\ \A t \in Threads :
       WF_<<vars, tableVars>>(AllocStep(t) \/ CopyPage(t) \/ OutOfPages(t))

-----------------------------------------------------------------------------
InPages(x) == {b \in Given : \E i \in DOMAIN page[b] : page[b][i] = x}
InBuffers(x) == {s \in Threads \X (1..PageCap) :
                   s[2] <= Len(buf[s[1]]) /\ buf[s[1]][s[2]] = x}

\* Every tuple an insert returned for is kept, once: in a page of persistent
\* memory or in the buffer of its thread.  No page is copied over another
\* one, and none is lost with the ignored result of the second try_insert.
TuplesKept ==
  \A t \in Threads, n \in 1..(PageCap * (Cap + 1)) :
    n <= cnt[t] => Cardinality(InPages(<<t, n>>)) + Cardinality(InBuffers(<<t, n>>)) = 1

\* The tuples of some threads.
TupleSum(c, ts) == MapThenSumSet(LAMBDA t : c[t], ts)

\* insert does not run out of pages before the table holds the tuples it was
\* built for, although tuples do not fill a page to its end: the buffer of the
\* thread that wants another page holds what the pages miss.
RunsOutLate ==
  (\E t \in Threads : stage[t] = "panic") =>
    TupleSum(cnt, Threads) >= TableCap

-----------------------------------------------------------------------------
(* Why tuples are kept and pages suffice.                                  *)

\* The page that t was given and has not copied its buffer to yet.
Hand(t) == IF stage[t] = "alloc" /\ pc[t] = "idle" /\ ~oom[t] THEN {node[t]} ELSE {}

\* The tuples of t that are in pages: the ones before those in its buffer.
Stored(t) == cnt[t] - Len(buf[t])

\* A thread wants a page when its buffer is full, knows that there is none only
\* when alloc said so, and fills every page it was given.
ThreadOK(t) ==
  /\ stage[t] # "ready" => Len(buf[t]) = PageCap
  /\ stage[t] # "alloc" => pc[t] = "idle"
  /\ oom[t] => stage[t] # "ready" /\ pc[t] = "idle"
  /\ stage[t] = "panic" => oom[t]
  /\ Len(buf[t]) <= PageCap
  /\ \A i \in 1..Len(buf[t]) : buf[t][i] = <<t, Stored(t) + i>>
  /\ Hand(t) \subseteq owned[t]
  /\ Stored(t) = PageCap * Cardinality(owned[t] \ Hand(t))

\* A page has tuples only once its owner copied them there, no others than those
\* its thread has moved out of the buffer, and each of these is in one page.
PagesOK ==
  /\ \A b \in Blocks : page[b] # <<>> => \E t \in Threads : b \in owned[t] \ Hand(t)
  /\ \A b \in Blocks : \A i \in DOMAIN page[b] :
       \E t \in Threads : \E n \in 1..Stored(t) : page[b][i] = <<t, n>>
  /\ \A t \in Threads : \A n \in 1..Stored(t) : \E b \in Given : InPages(<<t, n>>) = {b}

TableTypeOK ==
  /\ buf \in [Threads -> Seq(Threads \X Nat)]
  /\ page \in [Blocks -> Seq(Threads \X Nat)]
  /\ cnt \in [Threads -> Nat]
  /\ stage \in [Threads -> {"ready", "alloc", "panic"}]

TableInv == IndInv /\ TableTypeOK /\ PagesOK /\ \A t \in Threads : ThreadOK(t)
=============================================================================
