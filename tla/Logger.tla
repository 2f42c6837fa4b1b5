------------------------------- MODULE Logger -------------------------------
(***************************************************************************)
(* The transaction log (src/src/log/mod.rs): transaction threads reserve   *)
(* space in an endless log with a fetch_add and copy their entries into    *)
(* two buffers used in turn; one flusher thread writes a buffer to the     *)
(* file when it is full.  Nothing tells the flusher whether the entries of *)
(* a buffer have been copied, and nothing stops a writer from running into *)
(* a buffer that is not flushed yet.                                       *)
(*                                                                         *)
(* A byte of the log is its position.  A buffer cell, and a byte of the    *)
(* file, holds the position of the byte that was copied there.  The copy   *)
(* of an entry and the write of a buffer are one step each; write() takes  *)
(* any number of the bytes, and fsync() may fail.  What comes to harm that *)
(* way is recorded byte by byte.                                           *)
(***************************************************************************)
EXTENDS Integers, Sequences

CONSTANTS Writers,
          Sizes,     \* the sizes of log entries
          B,         \* buffer_size
          MaxLog,    \* bound of the model: bytes reserved in a behaviour
          None

Positions == 0..(MaxLog - 1)
Slices == [loc : Positions, size : Sizes]

ASSUME LoggerAssumption ==
  /\ B \in Nat \ {0}
  /\ Sizes \subseteq Nat \ {0}
  /\ MaxLog \in Nat
  /\ None \notin Slices \cup Nat

VARIABLES cur,       \* cur_offset: bytes reserved
          flushed,   \* flushed_offset
          buffers,   \* the two buffers
          slice,     \* slice[w]: the slice w got and has not filled yet
          file,      \* the log file
          pc,        \* the flusher thread
          stop,      \* should_stop
          places,    \* history: the positions that the bytes of the file stand for
          lost,      \* history: the bytes that write() did not take
          spoiled    \* history: the bytes that had no cell, were written before
                     \* they were copied, or were overwritten before they were
                     \* written

history == <<places, lost, spoiled>>
vars == <<cur, flushed, buffers, slice, file, pc, stop, history>>

Cells == 0..(B - 1)
OffsetOf(loc) == loc % B
BufferOf(loc) == (loc \div B) % 2

Init ==
  /\ cur = 0
  /\ flushed = 0
  /\ buffers = [b \in 0..1 |-> [i \in Cells |-> None]]
  /\ slice = [w \in Writers |-> None]
  /\ file = <<>>
  /\ pc = "loop"
  /\ stop = FALSE
  /\ places = <<>>
  /\ lost = {}
  /\ spoiled = {}

\* n bytes at loc do not fit into the rest of the buffer.
RunsOver(loc, n) == OffsetOf(loc) + n > B

\* The bytes of the slice, and those of them that lie in its buffer.
Bytes(s) == s.loc..(s.loc + s.size - 1)
InBuffer(s) == {p \in Bytes(s) : p < s.loc - OffsetOf(s.loc) + B}

\* acquire_log_buffer
AcquireLogBuffer(w, n) ==
  /\ slice[w] = None
  /\ cur + n <= MaxLog
  /\ LET s == [loc |-> cur, size |-> n] IN
       /\ slice' = [slice EXCEPT ![w] = s]
       /\ spoiled' = spoiled \cup (Bytes(s) \ InBuffer(s))
  /\ cur' = cur + n
  /\ UNCHANGED <<flushed, buffers, file, pc, stop, places, lost>>

\* Does slice s cover cell i of its buffer?
Covers(s, i) == OffsetOf(s.loc) <= i /\ i < OffsetOf(s.loc) + s.size

\* The buffer of slice s, filled.
Filled(s) ==
  [i \in Cells |-> IF Covers(s, i) THEN s.loc - OffsetOf(s.loc) + i
                  ELSE buffers[BufferOf(s.loc)][i]]

\* The bytes of the log below it have been offered to write().
InFile == flushed + (IF pc \in {"advance", "unsynced"} THEN B ELSE 0)

\* The bytes still to be written that the cells hold and filling s replaces.
Overwritten(s) ==
  {p \in InFile..(cur - 1) :
     \E i \in Cells : buffers[BufferOf(s.loc)][i] = p /\ Filled(s)[i] # p}

\* append_log, log_txn: fill the slice.  What lies beyond the end of the buffer
\* is memory the model does not have.
FillSlice(w) ==
  /\ slice[w] # None
  /\ buffers' = [buffers EXCEPT ![BufferOf(slice[w].loc)] = Filled(slice[w])]
  /\ spoiled' = spoiled \cup Overwritten(slice[w])
  /\ slice' = [slice EXCEPT ![w] = None]
  /\ UNCHANGED <<cur, flushed, file, pc, stop, places, lost>>

-----------------------------------------------------------------------------
\* Mutant: a buffer that is exactly full is not full.
TryFlushLogs_Exact ==
  /\ pc = "loop" /\ ~stop
  /\ cur - flushed > B
  /\ pc' = IF cur - flushed < 2 * B THEN "write" ELSE "panicked"
  /\ UNCHANGED <<cur, flushed, buffers, slice, file, stop, history>>

\* try_flush_logs finds a full buffer, or two and panics.  (With none full it
\* returns Err and the thread spins.)
TryFlushLogs ==
  /\ pc = "loop" /\ ~stop
  /\ cur - flushed >= B
  /\ pc' = IF cur - flushed < 2 * B THEN "write" ELSE "panicked"
  /\ UNCHANGED <<cur, flushed, buffers, slice, file, stop, history>>

\* A writer has still to copy the byte.
Pending(p) == \E w \in Writers : slice[w] # None /\ p \in InBuffer(slice[w])

\* write() appends the first n bytes of buffer b to the file.
Write(b, n) ==
  /\ file' = file \o [i \in 1..n |-> buffers[b][i - 1]]
  /\ places' = places \o [i \in 1..n |-> flushed + i - 1]
  /\ lost' = lost \cup (flushed + n)..(flushed + B - 1)
  /\ spoiled' = spoiled \cup {p \in flushed..(flushed + n - 1) : Pending(p)}

\* Mutant: the buffer in use is written instead of the one before it.
FlushBuffer_Current ==
  /\ pc = "write"
  /\ \E n \in 0..B : Write(BufferOf(cur), n)
  /\ pc' \in {"advance", "unsynced"}
  /\ UNCHANGED <<cur, flushed, buffers, slice, stop>>

\* flush_buffer: write() takes the whole buffer, a part of it, which nobody
\* notices, or nothing, which is only reported; fsync() succeeds, or the thread
\* panics before it counts the buffer as flushed.
FlushBuffer ==
  /\ pc = "write"
  /\ \E n \in 0..B : Write(BufferOf(flushed), n)
  /\ pc' \in {"advance", "unsynced"}
  /\ UNCHANGED <<cur, flushed, buffers, slice, stop>>

\* Mutant: the whole distance is taken for flushed.
AdvanceFlushed_All ==
  /\ pc = "advance"
  /\ flushed' = cur
  /\ pc' = "loop"
  /\ UNCHANGED <<cur, buffers, slice, file, stop, history>>

\* flushed_offset.fetch_add(buffer_size)
AdvanceFlushed ==
  /\ pc = "advance"
  /\ flushed' = flushed + B
  /\ pc' = "loop"
  /\ UNCHANGED <<cur, buffers, slice, file, stop, history>>

StopLogger ==
  /\ ~stop
  /\ stop' = TRUE
  /\ UNCHANGED <<cur, flushed, buffers, slice, file, pc, history>>

\* The thread leaves its loop; what is in the buffers stays there.
Exit ==
  /\ pc = "loop" /\ stop
  /\ pc' = "exited"
  /\ UNCHANGED <<cur, flushed, buffers, slice, file, stop, history>>

Writer(w) == FillSlice(w) \/ \E n \in Sizes : AcquireLogBuffer(w, n)
Flusher == TryFlushLogs \/ FlushBuffer \/ AdvanceFlushed \/ Exit
Next == (\E w \in Writers : Writer(w)) \/ Flusher \/ StopLogger

Spec == Init /\ [][Next]_vars

\* The flusher thread runs.
FairSpec == Spec /\ WF_vars(Flusher)

-----------------------------------------------------------------------------
\* The types of offsets, buffers, slices and file.
TypeOK ==
  /\ cur \in Nat
  /\ flushed \in Nat
  /\ buffers \in [0..1 -> [Cells -> Nat \cup {None}]]
  /\ slice \in [Writers -> Slices \cup {None}]
  /\ file \in Seq(Nat \cup {None})
  /\ pc \in {"loop", "write", "advance", "unsynced", "panicked", "exited"}
  /\ stop \in BOOLEAN
  /\ places \in Seq(Nat)
  /\ lost \subseteq Nat
  /\ spoiled \subseteq Nat

\* flushed_offset counts whole buffers and stays behind cur_offset, so the
\* unsigned subtraction in try_flush_logs does not wrap and a flush begins at
\* the start of a buffer.
FlushedBehind ==
  /\ flushed % B = 0
  /\ flushed + (IF pc \in {"write", "advance", "unsynced"} THEN B ELSE 0) <= cur

\* The bytes of the log up to the last buffer that was flushed are in the file,
\* in order and each once, but for those that write() left out; and each is the
\* byte that was logged, but for those that ran over the end of a buffer, or
\* were copied after, or overwritten before, their buffer was written.  A write
\* that fails or is short, and a buffer that is written to while it is flushed,
\* cost exactly the bytes in question, and no other part of the file.
FileExact ==
  /\ Len(file) = Len(places)
  /\ \A i \in 1..Len(file) : file[i] = places[i] \/ places[i] \in spoiled
  /\ \A i, j \in 1..Len(places) : i < j => places[i] < places[j]
  /\ \A p \in 0..(InFile - 1) : p \in lost \/ \E i \in 1..Len(places) : places[i] = p
  /\ \A i \in 1..Len(places) : places[i] < InFile /\ places[i] \notin lost

\* A full buffer is flushed, unless the thread is stopped or gives up.
FullIsFlushed ==
  \A k \in 1..(MaxLog \div B) :
    (cur >= k * B) ~> (flushed >= k * B \/ pc \in {"unsynced", "panicked", "exited"})

\* What makes FileExact inductive: a byte that is still to be written is in its
\* cell, or a writer has still to copy it, or it is spoiled.
InCell(p) == buffers[BufferOf(p)][OffsetOf(p)] = p
BytesOK ==
  /\ \A p \in InFile..(cur - 1) : InCell(p) \/ Pending(p) \/ p \in spoiled
  /\ \A p \in lost : p < InFile

LogInv == TypeOK /\ FlushedBehind /\ FileExact /\ BytesOK

\* What acquire_log_buffer hands out lies inside a buffer.
SliceInBuffer ==
  \A w \in Writers : slice[w] # None => ~RunsOver(slice[w].loc, slice[w].size)
=============================================================================
