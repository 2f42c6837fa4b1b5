---------------------------- MODULE LoggerProofs ----------------------------
(***************************************************************************)
(* For any number of writers, any entry sizes and any buffer size: the     *)
(* flushed offset counts whole buffers behind the reserved offset, and the *)
(* file is the log but for the bytes that write() left out and those that  *)
(* were spoiled in the buffers (Logger).                                   *)
(***************************************************************************)
EXTENDS Logger, SequenceTheorems, TLAPS

LEMMA Consts == B \in Nat /\ B > 0 /\ Sizes \subseteq Nat \ {0} /\ MaxLog \in Nat
  BY LoggerAssumption

LEMMA SliceType ==
  ASSUME NEW s \in Slices
  PROVE  s.loc \in Nat /\ s.size \in Nat /\ s.size > 0 /\ s # None
<1>1. s.loc \in Positions /\ s.size \in Sizes
  BY DEF Slices
<1>2. s.loc \in Nat
  BY <1>1, Consts DEF Positions
<1>3. s.size \in Nat \ {0}
  BY <1>1, Consts
<1>4. s # None
  BY LoggerAssumption
<1> QED
  BY <1>2, <1>3, <1>4

\* A position is a cell of a buffer of the log.
LEMMA Place ==
  ASSUME NEW p \in Nat
  PROVE  /\ OffsetOf(p) \in Cells /\ BufferOf(p) \in 0..1 /\ p \div B \in Nat
         /\ p = (p \div B) * B + OffsetOf(p)
  BY Consts DEF OffsetOf, BufferOf, Cells

\* The place of a position is found from the number of its buffer in the log.
LEMMA PlaceOf ==
  ASSUME NEW k \in Nat, NEW o \in Cells
  PROVE  OffsetOf(k * B + o) = o /\ (k * B + o) \div B = k /\ BufferOf(k * B + o) = k % 2
<1>1. B \in Nat /\ B > 0 /\ o \in Nat /\ o < B /\ k * B \in Nat
  BY Consts DEF Cells
<1> DEFINE p == k * B + o
           j == p \div B
           r == p % B
<1>2. j \in Nat /\ r \in Nat /\ r < B /\ p = j * B + r
  BY <1>1
<1>3. k * B + o = j * B + r
  BY <1>2
<1>4. j = k
  <2>1. ASSUME j < k PROVE FALSE
    <3>1. PICK d \in Nat : k = j + 1 + d
      <4>1. k - j - 1 \in Nat /\ k = j + 1 + (k - j - 1)
        BY <1>2, <2>1
      <4> QED
        BY <4>1
    <3>2. k * B = j * B + B + d * B /\ d * B \in Nat /\ j * B \in Nat
      BY <1>1, <1>2, <3>1
    <3> HIDE DEF p, j, r
    <3> QED
      BY <1>1, <1>2, <1>3, <3>2
  <2>2. ASSUME k < j PROVE FALSE
    <3>1. PICK d \in Nat : j = k + 1 + d
      <4>1. j - k - 1 \in Nat /\ j = k + 1 + (j - k - 1)
        BY <1>2, <2>2
      <4> QED
        BY <4>1
    <3>2. j * B = k * B + B + d * B /\ d * B \in Nat
      BY <1>1, <3>1
    <3> HIDE DEF p, j, r
    <3> QED
      BY <1>1, <1>2, <1>3, <3>2
  <2> HIDE DEF j
  <2> QED
    BY <1>2, <2>1, <2>2
<1>5. r = o
  <2> HIDE DEF p, j, r
  <2> QED
    BY <1>1, <1>2, <1>3, <1>4
<1> QED
  BY <1>4, <1>5 DEF OffsetOf, BufferOf

\* The bytes of a slice that lie in its buffer are one stretch of its cells.
LEMMA SliceCells ==
  ASSUME NEW s \in Slices, NEW p \in InBuffer(s)
  PROVE  /\ p \in Nat /\ s.loc <= p
         /\ BufferOf(p) = BufferOf(s.loc) /\ OffsetOf(p) \in Cells /\ Covers(s, OffsetOf(p))
         /\ s.loc - OffsetOf(s.loc) + OffsetOf(p) = p
<1> DEFINE k == s.loc \div B
           o == OffsetOf(s.loc)
<1>1. s.loc \in Nat /\ s.size \in Nat /\ B \in Nat
  BY Consts, SliceType
<1>2. k \in Nat /\ o \in Cells /\ s.loc = k * B + o /\ BufferOf(s.loc) = k % 2
  BY <1>1, Place DEF BufferOf
<1>3. p \in s.loc..(s.loc + s.size - 1) /\ p < s.loc - o + B
  BY DEF InBuffer, Bytes
<1>4. OffsetOf(s.loc) = o
  OBVIOUS
<1> HIDE DEF k, o
<1>5. k * B \in Nat /\ o \in Nat
  BY <1>1, <1>2 DEF Cells
<1>6. p - k * B \in Cells /\ o <= p - k * B /\ p - k * B < o + s.size /\ p \in Nat /\ s.loc <= p
  BY <1>1, <1>2, <1>3, <1>5 DEF Cells
<1>7. p = k * B + (p - k * B)
  BY <1>5, <1>6
<1>8. OffsetOf(p) = p - k * B /\ BufferOf(p) = k % 2
  BY <1>2, <1>6, <1>7, PlaceOf
<1> QED
  BY <1>2, <1>4, <1>5, <1>6, <1>8 DEF Covers

-----------------------------------------------------------------------------
LEMMA InitLog == Init => LogInv
<1> SUFFICES ASSUME Init PROVE LogInv
  OBVIOUS
<1>1. B \in Nat \ {0} /\ 0 % B = 0
  BY Consts
<1>2. <<>> \in Seq(Nat \cup {None}) /\ <<>> \in Seq(Nat) /\ Len(<<>>) = 0
  BY EmptySeq
<1>3. TypeOK
  BY <1>2 DEF Init, TypeOK
<1>4. FlushedBehind /\ FileExact
  BY <1>1, <1>2 DEF Init, FlushedBehind, FileExact, InFile
<1>5. BytesOK
  BY <1>1 DEF Init, BytesOK, InFile
<1> QED
  BY <1>3, <1>4, <1>5 DEF LogInv

\* The offsets, as every step finds them.
LEMMA Offsets ==
  ASSUME LogInv
  PROVE  /\ cur \in Nat /\ flushed \in Nat /\ B \in Nat /\ B > 0 /\ InFile \in Nat /\ InFile <= cur
         /\ pc = "write" => InFile = flushed
         /\ pc \in {"advance", "unsynced"} => InFile = flushed + B
  BY Consts DEF LogInv, TypeOK, InFile, FlushedBehind

\* More spoiled bytes leave the file as exact as it was.
LEMMA FileStays ==
  ASSUME FileExact, file' = file, places' = places, lost' = lost, InFile' = InFile,
         spoiled \subseteq spoiled'
  PROVE  FileExact'
  BY DEF FileExact

LEMMA AcquireLog ==
  ASSUME LogInv, NEW w \in Writers, NEW n \in Sizes, AcquireLogBuffer(w, n)
  PROVE  LogInv'
<1> DEFINE s == [loc |-> cur, size |-> n]
<1>1. /\ slice[w] = None /\ cur + n <= MaxLog /\ slice' = [slice EXCEPT ![w] = s]
      /\ cur' = cur + n /\ spoiled' = spoiled \cup (Bytes(s) \ InBuffer(s))
      /\ UNCHANGED <<flushed, buffers, file, pc, stop, places, lost>>
  BY DEF AcquireLogBuffer
<1>2. n \in Nat /\ n > 0 /\ InFile' = InFile
  BY <1>1, Consts DEF InFile
<1>3. s \in Slices /\ s # None
  <2>1. s \in Slices
    BY <1>1, <1>2, Consts, Offsets DEF Slices, Positions
  <2> QED
    BY <2>1, SliceType
<1>4. s.loc = cur /\ s.size = n
  OBVIOUS
<1> HIDE DEF s
<1>5. slice'[w] = s /\ \A v \in Writers \ {w} : slice'[v] = slice[v]
  BY <1>1 DEF LogInv, TypeOK
<1>6. Bytes(s) = cur..(cur + n - 1) /\ Bytes(s) \subseteq Nat
  BY <1>2, <1>4, Offsets DEF Bytes
<1>7. TypeOK'
  <2>1. slice' \in [Writers -> Slices \cup {None}]
    BY <1>1, <1>3 DEF LogInv, TypeOK
  <2>2. cur' \in Nat /\ spoiled' \subseteq Nat
    <3>1. cur \in Nat /\ spoiled \subseteq Nat
      BY DEF LogInv, TypeOK
    <3>2. cur' = cur + n /\ spoiled' \subseteq spoiled \cup Bytes(s)
      BY <1>1
    <3> QED
      BY <1>2, <1>6, <3>1, <3>2
  <2> QED
    BY <1>1, <2>1, <2>2 DEF LogInv, TypeOK
<1>8. FlushedBehind'
  BY <1>1, <1>2, Offsets DEF LogInv, FlushedBehind
<1>9. FileExact'
  BY <1>1, <1>2, FileStays DEF LogInv
<1>10. BytesOK'
  <2>1. \A p \in lost' : p < InFile'
    BY <1>1, <1>2 DEF LogInv, BytesOK
  <2> SUFFICES ASSUME NEW p \in InFile..(cur' - 1)
               PROVE  InCell(p)' \/ Pending(p)' \/ p \in spoiled'
    BY <1>2, <2>1 DEF BytesOK
  <2>2. CASE p < cur
    <3>1. InCell(p) \/ Pending(p) \/ p \in spoiled
      BY <1>1, <1>2, <2>2, Offsets DEF LogInv, BytesOK
    <3>2. Pending(p) => Pending(p)'
      BY <1>1, <1>5 DEF Pending, InBuffer, Bytes, OffsetOf
    <3>3. InCell(p) => InCell(p)'
      BY <1>1 DEF InCell, BufferOf, OffsetOf
    <3> QED
      BY <1>1, <3>1, <3>2, <3>3
  <2>3. CASE p >= cur
    <3>1. p \in Bytes(s)
      BY <1>1, <1>2, <1>6, <2>3, Offsets
    <3>3. p \in InBuffer(s) => Pending(p)'
      BY <1>3, <1>5 DEF Pending, InBuffer, Bytes, OffsetOf
    <3> QED
      BY <1>1, <3>1, <3>3
  <2> QED
    BY <2>2, <2>3, Offsets
<1> QED
  BY <1>7, <1>8, <1>9, <1>10 DEF LogInv

\* The cells of a buffer that is being filled.
LEMMA FilledType ==
  ASSUME LogInv, NEW s \in Slices
  PROVE  /\ BufferOf(s.loc) \in 0..1
         /\ Filled(s) \in [Cells -> Nat \cup {None}]
         /\ \A i \in Cells : Filled(s)[i] = IF Covers(s, i) THEN s.loc - OffsetOf(s.loc) + i
                                           ELSE buffers[BufferOf(s.loc)][i]
<1>1. s.loc \in Nat /\ BufferOf(s.loc) \in 0..1
  BY SliceType, Place
<1>2. s.loc - OffsetOf(s.loc) \in Nat
  <2>1. (s.loc \div B) * B \in Nat
    BY <1>1, Place, Consts
  <2> QED
    BY <1>1, <2>1, Place DEF Cells
<1>3. \A i \in Cells : i \in Nat
  BY Consts DEF Cells
<1>4. buffers[BufferOf(s.loc)] \in [Cells -> Nat \cup {None}]
  BY <1>1 DEF LogInv, TypeOK
<1> QED
  BY <1>1, <1>2, <1>3, <1>4 DEF Filled

LEMMA FillLog ==
  ASSUME LogInv, NEW w \in Writers, FillSlice(w)
  PROVE  LogInv'
<1> PICK s, b : s = slice[w] /\ b = BufferOf(s.loc)
  OBVIOUS
<1>1. /\ s # None /\ slice' = [slice EXCEPT ![w] = None]
      /\ buffers' = [buffers EXCEPT ![b] = Filled(s)]
      /\ spoiled' = spoiled \cup Overwritten(s)
      /\ UNCHANGED <<cur, flushed, file, pc, stop, places, lost>>
  BY DEF FillSlice
<1>2. s \in Slices
  BY <1>1 DEF LogInv, TypeOK
<1>3. /\ b \in 0..1 /\ Filled(s) \in [Cells -> Nat \cup {None}]
      /\ \A i \in Cells : Filled(s)[i] = IF Covers(s, i) THEN s.loc - OffsetOf(s.loc) + i
                                        ELSE buffers[b][i]
  BY <1>2, FilledType
<1>4. InFile' = InFile
  BY <1>1 DEF InFile
<1>5. Overwritten(s) \subseteq Nat
  BY Offsets DEF Overwritten
<1>6. TypeOK'
  BY <1>1, <1>3, <1>5 DEF LogInv, TypeOK
<1>7. FlushedBehind'
  BY <1>1 DEF LogInv, FlushedBehind
<1>8. FileExact'
  BY <1>1, <1>4, FileStays DEF LogInv
<1>9. slice'[w] = None /\ \A v \in Writers \ {w} : slice'[v] = slice[v]
  BY <1>1 DEF LogInv, TypeOK
<1>10. BytesOK'
  <2>1. \A p \in lost' : p < InFile'
    BY <1>1, <1>4 DEF LogInv, BytesOK
  <2> SUFFICES ASSUME NEW p \in InFile..(cur - 1)
               PROVE  InCell(p)' \/ Pending(p)' \/ p \in spoiled'
    BY <1>1, <1>4, <2>1 DEF BytesOK
  <2>2. p \in Nat /\ OffsetOf(p) \in Cells /\ BufferOf(p) \in 0..1
    <3>1. p \in Nat
      BY Offsets
    <3> QED
      BY <3>1, Place
  <2>3. InCell(p)' <=> buffers'[BufferOf(p)][OffsetOf(p)] = p
    BY DEF InCell, BufferOf, OffsetOf
  <2>4. buffers'[b] = Filled(s) /\ \A c \in 0..1 : c # b => buffers'[c] = buffers[c]
    BY <1>1, <1>3 DEF LogInv, TypeOK
  <2>5. CASE p \in InBuffer(s)
    <3>1. BufferOf(p) = b /\ Covers(s, OffsetOf(p)) /\ s.loc - OffsetOf(s.loc) + OffsetOf(p) = p
      BY <1>2, <2>5, SliceCells
    <3> QED
      BY <1>3, <2>2, <2>3, <2>4, <3>1
  <2>6. CASE Pending(p) /\ p \notin InBuffer(s)
    BY <1>9, <2>6 DEF Pending, InBuffer, Bytes, OffsetOf
  <2>7. CASE InCell(p)
    <3>1. buffers[BufferOf(p)][OffsetOf(p)] = p
      BY <2>7 DEF InCell
    <3>2. CASE BufferOf(p) = b /\ Filled(s)[OffsetOf(p)] # p
      BY <1>1, <2>2, <3>1, <3>2 DEF Overwritten
    <3>3. CASE BufferOf(p) = b /\ Filled(s)[OffsetOf(p)] = p
      BY <2>3, <2>4, <3>3
    <3>4. CASE BufferOf(p) # b
      BY <2>2, <2>3, <2>4, <3>1, <3>4
    <3> QED
      BY <3>2, <3>3, <3>4
  <2>8. InCell(p) \/ Pending(p) \/ p \in spoiled
    BY DEF LogInv, BytesOK
  <2> QED
    BY <1>1, <2>5, <2>6, <2>7, <2>8
<1> QED
  BY <1>6, <1>7, <1>8, <1>10 DEF LogInv

\* The flusher decides to write, gives up, or moves on without writing.
LEMMA QuietLog ==
  ASSUME LogInv, UNCHANGED <<cur, buffers, slice, file, history>>, InFile' = InFile,
         TypeOK', FlushedBehind'
  PROVE  LogInv'
<1>1. FileExact'
  BY FileStays DEF LogInv, history
<1>2. BytesOK'
  BY DEF LogInv, BytesOK, InCell, Pending, InBuffer, Bytes, BufferOf, OffsetOf, history
<1> QED
  BY <1>1, <1>2 DEF LogInv

LEMMA TryFlushLog ==
  ASSUME LogInv, TryFlushLogs
  PROVE  LogInv'
<1>1. /\ pc = "loop" /\ cur - flushed >= B /\ pc' \in {"write", "panicked"}
      /\ UNCHANGED <<cur, flushed, buffers, slice, file, stop, history>>
  BY DEF TryFlushLogs
<1>2. TypeOK' /\ InFile' = InFile
  BY <1>1 DEF LogInv, TypeOK, InFile, history
<1>3. FlushedBehind'
  BY <1>1, Consts DEF LogInv, TypeOK, FlushedBehind
<1> QED
  BY <1>1, <1>2, <1>3, QuietLog

\* The start of the next buffer is the start of a buffer.
LEMMA NextBuffer ==
  ASSUME NEW p \in Nat, p % B = 0
  PROVE  (p + B) % B = 0
<1>1. B \in Nat /\ B > 0 /\ 0 \in Cells
  BY Consts DEF Cells
<1>2. PICK k \in Nat : p = k * B
  <2>1. p \div B \in Nat /\ p = (p \div B) * B + 0
    BY Place DEF OffsetOf
  <2> QED
    BY <1>1, <2>1
<1>3. p + B = (k + 1) * B + 0 /\ k + 1 \in Nat
  BY <1>1, <1>2
<1>4. OffsetOf((k + 1) * B + 0) = 0
  BY <1>1, <1>3, PlaceOf
<1> QED
  BY <1>3, <1>4 DEF OffsetOf

LEMMA AdvanceLog ==
  ASSUME LogInv, AdvanceFlushed
  PROVE  LogInv'
<1>1. /\ pc = "advance" /\ flushed' = flushed + B /\ pc' = "loop"
      /\ UNCHANGED <<cur, buffers, slice, file, stop, history>>
  BY DEF AdvanceFlushed
<1>2. TypeOK' /\ InFile' = InFile
  BY <1>1, Consts DEF LogInv, TypeOK, InFile, history
<1>3. FlushedBehind'
  <2>1. flushed \in Nat /\ flushed % B = 0 /\ flushed + B <= cur
    BY <1>1 DEF LogInv, TypeOK, FlushedBehind
  <2>2. flushed' % B = 0
    BY <1>1, <2>1, NextBuffer
  <2> QED
    BY <1>1, <2>1, <2>2, Consts DEF FlushedBehind, LogInv, TypeOK
<1> QED
  BY <1>1, <1>2, <1>3, QuietLog

LEMMA StopLog ==
  ASSUME LogInv, StopLogger \/ Exit
  PROVE  LogInv'
<1>1. /\ UNCHANGED <<cur, flushed, buffers, slice, file, history>>
      /\ pc' = pc \/ (pc = "loop" /\ pc' = "exited")
  BY DEF StopLogger, Exit
<1>2. TypeOK' /\ InFile' = InFile /\ FlushedBehind'
  BY <1>1 DEF LogInv, TypeOK, InFile, FlushedBehind, StopLogger, Exit, history
<1> QED
  BY <1>1, <1>2, QuietLog

\* n more elements at the end of a sequence.
LEMMA Extended ==
  ASSUME NEW X, NEW q \in Seq(X), NEW n \in Nat, NEW f \in [1..n -> X]
  PROVE  /\ q \o f \in Seq(X) /\ Len(q \o f) = Len(q) + n /\ Len(q) \in Nat
         /\ \A i \in 1..(Len(q) + n) : (q \o f)[i] = IF i <= Len(q) THEN q[i] ELSE f[i - Len(q)]
<1>1. f \in Seq(X) /\ Len(f) = n
  BY SMTT(20)
<1>2. Len(q) \in Nat
  BY LenProperties
<1> QED
  BY <1>1, <1>2, ConcatProperties

\* What a write of n bytes appends to the file, and the positions they stand for.
LEMMA WrittenBytes ==
  ASSUME LogInv, NEW b \in 0..1, NEW n \in 0..B, Write(b, n)
  PROVE  /\ file' \in Seq(Nat \cup {None}) /\ Len(file') = Len(file) + n /\ Len(file) \in Nat
         /\ places' \in Seq(Nat) /\ Len(places') = Len(places) + n /\ Len(places) \in Nat
         /\ \A i \in 1..(Len(file) + n) :
              file'[i] = IF i <= Len(file) THEN file[i] ELSE buffers[b][i - Len(file) - 1]
         /\ \A i \in 1..(Len(places) + n) :
              places'[i] = IF i <= Len(places) THEN places[i] ELSE flushed + (i - Len(places)) - 1
<1> DEFINE cells == [i \in 1..n |-> buffers[b][i - 1]]
           posns == [i \in 1..n |-> flushed + i - 1]
<1>1. B \in Nat /\ n \in Nat /\ n <= B /\ flushed \in Nat
  BY Offsets
<1>2. cells \in [1..n -> Nat \cup {None}]
  <2>1. buffers[b] \in [Cells -> Nat \cup {None}]
    BY DEF LogInv, TypeOK
  <2>2. \A i \in 1..n : i - 1 \in Cells
    BY <1>1 DEF Cells
  <2> QED
    BY <2>1, <2>2
<1>3. posns \in [1..n -> Nat]
  BY <1>1
<1>4. file' = file \o cells /\ places' = places \o posns
  BY DEF Write
<1>5. file \in Seq(Nat \cup {None}) /\ places \in Seq(Nat)
  BY DEF LogInv, TypeOK
<1>6. /\ \A i \in 1..n : cells[i] = buffers[b][i - 1]
      /\ \A i \in 1..n : posns[i] = flushed + i - 1
  OBVIOUS
<1> HIDE DEF cells, posns
<1>7. /\ file' \in Seq(Nat \cup {None}) /\ Len(file') = Len(file) + n /\ Len(file) \in Nat
      /\ \A i \in 1..(Len(file) + n) :
           file'[i] = IF i <= Len(file) THEN file[i] ELSE cells[i - Len(file)]
  BY <1>1, <1>2, <1>4, <1>5, Extended
<1>8. /\ places' \in Seq(Nat) /\ Len(places') = Len(places) + n /\ Len(places) \in Nat
      /\ \A i \in 1..(Len(places) + n) :
           places'[i] = IF i <= Len(places) THEN places[i] ELSE posns[i - Len(places)]
  BY <1>1, <1>3, <1>4, <1>5, Extended
<1>9. ASSUME NEW i \in 1..(Len(file) + n), i > Len(file)
      PROVE  cells[i - Len(file)] = buffers[b][i - Len(file) - 1]
  <2>1. i - Len(file) \in 1..n
    BY <1>1, <1>7, <1>9
  <2> QED
    BY <1>6, <2>1
<1>10. ASSUME NEW i \in 1..(Len(places) + n), i > Len(places)
       PROVE  posns[i - Len(places)] = flushed + (i - Len(places)) - 1
  <2>1. i - Len(places) \in 1..n
    BY <1>1, <1>8, <1>10
  <2> QED
    BY <1>6, <2>1
<1>11. \A i \in 1..(Len(file) + n) :
         file'[i] = IF i <= Len(file) THEN file[i] ELSE buffers[b][i - Len(file) - 1]
  BY <1>1, <1>7, <1>9
<1>12. \A i \in 1..(Len(places) + n) :
         places'[i] = IF i <= Len(places) THEN places[i] ELSE flushed + (i - Len(places)) - 1
  <2> SUFFICES ASSUME NEW i \in 1..(Len(places) + n)
               PROVE  places'[i] = IF i <= Len(places) THEN places[i]
                                   ELSE flushed + (i - Len(places)) - 1
    OBVIOUS
  <2>1. CASE i <= Len(places)
    BY <1>8, <2>1
  <2>2. CASE i > Len(places)
    <3>1. places'[i] = posns[i - Len(places)]
      BY <1>1, <1>8, <2>2
    <3>2. posns[i - Len(places)] = flushed + (i - Len(places)) - 1
      BY <1>10, <2>2
    <3> QED
      BY <1>1, <1>8, <2>2, <3>1, <3>2
  <2> QED
    BY <1>1, <1>8, <2>1, <2>2
<1> QED
  BY <1>7, <1>8, <1>11, <1>12

LEMMA FlushLog ==
  ASSUME LogInv, FlushBuffer
  PROVE  LogInv'
<1> PICK b : b = BufferOf(flushed)
  OBVIOUS
<1>1. PICK n \in 0..B : Write(b, n)
  BY DEF FlushBuffer
<1>2. /\ pc = "write" /\ pc' \in {"advance", "unsynced"}
      /\ UNCHANGED <<cur, flushed, buffers, slice, stop>>
      /\ lost' = lost \cup (flushed + n)..(flushed + B - 1)
      /\ spoiled' = spoiled \cup {p \in flushed..(flushed + n - 1) : Pending(p)}
  BY <1>1 DEF FlushBuffer, Write
<1>3. /\ cur \in Nat /\ flushed \in Nat /\ B \in Nat /\ B > 0 /\ n \in Nat /\ n <= B
      /\ flushed % B = 0 /\ flushed + B <= cur /\ b \in 0..1
  BY <1>2, Place, Offsets DEF LogInv, FlushedBehind
<1>4. InFile = flushed /\ InFile' = flushed + B
  BY <1>2, <1>3 DEF InFile
<1> PICK m : m = Len(file)
  OBVIOUS
<1>5. /\ file' \in Seq(Nat \cup {None}) /\ Len(file') = m + n /\ m \in Nat
      /\ places' \in Seq(Nat) /\ Len(places') = m + n /\ Len(places) = m
      /\ \A i \in 1..(m + n) :
           file'[i] = IF i <= m THEN file[i] ELSE buffers[b][i - m - 1]
      /\ \A i \in 1..(m + n) :
           places'[i] = IF i <= m THEN places[i] ELSE flushed + (i - m) - 1
  BY <1>1, <1>3, WrittenBytes DEF LogInv, FileExact
<1>6. \A i \in 1..m : i \in 1..(m + n) /\ places'[i] = places[i]
  <2> SUFFICES ASSUME NEW i \in 1..m PROVE i \in 1..(m + n) /\ places'[i] = places[i]
    OBVIOUS
  <2>1. i \in 1..(m + n) /\ i <= m
    BY <1>3, <1>5
  <2> QED
    BY <1>5, <2>1
<1>7. \A i \in 1..(m + n) : i > m => places'[i] = flushed + (i - m) - 1
  <2> SUFFICES ASSUME NEW i \in 1..(m + n), i > m PROVE places'[i] = flushed + (i - m) - 1
    OBVIOUS
  <2>1. ~(i <= m)
    BY <1>3, <1>5
  <2> QED
    BY <1>5, <2>1
<1>8. TypeOK'
  <2>1. lost' \subseteq Nat /\ spoiled' \subseteq Nat
    <3>1. lost \subseteq Nat /\ spoiled \subseteq Nat
      BY DEF LogInv, TypeOK
    <3>2. (flushed + n)..(flushed + B - 1) \subseteq Nat /\ flushed..(flushed + n - 1) \subseteq Nat
      BY <1>3
    <3> QED
      BY <1>2, <3>1, <3>2
  <2> QED
    BY <1>2, <1>5, <2>1 DEF LogInv, TypeOK
<1>9. FlushedBehind'
  BY <1>2, <1>3 DEF FlushedBehind
<1>10. ASSUME NEW o \in Nat, o < n
      PROVE  buffers[b][o] = flushed + o \/ flushed + o \in spoiled'
  <2>1. flushed + o \in flushed..(flushed + n - 1) /\ flushed + o \in InFile..(cur - 1) /\ o \in Cells
    BY <1>3, <1>4, <1>10 DEF Cells
  <2>2. InCell(flushed + o) \/ Pending(flushed + o) \/ flushed + o \in spoiled
    BY <2>1 DEF LogInv, BytesOK
  <2>3. OffsetOf(flushed + o) = o /\ BufferOf(flushed + o) = b
    <3>1. flushed \div B \in Nat /\ flushed = (flushed \div B) * B
      BY <1>3, Place DEF OffsetOf
    <3>2. flushed + o = (flushed \div B) * B + o
      BY <3>1
    <3>3. b = (flushed \div B) % 2
      BY DEF BufferOf
    <3> QED
      BY <2>1, <3>1, <3>2, <3>3, PlaceOf
  <2> QED
    BY <1>2, <2>1, <2>2, <2>3 DEF InCell
<1>11. BytesOK'
  <2>1. \A p \in lost' : p < InFile'
    <3>1. \A p \in lost : p \in Nat /\ p < flushed
      BY <1>4 DEF LogInv, BytesOK, TypeOK
    <3> QED
      BY <1>2, <1>3, <1>4, <3>1
  <2> SUFFICES ASSUME NEW p \in (flushed + B)..(cur - 1)
               PROVE  InCell(p)' \/ Pending(p)' \/ p \in spoiled'
    BY <1>2, <1>4, <2>1 DEF BytesOK
  <2>2. InCell(p) \/ Pending(p) \/ p \in spoiled
    BY <1>3, <1>4 DEF LogInv, BytesOK
  <2> QED
    BY <1>2, <2>2 DEF InCell, Pending, InBuffer, Bytes, BufferOf, OffsetOf
<1>12. ASSUME NEW i \in 1..(m + n)
       PROVE  file'[i] = places'[i] \/ places'[i] \in spoiled'
  <2>1. CASE i <= m
    <3>1. i \in 1..m
      BY <1>3, <1>5, <2>1
    <3>2. file[i] = places[i] \/ places[i] \in spoiled
      BY <3>1, m = Len(file) DEF LogInv, FileExact
    <3>3. file'[i] = file[i] /\ places'[i] = places[i]
      BY <1>5, <2>1
    <3> QED
      BY <1>2, <3>2, <3>3
  <2>2. CASE i > m
    <3>1. i - m - 1 \in Nat /\ i - m - 1 < n /\ flushed + (i - m) - 1 = flushed + (i - m - 1)
      BY <1>3, <1>5, <2>2
    <3>2. file'[i] = buffers[b][i - m - 1] /\ places'[i] = flushed + (i - m - 1)
      <4>1. ~(i <= m)
        BY <1>3, <1>5, <2>2
      <4>2. file'[i] = buffers[b][i - m - 1]
        BY <1>5, <4>1
      <4>3. places'[i] = flushed + (i - m) - 1
        BY <1>7, <2>2
      <4> QED
        BY <3>1, <4>2, <4>3
    <3> QED
      BY <1>10, <3>1, <3>2
  <2> QED
    BY <1>3, <1>5, <2>1, <2>2
<1>13. \A i \in 1..m : places[i] \in Nat /\ places[i] < flushed /\ places[i] \notin lost
  <2>1. \A i \in 1..m : places[i] \in Nat
    BY <1>5, ElementOfSeq DEF LogInv, TypeOK
  <2> QED
    BY <1>4, <1>5, <2>1 DEF LogInv, FileExact
<1>14. m \in Nat /\ m + n \in Nat /\ \A i \in 1..(m + n) : i \in Nat
  BY <1>3, <1>5
<1>15. ASSUME NEW i \in 1..(m + n), NEW j \in 1..(m + n), i < j
       PROVE  places'[i] < places'[j]
  <2>1. CASE j <= m
    BY <1>3, <1>5, <1>15, <2>1 DEF LogInv, FileExact
  <2>2. CASE i <= m /\ j > m
    <3>1. places'[i] = places[i] /\ places[i] \in Nat /\ places[i] < flushed
      BY <1>13, <1>6, <2>2
    <3>2. places'[j] = flushed + (j - m) - 1
      BY <1>7, <2>2
    <3> QED
      <4>1. flushed <= flushed + (j - m) - 1 /\ flushed + (j - m) - 1 \in Nat
        BY <1>3, <1>14, <2>2
      <4> QED
        BY <1>3, <3>1, <3>2, <4>1
  <2>3. CASE i > m
    <3>1. j > m /\ m \in Nat /\ i \in Nat /\ j \in Nat
      BY <1>3, <1>5, <1>15, <2>3
    <3>2. places'[i] = flushed + (i - m) - 1 /\ places'[j] = flushed + (j - m) - 1
      BY <1>7, <2>3, <3>1
    <3> QED
      BY <1>3, <1>15, <3>1, <3>2
  <2> QED
    BY <1>3, <1>5, <1>15, <2>1, <2>2, <2>3
<1>16. ASSUME NEW p \in 0..(flushed + B - 1)
       PROVE  p \in lost' \/ \E i \in 1..(m + n) : places'[i] = p
  <2>1. CASE p < flushed
    <3>1. p \in lost \/ \E i \in 1..m : places[i] = p
      BY <1>3, <1>4, <1>5, <2>1 DEF LogInv, FileExact
    <3> QED
      BY <1>2, <1>6, <3>1
  <2>2. CASE p >= flushed /\ p < flushed + n
    <3> PICK i : i = m + 1 + (p - flushed)
      OBVIOUS
    <3>1. i \in 1..(m + n) /\ i > m /\ flushed + (i - m) - 1 = p
      BY ONLY <1>3, <1>14, <2>2, i = m + 1 + (p - flushed), p \in 0..(flushed + B - 1)
    <3>2. places'[i] = p
      BY <1>7, <3>1
    <3> QED
      BY <3>1, <3>2
  <2>3. CASE p >= flushed + n
    BY <1>2, <1>3, <2>3
  <2> QED
    BY <1>3, <2>1, <2>2, <2>3
<1>17. ASSUME NEW i \in 1..(m + n)
       PROVE  places'[i] < flushed + B /\ places'[i] \notin lost'
  <2>1. CASE i <= m
    <3>1. i \in 1..m
      BY <1>14, <2>1
    <3>2. places'[i] = places[i] /\ places[i] \in Nat /\ places[i] < flushed /\ places[i] \notin lost
      BY <1>13, <1>6, <3>1
    <3>3. places[i] \notin (flushed + n)..(flushed + B - 1) /\ places[i] < flushed + B
      BY <1>3, <3>2
    <3> QED
      BY <1>2, <3>2, <3>3
  <2>2. CASE i > m
    <3>1. places'[i] = flushed + (i - m) - 1
      BY <1>7, <2>2
    <3>2. \A p \in lost : p \in Nat /\ p < flushed
      BY <1>4 DEF LogInv, BytesOK, TypeOK
    <3> QED
      BY <1>2, <1>3, <1>5, <2>2, <3>1, <3>2
  <2> QED
    BY <1>3, <1>5, <2>1, <2>2
<1>18. FileExact'
  <2>1. Len(file') = Len(places') /\ Len(file') = m + n /\ InFile' - 1 = flushed + B - 1
    <3>1. InFile' = flushed + B
      BY <1>4
    <3>2. Len(file') = m + n /\ Len(places') = m + n
      BY <1>5
    <3> QED
      BY ONLY <1>3, <3>1, <3>2
  <2>2. \A p \in 0..(InFile' - 1) : p \in lost' \/ \E i \in 1..Len(places') : places'[i] = p
    BY <1>16, <2>1
  <2>3. \A i \in 1..Len(places') : places'[i] < InFile' /\ places'[i] \notin lost'
    BY <1>4, <1>17, <2>1
  <2>4. \A i \in 1..Len(file') : file'[i] = places'[i] \/ places'[i] \in spoiled'
    BY <1>12, <2>1
  <2>5. \A i, j \in 1..Len(places') : i < j => places'[i] < places'[j]
    BY <1>15, <2>1
  <2> QED
    BY <2>1, <2>2, <2>3, <2>4, <2>5 DEF FileExact
<1> QED
  BY <1>8, <1>9, <1>11, <1>18 DEF LogInv

LEMMA StepLog == LogInv /\ [Next]_vars => LogInv'
<1>1. ASSUME LogInv, UNCHANGED vars PROVE LogInv'
  <2>1. TypeOK' /\ FlushedBehind' /\ InFile' = InFile
    BY <1>1 DEF vars, history, LogInv, TypeOK, FlushedBehind, InFile
  <2> QED
    BY <1>1, <2>1, QuietLog DEF vars
<1> QED
  BY <1>1, AcquireLog, FillLog, TryFlushLog, FlushLog, AdvanceLog, StopLog
     DEF Next, Writer, Flusher

-----------------------------------------------------------------------------
\* The invariant of the log: what is reserved and still to be written is in its
\* cell, in a slice that a writer has still to fill, or spoiled.
THEOREM LogInvariant == Spec => []LogInv
  BY InitLog, StepLog, PTL DEF Spec

\* flushed_offset counts whole buffers and never passes cur_offset, whatever
\* the writers reserve meanwhile: the subtraction in try_flush_logs never wraps.
THEOREM FlushedStaysBehind == Spec => []FlushedBehind
<1>1. LogInv => FlushedBehind
  BY DEF LogInv
<1> QED
  BY <1>1, LogInvariant, PTL

\* Every byte of the log up to the last buffer that was flushed is in the file,
\* in order and once, or write() left it out; and it is the byte that was
\* logged, or it was spoiled in its buffer: flush_buffer harms no other byte,
\* however many writes fail or are short and however the writers race it.
THEOREM FileAccounted == Spec => []FileExact
<1>1. LogInv => FileExact
  BY DEF LogInv
<1> QED
  BY <1>1, LogInvariant, PTL
=============================================================================
