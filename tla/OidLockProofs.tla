--------------------------- MODULE OidLockProofs ----------------------------
(***************************************************************************)
(* For any number of clients and any width of the reader count: the lock   *)
(* word of OidLock grants guards exclusively, its lock byte counts exactly *)
(* the guards that exist, and it implements the abstract lock RwLock.      *)
(***************************************************************************)
EXTENDS OidLock, FiniteSetTheorems, TLAPS

\* The reader set is a finite set of clients, so its cardinality is a number.
LEMMA ReadersFinite == IsFiniteSet(Readers) /\ Cardinality(Readers) \in Nat
<1>1. Readers \subseteq Clients
  BY DEF Readers
<1>2. IsFiniteSet(Readers)
  BY <1>1, ClientsAssumption, FS_Subset
<1> QED
  BY <1>2, FS_CardinalityType

\* Granting a read guard adds one reader and touches no writer.
LEMMA GrantedRead ==
  ASSUME NEW c \in Clients, pc \in [Clients -> PCs], Goto(c, "reader"),
         pc[c] \in {"read", "try_read"}
  PROVE  /\ Readers' = Readers \cup {c}
         /\ Writers' = Writers
         /\ Cardinality(Readers)' = Cardinality(Readers) + 1
<1>1. c \notin Readers
  BY DEF Readers
<1>2. Readers' = Readers \cup {c} /\ Writers' = Writers
  BY DEF Goto, Readers, Writers, PCs
<1> QED
  BY <1>1, <1>2, ReadersFinite, FS_AddElement

\* Dropping a read guard removes one reader and touches no writer.
LEMMA DroppedRead ==
  ASSUME NEW c \in Clients, pc \in [Clients -> PCs], Goto(c, "idle"), pc[c] = "reader"
  PROVE  /\ Readers' = Readers \ {c}
         /\ Writers' = Writers
         /\ Cardinality(Readers)' = Cardinality(Readers) - 1
         /\ c \in Readers
<1>1. c \in Readers
  BY DEF Readers
<1>2. Readers' = Readers \ {c} /\ Writers' = Writers
  BY DEF Goto, Readers, Writers, PCs
<1> QED
  BY <1>1, <1>2, ReadersFinite, FS_RemoveElement

\* A client that owns a read guard is counted.
LEMMA ReaderCounted ==
  ASSUME NEW c \in Readers
  PROVE  /\ Cardinality(Readers) >= 1
         /\ Cardinality(Readers) = 1 => Readers = {c}
<1>1. Cardinality(Readers \ {c}) = Cardinality(Readers) - 1 /\ IsFiniteSet(Readers \ {c})
  BY ReadersFinite, FS_RemoveElement
<1>2. Cardinality(Readers \ {c}) \in Nat
  BY <1>1, FS_CardinalityType
<1>3. Cardinality(Readers \ {c}) = 0 => Readers \ {c} = {}
  BY <1>1, FS_EmptySet
<1> QED
  BY <1>1, <1>2, <1>3, ReadersFinite

\* With no lock bit set there is no guard at all.
LEMMA UnlockedMeansFree ==
  ASSUME LockByteExact, word.lock = 0
  PROVE  Readers = {} /\ Writers = {}
<1>1. Writers = {}
  BY WriterAssumption DEF LockByteExact
<1>2. Cardinality(Readers) = 0
  BY <1>1 DEF LockByteExact
<1> QED
  BY <1>1, <1>2, ReadersFinite, FS_EmptySet

-----------------------------------------------------------------------------
\* Initially the word is unlocked and nobody holds a guard.
LEMMA InitInd == Init => IndInv
<1> SUFFICES ASSUME Init PROVE IndInv
  OBVIOUS
<1>1. TypeOK
  BY WriterAssumption DEF Init, TypeOK, Words, PCs
<1>2. Readers = {} /\ Writers = {}
  BY DEF Init, Readers, Writers
<1>3. word.lock = 0
  BY DEF Init
<1>4. LockByteExact
  BY <1>2, <1>3, FS_EmptySet DEF LockByteExact
<1> QED
  BY <1>1, <1>2, <1>4 DEF Init, IndInv, MutualExclusion

\* A step that leaves the word and every guard alone keeps MutualExclusion and
\* LockByteExact.
LEMMA GuardsUntouched ==
  ASSUME IndInv, Readers' = Readers, Writers' = Writers, word'.lock = word.lock
  PROVE  MutualExclusion' /\ LockByteExact'
BY DEF IndInv, MutualExclusion, LockByteExact

\* Taking a write guard of a free word.
LEMMA GrantedWrite ==
  ASSUME IndInv, NEW c \in Clients, Goto(c, "writer"), word'.lock = Writer,
         \/ pc[c] \in {"write", "try_write"} /\ word.lock = 0
         \/ pc[c] = "upgrade" /\ word.lock = 1
  PROVE  /\ Readers' = {} /\ Writers' = {c} /\ Writers = {}
         /\ pc[c] = "upgrade" => Readers = {c}
         /\ pc[c] # "upgrade" => Readers = {}
         /\ MutualExclusion' /\ LockByteExact'
<1> USE WriterAssumption
<1>1. Writers = {}
  BY DEF IndInv, LockByteExact
<1>2. CASE pc[c] \in {"write", "try_write"} /\ word.lock = 0
  <2>1. Readers = {}
    BY <1>2, UnlockedMeansFree DEF IndInv
  <2>2. Readers' = {} /\ Writers' = {c}
    BY <1>1, <1>2, <2>1 DEF Goto, Readers, Writers, IndInv, TypeOK, PCs
  <2> QED
    BY <1>1, <1>2, <2>1, <2>2 DEF MutualExclusion, LockByteExact
<1>3. CASE pc[c] = "upgrade" /\ word.lock = 1
  <2>1. c \in Readers
    BY <1>3 DEF Readers
  <2>2. Readers = {c}
    BY <1>1, <1>3, <2>1, ReaderCounted DEF IndInv, LockByteExact
  <2>3. Readers' = {} /\ Writers' = {c}
    BY <1>1, <1>3, <2>2 DEF Goto, Readers, Writers, IndInv, TypeOK, PCs
  <2> QED
    BY <1>1, <1>3, <2>2, <2>3 DEF MutualExclusion, LockByteExact
<1> QED
  BY <1>2, <1>3

\* Taking a read guard of a word no writer holds.
LEMMA GrantedReadKeeps ==
  ASSUME IndInv, NEW c \in Clients, pc[c] \in {"read", "try_read"}, Goto(c, "reader"),
         ~WriteLocked(word), word' = [word EXCEPT !.lock = Wrap(@ + 1)]
  PROVE  /\ Readers' = Readers \cup {c} /\ Writers' = Writers /\ Writers = {}
         /\ word' \in Words /\ word'.body = word.body
         /\ MutualExclusion' /\ LockByteExact'
<1> USE WriterAssumption
<1>1. Writers = {}
  BY DEF IndInv, LockByteExact, WriteLocked
<1>2. word.lock \in 0..(Writer - 1)
  BY DEF IndInv, TypeOK, Words, WriteLocked
<1>3. Wrap(word.lock + 1) = word.lock + 1
  BY <1>2 DEF Wrap
<1>4. word' \in Words /\ word'.lock = word.lock + 1 /\ word'.body = word.body
  BY <1>2, <1>3 DEF IndInv, TypeOK, Words
<1>5. /\ Readers' = Readers \cup {c} /\ Writers' = Writers
      /\ Cardinality(Readers)' = Cardinality(Readers) + 1
  BY GrantedRead DEF IndInv, TypeOK
<1>6. MutualExclusion'
  BY <1>1, <1>5 DEF MutualExclusion
<1>7. LockByteExact'
  BY <1>1, <1>4, <1>5 DEF IndInv, LockByteExact
<1> QED
  BY <1>1, <1>4, <1>5, <1>6, <1>7

\* The locals that IndInv speaks about, for the clients other than the mover.
LocalsOK(c) ==
  /\ pc[c] = "try_read"  => ~WriteLocked(val[c])
  /\ pc[c] = "try_write" => ~HasLock(val[c])
  /\ pc[c] = "upgrade"   => val[c].lock = 1 /\ val[c].body = word.body
  /\ pc[c] = "store"     => val[c].lock = Writer

\* A call that only loads the word grants nothing and releases nothing.
LEMMA LoadKeeps ==
  ASSUME IndInv, NEW c \in Clients, NEW l \in PCs, LoadThen(c, l),
         l \in {"reader", "upgrade"} <=> pc[c] \in {"reader", "upgrade"},
         l \in {"writer", "store"} <=> pc[c] \in {"writer", "store"},
         l = "try_read" => ~WriteLocked(word),
         l = "try_write" => ~HasLock(word),
         l = "upgrade" => word.lock = 1,
         l # "store"
  PROVE  IndInv' /\ UNCHANGED <<Readers, Writers, word.body>>
<1>1. TypeOK'
  BY DEF IndInv, TypeOK, LoadThen, Goto
<1>2. Readers' = Readers /\ Writers' = Writers /\ word' = word
  BY DEF IndInv, TypeOK, LoadThen, Goto, Readers, Writers
<1>3. MutualExclusion' /\ LockByteExact'
  BY <1>2, GuardsUntouched
<1>4. \A d \in Clients : LocalsOK(d)'
  BY DEF IndInv, TypeOK, LoadThen, Goto, LocalsOK, WriteLocked, HasLock
<1> QED
  BY <1>1, <1>2, <1>3, <1>4 DEF IndInv, LocalsOK

\* Every step of the lock word keeps the invariant and is, seen through the
\* guards, a step of the abstract lock or no step at all.
LEMMA StepKeeps ==
  ASSUME IndInv, NEW c \in Clients, NewCall(c) \/ Proceed(c) \/ Drop(c)
  PROVE  IndInv' /\ [Abstract!Next]_(Abstract!vars)
<1> USE WriterAssumption
<1>0. /\ word \in Words /\ pc \in [Clients -> PCs] /\ val \in [Clients -> Words]
      /\ val[c] \in Words /\ pc[c] \in PCs
  BY DEF IndInv, TypeOK
<1>l. ASSUME NEW l \in PCs, LoadThen(c, l),
             l \in {"reader", "upgrade"} <=> pc[c] \in {"reader", "upgrade"},
             l \in {"writer", "store"} <=> pc[c] \in {"writer", "store"},
             l = "try_read" => ~WriteLocked(word),
             l = "try_write" => ~HasLock(word),
             l = "upgrade" => word.lock = 1,
             l # "store"
      PROVE  IndInv' /\ UNCHANGED Abstract!vars
  BY <1>l, LoadKeeps DEF Abstract!vars
<1>r. ASSUME pc[c] \in {"read", "try_read"}, ~WriteLocked(val[c]),
             CasOk(c, [val[c] EXCEPT !.lock = Wrap(@ + 1)], "reader")
      PROVE  IndInv' /\ Abstract!Next
  <2>1. /\ Readers' = Readers \cup {c} /\ Writers' = Writers /\ Writers = {}
        /\ word' \in Words /\ word'.body = word.body
        /\ MutualExclusion' /\ LockByteExact'
    BY <1>r, GrantedReadKeeps DEF CasOk
  <2>2. TypeOK'
    BY <1>0, <1>r, <2>1 DEF TypeOK, CasOk, Goto, PCs
  <2>3. \A d \in Clients : LocalsOK(d)'
    BY <1>r, <1>0, <2>1 DEF IndInv, CasOk, Goto, LocalsOK, WriteLocked, HasLock
  <2>4. c \notin Readers \cup Writers
    BY <1>r DEF Readers, Writers
  <2>5. Abstract!GrantRead(c)
    BY <2>1, <2>4 DEF Abstract!GrantRead
  <2> QED
    BY <2>1, <2>2, <2>3, <2>5 DEF IndInv, LocalsOK, Abstract!Next
<1>w. ASSUME \/ pc[c] \in {"write", "try_write"} /\ val[c].lock = 0
             \/ pc[c] = "upgrade" /\ val[c].lock = 1,
             CasOk(c, [val[c] EXCEPT !.lock = Writer], "writer")
      PROVE  IndInv' /\ Abstract!Next
  <2>1. word' \in Words /\ word'.lock = Writer /\ word'.body = word.body
    BY <1>0, <1>w DEF CasOk, Words
  <2>2. /\ Readers' = {} /\ Writers' = {c} /\ Writers = {}
        /\ pc[c] = "upgrade" => Readers = {c}
        /\ pc[c] # "upgrade" => Readers = {}
        /\ MutualExclusion' /\ LockByteExact'
    BY <1>w, <2>1, GrantedWrite DEF CasOk
  <2>3. TypeOK'
    BY <1>0, <1>w, <2>1 DEF TypeOK, CasOk, Goto, PCs
  <2>4. \A d \in Clients : LocalsOK(d)'
    BY <1>w, <1>0, <2>1 DEF IndInv, CasOk, Goto, LocalsOK, WriteLocked, HasLock
  <2>5. Abstract!GrantWrite(c) \/ Abstract!GrantUpgrade(c)
    BY <2>1, <2>2 DEF Abstract!GrantWrite, Abstract!GrantUpgrade
  <2> QED
    BY <2>2, <2>3, <2>4, <2>5 DEF IndInv, LocalsOK, Abstract!Next
<1>g. ASSUME NEW l \in PCs, Goto(c, l), UNCHANGED <<word, val>>,
             l \in {"reader", "upgrade"} <=> pc[c] \in {"reader", "upgrade"},
             l \in {"idle", "reader"}, pc[c] \notin {"writer", "store"}
      PROVE  IndInv' /\ UNCHANGED Abstract!vars
  <2>1. Readers' = Readers /\ Writers' = Writers /\ word' = word
    BY <1>0, <1>g DEF Goto, Readers, Writers
  <2>2. MutualExclusion' /\ LockByteExact'
    BY <2>1, GuardsUntouched
  <2>3. TypeOK'
    BY <1>0, <1>g DEF TypeOK, Goto
  <2>4. \A d \in Clients : LocalsOK(d)'
    BY <1>0, <1>g DEF IndInv, Goto, LocalsOK, WriteLocked, HasLock
  <2> QED
    BY <2>1, <2>2, <2>3, <2>4 DEF IndInv, LocalsOK, Abstract!vars
<1>1. CASE Read(c) \/ Write(c)
  BY <1>1, <1>l DEF Read, Write, PCs
<1>2. CASE TryRead(c)
  BY <1>2, <1>l DEF TryRead, PCs
<1>3. CASE TryWrite(c)
  BY <1>3, <1>l DEF TryWrite, PCs
<1>4. CASE ReadLoop(c)
  BY <1>4, <1>l, <1>r DEF ReadLoop, PCs
<1>5. CASE TryReadCas(c)
  <2>1. ~WriteLocked(val[c])
    BY <1>5 DEF IndInv, TryReadCas
  <2> QED
    BY <1>5, <2>1, <1>r, <1>g DEF TryReadCas, PCs
<1>6. CASE WriteLoop(c)
  BY <1>6, <1>l, <1>w DEF WriteLoop, PCs, HasLock
<1>7. CASE TryWriteCas(c)
  <2>1. val[c].lock = 0
    BY <1>7 DEF IndInv, TryWriteCas, HasLock
  <2> QED
    BY <1>7, <2>1, <1>w, <1>g DEF TryWriteCas, PCs
<1>8. CASE Upgrade(c)
  <2>1. c \in Readers
    BY <1>8 DEF Upgrade, Readers
  <2>2. word.lock >= 1
    BY <2>1, ReaderCounted, ReadersFinite DEF IndInv, LockByteExact
  <2>3. word.lock \in Nat
    BY <1>0 DEF Words
  <2>4. word.lock > 1 \/ word.lock = 1
    BY <2>2, <2>3
  <2> QED
    BY <1>8, <2>4, <1>l DEF Upgrade, PCs
<1>9. CASE UpgradeOk(c)
  BY <1>9, <1>w DEF UpgradeOk, IndInv
<1>10. CASE UpgradeErr(c)
  BY <1>10, <1>g DEF UpgradeErr, PCs
<1>11. CASE ReadUnlock(c)
  <2>1. /\ Readers' = Readers \ {c} /\ Writers' = Writers
        /\ Cardinality(Readers)' = Cardinality(Readers) - 1
        /\ c \in Readers
    BY <1>0, <1>11, DroppedRead DEF ReadUnlock
  <2>2. Writers = {} /\ word.lock = Cardinality(Readers) /\ word.lock >= 1
    BY <2>1, ReaderCounted DEF IndInv, MutualExclusion, LockByteExact
  <2>3. word.lock \in 1..(2 * Writer - 1)
    BY <1>0, <2>2 DEF Words
  <2>4. Wrap(word.lock - 1) = word.lock - 1
    BY <2>3 DEF Wrap
  <2>5. word' \in Words /\ word'.lock = word.lock - 1 /\ word'.body = word.body
    BY <1>0, <1>11, <2>3, <2>4 DEF ReadUnlock, Words
  <2>6. TypeOK'
    BY <1>0, <1>11, <2>5 DEF TypeOK, ReadUnlock, Goto, PCs
  <2>7. MutualExclusion' /\ LockByteExact'
    BY <2>1, <2>2, <2>5 DEF MutualExclusion, LockByteExact
  <2>8. \A d \in Clients : LocalsOK(d)'
    BY <1>0, <1>11, <2>5 DEF IndInv, ReadUnlock, Goto, LocalsOK, WriteLocked, HasLock
  <2>9. Abstract!DropRead(c)
    BY <2>1, <2>5 DEF Abstract!DropRead
  <2> QED
    BY <2>6, <2>7, <2>8, <2>9 DEF IndInv, LocalsOK, Abstract!Next
<1>12. CASE WriteUnlock(c)
  <2>1. c \in Writers /\ Writers = {c} /\ Readers = {} /\ word.lock = Writer
    BY <1>12 DEF WriteUnlock, Writers, IndInv, MutualExclusion, LockByteExact
  <2>2. Wrap(word.lock - Writer) = 0
    BY <2>1 DEF Wrap
  <2>3. word' \in Words /\ word'.lock = 0 /\ word'.body = word.body
    BY <1>0, <1>12, <2>2 DEF WriteUnlock, Words
  <2>4. Readers' = {} /\ Writers' = {}
    BY <1>0, <1>12, <2>1 DEF WriteUnlock, Goto, Readers, Writers
  <2>5. TypeOK'
    BY <1>0, <1>12, <2>3 DEF TypeOK, WriteUnlock, Goto, PCs
  <2>6. MutualExclusion' /\ LockByteExact'
    BY <2>3, <2>4, FS_EmptySet DEF MutualExclusion, LockByteExact
  <2>7. \A d \in Clients : LocalsOK(d)'
    BY <1>0, <1>12, <2>3 DEF IndInv, WriteUnlock, Goto, LocalsOK, WriteLocked, HasLock
  <2>8. Abstract!DropWrite(c)
    BY <2>1, <2>3, <2>4 DEF Abstract!DropWrite
  <2> QED
    BY <2>5, <2>6, <2>7, <2>8 DEF IndInv, LocalsOK, Abstract!Next
<1>13. CASE StoreRid(c) \/ StoreIndex(c)
  <2>1. PICK b \in Bodies : StoreLoad(c, b)
    BY <1>13 DEF StoreRid, StoreIndex, Bodies
  <2>2. c \in Writers /\ word.lock = Writer
    BY <2>1 DEF StoreLoad, Writers, IndInv, LockByteExact
  <2>3. Readers' = Readers /\ Writers' = Writers /\ word' = word
    BY <1>0, <2>1 DEF StoreLoad, Goto, Readers, Writers
  <2>4. MutualExclusion' /\ LockByteExact'
    BY <2>3, GuardsUntouched
  <2>5. [word EXCEPT !.body = b] \in Words /\ [word EXCEPT !.body = b].lock = Writer
    BY <1>0, <2>2 DEF Words
  <2>6. TypeOK'
    BY <1>0, <2>1, <2>5 DEF TypeOK, StoreLoad, Goto, PCs
  <2>7. \A d \in Clients : LocalsOK(d)'
    BY <1>0, <2>1, <2>5 DEF IndInv, StoreLoad, Goto, LocalsOK, WriteLocked, HasLock
  <2> QED
    BY <2>3, <2>4, <2>6, <2>7 DEF IndInv, LocalsOK, Abstract!vars
<1>14. CASE StoreWord(c)
  <2>1. c \in Writers /\ word.lock = Writer /\ val[c].lock = Writer
    BY <1>14 DEF StoreWord, Writers, IndInv, LockByteExact
  <2>2. Readers' = Readers /\ Writers' = Writers /\ word'.lock = word.lock
    BY <1>0, <1>14, <2>1 DEF StoreWord, Goto, Readers, Writers
  <2>3. MutualExclusion' /\ LockByteExact'
    BY <2>2, GuardsUntouched
  <2>4. TypeOK'
    BY <1>0, <1>14 DEF TypeOK, StoreWord, Goto, PCs
  <2>0. \A d \in Clients : pc[d] # "upgrade"
    BY <2>1 DEF IndInv, MutualExclusion, Readers
  <2>5. \A d \in Clients : LocalsOK(d)'
    BY <1>0, <1>14, <2>0 DEF IndInv, StoreWord, Goto, LocalsOK, WriteLocked, HasLock
  <2>6. word'.body \in Bodies
    BY <1>0, <1>14 DEF StoreWord, Words
  <2>7. Abstract!Store(c)
    BY <2>1, <2>2, <2>6 DEF Abstract!Store
  <2> QED
    BY <2>3, <2>4, <2>5, <2>7 DEF IndInv, LocalsOK, Abstract!Next
<1> QED
  BY <1>1, <1>2, <1>3, <1>4, <1>5, <1>6, <1>7, <1>8, <1>9, <1>10, <1>11,
     <1>12, <1>13, <1>14 DEF NewCall, Proceed, Drop

\* A stuttering step changes nothing the invariant or the mapping looks at.
LEMMA StutterKeeps ==
  ASSUME IndInv, UNCHANGED vars
  PROVE  IndInv' /\ UNCHANGED Abstract!vars
BY DEF vars, IndInv, TypeOK, MutualExclusion, LockByteExact, Readers, Writers,
       Abstract!vars

-----------------------------------------------------------------------------
\* The lock byte, the guards and the words in flight stay consistent in every
\* behaviour of any number of clients: the inductive invariant of OidLock.
THEOREM Invariant == Spec => []IndInv
<1>1. Init => IndInv
  BY InitInd
<1>2. IndInv /\ [Next]_vars => IndInv'
  BY StepKeeps, StutterKeeps DEF Next
<1> QED
  BY <1>1, <1>2, PTL DEF Spec

\* A write guard excludes every other guard, from try_read, try_write or upgrade.
THEOREM Exclusion == Spec => []MutualExclusion
<1>1. IndInv => MutualExclusion
  BY DEF IndInv
<1> QED
  BY Invariant, <1>1, PTL

\* The lock byte counts the guards exactly, also at the saturated count.
THEOREM LockByteCounts == Spec => []LockByteExact
<1>1. IndInv => LockByteExact
  BY DEF IndInv
<1> QED
  BY Invariant, <1>1, PTL

\* The word with its loads and swaps implements the abstract lock: guards are
\* granted and dropped, and the body replaced, only as RwLock allows.
THEOREM Refinement == Spec => ImplementsRwLock
<1>1. Init => Abstract!Init
  BY DEF Init, Abstract!Init, Readers, Writers
<1>2. IndInv /\ [Next]_vars => [Abstract!Next]_(Abstract!vars)
  BY StepKeeps, StutterKeeps DEF Next
<1> QED
  BY <1>1, <1>2, Invariant, PTL DEF Spec, ImplementsRwLock, Abstract!Spec

\* When a swap fails only on a changed word (x86), upgrade() gives the read
\* guard back only while another client holds a read guard.
THEOREM UpgradeErrHonest ==
  ASSUME ~SpuriousFailure
  PROVE  Spec => UpgradeErrMeansReader
<1> DEFINE Busy(c) == \E d \in Clients \ {c} : d \in Readers
<1>1. ASSUME IndInv, NEW c \in Clients,
             pc[c] \in {"reader", "upgrade"}, word.lock # 1
      PROVE  Busy(c)
  <2>1. c \in Readers /\ Cardinality(Readers) # 1
    BY <1>1 DEF Readers, IndInv, MutualExclusion, LockByteExact
  <2>2. Readers # {c}
    BY <2>1, FS_Singleton
  <2> QED
    BY <2>1, <2>2 DEF Readers
<1>2. ASSUME IndInv, NEW c \in Clients, UpgradeErr(c)
      PROVE  Busy(c)
  <2>1. word # val[c] /\ word \in Words /\ val[c] \in Words
    BY <1>2 DEF UpgradeErr, CasErr, IndInv, TypeOK
  <2>2. val[c].lock = 1 /\ val[c].body = word.body
    BY <1>2 DEF UpgradeErr, IndInv
  <2>3. word.lock # 1
    BY <2>1, <2>2 DEF Words
  <2> QED
    BY <1>1, <1>2, <2>3 DEF UpgradeErr
<1>3. ASSUME IndInv, NEW c \in Clients, Upgrade(c), pc'[c] = "reader"
      PROVE  Busy(c)
  <2>1. word.lock # 1
    BY <1>3 DEF Upgrade, LoadThen, Goto, IndInv, TypeOK
  <2> QED
    BY <1>1, <1>3, <2>1 DEF Upgrade
<1>4. IndInv => [\A c \in Clients :
                   UpgradeErr(c) \/ (Upgrade(c) /\ pc'[c] = "reader")
                     => \E d \in Clients \ {c} : d \in Readers]_vars
  BY <1>2, <1>3
<1> QED
  BY <1>4, Invariant, PTL DEF UpgradeErrMeansReader
=============================================================================
