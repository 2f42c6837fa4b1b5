------------------------------ MODULE OidLock -------------------------------
(***************************************************************************)
(* LockedOid (src/src/attribute_cache/clock_cache/oid.rs): one atomic word *)
(* holding a reader-writer lock (its top byte) and the body of the oid     *)
(* (is_cached and the 32-bit id).                                          *)
(*                                                                         *)
(* Every load, compare-and-swap, fetch_sub and store of the word is a step *)
(* of its own, so the clients interleave between the load a decision is    *)
(* taken on and the compare-and-swap that acts on it.                      *)
(*                                                                         *)
(* A client is one caller (a thread, or a transaction task) with at most   *)
(* one guard on this oid.  The accesses are taken to be sequentially       *)
(* consistent: the crate builds for x86-64 only, where the locked          *)
(* read-modify-writes are fences.                                          *)
(***************************************************************************)
EXTENDS Integers, FiniteSets

CONSTANTS Clients,          \* the callers that contend for the oid
          Ids,              \* the values of the id field (ID_MASK)
          Writer,           \* LOCK_WRITER in units of LOCK_READER, 128 in the code
          SpuriousFailure   \* may compare_exchange_weak fail on an equal word?

ASSUME WriterAssumption == Writer \in Nat /\ Writer > 1
ASSUME ClientsAssumption == IsFiniteSet(Clients)
ASSUME SpuriousAssumption == SpuriousFailure \in BOOLEAN

VARIABLES word,   \* the atomic word: its lock byte and its body
          pc,     \* where each client is in its call, or which guard it holds
          val     \* the word each client loaded last (the local val or data)

vars == <<word, pc, val>>

Bodies == [cached : BOOLEAN, id : Ids]
Words  == [lock : 0..(2 * Writer - 1), body : Bodies]

\* Arithmetic on the lock byte wraps: wrapping_add, fetch_sub.
Wrap(n) == n % (2 * Writer)

\* (val & LOCK_WRITER) != 0
WriteLocked(w) == w.lock >= Writer
\* Mutant: try_write and write look at the writer bit only.
HasLock_WriterBit(w) == w.lock >= Writer

\* (val & LOCK_MASK) != 0
HasLock(w) == w.lock # 0

PCs == {"idle", "read", "try_read", "write", "try_write",
        "reader", "upgrade", "writer", "store"}

\* The clients that own an OidReadGuard; upgrade() runs with the guard held.
Readers == {c \in Clients : pc[c] \in {"reader", "upgrade"}}
\* The clients that own an OidWriteGuard.
Writers == {c \in Clients : pc[c] \in {"writer", "store"}}
\* The clients inside a blocking call.
Waiting == {c \in Clients : pc[c] \in {"read", "write"}}

Goto(c, l) == pc' = [pc EXCEPT ![c] = l]

\* let val = self.data.load(..), then continue at l
LoadThen(c, l) ==
  /\ val' = [val EXCEPT ![c] = word]
  /\ Goto(c, l)
  /\ UNCHANGED word

\* Mutant: the swap is a plain store of the new word.
CasOk_Store(c, new, l) ==
  /\ word' = new
  /\ Goto(c, l)
  /\ UNCHANGED val

\* compare_exchange_weak(val, new, ..) = Ok(_), then continue at l
CasOk(c, new, l) ==
  /\ word = val[c]
  /\ word' = new
  /\ Goto(c, l)
  /\ UNCHANGED val

\* compare_exchange_weak(..) = Err(_)
CasErr(c) == word # val[c] \/ SpuriousFailure

-----------------------------------------------------------------------------
Init ==
  /\ word \in [lock : {0}, body : Bodies]
  /\ pc = [c \in Clients |-> "idle"]
  /\ val = [c \in Clients |-> word]

\* read(): the first load, before the loop.
Read(c) == pc[c] = "idle" /\ LoadThen(c, "read")

\* One round of the loop of read(): reload while a writer holds the word,
\* else try to count one more reader; a failed swap hands back the new word.
ReadLoop(c) ==
  /\ pc[c] = "read"
  /\ \/ WriteLocked(val[c]) /\ LoadThen(c, "read")
     \/ /\ ~WriteLocked(val[c])
        /\ CasOk(c, [val[c] EXCEPT !.lock = Wrap(@ + 1)], "reader")
     \/ ~WriteLocked(val[c]) /\ CasErr(c) /\ LoadThen(c, "read")

\* try_read(): Err(ReadLockBusy) at once, or go on to the swap.
TryRead(c) ==
  /\ pc[c] = "idle"
  /\ LoadThen(c, IF WriteLocked(word) THEN "idle" ELSE "try_read")

\* The swap of try_read(): the guard, or Err(LockBusy).
TryReadCas(c) ==
  /\ pc[c] = "try_read"
  /\ \/ CasOk(c, [val[c] EXCEPT !.lock = Wrap(@ + 1)], "reader")
     \/ CasErr(c) /\ Goto(c, "idle") /\ UNCHANGED <<word, val>>

\* Drop of an OidReadGuard: read_unlock().
ReadUnlock(c) ==
  /\ pc[c] = "reader"
  /\ word' = [word EXCEPT !.lock = Wrap(@ - 1)]
  /\ Goto(c, "idle")
  /\ UNCHANGED val

\* write(): the first load, before the loop.
Write(c) == pc[c] = "idle" /\ LoadThen(c, "write")

\* One round of the loop of write().
WriteLoop(c) ==
  /\ pc[c] = "write"
  /\ \/ HasLock(val[c]) /\ LoadThen(c, "write")
     \/ ~HasLock(val[c]) /\ CasOk(c, [val[c] EXCEPT !.lock = Writer], "writer")
     \/ ~HasLock(val[c]) /\ CasErr(c) /\ LoadThen(c, "write")

\* try_write(): Err(WriteLockBusy) at once, or go on to the swap.
TryWrite(c) ==
  /\ pc[c] = "idle"
  /\ LoadThen(c, IF HasLock(word) THEN "idle" ELSE "try_write")

\* The swap of try_write(): the guard, or Err(LockBusy).
TryWriteCas(c) ==
  /\ pc[c] = "try_write"
  /\ \/ CasOk(c, [val[c] EXCEPT !.lock = Writer], "writer")
     \/ CasErr(c) /\ Goto(c, "idle") /\ UNCHANGED <<word, val>>

\* Drop of an OidWriteGuard: write_unlock().
WriteUnlock(c) ==
  /\ pc[c] = "writer"
  /\ word' = [word EXCEPT !.lock = Wrap(@ - Writer)]
  /\ Goto(c, "idle")
  /\ UNCHANGED val

\* Mutant: the upgrade tolerates a second reader.
Upgrade_OffByOne(c) ==
  /\ pc[c] = "reader"
  /\ LoadThen(c, IF word.lock > 2 THEN "reader" ELSE "upgrade")

\* Mutant: the upgrade counts its own guard as somebody else's.
Upgrade_CountsSelf(c) ==
  /\ pc[c] = "reader"
  /\ LoadThen(c, IF word.lock > 0 THEN "reader" ELSE "upgrade")

\* upgrade() of a read guard: Err(self) when another reader is counted.
Upgrade(c) ==
  /\ pc[c] = "reader"
  /\ LoadThen(c, IF word.lock > 1 THEN "reader" ELSE "upgrade")

\* The swap of upgrade(): the write guard, or Err(self), the read guard.
UpgradeOk(c) ==
  /\ pc[c] = "upgrade"
  /\ CasOk(c, [val[c] EXCEPT !.lock = Writer], "writer")

\* Mutant: the failed upgrade forgets its read guard instead of returning it.
UpgradeErr_Forget(c) ==
  /\ pc[c] = "upgrade"
  /\ CasErr(c)
  /\ Goto(c, "idle")
  /\ UNCHANGED <<word, val>>

UpgradeErr(c) ==
  /\ pc[c] = "upgrade"
  /\ CasErr(c)
  /\ Goto(c, "reader")
  /\ UNCHANGED <<word, val>>

\* store_rid() and store_index() load the word, replace its body in a local ...
StoreLoad(c, b) ==
  /\ pc[c] = "writer"
  /\ val' = [val EXCEPT ![c] = [word EXCEPT !.body = b]]
  /\ Goto(c, "store")
  /\ UNCHANGED word

StoreRid(c)   == \E id \in Ids : StoreLoad(c, [cached |-> FALSE, id |-> id])
StoreIndex(c) == \E id \in Ids : StoreLoad(c, [cached |-> TRUE, id |-> id])

\* ... and store the whole word, its lock byte included.
StoreWord(c) ==
  /\ pc[c] = "store"
  /\ word' = val[c]
  /\ Goto(c, "writer")
  /\ UNCHANGED val

-----------------------------------------------------------------------------
\* A client begins a call: it asks for a guard, or uses the one it has.
NewCall(c) ==
  \/ Read(c) \/ TryRead(c) \/ Write(c) \/ TryWrite(c)
  \/ Upgrade(c) \/ StoreRid(c) \/ StoreIndex(c)

\* A client goes on with a call it began.
Proceed(c) ==
  \/ ReadLoop(c) \/ TryReadCas(c) \/ WriteLoop(c) \/ TryWriteCas(c)
  \/ UpgradeOk(c) \/ UpgradeErr(c) \/ StoreWord(c)

\* A guard goes out of scope.
Drop(c) == ReadUnlock(c) \/ WriteUnlock(c)

Next == \E c \in Clients : NewCall(c) \/ Proceed(c) \/ Drop(c)

\* A thread that is inside a call keeps running, and a transaction ends, which
\* drops its guards.  Nobody has to begin a call.
Fairness == \A c \in Clients : WF_vars(Proceed(c)) /\ WF_vars(Drop(c))

Spec == Init /\ [][Next]_vars
FairSpec == Spec /\ Fairness

-----------------------------------------------------------------------------
\* The lock byte stays within its eight bits (of 2 * Writer values) and a client
\* is at one point of one call.
TypeOK ==
  /\ word \in Words
  /\ pc \in [Clients -> PCs]
  /\ val \in [Clients -> Words]

\* A write guard excludes every other guard on the oid, whatever interleaving
\* of loads and swaps granted them.
MutualExclusion ==
  /\ \A c, d \in Writers : c = d
  /\ Writers # {} => Readers = {}

\* The lock byte accounts for the guards that exist and for nothing else: no
\* failed call leaves a count behind, no upgrade or store forgets one.  In
\* particular it never wraps, although Writer readers make it read as
\* write-locked.
LockByteExact ==
  word.lock = IF Writers # {} THEN Writer ELSE Cardinality(Readers)

\* MutualExclusion and LockByteExact with what makes them inductive: the word
\* a client is about to swap was loaded in a state that allows the swap, and a
\* store in flight writes back the lock byte of the write guard.
IndInv ==
  /\ TypeOK
  /\ MutualExclusion
  /\ LockByteExact
  /\ \A c \in Clients :
       /\ pc[c] = "try_read"  => ~WriteLocked(val[c])
       /\ pc[c] = "try_write" => ~HasLock(val[c])
       /\ pc[c] = "upgrade"   => val[c].lock = 1 /\ val[c].body = word.body
       /\ pc[c] = "store"     => val[c].lock = Writer

\* "Returning error means that someone is also reading": when upgrade() gives
\* the read guard back, another client holds a read guard at that moment.
UpgradeErrMeansReader ==
  [][\A c \in Clients :
       UpgradeErr(c) \/ (Upgrade(c) /\ pc'[c] = "reader")
          => \E d \in Clients \ {c} : d \in Readers]_vars

\* A read guard never observes the lock as taken by a writer (the assumption
\* stated in upgrade() and asserted in read_unlock()).
ReaderNeverSeesWriter == Readers # {} => ~WriteLocked(word)

\* A blocking read() or write() returns unless new calls keep arriving: the
\* guards that exist are dropped, and no guard count is leaked that would keep
\* the spinning client out for ever.
BlockedOnlyByNewCalls ==
  \/ []<><<\E c \in Clients : NewCall(c)>>_vars
  \/ \A c \in Clients : (c \in Waiting) ~> (c \in Readers \cup Writers)

-----------------------------------------------------------------------------
\* The abstract lock this word implements.
Abstract == INSTANCE RwLock
              WITH readers <- Readers, writers <- Writers, body <- word.body

\* Every step of the word is a step of the abstract lock or leaves it alone.
ImplementsRwLock == Abstract!Spec
=============================================================================
