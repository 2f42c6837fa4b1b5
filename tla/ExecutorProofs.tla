--------------------------- MODULE ExecutorProofs ---------------------------
(***************************************************************************)
(* For every queue size that the u8 counter can hold, run_ready_tasks      *)
(* returns only when every output has been written, although it asks       *)
(* nothing but its counter before it treats the array as initialised.      *)
(***************************************************************************)
EXTENDS Executor, FiniteSetTheorems, TLAPS

\* The counter holds N.
CounterFits == N < Radix

IndInv == TypeOK /\ Counted

\* A set of entries has at most N of them, and N only if it has all.
LEMMA EntriesFinite ==
  ASSUME NEW S \in SUBSET Pos
  PROVE  /\ IsFiniteSet(S) /\ Cardinality(S) \in Nat
         /\ Cardinality(S) <= N
         /\ Cardinality(S) = N => S = Pos
<1>1. IsFiniteSet(Pos) /\ Cardinality(Pos) = N
  BY ExecutorAssumption, FS_Interval DEF Pos
<1>2. IsFiniteSet(S) /\ Cardinality(S) <= N /\ (N = Cardinality(S) => Pos = S)
  BY <1>1, FS_Subset
<1> QED
  BY <1>2, FS_CardinalityType

\* A count of at most N is kept as it is.
LEMMA NoWrap ==
  ASSUME CounterFits
  PROVE  \A n \in 0..N : Wrap(n) = n
BY ExecutorAssumption DEF CounterFits, Wrap

\* A round leaves a position in the queue behind.
LEMMA EndRoundType ==
  ASSUME TypeOK, CounterFits, NEW r \in 0..N, EndRound(r)
  PROVE  /\ pos' \in Pos /\ ready' \in Nat /\ ready' = r
         /\ pc' \in {"idle", "run"}
         /\ pc' = "idle" <=> r = N
<1>1. Wrap(N) = N
  BY NoWrap, ExecutorAssumption
<1> QED
  BY <1>1, ExecutorAssumption DEF EndRound, TypeOK, Pos

-----------------------------------------------------------------------------
\* One task is finished: it is counted, and when it is the last one every
\* output is there.
LEMMA ReadyKeeps ==
  ASSUME CounterFits, IndInv, PollReady
  PROVE  /\ IndInv'
         /\ pc' = "idle" => \A i \in Pos : output'[i] # None /\ output'[i] = placed[i]
                                           /\ queue'[i] = None
<1>0. TypeOK /\ Counted
  BY DEF IndInv
<1>1. pos \in Pos /\ queue[pos] # None /\ queue[pos] = placed[pos] /\ pos \notin Done
  BY <1>0 DEF PollReady, Counted, Done, TypeOK
<1>2. Done' = Done \cup {pos}
  BY <1>0, <1>1 DEF PollReady, Done, TypeOK
<1>3. Cardinality(Done)' = ready + 1 /\ ready \in Nat /\ ready < N
  <2>1. IsFiniteSet(Done)
    BY EntriesFinite DEF Done
  <2>2. Cardinality(Done \cup {pos}) = Cardinality(Done) + 1
    BY <1>1, <2>1, FS_AddElement
  <2> QED
    BY <1>0, <1>2, <2>2 DEF Counted, PollReady, TypeOK
<1>4. ready + 1 \in 0..N /\ Wrap(ready + 1) = ready + 1
  BY <1>3, NoWrap, ExecutorAssumption
<1>5. /\ pos' \in Pos /\ ready' \in Nat /\ ready' = ready + 1
      /\ pc' \in {"idle", "run"} /\ (pc' = "idle" <=> ready + 1 = N)
  BY <1>0, <1>4, EndRoundType DEF PollReady
<1>6. TypeOK'
  BY <1>0, <1>1, <1>5 DEF PollReady, EndRound, TypeOK
<1>7. \A i \in Pos : /\ queue'[i] # None => queue'[i] = placed'[i]
                     /\ output'[i] # None => queue'[i] = None /\ output'[i] = placed'[i]
  BY <1>0, <1>1 DEF PollReady, EndRound, Counted, TypeOK
<1>8. Counted'
  BY <1>3, <1>5, <1>7, ExecutorAssumption DEF Counted
<1>9. ASSUME pc' = "idle"
      PROVE  \A i \in Pos : output'[i] # None
  <2>1. Done' \in SUBSET Pos /\ Cardinality(Done') = N
    BY <1>3, <1>5, <1>9 DEF Done
  <2>2. Done' = Pos
    BY <2>1, EntriesFinite
  <2> QED
    BY <2>2 DEF Done
<1> QED
  BY <1>6, <1>7, <1>8, <1>9 DEF IndInv, PollReady, EndRound

\* A poll that finishes no task changes no count and does not end the loop.
LEMMA OtherPollKeeps ==
  ASSUME CounterFits, IndInv, PollEmpty \/ PollPending
  PROVE  IndInv' /\ pc' = "run"
<1>0. TypeOK /\ Counted /\ pc = "run"
  BY DEF IndInv, PollEmpty, PollPending
<1>1. ready \in 0..N /\ ready # N
  BY <1>0, ExecutorAssumption DEF TypeOK, Counted
<1>2. EndRound(ready) /\ UNCHANGED <<queue, output>>
  BY DEF PollEmpty, PollPending
<1>3. pos' \in Pos /\ ready' = ready /\ pc' = "run"
  BY <1>0, <1>1, <1>2, EndRoundType
<1>4. left' \in [Pos -> Nat]
  BY <1>0 DEF TypeOK, PollEmpty, PollPending
<1>5. TypeOK'
  BY <1>0, <1>2, <1>3, <1>4 DEF TypeOK, EndRound
<1>6. Counted'
  BY <1>0, <1>2, <1>3 DEF Counted, Done, EndRound
<1> QED
  BY <1>3, <1>5, <1>6 DEF IndInv

\* Every step keeps the invariant.
LEMMA StepKeeps ==
  ASSUME CounterFits, IndInv, [Next]_vars
  PROVE  /\ IndInv'
         /\ pc = "run" /\ pc' = "idle" =>
              \A i \in Pos : output'[i] # None /\ output'[i] = placed[i] /\ queue'[i] = None
<1>0. TypeOK /\ Counted
  BY DEF IndInv
<1>1. ASSUME NEW t \in Tasks, NEW k \in 0..MaxPolls, Spawn(t, k)
      PROVE  IndInv' /\ pc # "run"
  BY <1>0, <1>1, ExecutorAssumption DEF Spawn, IndInv, TypeOK, Counted
<1>2. CASE RunReadyTasks
  <2>1. TypeOK'
    BY <1>0, <1>2, ExecutorAssumption DEF RunReadyTasks, TypeOK, Pos
  <2>2. Done' = {}
    BY <1>2 DEF RunReadyTasks, Done
  <2>3. Cardinality(Done)' = 0
    BY <2>2, FS_EmptySet
  <2>4. Counted'
    BY <1>0, <1>2, <2>3, ExecutorAssumption DEF RunReadyTasks, Counted
  <2> QED
    BY <1>2, <2>1, <2>4 DEF IndInv, RunReadyTasks
<1>3. CASE PollReady
  BY <1>3, ReadyKeeps
<1>4. CASE PollEmpty \/ PollPending
  BY <1>4, OtherPollKeeps
<1>5. CASE UNCHANGED vars
  BY <1>0, <1>5 DEF vars, IndInv, TypeOK, Counted, Done
<1> QED
  BY <1>1, <1>2, <1>3, <1>4, <1>5 DEF Next, Poll

\* An executor starts with an empty queue.
LEMMA InitInd == Init => IndInv
BY ExecutorAssumption DEF Init, IndInv, TypeOK, Counted, Pos

-----------------------------------------------------------------------------
\* The counter of run_ready_tasks counts the finished tasks, for every queue
\* size that fits the counter.
THEOREM CounterExact == ASSUME CounterFits PROVE Spec => []Counted
<1>1. IndInv /\ [Next]_vars => IndInv'
  BY StepKeeps
<1>2. IndInv => Counted
  BY DEF IndInv
<1> QED
  BY InitInd, <1>1, <1>2, PTL DEF Spec

\* When run_ready_tasks returns, every output is initialised and belongs to the
\* task spawned at its position, and the queue is empty.
THEOREM OutputsInitialised == ASSUME CounterFits PROVE Spec => ReturnsEveryOutput
<1>1. IndInv /\ [Next]_vars => IndInv'
  BY StepKeeps
<1>2. IndInv /\ [Next]_vars =>
        [pc = "run" /\ pc' = "idle" =>
           \A i \in Pos : output'[i] # None /\ output'[i] = placed[i] /\ queue'[i] = None]_vars
  BY StepKeeps
<1> QED
  BY InitInd, <1>1, <1>2, PTL DEF Spec, ReturnsEveryOutput
=============================================================================
