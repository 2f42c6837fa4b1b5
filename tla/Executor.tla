------------------------------ MODULE Executor ------------------------------
(***************************************************************************)
(* The cooperative executor (src/src/async_task/mod.rs) that interleaves N *)
(* transactions on one thread: spawn fills a queue of N tasks, and         *)
(* run_ready_tasks polls them round robin, counts those that are ready in  *)
(* a u8 and returns the array of outputs, uninitialised memory until then, *)
(* when the count is N.  A task answers Pending as often as it awaits      *)
(* (a Prefetcher, a PrefetchRef or a DummySwitcher) and then Ready.        *)
(***************************************************************************)
EXTENDS Integers, FiniteSets

CONSTANTS N,         \* size of the queue
          Radix,     \* the values of the counter (256, a u8)
          MaxPolls,  \* bound of the model: how often a task answers Pending
          Tasks,
          None       \* an empty queue entry, an uninitialised output

ASSUME ExecutorAssumption ==
  /\ N \in Nat \ {0}
  /\ Radix \in Nat \ {0}
  /\ MaxPolls \in Nat
  /\ None \notin Tasks

Pos == 0..(N - 1)
\* N as u8
Wrap(n) == n % Radix

VARIABLES queue,    \* task_queue
          left,     \* left[i]: how often the task in entry i will be Pending
          placed,   \* history: the task spawned into entry i
          output,
          pos,
          ready,    \* ready_task
          pc        \* "idle", "run", or "panicked"

vars == <<queue, left, placed, output, pos, ready, pc>>

Init ==
  /\ queue = [i \in Pos |-> None]
  /\ left = [i \in Pos |-> 0]
  /\ placed = [i \in Pos |-> None]
  /\ output = [i \in Pos |-> None]
  /\ pos = 0
  /\ ready = 0
  /\ pc = "idle"

\* spawn: the first empty entry, or a panic.
Spawn(t, k) ==
  /\ pc = "idle"
  /\ \/ \E i \in Pos :
          /\ queue[i] = None
          /\ \A j \in 0..(i - 1) : queue[j] # None
          /\ queue' = [queue EXCEPT ![i] = t]
          /\ left' = [left EXCEPT ![i] = k]
          /\ placed' = [placed EXCEPT ![i] = t]
          /\ UNCHANGED pc
     \/ /\ \A i \in Pos : queue[i] # None
        /\ pc' = "panicked"
        /\ UNCHANGED <<queue, left, placed>>
  /\ UNCHANGED <<output, pos, ready>>

RunReadyTasks ==
  /\ pc = "idle"
  /\ pos' = 0
  /\ ready' = 0
  /\ output' = [i \in Pos |-> None]
  /\ pc' = "run"
  /\ UNCHANGED <<queue, left, placed>>

\* Mutant: the position is not advanced.
EndRound_Stuck(r) ==
  /\ ready' = r
  /\ pc' = IF r = Wrap(N) THEN "idle" ELSE "run"
  /\ UNCHANGED <<pos, placed>>

\* The end of a round: return, or go on with the next entry.
EndRound(r) ==
  /\ ready' = r
  /\ pos' = (pos + 1) % N
  /\ pc' = IF r = Wrap(N) THEN "idle" ELSE "run"
  /\ UNCHANGED placed

PollEmpty ==
  /\ pc = "run" /\ queue[pos] = None
  /\ EndRound(ready)
  /\ UNCHANGED <<queue, left, output>>

\* Mutant: a task that is not ready is counted.
PollPending_Counted ==
  /\ pc = "run" /\ queue[pos] # None /\ left[pos] > 0
  /\ left' = [left EXCEPT ![pos] = @ - 1]
  /\ EndRound(Wrap(ready + 1))
  /\ UNCHANGED <<queue, output>>

PollPending ==
  /\ pc = "run" /\ queue[pos] # None /\ left[pos] > 0
  /\ left' = [left EXCEPT ![pos] = @ - 1]
  /\ EndRound(ready)
  /\ UNCHANGED <<queue, output>>

\* Mutant: a finished task stays in the queue and is polled again.
PollReady_Kept ==
  /\ pc = "run" /\ queue[pos] # None /\ left[pos] = 0
  /\ output' = [output EXCEPT ![pos] = queue[pos]]
  /\ EndRound(Wrap(ready + 1))
  /\ UNCHANGED <<queue, left>>

PollReady ==
  /\ pc = "run" /\ queue[pos] # None /\ left[pos] = 0
  /\ output' = [output EXCEPT ![pos] = queue[pos]]
  /\ queue' = [queue EXCEPT ![pos] = None]
  /\ EndRound(Wrap(ready + 1))
  /\ UNCHANGED left

Poll == PollEmpty \/ PollPending \/ PollReady

Next ==
  \/ \E t \in Tasks, k \in 0..MaxPolls : Spawn(t, k)
  \/ RunReadyTasks
  \/ Poll

Spec == Init /\ [][Next]_vars

\* The loop of run_ready_tasks runs on.
FairSpec == Spec /\ WF_vars(Poll)

-----------------------------------------------------------------------------
\* The types of queue, outputs and position; the counter is a u8.
TypeOK ==
  /\ queue \in [Pos -> Tasks \cup {None}]
  /\ left \in [Pos -> Nat]
  /\ placed \in [Pos -> Tasks \cup {None}]
  /\ output \in [Pos -> Tasks \cup {None}]
  /\ pos \in Pos
  /\ ready \in Nat
  /\ pc \in {"idle", "run", "panicked"}

Done == {i \in Pos : output[i] # None}

\* The queue holds what was spawned; while it is polled, an entry is finished
\* or still in the queue, never both, and the counter counts the finished
\* ones.
Counted ==
  /\ \A i \in Pos : queue[i] # None => queue[i] = placed[i]
  /\ pc = "run" =>
       /\ ready = Cardinality(Done)
       /\ ready < N
       /\ \A i \in Pos : output[i] # None => queue[i] = None /\ output[i] = placed[i]

\* When run_ready_tasks returns, no output is uninitialised memory: output i is
\* that of the i-th task spawned, and no task is left behind.
ReturnsEveryOutput ==
  [][pc = "run" /\ pc' = "idle" =>
       \A i \in Pos : output'[i] # None /\ output'[i] = placed[i] /\ queue'[i] = None]_vars

\* With a full queue the loop ends.
FullQueueReturns ==
  (pc = "run" /\ \A i \in Pos : queue[i] # None) ~> (pc = "idle")
=============================================================================
