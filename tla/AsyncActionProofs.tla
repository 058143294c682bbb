-------------------------- MODULE AsyncActionProofs --------------------------
(***************************************************************************)
(* Theorems about ThreadPool and AsyncAction, for any number of leaves,    *)
(* submissions, workers and threads, and whatever the work comes back      *)
(* with.                                                                   *)
(***************************************************************************)
EXTENDS AsyncAction, FiniteSetTheorems, SequenceTheorems, TLAPS

(***************************************************************************)
(* The pool.                                                               *)
(***************************************************************************)
\* A submission that the executor refused was counted too, and stays so.
Owing == {"counted", "queued", "running", "refused"}
Owed  == {t \in Tasks : task[t] \in Owing}

\* Who has been settled is who has run or was cancelled, since the submission.
SettledInTime ==
    \A t \in Tasks : /\ task[t] \in Owing \cup {"checked"} => t \notin settled
                     /\ task[t] \in {"ran", "done", "cancelled"} => t \in settled

\* The queue holds each submission once, and only those not yet taken.
QueueInv ==
    /\ \A i \in DOMAIN queue : task[queue[i]] \in {"queued", "cancelled"}
    /\ \A i, j \in DOMAIN queue : queue[i] = queue[j] => i = j

PendingCounts == pending = Cardinality(Owed)

PoolInv == PoolTypeOK /\ PendingCounts /\ SettledInTime /\ QueueInv

\* The number of submissions owed, as one of them moves on.
LEMMA OwedMoves ==
    ASSUME PoolTypeOK, NEW t \in Tasks, NEW s \in Stages, Stage(t, s)
    PROVE  /\ Cardinality(Owed) \in Nat
           /\ (s \in Owing) = (task[t] \in Owing) => Cardinality(Owed') = Cardinality(Owed)
           /\ s \in Owing /\ task[t] \notin Owing => Cardinality(Owed') = Cardinality(Owed) + 1
           /\ s \notin Owing /\ task[t] \in Owing => Cardinality(Owed') = Cardinality(Owed) - 1
<1>1. IsFiniteSet(Owed)
  BY PoolAssumption, FS_Subset DEF Owed
<1>2. task' = [task EXCEPT ![t] = s] /\ task \in [Tasks -> Stages]
  BY DEF Stage, PoolTypeOK
<1>3. (s \in Owing) = (task[t] \in Owing) => Owed' = Owed
  BY <1>2 DEF Owed
<1>4. s \in Owing => Owed' = Owed \cup {t}
  BY <1>2 DEF Owed
<1>5. s \notin Owing => Owed' = Owed \ {t}
  BY <1>2 DEF Owed
<1>6. t \in Owed <=> task[t] \in Owing
  BY DEF Owed
<1> QED
  BY <1>1, <1>3, <1>4, <1>5, <1>6, FS_AddElement, FS_RemoveElement, FS_CardinalityType

LEMMA PoolInitInv == PoolInit => PoolInv
<1> SUFFICES ASSUME PoolInit PROVE PoolInv
  OBVIOUS
<1>1. PoolTypeOK
  <2>1. queue \in Seq(Tasks)
    BY EmptySeq DEF PoolInit
  <2>2. task \in [Tasks -> Stages]
    BY DEF PoolInit, Stages
  <2> QED
    BY <2>1, <2>2 DEF PoolInit, PoolTypeOK
<1>2. Owed = {}
  BY DEF PoolInit, Owed, Owing
<1>3. PendingCounts
  BY <1>2, FS_EmptySet DEF PoolInit, PendingCounts
<1>4. SettledInTime /\ QueueInv
  BY DEF PoolInit, SettledInTime, QueueInv, Owing
<1> QED
  BY <1>1, <1>3, <1>4 DEF PoolInv

\* Steps that move no submission.
LEMMA PoolRests ==
    ASSUME PoolInv, phase' \in {"open", "stopped", "closed", "down"}, waiting' \in {"no", "yes", "True", "False"},
           UNCHANGED <<pending, task, settled, hooked, queue>>
    PROVE  PoolInv'
BY DEF PoolInv, PoolTypeOK, PendingCounts, Owed, SettledInTime, QueueInv

\* A step that moves submission t to stage s, which is not in the queue or stays
\* there as cancelled.
LEMMA PoolMoves ==
    ASSUME PoolInv, NEW t \in Tasks, NEW s \in Stages, Stage(t, s),
           UNCHANGED <<phase, queue, waiting>>,
           pending' = Cardinality(Owed'), pending' \in Nat,
           hooked' \subseteq Tasks,
           \/ settled' = settled \cup {t} /\ s \in {"ran", "done", "cancelled"}
           \/ settled' = settled \ {t} /\ s \in Owing \cup {"checked"},
           s = "cancelled" \/ \A i \in DOMAIN queue : queue[i] # t
    PROVE  PoolInv'
<1>1. task' = [task EXCEPT ![t] = s] /\ task \in [Tasks -> Stages]
  BY DEF Stage, PoolInv, PoolTypeOK
<1>2. PoolTypeOK'
  BY <1>1 DEF PoolInv, PoolTypeOK
<1>3. PendingCounts'
  BY DEF PendingCounts
<1>4. SettledInTime'
  BY <1>1 DEF PoolInv, SettledInTime, Owing
<1>5. QueueInv'
  BY <1>1 DEF PoolInv, QueueInv, PoolTypeOK
<1> QED
  BY <1>2, <1>3, <1>4, <1>5 DEF PoolInv

\* What is neither queued nor cancelled is not in the queue.
LEMMA OutOfQueue ==
    ASSUME PoolInv, NEW t \in Tasks, task[t] \notin {"queued", "cancelled"}
    PROVE  \A i \in DOMAIN queue : queue[i] # t
BY DEF PoolInv, QueueInv

LEMMA CheckInv ==
    ASSUME PoolInv, NEW t \in Tasks, Reusable(t), SubmitCheck(t)
    PROVE  PoolInv'
<1>1. "checked" \in Stages /\ "checked" \notin Owing /\ task[t] \notin Owing
  BY DEF Stages, Owing, Reusable
<1>2. Stage(t, "checked") /\ pending' = Cardinality(Owed') /\ pending' \in Nat
  BY <1>1, OwedMoves DEF PendingCounts, SubmitCheck, PoolInv
<1> QED
  BY <1>1, <1>2, PoolMoves DEF SubmitCheck, Reusable, PoolInv, PoolTypeOK

LEMMA CountInv ==
    ASSUME PoolInv, NEW t \in Tasks, SubmitCount(t)
    PROVE  PoolInv'
<1>1. "counted" \in Stages /\ "counted" \in Owing /\ task[t] \notin Owing
  BY DEF Stages, Owing, SubmitCount
<1>2. Stage(t, "counted") /\ pending' = Cardinality(Owed') /\ pending' \in Nat
  BY <1>1, OwedMoves DEF PendingCounts, SubmitCount, PoolInv, PoolTypeOK
<1>3. settled' = settled \ {t}
  BY DEF SubmitCount, PoolInv, SettledInTime
<1> QED
  BY <1>1, <1>2, <1>3, OutOfQueue, PoolMoves DEF SubmitCount, PoolInv, PoolTypeOK

LEMMA EnqueueInv ==
    ASSUME PoolInv, NEW t \in Tasks, SubmitEnqueue(t)
    PROVE  PoolInv'
<1>1. task[t] \in Owing /\ {"queued", "refused"} \subseteq Owing \cap Stages
  BY DEF Stages, Owing, SubmitEnqueue
<1>2. settled' = settled \ {t} /\ \A i \in DOMAIN queue : queue[i] # t
  BY <1>1, OutOfQueue DEF SubmitEnqueue, PoolInv, SettledInTime
<1>3. ASSUME NEW s \in {"queued", "refused"}, Stage(t, s)
      PROVE  pending' = Cardinality(Owed') /\ pending' \in Nat
  BY <1>1, <1>3, OwedMoves DEF PendingCounts, SubmitEnqueue, PoolInv, PoolTypeOK
<1>4. CASE phase \in {"open", "stopped"}
  <2>1. /\ task' = [task EXCEPT ![t] = "queued"] /\ queue' = Append(queue, t)
        /\ task \in [Tasks -> Stages] /\ queue \in Seq(Tasks)
    BY <1>4 DEF SubmitEnqueue, Stage, PoolInv, PoolTypeOK
  <2>2. PoolTypeOK'
    BY <1>1, <1>2, <1>3, <2>1 DEF SubmitEnqueue, PoolInv, PoolTypeOK, Stage
  <2>3. PendingCounts'
    BY <1>3, <2>1 DEF PendingCounts, Owed, Owing, Stage
  <2>4. SettledInTime'
    BY <1>1, <1>2, <2>1 DEF PoolInv, SettledInTime
  <2>5. QueueInv'
    BY <1>2, <2>1 DEF PoolInv, QueueInv
  <2> QED
    BY <2>2, <2>3, <2>4, <2>5 DEF PoolInv
<1>5. CASE phase \notin {"open", "stopped"}
  BY <1>1, <1>2, <1>3, <1>5, PoolMoves DEF SubmitEnqueue, PoolInv, PoolTypeOK
<1> QED
  BY <1>4, <1>5

LEMMA HookInv ==
    ASSUME PoolInv, NEW t \in Tasks, SubmitHook(t)
    PROVE  PoolInv' /\ UNCHANGED task
<1>1. UNCHANGED <<pending, settled, task, phase, queue, waiting>> /\ hooked' \subseteq Tasks
  BY DEF SubmitHook, Settle, PoolInv, PoolTypeOK, SettledInTime
<1> QED
  BY <1>1 DEF PoolInv, PoolTypeOK, PendingCounts, Owed, SettledInTime, QueueInv

LEMMA TakeInv ==
    ASSUME PoolInv, Take
    PROVE  PoolInv'
<1> DEFINE t == Head(queue)
<1>1. /\ queue \in Seq(Tasks) /\ queue # <<>> /\ t = queue[1] /\ t \in Tasks
      /\ task \in [Tasks -> Stages] /\ queue' \in Seq(Tasks) /\ queue' = Tail(queue)
      /\ Len(queue') = Len(queue) - 1 /\ Len(queue) \in Nat
      /\ \A i \in 1..Len(queue') : queue'[i] = queue[i + 1]
      /\ DOMAIN queue = 1..Len(queue) /\ DOMAIN queue' = 1..Len(queue')
  BY HeadTailProperties DEF Take, PoolInv, PoolTypeOK
<1>2. task[t] \in {"queued", "cancelled"} /\ \A i \in DOMAIN queue' : queue'[i] # t
  BY <1>1 DEF PoolInv, QueueInv
<1>3. \A i, j \in DOMAIN queue' : queue'[i] = queue'[j] => i = j
  BY <1>1 DEF PoolInv, QueueInv
<1>4. CASE task[t] = "cancelled"
  <2>1. UNCHANGED <<task, phase, pending, settled, hooked, waiting>>
    BY <1>4 DEF Take
  <2>2. QueueInv'
    BY <1>1, <1>3, <2>1 DEF PoolInv, QueueInv
  <2> QED
    BY <1>1, <2>1, <2>2 DEF PoolInv, PoolTypeOK, PendingCounts, Owed, SettledInTime
<1>5. CASE task[t] = "queued"
  <2>1. Stage(t, "running") /\ UNCHANGED <<phase, pending, settled, hooked, waiting>>
    BY <1>5 DEF Take
  <2>2. task' = [task EXCEPT ![t] = "running"] /\ "running" \in Stages
    BY <2>1 DEF Stage, Stages
  <2>3. PendingCounts'
    <3>1. pending' = Cardinality(Owed')
      BY <1>1, <1>5, <2>1, <2>2, OwedMoves DEF PendingCounts, Owing, PoolInv
    <3> QED
      BY <3>1 DEF PendingCounts, Owed, Owing
  <2>4. QueueInv'
    <3>1. \A i \in DOMAIN queue' : task[queue'[i]] \in {"queued", "cancelled"} /\ queue'[i] \in Tasks
      BY <1>1 DEF PoolInv, QueueInv
    <3> QED
      BY <1>1, <1>2, <1>3, <2>2, <3>1 DEF QueueInv
  <2>5. PoolTypeOK' /\ SettledInTime'
    BY <1>1, <1>5, <2>1, <2>2 DEF PoolInv, PoolTypeOK, SettledInTime, Owing
  <2> QED
    BY <2>3, <2>4, <2>5 DEF PoolInv
<1> QED
  BY <1>2, <1>4, <1>5

LEMMA WrapperInv ==
    ASSUME PoolInv, NEW t \in Tasks, WrapperEnds(t)
    PROVE  PoolInv'
<1>1. "ran" \in Stages /\ "ran" \notin Owing /\ task[t] \in Owing
  BY DEF Stages, Owing, WrapperEnds
<1>2. pending' = pending - 1 /\ settled' = settled \cup {t} /\ Stage(t, "ran")
  BY <1>1 DEF WrapperEnds, Settle, PoolInv, SettledInTime
<1>3. pending' = Cardinality(Owed') /\ pending' \in Nat
  <2>1. pending' = Cardinality(Owed')
    BY <1>1, <1>2, OwedMoves DEF PendingCounts, PoolInv
  <2>2. IsFiniteSet(Owed')
    BY PoolAssumption, FS_Subset DEF Owed
  <2> QED
    BY <2>1, <2>2, FS_CardinalityType
<1> QED
  BY <1>1, <1>2, <1>3, OutOfQueue, PoolMoves DEF WrapperEnds, PoolInv, PoolTypeOK

LEMMA ResolveInv ==
    ASSUME PoolInv, NEW t \in Tasks, Resolve(t)
    PROVE  PoolInv'
<1>1. "done" \in Stages /\ "done" \notin Owing /\ task[t] \notin Owing /\ t \in settled
  BY DEF Stages, Owing, Resolve, PoolInv, SettledInTime
<1>2. pending' = pending /\ settled' = settled \cup {t} /\ Stage(t, "done")
  BY <1>1 DEF Resolve, Callback, Settle
<1>3. pending' = Cardinality(Owed') /\ pending' \in Nat
  BY <1>1, <1>2, OwedMoves DEF PendingCounts, PoolInv, PoolTypeOK
<1> QED
  BY <1>1, <1>2, <1>3, OutOfQueue, PoolMoves DEF Resolve, PoolInv, PoolTypeOK

\* Only a submission with its callback in place is cancelled.
LEMMA CancelInv ==
    ASSUME PoolInv, NEW t \in Tasks, t \in hooked, CancelQueued(t)
    PROVE  PoolInv'
<1>1. "cancelled" \in Stages /\ "cancelled" \notin Owing /\ task[t] \in Owing
  BY DEF Stages, Owing, CancelQueued
<1>2. pending' = pending - 1 /\ settled' = settled \cup {t} /\ Stage(t, "cancelled")
  BY <1>1 DEF CancelQueued, Callback, Settle, PoolInv, SettledInTime
<1>3. pending' = Cardinality(Owed') /\ pending' \in Nat
  <2>1. pending' = Cardinality(Owed')
    BY <1>1, <1>2, OwedMoves DEF PendingCounts, PoolInv
  <2>2. IsFiniteSet(Owed')
    BY PoolAssumption, FS_Subset DEF Owed
  <2> QED
    BY <2>1, <2>2, FS_CardinalityType
<1> QED
  BY <1>1, <1>2, <1>3, PoolMoves DEF CancelQueued, PoolInv, PoolTypeOK

LEMMA PoolStepInv ==
    ASSUME PoolInv, PoolStep
    PROVE  PoolInv'
<1>1. CASE Take
  BY <1>1, TakeInv
<1>2. ASSUME NEW t \in Tasks, Resolve(t) PROVE PoolInv'
  BY <1>2, ResolveInv
<1>3. CASE WaitAll \/ WaitTrue \/ WaitFalse \/ ShutdownStop \/ ShutdownClose \/ ShutdownReturns
  BY <1>3, PoolRests DEF WaitAll, WaitTrue, WaitFalse, ShutdownStop, ShutdownClose,
     ShutdownReturns, PoolInv, PoolTypeOK
<1> QED
  BY <1>1, <1>2, <1>3 DEF PoolStep

(***************************************************************************)
(* The leaves.                                                             *)
(***************************************************************************)
InTick == {"count", "enqueue", "hook"}

\* tick() of a leaf of the pool, in the middle of submit(): nobody else knows
\* of the submission yet.
TickInv ==
    at.op \in InTick =>
        /\ at.n \in Pooled /\ at.t \in Tasks
        /\ Unheld(at.t) /\ owner[at.t] = at.n
        /\ status[at.n] # "RUNNING" /\ at.n \notin cancelled
        /\ at.op = "hook" => task[at.t] \notin {"checked", "counted"}

JoinInv == at.op = "join" => at.n \in cancelled

\* A job is of its leaf's kind, and what a leaf holds has its callback.
JobInv ==
    /\ \A n \in Pooled : work[n] \in Tasks \cup {None}
    /\ \A n \in Leaves \ Pooled : work[n] \in Threads \cup {None}
    /\ \A n \in Leaves : work[n] \in Tasks => work[n] \in hooked
    /\ \A n \in Leaves : work[n] # None => owner[work[n]] = n
    /\ \A t \in Tasks : task[t] # "free" => owner[t] \in Pooled
    /\ \A th \in Threads : thread[th] # "free" => owner[th] \in Leaves \ Pooled

\* A leaf whose work never outlasts JOIN_TIMEOUT is RUNNING with all its work
\* that is not over.
TaskInv ==
    \A t \in Tasks :
        /\ task[t] \in {"checked", "counted", "queued", "running", "ran"}
        /\ owner[t] \notin Stubborn
        => \/ at.op \in InTick /\ at.t = t
           \/ work[owner[t]] = t /\ status[owner[t]] = "RUNNING"

\* A queued submission is the work of a RUNNING leaf whose token is not cancelled,
\* stubborn or not, or about to be; one on its way to the queue is known to tick() only.
QueuedInv ==
    \A t \in Tasks :
        /\ task[t] \in {"checked", "counted"} => at.op \in InTick /\ at.t = t
        /\ task[t] = "queued" =>
              \/ at.op \in InTick /\ at.t = t
              \/ /\ work[owner[t]] = t /\ status[owner[t]] = "RUNNING"
                 /\ owner[t] \notin cancelled

ThreadInv ==
    \A th \in Threads :
        thread[th] \in {"running", "ran"} /\ owner[th] \notin Stubborn
        => work[owner[th]] = th /\ status[owner[th]] = "RUNNING"

\* Its _result, once there is one, is that of its thread.
ResultInv ==
    \A n \in Leaves \ Stubborn :
        result[n] # "None" =>
            /\ work[n] \in Threads /\ thread[work[n]] = "over"
            /\ result[n] = SettleResult(answer[work[n]])

LeafInv == TickInv /\ JoinInv /\ JobInv /\ TaskInv /\ QueuedInv /\ ThreadInv /\ ResultInv
IInv == AsyncTypeOK /\ PoolInv /\ LeafInv

LEMMA Disjoint == /\ Tasks \cap Threads = {} /\ None \notin Jobs /\ Tasks \cup Threads = Jobs
                  /\ Pooled \subseteq Leaves
BY LeafAssumption DEF Jobs

LEMMA SettleType ==
    ASSUME NEW raw PROVE SettleResult(raw) \in NodeStatus
BY DEF SettleResult, NodeStatus, Settled

LEMMA UnchangedInv == ASSUME IInv, UNCHANGED vars PROVE IInv'
BY DEF vars, poolVars, leafVars, IInv, AsyncTypeOK, PoolInv, PoolTypeOK, PendingCounts, Owed, SettledInTime,
   QueueInv, LeafInv, TickInv, JoinInv, JobInv, TaskInv, QueuedInv, ThreadInv, ResultInv, Unheld

LEMMA InitInv == Init => IInv
<1> SUFFICES ASSUME Init PROVE IInv
  OBVIOUS
<1>1. PoolInv
  BY PoolInitInv DEF Init
<1>2. AsyncTypeOK
  BY <1>1 DEF Init, PoolInv, AsyncTypeOK, NodeStatus, Idle
<1>3. JobInv /\ TickInv /\ JoinInv
  BY Disjoint DEF Init, PoolInit, TickInv, JoinInv, JobInv, InTick, Idle
<1>4. TaskInv /\ QueuedInv /\ ThreadInv /\ ResultInv
  BY DEF Init, PoolInit, TaskInv, QueuedInv, ThreadInv, ResultInv
<1> QED
  BY <1>1, <1>2, <1>3, <1>4 DEF IInv, LeafInv

(***************************************************************************)
(* The start of a submission.                                              *)
(***************************************************************************)
LEMMA StartPooledInv ==
    ASSUME IInv, NEW n \in Leaves, NEW t \in Tasks, StartPooled(n, t)
    PROVE  IInv'
<1>1. PoolInv'
  BY CheckInv DEF StartPooled, IInv
<1>2. /\ n \in Pooled /\ status[n] # "RUNNING" /\ Unheld(t) /\ at = Idle
      /\ at' = [op |-> "count", n |-> n, t |-> t]
      /\ task' = [task EXCEPT ![t] = "checked"] /\ hooked' = hooked \ {t}
      /\ result' = [result EXCEPT ![n] = "None"]
      /\ owner' = [owner EXCEPT ![t] = n] /\ answer' = [answer EXCEPT ![t] = "None"]
      /\ cancelled' = cancelled \ {n}
      /\ UNCHANGED <<status, work, thread>>
  BY DEF StartPooled, Fresh, Assign, SubmitCheck, Stage, At
<1>3. AsyncTypeOK'
  BY <1>1, <1>2, Disjoint DEF IInv, PoolInv, AsyncTypeOK
<1>4. TickInv' /\ JoinInv' /\ JobInv'
  BY <1>2, Disjoint DEF IInv, LeafInv, AsyncTypeOK, PoolTypeOK, TickInv, JoinInv, JobInv, Unheld, InTick
<1>5. TaskInv' /\ QueuedInv'
  BY <1>2, Disjoint DEF IInv, LeafInv, AsyncTypeOK, PoolTypeOK, TaskInv, QueuedInv, InTick, Idle
<1>6. ThreadInv' /\ ResultInv'
  BY <1>2, Disjoint DEF IInv, LeafInv, AsyncTypeOK, ThreadInv, JobInv, ResultInv
<1> QED
  BY <1>1, <1>3, <1>4, <1>5, <1>6 DEF IInv, LeafInv

LEMMA StartRefusedInv ==
    ASSUME IInv, NEW n \in Leaves, StartRefused(n)
    PROVE  IInv'
<1>1. /\ result' = [result EXCEPT ![n] = "None"] /\ cancelled' = cancelled \ {n}
      /\ UNCHANGED <<poolVars, status, work, thread, answer, owner, at>> /\ at.op = "idle"
  BY DEF StartRefused, Fresh, Idle
<1>2. PoolInv'
  BY <1>1 DEF IInv, PoolInv, poolVars, PoolTypeOK, PendingCounts, Owed, SettledInTime, QueueInv
<1>3. AsyncTypeOK'
  BY <1>1, <1>2 DEF IInv, PoolInv, AsyncTypeOK
<1>4. LeafInv'
  BY <1>1 DEF IInv, AsyncTypeOK, LeafInv, poolVars, TickInv, JoinInv, JobInv, TaskInv, QueuedInv, ThreadInv, ResultInv, Unheld
<1> QED
  BY <1>2, <1>3, <1>4 DEF IInv

LEMMA CountedInv ==
    ASSUME IInv, NEW n \in Leaves, NEW t \in Tasks, Counted(n, t)
    PROVE  IInv'
<1>1. PoolInv'
  BY CountInv DEF Counted, IInv
<1>2. /\ at = [op |-> "count", n |-> n, t |-> t] /\ at' = [op |-> "enqueue", n |-> n, t |-> t]
      /\ task' = [task EXCEPT ![t] = "counted"]
      /\ UNCHANGED <<status, work, cancelled, result, thread, answer, owner, hooked>>
  BY DEF Counted, SubmitCount, Stage, At, Is
<1>3. AsyncTypeOK'
  BY <1>1, <1>2, Disjoint DEF IInv, PoolInv, AsyncTypeOK
<1>4. LeafInv'
  BY <1>2 DEF IInv, AsyncTypeOK, PoolTypeOK, LeafInv, TickInv, JoinInv, JobInv, TaskInv, QueuedInv, ThreadInv,
     ResultInv, Unheld, InTick
<1> QED
  BY <1>1, <1>3, <1>4 DEF IInv

LEMMA EnqueuedInv ==
    ASSUME IInv, NEW n \in Leaves, NEW t \in Tasks, Enqueued(n, t)
    PROVE  IInv'
<1>1. PoolInv'
  BY EnqueueInv DEF Enqueued, IInv
<1>2. /\ at = [op |-> "enqueue", n |-> n, t |-> t]
      /\ \/ /\ task' = [task EXCEPT ![t] = "queued"]
            /\ at' = [op |-> "hook", n |-> n, t |-> t]
         \/ task' = [task EXCEPT ![t] = "refused"] /\ at' = Idle
      /\ UNCHANGED <<status, work, cancelled, result, thread, answer, owner, hooked>>
  BY DEF Enqueued, SubmitEnqueue, Stage, At, Is
<1>3. AsyncTypeOK'
  BY <1>1, <1>2, Disjoint DEF IInv, PoolInv, AsyncTypeOK, Idle
<1>4. LeafInv'
  BY <1>2 DEF IInv, AsyncTypeOK, PoolTypeOK, LeafInv, TickInv, JoinInv, JobInv, TaskInv, QueuedInv, ThreadInv,
     ResultInv, Unheld, InTick, Idle
<1> QED
  BY <1>1, <1>3, <1>4 DEF IInv

LEMMA SubmittedInv ==
    ASSUME IInv, NEW n \in Leaves, NEW t \in Tasks, Submitted(n, t)
    PROVE  IInv'
<1>1. PoolInv' /\ UNCHANGED task
  BY HookInv DEF Submitted, IInv
<1>2. /\ at = [op |-> "hook", n |-> n, t |-> t] /\ at' = Idle
      /\ work' = [work EXCEPT ![n] = t] /\ status' = [status EXCEPT ![n] = "RUNNING"]
      /\ hooked' = hooked \cup {t}
      /\ UNCHANGED <<cancelled, result, thread, answer, owner>>
  BY DEF Submitted, SubmitHook, Started, At, Is
<1>3. AsyncTypeOK'
  BY <1>1, <1>2, Disjoint DEF IInv, PoolInv, AsyncTypeOK, Idle, NodeStatus
<1>4. n \in Pooled /\ owner[t] = n /\ Unheld(t) /\ status[n] # "RUNNING" /\ n \notin cancelled
  BY <1>2 DEF IInv, LeafInv, TickInv, InTick
<1>5. TickInv' /\ JoinInv' /\ JobInv'
  BY <1>1, <1>2, <1>4, Disjoint DEF IInv, AsyncTypeOK, LeafInv, TickInv, JoinInv, JobInv, InTick, Idle
<1>6. TaskInv' /\ QueuedInv'
  <2>1. TaskInv'
    BY <1>1, <1>2, <1>4, Disjoint DEF IInv, AsyncTypeOK, LeafInv, JobInv, TaskInv, InTick, Idle
  <2>2. task[t] \notin {"checked", "counted"}
    BY <1>2 DEF IInv, LeafInv, TickInv, InTick
  <2>3. QueuedInv'
    BY <1>1, <1>2, <1>4, <2>2, Disjoint DEF IInv, AsyncTypeOK, LeafInv, JobInv, QueuedInv, InTick, Idle
  <2> QED
    BY <2>1, <2>3
<1>7. ThreadInv'
  BY <1>2, <1>4 DEF IInv, AsyncTypeOK, LeafInv, JobInv, ThreadInv
<1>8. ResultInv'
  BY <1>2, <1>4, Disjoint DEF IInv, AsyncTypeOK, LeafInv, JobInv, ResultInv
<1> QED
  BY <1>1, <1>3, <1>5, <1>6, <1>7, <1>8 DEF IInv, LeafInv

LEMMA StartThreadInv ==
    ASSUME IInv, NEW n \in Leaves, NEW th \in Threads, StartThread(n, th)
    PROVE  IInv'
<1>1. /\ n \in Leaves \ Pooled /\ status[n] # "RUNNING" /\ FreeThread(n, th)
      /\ at = Idle /\ at' = Idle
      /\ work' = [work EXCEPT ![n] = th] /\ status' = [status EXCEPT ![n] = "RUNNING"]
      /\ result' = [result EXCEPT ![n] = "None"] /\ cancelled' = cancelled \ {n}
      /\ owner' = [owner EXCEPT ![th] = n] /\ answer' = [answer EXCEPT ![th] = "None"]
      /\ thread' = [thread EXCEPT ![th] = "running"]
      /\ UNCHANGED poolVars
  BY DEF StartThread, Fresh, Assign, Started
<1>2. PoolInv'
  BY <1>1 DEF IInv, PoolInv, poolVars, PoolTypeOK, PendingCounts, Owed, SettledInTime, QueueInv
<1>3. AsyncTypeOK'
  BY <1>1, <1>2, Disjoint DEF IInv, PoolInv, AsyncTypeOK, Idle, NodeStatus
<1>4. TickInv' /\ JoinInv' /\ JobInv'
  BY <1>1, Disjoint DEF IInv, AsyncTypeOK, LeafInv, TickInv, JoinInv, JobInv, InTick, Idle, poolVars, FreeThread
<1>5. TaskInv' /\ QueuedInv'
  BY <1>1, Disjoint DEF IInv, AsyncTypeOK, LeafInv, JobInv, TaskInv, QueuedInv, InTick, Idle, poolVars
<1>6. ThreadInv'
  BY <1>1, Disjoint DEF IInv, AsyncTypeOK, LeafInv, JobInv, ThreadInv
<1>7. ResultInv'
  BY <1>1 DEF IInv, AsyncTypeOK, LeafInv, ResultInv, FreeThread
<1> QED
  BY <1>2, <1>3, <1>4, <1>5, <1>6, <1>7 DEF IInv, LeafInv

(***************************************************************************)
(* Polls.                                                                  *)
(***************************************************************************)
\* A RUNNING leaf whose work is over, or a settled leaf, gets another status.
LEMMA StatusInv ==
    ASSUME IInv, NEW n \in Leaves, NEW s \in NodeStatus, status' = [status EXCEPT ![n] = s],
           s # "RUNNING", at = Idle,
           status[n] = "RUNNING" => /\ work[n] \in Jobs
                                    /\ Over(work[n]) \/ (work[n] \in Threads /\ n \in Stubborn),
           UNCHANGED <<poolVars, work, cancelled, result, thread, answer, owner, at>>
    PROVE  IInv'
<1>1. PoolInv'
  BY DEF IInv, PoolInv, poolVars, PoolTypeOK, PendingCounts, Owed, SettledInTime, QueueInv
<1>2. AsyncTypeOK'
  BY <1>1 DEF IInv, PoolInv, AsyncTypeOK
<1>3. TickInv' /\ JoinInv' /\ JobInv' /\ ResultInv'
  BY DEF IInv, LeafInv, TickInv, JoinInv, JobInv, ResultInv, InTick, Idle, poolVars
<1>4. TaskInv' /\ QueuedInv'
  BY Disjoint DEF IInv, LeafInv, AsyncTypeOK, TaskInv, QueuedInv, InTick, Idle, poolVars, Over
<1>5. ThreadInv'
  BY Disjoint DEF IInv, LeafInv, AsyncTypeOK, ThreadInv, Over
<1> QED
  BY <1>1, <1>2, <1>3, <1>4, <1>5 DEF IInv, LeafInv

LEMMA PollInv ==
    ASSUME IInv, NEW n \in Leaves, PollFuture(n) \/ PollResult(n) \/ HaltSettled(n)
    PROVE  IInv'
<1>1. CASE PollFuture(n)
  <2>1. SettleResult(answer[work[n]]) \notin {"IDLE", "RUNNING"} \/ SettleResult(answer[work[n]]) = "RUNNING"
    BY <1>1 DEF PollFuture
  <2>2. CASE SettleResult(answer[work[n]]) = "RUNNING"
    <3>1. UNCHANGED vars
      BY <1>1, <2>2 DEF PollFuture, vars, leafVars, IInv, AsyncTypeOK
    <3> QED
      BY <3>1, UnchangedInv
  <2>3. CASE SettleResult(answer[work[n]]) # "RUNNING"
    BY <1>1, <2>3, SettleType, Disjoint, StatusInv DEF PollFuture
  <2> QED
    BY <2>2, <2>3
<1>2. CASE PollResult(n)
  <2>1. result[n] \in NodeStatus
    BY <1>2 DEF PollResult, IInv, AsyncTypeOK
  <2>2. CASE result[n] = "RUNNING"
    <3>1. UNCHANGED vars
      BY <1>2, <2>2 DEF PollResult, vars, leafVars, IInv, AsyncTypeOK
    <3> QED
      BY <3>1, UnchangedInv
  <2>3. CASE result[n] # "RUNNING"
    <3>1. work[n] \in Threads /\ (n \in Stubborn \/ Over(work[n]))
      BY <1>2, Disjoint DEF PollResult, IInv, LeafInv, ResultInv, Over
    <3> QED
      BY <1>2, <2>1, <2>3, <3>1, Disjoint, StatusInv DEF PollResult
  <2> QED
    BY <2>2, <2>3
<1>3. CASE HaltSettled(n)
  BY <1>3, StatusInv DEF HaltSettled, Settled, NodeStatus
<1> QED
  BY <1>1, <1>2, <1>3

(***************************************************************************)
(* Halts.                                                                  *)
(***************************************************************************)
\* A leaf forgets work that is over, cancelled, or stubborn.
LEMMA ForgetInv ==
    ASSUME IInv, PoolInv', NEW n \in Leaves, Forget(n),
           UNCHANGED <<thread, answer, owner, hooked>>,
           cancelled' \subseteq Leaves, cancelled' \subseteq cancelled \cup {n},
           \/ work[n] = None \/ (n \in Stubborn /\ n \in cancelled)
           \/ work[n] \in Threads /\ thread[work[n]] = "over"
           \/ work[n] \in Tasks /\ task'[work[n]] \in {"done", "cancelled"},
           at.op \notin InTick,
           \A t \in Tasks : t # work[n] => task'[t] = task[t],
           \A t \in Tasks : task[t] = "free" => task'[t] = "free",
           \A t \in Tasks : task'[t] \in {"checked", "counted", "queued", "running", "ran"}
                              => task[t] = task'[t]
    PROVE  IInv'
<1>1. /\ work' = [work EXCEPT ![n] = None] /\ result' = [result EXCEPT ![n] = "None"]
      /\ status' = [status EXCEPT ![n] = "IDLE"] /\ at' = Idle
  BY DEF Forget
<1>2. AsyncTypeOK'
  BY <1>1 DEF IInv, PoolInv, AsyncTypeOK, NodeStatus, Idle
<1>3. TickInv' /\ JoinInv'
  BY <1>1 DEF TickInv, JoinInv, InTick, Idle
<1>4. JobInv'
  <2>1. \A t \in Tasks : task'[t] # "free" => task[t] # "free"
    OBVIOUS
  <2> QED
    BY <1>1, <2>1, Disjoint DEF IInv, AsyncTypeOK, LeafInv, JobInv
<1>5. TaskInv' /\ QueuedInv'
  BY <1>1, Disjoint DEF IInv, AsyncTypeOK, LeafInv, TaskInv, QueuedInv
<1>6. ThreadInv'
  BY <1>1, Disjoint DEF IInv, AsyncTypeOK, LeafInv, ThreadInv
<1>7. ResultInv'
  BY <1>1 DEF IInv, AsyncTypeOK, LeafInv, ResultInv
<1> QED
  BY <1>2, <1>3, <1>4, <1>5, <1>6, <1>7 DEF IInv, LeafInv

LEMMA SamePool == ASSUME PoolInv, UNCHANGED poolVars PROVE PoolInv'
BY DEF PoolInv, poolVars, PoolTypeOK, PendingCounts, Owed, SettledInTime, QueueInv

LEMMA HaltInv ==
    ASSUME IInv, NEW n \in Leaves, HaltUnstarted(n) \/ Joined(n) \/ JoinTimedOut(n)
    PROVE  IInv'
<1>1. CASE HaltUnstarted(n) /\ work[n] = None
  <2>1. Forget(n) /\ UNCHANGED <<poolVars, thread, answer, owner>> /\ at.op \notin InTick
        /\ cancelled' \subseteq Leaves /\ cancelled' \subseteq cancelled \cup {n}
    BY <1>1, Disjoint DEF HaltUnstarted, CancelQueued, Cancel, Idle, InTick, IInv, AsyncTypeOK, Jobs
  <2> QED
    BY <1>1, <2>1, SamePool, ForgetInv DEF IInv, poolVars
<1>2. CASE HaltUnstarted(n) /\ work[n] # None
  <2>1. /\ work[n] \in Tasks /\ work[n] \in hooked /\ CancelQueued(work[n])
        /\ Forget(n) /\ UNCHANGED <<thread, answer, owner>> /\ at.op \notin InTick
        /\ cancelled' \subseteq Leaves /\ cancelled' \subseteq cancelled \cup {n}
    BY <1>2 DEF HaltUnstarted, Cancel, Idle, InTick, IInv, AsyncTypeOK, LeafInv, JobInv
  <2>2. /\ task' = [task EXCEPT ![work[n]] = "cancelled"] /\ task[work[n]] = "queued"
        /\ UNCHANGED hooked
    BY <2>1 DEF CancelQueued, Stage
  <2>3. task \in [Tasks -> Stages]
    BY DEF IInv, AsyncTypeOK, PoolTypeOK
  <2>4. /\ task'[work[n]] = "cancelled"
        /\ \A t \in Tasks : t # work[n] => task'[t] = task[t]
    BY <2>1, <2>2, <2>3
  <2>5. PoolInv'
    BY <2>1, CancelInv DEF IInv
  <2> QED
    BY <2>1, <2>2, <2>4, <2>5, ForgetInv
<1>3. CASE Joined(n)
  <2>1. /\ Forget(n) /\ UNCHANGED <<poolVars, cancelled, thread, answer, owner>>
        /\ at.op = "join" /\ at.t = work[n] /\ Over(work[n])
    BY <1>3 DEF Joined, Is
  <2>2. \/ work[n] = None
        \/ work[n] \in Threads /\ thread[work[n]] = "over"
        \/ work[n] \in Tasks /\ task'[work[n]] \in {"done", "cancelled"}
    BY <2>1, Disjoint DEF Over, IInv, AsyncTypeOK, poolVars
  <2> QED
    BY <2>1, <2>2, SamePool, ForgetInv DEF IInv, poolVars, AsyncTypeOK, InTick
<1>4. CASE JoinTimedOut(n)
  <2>1. /\ Forget(n) /\ UNCHANGED <<poolVars, cancelled, thread, answer, owner>>
        /\ at.op = "join" /\ n \in Stubborn /\ n \in cancelled
    BY <1>4 DEF JoinTimedOut, Is, IInv, LeafInv, JoinInv
  <2> QED
    BY <2>1, SamePool, ForgetInv DEF IInv, poolVars, AsyncTypeOK, InTick
<1> QED
  BY <1>1, <1>2, <1>3, <1>4

LEMMA HaltStartedInv ==
    ASSUME IInv, NEW n \in Leaves, HaltStarted(n)
    PROVE  IInv'
<1>1. /\ at = Idle /\ work[n] \in Jobs /\ at' = [op |-> "join", n |-> n, t |-> work[n]]
      /\ cancelled' = cancelled \cup {n} /\ (work[n] \in Tasks => task[work[n]] # "queued")
      /\ UNCHANGED <<poolVars, status, work, result, thread, answer, owner>>
  BY DEF HaltStarted, Cancel, At, IInv, AsyncTypeOK
<1>2. PoolInv'
  BY <1>1, SamePool DEF IInv
<1>3. AsyncTypeOK'
  BY <1>1, <1>2 DEF IInv, PoolInv, AsyncTypeOK
<1>4. QueuedInv'
  BY <1>1 DEF IInv, AsyncTypeOK, LeafInv, JobInv, QueuedInv, InTick, Idle, poolVars
<1>5. TickInv' /\ JoinInv' /\ JobInv' /\ TaskInv' /\ ThreadInv' /\ ResultInv'
  BY <1>1 DEF IInv, LeafInv, TickInv, JoinInv, JobInv, TaskInv, ThreadInv, ResultInv, InTick, Idle, poolVars
<1> QED
  BY <1>2, <1>3, <1>4, <1>5 DEF IInv, LeafInv

(***************************************************************************)
(* The workers, and the pool by itself.                                    *)
(***************************************************************************)
LEMMA WorkerInv ==
    ASSUME IInv, NEW t \in Tasks, WorkerReturns(t)
    PROVE  IInv'
<1>1. PoolInv'
  BY WrapperInv DEF WorkerReturns, IInv
<1>2. PICK raw \in Raw : answer' = [answer EXCEPT ![t] = raw]
  BY DEF WorkerReturns
<1>3. /\ task[t] = "running" /\ task' = [task EXCEPT ![t] = "ran"]
      /\ UNCHANGED <<status, work, cancelled, result, thread, owner, at, hooked>>
  BY DEF WorkerReturns, WrapperEnds, Stage
<1>4. AsyncTypeOK'
  BY <1>1, <1>2, <1>3 DEF IInv, PoolInv, AsyncTypeOK, Jobs
<1>5. TickInv' /\ JoinInv' /\ JobInv' /\ TaskInv' /\ QueuedInv' /\ ThreadInv'
  BY <1>3 DEF IInv, AsyncTypeOK, PoolTypeOK, LeafInv, TickInv, JoinInv, JobInv, TaskInv, QueuedInv, ThreadInv, Unheld
<1>6. ResultInv'
  BY <1>2, <1>3, Disjoint DEF IInv, AsyncTypeOK, LeafInv, ResultInv
<1> QED
  BY <1>1, <1>4, <1>5, <1>6 DEF IInv, LeafInv

LEMMA ThreadReturnsInv ==
    ASSUME IInv, NEW th \in Threads, ThreadReturns(th)
    PROVE  IInv'
<1>1. PICK raw \in Raw : answer' = [answer EXCEPT ![th] = raw]
  BY DEF ThreadReturns
<1>2. /\ thread[th] = "running" /\ thread' = [thread EXCEPT ![th] = "ran"]
      /\ UNCHANGED <<poolVars, status, work, cancelled, result, owner, at>>
  BY DEF ThreadReturns
<1>3. PoolInv'
  BY <1>2, SamePool DEF IInv
<1>4. AsyncTypeOK'
  BY <1>1, <1>2, <1>3 DEF IInv, PoolInv, AsyncTypeOK, Jobs
<1>5. TickInv' /\ JoinInv' /\ JobInv' /\ TaskInv' /\ QueuedInv' /\ ThreadInv'
  BY <1>2 DEF IInv, AsyncTypeOK, LeafInv, TickInv, JoinInv, JobInv, TaskInv, QueuedInv, ThreadInv, Unheld, poolVars
<1>6. ResultInv'
  BY <1>1, <1>2 DEF IInv, AsyncTypeOK, LeafInv, ResultInv
<1> QED
  BY <1>3, <1>4, <1>5, <1>6 DEF IInv, LeafInv

LEMMA PublishInv ==
    ASSUME IInv, NEW th \in Threads, ThreadPublishes(th)
    PROVE  IInv'
<1> DEFINE r == SettleResult(answer[th])
<1>1. /\ thread[th] = "ran" /\ thread' = [thread EXCEPT ![th] = "over"]
      /\ result' = [result EXCEPT ![owner[th]] = r]
      /\ UNCHANGED <<poolVars, status, work, cancelled, answer, owner, at>>
  BY DEF ThreadPublishes
<1>2. owner[th] \in Leaves \ Pooled /\ r \in NodeStatus
  BY <1>1, SettleType DEF IInv, LeafInv, JobInv
<1>3. PoolInv'
  BY <1>1, SamePool DEF IInv
<1>4. AsyncTypeOK'
  BY <1>1, <1>2, <1>3 DEF IInv, PoolInv, AsyncTypeOK
<1>5. TickInv' /\ JoinInv' /\ JobInv' /\ TaskInv' /\ QueuedInv' /\ ThreadInv'
  BY <1>1 DEF IInv, AsyncTypeOK, LeafInv, TickInv, JoinInv, JobInv, TaskInv, QueuedInv, ThreadInv, Unheld, poolVars
<1>6. owner[th] \notin Stubborn => work[owner[th]] = th
  BY <1>1 DEF IInv, LeafInv, ThreadInv
<1>7. ResultInv'
  BY <1>1, <1>2, <1>6 DEF IInv, AsyncTypeOK, LeafInv, ResultInv
<1> QED
  BY <1>3, <1>4, <1>5, <1>7 DEF IInv, LeafInv

LEMMA PoolActsInv ==
    ASSUME IInv, PoolStep, UNCHANGED leafVars
    PROVE  IInv'
<1>1. PoolInv'
  BY PoolStepInv DEF IInv
<1>2. UNCHANGED <<status, work, cancelled, result, thread, answer, owner, at>>
  BY DEF leafVars
<1>3. AsyncTypeOK'
  BY <1>1, <1>2 DEF IInv, PoolInv, AsyncTypeOK
<1>4. /\ UNCHANGED hooked
      /\ \/ UNCHANGED task
         \/ \E t \in Tasks : task[t] = "queued" /\ task' = [task EXCEPT ![t] = "running"]
         \/ \E t \in Tasks : task[t] = "ran" /\ task' = [task EXCEPT ![t] = "done"]
  <2>1. CASE Take
    <3>1. queue # <<>> /\ queue \in Seq(Tasks) /\ Head(queue) = queue[1] /\ 1 \in DOMAIN queue
      BY <2>1 DEF Take, IInv, PoolInv, PoolTypeOK
    <3>2. Head(queue) \in Tasks /\ task[Head(queue)] \in {"queued", "cancelled"}
      BY <3>1 DEF IInv, PoolInv, QueueInv
    <3> QED
      BY <2>1, <3>2 DEF Take, Stage
  <2>2. CASE \E t \in Tasks : Resolve(t)
    BY <2>2 DEF Resolve, Stage
  <2>3. CASE WaitAll \/ WaitTrue \/ WaitFalse \/ ShutdownStop \/ ShutdownClose \/ ShutdownReturns
    BY <2>3 DEF WaitAll, WaitTrue, WaitFalse, ShutdownStop, ShutdownClose, ShutdownReturns
  <2> QED
    BY <2>1, <2>2, <2>3 DEF PoolStep
<1>5. LeafInv'
  BY <1>2, <1>4 DEF IInv, AsyncTypeOK, PoolTypeOK, LeafInv, TickInv, JoinInv, JobInv, TaskInv, QueuedInv, ThreadInv,
     ResultInv, Unheld
<1> QED
  BY <1>1, <1>3, <1>5 DEF IInv

LEMMA AsyncNext == IInv /\ [Next]_vars => IInv'
<1> SUFFICES ASSUME IInv, [Next]_vars PROVE IInv'
  OBVIOUS
<1>1. ASSUME NEW n \in Leaves, TickStep(n) PROVE IInv'
  BY <1>1, StartPooledInv, StartRefusedInv, CountedInv, EnqueuedInv, SubmittedInv, StartThreadInv,
     PollInv, HaltInv, HaltStartedInv DEF TickStep
<1>2. ASSUME NEW t \in Tasks, WorkerReturns(t) PROVE IInv'
  BY <1>2, WorkerInv
<1>3. ASSUME NEW th \in Threads, ThreadReturns(th) \/ ThreadPublishes(th) PROVE IInv'
  BY <1>3, ThreadReturnsInv, PublishInv
<1>4. CASE PoolStep /\ UNCHANGED leafVars
  BY <1>4, PoolActsInv
<1>5. CASE UNCHANGED vars
  BY <1>5, UnchangedInv
<1> QED
  BY <1>1, <1>2, <1>3, <1>4, <1>5 DEF Next

\* The inductive invariant: counts, queue and settled submissions agree, and
\* a leaf holds the work that it started and that is not over.
THEOREM AsyncInvariant == Spec => []IInv
BY InitInv, AsyncNext, PTL DEF Spec

\* wait_all() answers True only when nothing is to come, and False only when
\* something is or the executor refused what was counted, over every race of
\* submit(), cancel(), shutdown() and the two ends of a submission, whatever the
\* number of workers and leaves.
THEOREM WaitAllTellsHolds == Spec => WaitAllTells
<1> DEFINE Told == /\ Tells("True") => Coming = {}
                   /\ Tells("False") => Coming # {} \/ \E t \in Tasks : task[t] = "refused"
<1>1. ASSUME IInv, [Next]_vars PROVE Told
  <2>1. CASE UNCHANGED waiting
    BY <2>1 DEF Tells
  <2>2. CASE WaitAll \/ WaitTrue \/ WaitFalse
    <3>1. pending = Cardinality(Owed) /\ IsFiniteSet(Owed)
      BY <1>1, PoolAssumption, FS_Subset DEF IInv, PoolInv, PendingCounts, Owed
    <3>2. Coming \subseteq Owed /\ \A t \in Owed : t \in Tasks /\ (t \in Coming \/ task[t] = "refused")
      BY DEF Coming, Owed, Owing
    <3>3. WaitTrue => Coming = {}
      BY <3>1, <3>2, FS_EmptySet DEF WaitTrue
    <3>4. WaitFalse => Coming # {} \/ \E t \in Tasks : task[t] = "refused"
      BY <3>1, <3>2, FS_EmptySet DEF WaitFalse
    <3> QED
      BY <2>2, <3>3, <3>4 DEF Tells, WaitAll, WaitTrue, WaitFalse
  <2>3. UNCHANGED waiting \/ WaitAll \/ WaitTrue \/ WaitFalse
    BY <1>1 DEF Next, TickStep, StartRefused, StartPooled, Counted, Enqueued, Submitted, StartThread,
       PollFuture, PollResult, HaltUnstarted, HaltStarted, Joined, JoinTimedOut, HaltSettled,
       SubmitCheck, SubmitCount, SubmitEnqueue, SubmitHook, CancelQueued, WorkerReturns, WrapperEnds,
       ThreadReturns, ThreadPublishes, PoolStep, Take, Resolve, ShutdownStop, ShutdownClose,
       ShutdownReturns, vars, poolVars
  <2> QED
    BY <2>1, <2>2, <2>3
<1>2. Told => [Told]_poolVars
  OBVIOUS
<1> QED
  BY <1>1, <1>2, AsyncInvariant, PTL DEF Spec, WaitAllTells

\* No worker starts work whose leaf was halted since it was queued.
THEOREM NoneForTheHaltedHolds == Spec => NoneForTheHalted
<1> DEFINE Wanted == \A t \in Tasks : task[t] = "queued" /\ task'[t] = "running"
                                       => owner[t] \notin cancelled
<1>1. ASSUME IInv PROVE Wanted
  <2> SUFFICES ASSUME NEW t \in Tasks, task[t] = "queued" PROVE owner[t] \notin cancelled
    OBVIOUS
  <2> QED
    BY <1>1 DEF IInv, LeafInv, QueuedInv, TickInv, InTick
<1>2. Wanted => [Wanted]_vars
  OBVIOUS
<1> QED
  BY <1>1, <1>2, AsyncInvariant, PTL DEF Spec, NoneForTheHalted

\* A leaf at rest has no work queued, and none under way but for what outlasted its
\* halt.
THEOREM NothingLeftBehindHolds == Spec => []NothingLeftBehind
<1>1. IInv => NothingLeftBehind
  <2> SUFFICES ASSUME IInv, NEW n \in Leaves, NEW j \in Jobs, at = Idle,
                      owner[j] = n, Working(j),
                      n \in Stubborn => j \in Tasks /\ task[j] = "queued"
               PROVE  status[n] = "RUNNING" /\ work[n] = j
    BY DEF NothingLeftBehind
  <2>1. CASE j \in Tasks /\ n \notin Stubborn
    BY <2>1 DEF IInv, LeafInv, TaskInv, Working, InTick, Idle
  <2>2. CASE j \in Threads
    BY <2>2, Disjoint DEF IInv, LeafInv, ThreadInv, Working
  <2>3. CASE task[j] = "queued" /\ j \in Tasks
    BY <2>3 DEF IInv, LeafInv, QueuedInv, InTick, Idle
  <2> QED
    BY <2>1, <2>2, <2>3 DEF Jobs
<1> QED
  BY <1>1, AsyncInvariant, PTL

\* A leaf settles with the answer of the work this activation started, if no
\* thread of a leaf without the pool outlasts JOIN_TIMEOUT: one that does
\* publishes into the next activation.
THEOREM OwnAnswerHolds ==
    ASSUME Stubborn \subseteq Pooled
    PROVE  Spec => OwnAnswer
<1> DEFINE Own == \A n \in Leaves : status[n] = "RUNNING" /\ status'[n] \in Settled =>
                      Over(work[n]) /\ status'[n] = SettleResult(answer[work[n]])
<1>1. ASSUME IInv, [Next]_vars PROVE Own
  <2> SUFFICES ASSUME NEW n \in Leaves, status[n] = "RUNNING", status'[n] \in Settled
               PROVE  Over(work[n]) /\ status'[n] = SettleResult(answer[work[n]])
    OBVIOUS
  <2>1. status \in [Leaves -> NodeStatus] /\ "RUNNING" \notin Settled /\ "IDLE" \notin Settled
    BY <1>1 DEF IInv, AsyncTypeOK, Settled
  <2>2. status' # status
    BY <2>1
  <2>3. PICK m \in Leaves : TickStep(m)
    BY <1>1, <2>2 DEF Next, WorkerReturns, ThreadReturns, ThreadPublishes, leafVars, vars
  <2>4. CASE PollFuture(m)
    BY <2>1, <2>4 DEF PollFuture
  <2>5. CASE PollResult(m)
    <3>1. m = n /\ status'[n] = result[n] /\ work[n] \in Threads /\ result[n] # "None"
      BY <2>1, <2>5 DEF PollResult
    <3>2. CASE n \in Stubborn
      BY <1>1, <3>1, <3>2, Disjoint DEF IInv, LeafInv, JobInv
    <3>3. CASE n \notin Stubborn
      BY <1>1, <3>1, <3>3, Disjoint DEF IInv, LeafInv, ResultInv, Over
    <3> QED
      BY <3>2, <3>3
  <2>6. CASE ~PollFuture(m) /\ ~PollResult(m)
    <3>1. status' = status \/ \E s \in {"IDLE", "RUNNING"} : status' = [status EXCEPT ![m] = s]
      BY <2>3, <2>6 DEF TickStep, StartPooled, StartRefused, Counted, Enqueued, Submitted,
         StartThread, HaltUnstarted, HaltStarted, Joined, JoinTimedOut, HaltSettled, Started, Forget
    <3> QED
      BY <2>1, <3>1
  <2> QED
    BY <2>4, <2>5, <2>6
<1>2. Own => [Own]_vars
  OBVIOUS
<1> QED
  BY <1>1, <1>2, AsyncInvariant, PTL DEF Spec, OwnAnswer
=============================================================================
