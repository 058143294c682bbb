---------------------------- MODULE AsyncAction ----------------------------
(***************************************************************************)
(* AsyncActionNode of src/bteng/nodes/leaf/async_action.py: leaves whose   *)
(* work runs in a worker of the ThreadPool, or in a thread of its own when *)
(* there is no pool, while one tick thread starts, polls and halts them.   *)
(***************************************************************************)
EXTENDS ThreadPool

CONSTANTS
    Leaves,     \* the AsyncActionNodes of a tree
    Pooled,     \* those that were given the pool
    Stubborn,   \* those whose work may ignore its token for JOIN_TIMEOUT
    Threads,    \* daemon threads that may exist at one time
    Raw,        \* what execute_async() may come back with
    None

ASSUME LeafAssumption ==
    /\ Pooled \subseteq Leaves /\ Stubborn \subseteq Leaves
    /\ Tasks \cap Threads = {} /\ None \notin Tasks \cup Threads \cup Leaves

Jobs       == Tasks \cup Threads
Settled    == {"SUCCESS", "FAILURE"}
NodeStatus == Settled \cup {"RUNNING", "IDLE"}

\* "NoStatus" stands for all that is no NodeStatus, an exception included.
ASSUME RawAssumption == Raw # {} /\ Raw \subseteq NodeStatus \cup {"NoStatus"}

VARIABLES
    status,     \* _status
    work,       \* _future or _thread
    cancelled,  \* leaves whose _cancel_token is set
    result,     \* _result, as _thread_body() publishes it
    thread,     \* the daemon threads
    answer,     \* what a job's execute_async() came back with
    owner,      \* the leaf a job works for
    at          \* where the tick thread is inside tick() or halt()

leafVars == <<status, work, cancelled, result, thread, answer, owner, at>>
vars == <<poolVars, leafVars>>

Idle == [op |-> "idle", n |-> None, t |-> None]
At(op, n, t) == at' = [op |-> op, n |-> n, t |-> t]
Is(op, n, t) == at = [op |-> op, n |-> n, t |-> t]

Init ==
    /\ PoolInit
    /\ status = [n \in Leaves |-> "IDLE"]
    /\ work = [n \in Leaves |-> None]
    /\ cancelled = {}
    /\ result = [n \in Leaves |-> "None"]
    /\ thread = [th \in Threads |-> "free"]
    /\ answer = [j \in Jobs |-> "None"]
    /\ owner = [j \in Jobs |-> None]
    /\ at = Idle

\* Mutant of SettleResult: a missing return is passed on, and read as RUNNING.
SettleResultRaw(raw) == IF raw \in NodeStatus THEN raw ELSE "RUNNING"

\* _settle_result() and _settle_exception().
SettleResult(raw) == IF raw \in NodeStatus THEN raw ELSE "FAILURE"

(***************************************************************************)
(* tick() of a leaf that is not RUNNING.                                   *)
(***************************************************************************)
Unheld(j) == \A n \in Leaves : work[n] # j

\* The thread of the last activation is dropped as the new one is started.
FreeThread(n, th) ==
    thread[th] \in {"free", "over"} /\ \A m \in Leaves \ {n} : work[m] # th

\* Which unused element of Tasks or Threads stands for a new object is no matter.
NewFuture == CHOOSE t \in Tasks : Reusable(t) /\ Unheld(t)
NewThread(n) == CHOOSE th \in Threads : FreeThread(n, th)

\* Mutant of Fresh: _result keeps the last activation's.
FreshKeepingResult(n) ==
    /\ cancelled' = cancelled \ {n}
    /\ UNCHANGED result

\* "Start fresh": the result is cleared and the token reset.
Fresh(n) ==
    /\ cancelled' = cancelled \ {n}
    /\ result' = [result EXCEPT ![n] = "None"]

\* Job j has begun: the leaf is RUNNING.
Started(n, j) ==
    /\ work' = [work EXCEPT ![n] = j]
    /\ status' = [status EXCEPT ![n] = "RUNNING"]
    /\ at' = Idle

\* j now stands for new work of n.
Assign(n, j) ==
    /\ owner' = [owner EXCEPT ![j] = n]
    /\ answer' = [answer EXCEPT ![j] = "None"]

StartPooled(n, t) ==
    /\ at = Idle /\ n \in Pooled /\ status[n] # "RUNNING"
    /\ Reusable(t) /\ Unheld(t) /\ t = NewFuture
    /\ Fresh(n) /\ Assign(n, t) /\ SubmitCheck(t)
    /\ At("count", n, t)
    /\ UNCHANGED <<status, work, thread>>

\* submit() raises RuntimeError on a stopped pool, out of tick().
StartRefused(n) ==
    /\ at = Idle /\ n \in Pooled /\ status[n] # "RUNNING"
    /\ phase # "open"
    /\ Fresh(n)
    /\ UNCHANGED <<poolVars, status, work, thread, answer, owner, at>>

Counted(n, t) ==
    /\ Is("count", n, t)
    /\ SubmitCount(t)
    /\ At("enqueue", n, t)
    /\ UNCHANGED <<status, work, cancelled, result, thread, answer, owner>>

Enqueued(n, t) ==
    /\ Is("enqueue", n, t)
    /\ SubmitEnqueue(t)
    /\ IF phase \in {"open", "stopped"} THEN At("hook", n, t) ELSE at' = Idle
    /\ UNCHANGED <<status, work, cancelled, result, thread, answer, owner>>

Submitted(n, t) ==
    /\ Is("hook", n, t)
    /\ SubmitHook(t)
    /\ Started(n, t)
    /\ UNCHANGED <<cancelled, result, thread, answer, owner>>

StartThread(n, th) ==
    /\ at = Idle /\ n \in Leaves \ Pooled /\ status[n] # "RUNNING"
    /\ FreeThread(n, th) /\ th = NewThread(n)
    /\ Fresh(n) /\ Assign(n, th) /\ Started(n, th)
    /\ thread' = [thread EXCEPT ![th] = "running"]
    /\ UNCHANGED poolVars

(***************************************************************************)
(* tick() of a RUNNING leaf; one that finds nothing changes nothing, and   *)
(* neither does one that finds IDLE, which execute_tick() raises over.     *)
(***************************************************************************)
Over(j) == IF j \in Tasks THEN task[j] = "done" ELSE thread[j] = "over"

PollFuture(n) ==
    /\ at = Idle /\ status[n] = "RUNNING"
    /\ work[n] \in Tasks /\ Over(work[n])
    /\ SettleResult(answer[work[n]]) # "IDLE"
    /\ status' = [status EXCEPT ![n] = SettleResult(answer[work[n]])]
    /\ UNCHANGED <<poolVars, work, cancelled, result, thread, answer, owner, at>>

PollResult(n) ==
    /\ at = Idle /\ status[n] = "RUNNING"
    /\ work[n] \in Threads /\ result[n] \notin {"None", "IDLE"}
    /\ status' = [status EXCEPT ![n] = result[n]]
    /\ UNCHANGED <<poolVars, work, cancelled, result, thread, answer, owner, at>>

(***************************************************************************)
(* _on_halt(), as halt() calls it on a RUNNING leaf and reset_node() on    *)
(* any.                                                                    *)
(***************************************************************************)
Cancel(n) == cancelled' = cancelled \cup {n}

\* The end of halt(): job and result are dropped.
Forget(n) ==
    /\ work' = [work EXCEPT ![n] = None]
    /\ result' = [result EXCEPT ![n] = "None"]
    /\ status' = [status EXCEPT ![n] = "IDLE"]
    /\ at' = Idle

\* There is no work, or work that is still queued and never starts.
HaltUnstarted(n) ==
    /\ at = Idle
    /\ \/ work[n] = None /\ UNCHANGED poolVars
       \/ work[n] \in Tasks /\ CancelQueued(work[n])
    /\ Cancel(n) /\ Forget(n)
    /\ UNCHANGED <<thread, answer, owner>>

\* Mutant of HaltStarted: work that no worker has taken is waited for too.
HaltStartedOrQueued(n) ==
    /\ at = Idle /\ work[n] # None
    /\ Cancel(n)
    /\ At("join", n, work[n])
    /\ UNCHANGED <<poolVars, status, work, result, thread, answer, owner>>

\* Work that has started is waited for.
HaltStarted(n) ==
    /\ at = Idle /\ work[n] # None
    /\ work[n] \in Tasks => task[work[n]] # "queued"
    /\ Cancel(n)
    /\ At("join", n, work[n])
    /\ UNCHANGED <<poolVars, status, work, result, thread, answer, owner>>

\* Mutant of Joined: the thread is not waited for.
JoinedAtOnce(n) ==
    /\ Is("join", n, work[n])
    /\ Forget(n)
    /\ UNCHANGED <<poolVars, cancelled, thread, answer, owner>>

Joined(n) ==
    /\ Is("join", n, work[n]) /\ Over(work[n])
    /\ Forget(n)
    /\ UNCHANGED <<poolVars, cancelled, thread, answer, owner>>

\* JOIN_TIMEOUT passes first.
JoinTimedOut(n) ==
    /\ Is("join", n, work[n]) /\ ~Over(work[n])
    /\ n \in Stubborn
    /\ Forget(n)
    /\ UNCHANGED <<poolVars, cancelled, thread, answer, owner>>

\* halt() of a leaf that has settled.
HaltSettled(n) ==
    /\ at = Idle /\ status[n] \in Settled
    /\ status' = [status EXCEPT ![n] = "IDLE"]
    /\ UNCHANGED <<poolVars, work, cancelled, result, thread, answer, owner, at>>

(***************************************************************************)
(* The workers.                                                            *)
(***************************************************************************)
WorkerReturns(t) ==
    /\ \E raw \in Raw : answer' = [answer EXCEPT ![t] = raw]
    /\ WrapperEnds(t)
    /\ UNCHANGED <<status, work, cancelled, result, thread, owner, at>>

ThreadReturns(th) ==
    /\ thread[th] = "running"
    /\ \E raw \in Raw : answer' = [answer EXCEPT ![th] = raw]
    /\ thread' = [thread EXCEPT ![th] = "ran"]
    /\ UNCHANGED <<poolVars, status, work, cancelled, result, owner, at>>

\* The end of _thread_body(): the result goes to the leaf, whatever it does now.
ThreadPublishes(th) ==
    /\ thread[th] = "ran"
    /\ result' = [result EXCEPT ![owner[th]] = SettleResult(answer[th])]
    /\ thread' = [thread EXCEPT ![th] = "over"]
    /\ UNCHANGED <<poolVars, status, work, cancelled, answer, owner, at>>

PoolStep == \/ Take \/ \E t \in Tasks : Resolve(t)
            \/ WaitAll \/ WaitTrue \/ WaitFalse
            \/ ShutdownStop \/ ShutdownClose \/ ShutdownReturns

TickStep(n) ==
    \/ StartRefused(n)
    \/ \E t \in Tasks : \/ StartPooled(n, t) \/ Counted(n, t)
                        \/ Enqueued(n, t) \/ Submitted(n, t)
    \/ \E th \in Threads : StartThread(n, th)
    \/ PollFuture(n) \/ PollResult(n)
    \/ HaltUnstarted(n) \/ HaltStarted(n)
    \/ Joined(n) \/ JoinTimedOut(n) \/ HaltSettled(n)

Next ==
    \/ \E n \in Leaves : TickStep(n)
    \/ \E t \in Tasks : WorkerReturns(t)
    \/ \E th \in Threads : ThreadReturns(th) \/ ThreadPublishes(th)
    \/ PoolStep /\ UNCHANGED leafVars

Spec == Init /\ [][Next]_vars

\* What liveness assumes: workers run, execute_async() ends, calls return, and
\* a leaf that stays RUNNING is polled again and again.
Fairness ==
    /\ WF_vars(Take /\ UNCHANGED leafVars)
    /\ \A t \in Tasks : WF_vars(WorkerReturns(t)) /\ WF_vars(Resolve(t) /\ UNCHANGED leafVars)
    /\ \A th \in Threads : WF_vars(ThreadReturns(th)) /\ WF_vars(ThreadPublishes(th))
    /\ \A n \in Leaves :
          /\ SF_vars(PollFuture(n) \/ PollResult(n))
          /\ WF_vars(Joined(n))
          /\ WF_vars(\E t \in Tasks : Counted(n, t) \/ Enqueued(n, t) \/ Submitted(n, t))

FairSpec == Spec /\ Fairness

(***************************************************************************)
(* Properties.                                                             *)
(***************************************************************************)
\* Types of the variables.
AsyncTypeOK ==
    /\ PoolTypeOK
    /\ status \in [Leaves -> NodeStatus]
    /\ work \in [Leaves -> Jobs \cup {None}]
    /\ cancelled \subseteq Leaves
    /\ result \in [Leaves -> NodeStatus \cup {"None"}]
    /\ thread \in [Threads -> {"free", "running", "ran", "over"}]
    /\ answer \in [Jobs -> Raw \cup {"None"}]
    /\ owner \in [Jobs -> Leaves \cup {None}]
    /\ at \in [op : {"idle", "count", "enqueue", "hook", "join"},
               n : Leaves \cup {None}, t : Jobs \cup {None}]

\* A leaf settles with the result of the work that this very activation started,
\* and only after that work is over: never with what an earlier, halted
\* activation left behind.
OwnAnswer ==
    [][\A n \in Leaves : status[n] = "RUNNING" /\ status'[n] \in Settled =>
          Over(work[n]) /\ status'[n] = SettleResult(answer[work[n]])]_vars

Working(j) == IF j \in Tasks THEN task[j] \in {"queued", "running"}
                             ELSE thread[j] = "running"

\* A leaf that is not RUNNING has no work queued or under way, and one that is
\* RUNNING has one; work that may outlast JOIN_TIMEOUT is left behind only if a
\* worker or a thread had begun it.
NothingLeftBehind ==
    \A n \in Leaves, j \in Jobs :
        /\ at = Idle /\ owner[j] = n /\ Working(j)
        /\ n \in Stubborn => j \in Tasks /\ task[j] = "queued"
        => status[n] = "RUNNING" /\ work[n] = j

\* No worker starts work whose leaf was halted since: what is queued behind the
\* work of others is called off, and the tick thread does not wait for its turn.
NoneForTheHalted ==
    [][\A t \in Tasks : task[t] = "queued" /\ task'[t] = "running"
          => owner[t] \notin cancelled]_vars

\* A leaf does not stay RUNNING for ever: its work gets a worker, ends, and
\* whatever it came back with settles the leaf.
Settles ==
    \A n \in Leaves : status[n] = "RUNNING" ~> status[n] # "RUNNING"
=============================================================================
