----------------------------- MODULE ThreadPool -----------------------------
(***************************************************************************)
(* ThreadPool of src/bteng/concurrency/thread_pool.py, on top of the       *)
(* standard library's ThreadPoolExecutor: how a submission is counted, run *)
(* or cancelled, what wait_all() waits for and what shutdown() leaves.     *)
(* Every access to _pending_count holds _pending_cond and is one step; the *)
(* steps of submit() between two of them are steps of their own.           *)
(***************************************************************************)
EXTENDS Integers, Sequences, FiniteSets

CONSTANTS
    Tasks,      \* submissions that may exist at one time
    Workers     \* num_threads

ASSUME PoolAssumption == IsFiniteSet(Tasks) /\ Workers \in Nat \ {0}

VARIABLES
    phase,      \* "open", "stopped" (_stopped is set), "closed" (so is the
                \* flag of the executor), "down" (shutdown() has returned)
    pending,    \* _pending_count
    task,       \* how far a submission is
    settled,    \* submissions whose settled[0] is True
    hooked,     \* submissions whose done callback is registered
    queue,      \* the executor's work queue
    waiting     \* a thread is in wait_all(), or what the last call told: "True"
                \* or "False"

poolVars == <<phase, pending, task, settled, hooked, queue, waiting>>

Stages == {"free", "checked", "counted", "refused", "queued", "running", "ran",
           "done", "cancelled"}

PoolInit ==
    /\ phase = "open" /\ pending = 0
    /\ task = [t \in Tasks |-> "free"]
    /\ settled = {} /\ hooked = {}
    /\ queue = <<>>
    /\ waiting = "no"

\* Move submission t to stage s.
Stage(t, s) == task' = [task EXCEPT ![t] = s]

\* _settle(): the count goes down once, whoever comes first.
Settle(t) ==
    IF t \in settled THEN UNCHANGED <<pending, settled>>
    ELSE pending' = pending - 1 /\ settled' = settled \cup {t}

\* The callbacks a Future runs as it becomes done or cancelled.
Callback(t) == IF t \in hooked THEN Settle(t) ELSE UNCHANGED <<pending, settled>>

(***************************************************************************)
(* submit(), in the caller's thread.  t stands for a new Future: one that  *)
(* is unused, or an old one that nobody holds any more.                    *)
(***************************************************************************)
Reusable(t) == task[t] \in {"free", "done", "cancelled"}
               /\ \A i \in DOMAIN queue : queue[i] # t

SubmitCheck(t) ==
    /\ phase = "open"
    /\ Stage(t, "checked")
    /\ settled' = settled \ {t} /\ hooked' = hooked \ {t}
    /\ UNCHANGED <<phase, pending, queue, waiting>>

SubmitCount(t) ==
    /\ task[t] = "checked"
    /\ Stage(t, "counted")
    /\ pending' = pending + 1
    /\ UNCHANGED <<phase, settled, hooked, queue, waiting>>

\* The executor refuses with a RuntimeError once it is closed.
SubmitEnqueue(t) ==
    /\ task[t] = "counted"
    /\ IF phase \in {"open", "stopped"}
       THEN Stage(t, "queued") /\ queue' = Append(queue, t)
       ELSE Stage(t, "refused") /\ UNCHANGED queue
    /\ UNCHANGED <<phase, pending, settled, hooked, waiting>>

\* add_done_callback() runs the callback at once on a Future that is done.
SubmitHook(t) ==
    /\ hooked' = hooked \cup {t}
    /\ IF task[t] \in {"done", "cancelled"} THEN Settle(t)
                                            ELSE UNCHANGED <<pending, settled>>
    /\ UNCHANGED <<phase, task, queue, waiting>>

(***************************************************************************)
(* The worker threads, and Future.cancel().                                *)
(***************************************************************************)
Busy == {t \in Tasks : task[t] \in {"running", "ran"}}

\* Mutant of Take: the wrapper settles before it calls fn.
TakeSettling ==
    /\ queue # <<>> /\ Cardinality(Busy) < Workers
    /\ queue' = Tail(queue)
    /\ IF task[Head(queue)] = "cancelled" THEN UNCHANGED <<task, pending, settled>>
       ELSE Stage(Head(queue), "running") /\ Settle(Head(queue))
    /\ UNCHANGED <<phase, hooked, waiting>>

\* A free worker takes the next submission; a cancelled one it drops.
Take ==
    /\ queue # <<>> /\ Cardinality(Busy) < Workers
    /\ queue' = Tail(queue)
    /\ IF task[Head(queue)] = "cancelled" THEN UNCHANGED task
                                          ELSE Stage(Head(queue), "running")
    /\ UNCHANGED <<phase, pending, settled, hooked, waiting>>

\* fn returned or raised: the finally clause of _wrapper().
WrapperEnds(t) ==
    /\ task[t] = "running"
    /\ Stage(t, "ran")
    /\ Settle(t)
    /\ UNCHANGED <<phase, hooked, queue, waiting>>

\* The worker gives the Future its result.
Resolve(t) ==
    /\ task[t] = "ran"
    /\ Stage(t, "done")
    /\ Callback(t)
    /\ UNCHANGED <<phase, hooked, queue, waiting>>

\* Future.cancel() on one that is still queued.
CancelQueued(t) ==
    /\ task[t] = "queued"
    /\ Stage(t, "cancelled")
    /\ Callback(t)
    /\ UNCHANGED <<phase, hooked, queue, waiting>>

(***************************************************************************)
(* wait_all() and shutdown(), from any thread.                             *)
(***************************************************************************)
WaitAll ==
    /\ waiting # "yes"
    /\ waiting' = "yes"
    /\ UNCHANGED <<phase, pending, task, settled, hooked, queue>>

WaitTrue ==
    /\ waiting = "yes" /\ pending = 0
    /\ waiting' = "True"
    /\ UNCHANGED <<phase, pending, task, settled, hooked, queue>>

\* The timeout, which may also be zero, has passed.
WaitFalse ==
    /\ waiting = "yes" /\ pending # 0
    /\ waiting' = "False"
    /\ UNCHANGED <<phase, pending, task, settled, hooked, queue>>

ShutdownStop ==
    /\ phase = "open" /\ phase' = "stopped"
    /\ UNCHANGED <<pending, task, settled, hooked, queue, waiting>>

ShutdownClose ==
    /\ phase = "stopped" /\ phase' = "closed"
    /\ UNCHANGED <<pending, task, settled, hooked, queue, waiting>>

\* shutdown(wait=True) returns when the queue is drained and every worker is idle.
ShutdownReturns ==
    /\ phase = "closed" /\ queue = <<>> /\ Busy = {}
    /\ phase' = "down"
    /\ UNCHANGED <<pending, task, settled, hooked, queue, waiting>>

PoolTypeOK ==
    /\ phase \in {"open", "stopped", "closed", "down"}
    /\ pending \in Nat
    /\ task \in [Tasks -> Stages]
    /\ settled \subseteq Tasks /\ hooked \subseteq Tasks
    /\ queue \in Seq(Tasks)
    /\ waiting \in {"no", "yes", "True", "False"}

\* Submissions that have been counted and whose work is neither done nor called off.
Coming == {t \in Tasks : task[t] \in {"counted", "queued", "running"}}

Tells(answer) == waiting # answer /\ waiting' = answer

\* wait_all() answers True only when no submission's work is still to come or
\* under way, whichever of the wrapper and the callback settled the others and
\* whoever cancelled them; and it gives up, False, only when there is such work,
\* or when shutdown() closed the executor between a submit()'s own test and its
\* submission: nobody takes that count back (:69), so that from then on it gives
\* up with nothing left to wait for.
WaitAllTells ==
    [][/\ Tells("True") => Coming = {}
       /\ Tells("False") => Coming # {} \/ \E t \in Tasks : task[t] = "refused"]_poolVars

=============================================================================
