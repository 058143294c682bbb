--------------------------- MODULE AsyncioBridge ---------------------------
(***************************************************************************)
(* AsyncioBridge of src/bteng/concurrency/asyncio_bridge.py: coroutines    *)
(* submitted to an event loop, which the bridge owns or the host lends it. *)
(* A submission is a concurrent Future, the asyncio Task behind it and the *)
(* _TaskHolder that joins the two; the loop is one thread, so that its     *)
(* steps exclude each other, but not those of other threads.               *)
(***************************************************************************)
EXTENDS Integers, FiniteSets

CONSTANTS
    Bridges,
    Owned,      \* the bridges that run a loop of their own
    Tasks,      \* submissions that may exist at one time
    Raw,        \* what a coroutine may come back with
    Resumes,    \* the host may run a loop again that it has stopped
    None

ASSUME BridgeAssumption ==
    /\ Owned \subseteq Bridges /\ IsFiniteSet(Tasks)
    /\ None \notin Bridges \cup Tasks
    /\ Resumes \in BOOLEAN

VARIABLES
    loop,       \* the event loop of every bridge; "absent" before __init__()
    shut,       \* how far shutdown() is; _stopped is set from "stopped" on
    pending,    \* _pending_count
    task,       \* how far a submission is
    home,       \* the bridge it was submitted to
    flagged,    \* submissions whose holder.cancelled is True
    settled,    \* submissions whose holder.settled is True
    cancelling, \* submissions with a task.cancel() on its way
    resolved,   \* submissions whose Future is done
    answer      \* what a coroutine came back with

bridgeVars == <<loop, shut, pending, task, home, flagged, settled, cancelling,
                resolved, answer>>
taskVars   == <<task, home, flagged, settled, cancelling, resolved, answer>>

\* "stillborn" is a task that ended before _runner() gave it to the holder.
Stages == {"free", "queued", "checked", "running", "unwinding", "over", "stillborn"}
Unfinished == {"queued", "checked", "running", "unwinding"}

BridgeInit ==
    /\ loop = [b \in Bridges |-> IF b \in Owned THEN "absent" ELSE "running"]
    /\ shut = [b \in Bridges |-> "no"]
    /\ pending = [b \in Bridges |-> 0]
    /\ task = [t \in Tasks |-> "free"]
    /\ home = [t \in Tasks |-> None]
    /\ flagged = {} /\ settled = {} /\ cancelling = {} /\ resolved = {}
    /\ answer = [t \in Tasks |-> "None"]

\* _unusable_reason() is None.
Alive(b) == shut[b] = "no" /\ loop[b] = "running"

On(b) == {t \in Tasks : home[t] = b}

\* Mutant of Settle: discard() and the done callback both count.
SettleTwice(b, t) ==
    /\ pending' = [pending EXCEPT ![b] = @ - 1]
    /\ settled' = settled \cup {t}

\* _settle(): the count goes down once, whoever comes first: the done callback,
\* or discard() on the bridge of whoever gives the Future up.
Settle(b, t) ==
    IF t \in settled THEN UNCHANGED <<pending, settled>>
    ELSE /\ pending' = [pending EXCEPT ![b] = @ - 1]
         /\ settled' = settled \cup {t}

\* Mutant of TaskDone: the Future stands for the coroutine.
TaskDoneOrTold(t) == t \in resolved \/ t \in flagged

\* task_done(): the holder has no Task before _runner() put it there.
TaskDone(t) ==
    \/ task[t] = "over"
    \/ t \in resolved
    \/ t \in flagged /\ task[t] \in {"queued", "checked", "stillborn"}

\* submit() on a bridge that is alive.  What the loop does before the done
\* callback is registered it might as well do afterwards.
Submit(b, t) ==
    /\ task' = [task EXCEPT ![t] = "queued"]
    /\ home' = [home EXCEPT ![t] = b]
    /\ answer' = [answer EXCEPT ![t] = "None"]
    /\ flagged' = flagged \ {t} /\ settled' = settled \ {t}
    /\ cancelling' = cancelling \ {t} /\ resolved' = resolved \ {t}
    /\ pending' = [pending EXCEPT ![b] = @ + 1]

\* cancel_task(): a coroutine that has not begun will see the flag, one that has
\* is sent a task.cancel().
CancelTask(t) ==
    /\ flagged' = flagged \cup {t}
    /\ cancelling' = IF task[t] \in {"running", "unwinding"} THEN cancelling \cup {t}
                                                             ELSE cancelling

(***************************************************************************)
(* The loop thread.  Turn(t): it may run a step of t, and is not inside a  *)
(* step of another coroutine.                                              *)
(***************************************************************************)
Turn(t) == /\ home[t] # None /\ loop[home[t]] = "running"
           /\ \A u \in On(home[t]) : task[u] = "checked" => u = t

Ends(t, stage, raw) ==
    /\ task' = [task EXCEPT ![t] = stage]
    /\ answer' = [answer EXCEPT ![t] = raw]

\* _runner() looks at holder.cancelled ...
RunnerChecks(t) ==
    /\ task[t] = "queued" /\ Turn(t)
    /\ IF t \in flagged THEN Ends(t, "stillborn", "Cancelled")
       ELSE task' = [task EXCEPT ![t] = "checked"] /\ UNCHANGED answer
    /\ UNCHANGED <<loop, shut, pending, home, flagged, settled, cancelling, resolved>>

\* ... and then gives its Task to the holder.
RunnerStarts(t) ==
    /\ task[t] = "checked" /\ Turn(t)
    /\ task' = [task EXCEPT ![t] = "running"]
    /\ UNCHANGED <<loop, shut, pending, home, flagged, settled, cancelling, resolved, answer>>

\* The coroutine returns, raises, or lets a cancellation through.
CoroutineEnds(t) ==
    /\ task[t] \in {"running", "unwinding"} /\ Turn(t)
    /\ \E raw \in Raw \cup (IF task[t] = "unwinding" THEN {"Cancelled"} ELSE {}) :
          Ends(t, "over", raw)
    /\ UNCHANGED <<loop, shut, pending, home, flagged, settled, cancelling, resolved>>

\* task.cancel() takes effect: CancelledError is raised in the coroutine.
CancelArrives(t) ==
    /\ t \in cancelling /\ Turn(t)
    /\ cancelling' = cancelling \ {t}
    /\ CASE task[t] = "queued"  -> Ends(t, "stillborn", "Cancelled")
         [] task[t] = "running" -> task' = [task EXCEPT ![t] = "unwinding"] /\ UNCHANGED answer
         [] OTHER               -> UNCHANGED <<task, answer>>
    /\ UNCHANGED <<loop, shut, pending, home, flagged, settled, resolved>>

\* The Task's end reaches the Future, and its done callback settles the count; a
\* cancel() still on its way will find the Task over, and nobody asks for the flag.
Resolve(t) ==
    /\ task[t] \in {"over", "stillborn"} /\ t \notin resolved /\ Turn(t)
    /\ resolved' = resolved \cup {t}
    /\ cancelling' = cancelling \ {t} /\ flagged' = flagged \ {t}
    /\ Settle(home[t], t)
    /\ UNCHANGED <<loop, shut, task, home, answer>>

\* A SystemExit leaves the coroutine and tears down the loop of the bridge: the
\* Task is done, its Future and all others of the loop never will be.
LoopDies(t) ==
    /\ task[t] \in {"running", "unwinding"} /\ Turn(t) /\ home[t] \in Owned
    /\ Ends(t, "over", "Cancelled")
    /\ loop' = [loop EXCEPT ![home[t]] = "dead"]
    /\ UNCHANGED <<shut, pending, home, flagged, settled, cancelling, resolved>>

\* The host stops the loop it lent, and may run it again.
HostStops(b) ==
    /\ b \notin Owned /\ loop[b] = "running" /\ \A t \in On(b) : task[t] # "checked"
    /\ loop' = [loop EXCEPT ![b] = "paused"]
    /\ UNCHANGED <<shut, pending>> /\ UNCHANGED taskVars

HostResumes(b) ==
    /\ Resumes /\ loop[b] = "paused"
    /\ loop' = [loop EXCEPT ![b] = "running"]
    /\ UNCHANGED <<shut, pending>> /\ UNCHANGED taskVars

(***************************************************************************)
(* shutdown(), from a thread that runs no loop.                            *)
(***************************************************************************)
\* No more submissions; a lent loop is left alone.
ShutdownStops(b) ==
    /\ shut[b] = "no" /\ loop[b] # "absent"
    /\ shut' = [shut EXCEPT ![b] = IF b \in Owned THEN "stopped" ELSE "down"]
    /\ UNCHANGED <<loop, pending>> /\ UNCHANGED taskVars

\* _drain() cancels every Task of the loop; a loop that died never runs it.
ShutdownDrains(b) ==
    /\ shut[b] = "stopped"
    /\ loop[b] = "running" => \A t \in On(b) : task[t] # "checked"
    /\ shut' = [shut EXCEPT ![b] = "draining"]
    /\ cancelling' = IF loop[b] = "running"
                     THEN cancelling \cup {t \in On(b) : task[t] \in Unfinished}
                     ELSE cancelling
    /\ UNCHANGED <<loop, pending, task, home, flagged, settled, resolved, answer>>

\* Every Task is over and its Future resolved, or a coroutine that goes on after
\* its cancellation has used up the timeout: the loop is stopped and closed.
ShutdownCloses(b) ==
    /\ shut[b] = "draining"
    /\ loop[b] = "running" => \A t \in On(b) : task[t] = "unwinding" \/ t \in resolved
    /\ shut' = [shut EXCEPT ![b] = "down"]
    /\ loop' = [loop EXCEPT ![b] = "dead"]
    /\ UNCHANGED pending /\ UNCHANGED taskVars

LoopStep(t) ==
    \/ RunnerChecks(t) \/ RunnerStarts(t) \/ CoroutineEnds(t)
    \/ CancelArrives(t) \/ Resolve(t) \/ LoopDies(t)

BridgeStep(b) ==
    \/ HostStops(b) \/ HostResumes(b)
    \/ ShutdownStops(b) \/ ShutdownDrains(b) \/ ShutdownCloses(b)

BridgeTypeOK ==
    /\ loop \in [Bridges -> {"absent", "running", "paused", "dead"}]
    /\ shut \in [Bridges -> {"no", "stopped", "draining", "down"}]
    /\ pending \in [Bridges -> Nat]
    /\ task \in [Tasks -> Stages]
    /\ home \in [Tasks -> Bridges \cup {None}]
    /\ flagged \subseteq Tasks /\ settled \subseteq Tasks
    /\ cancelling \subseteq Tasks /\ resolved \subseteq Tasks
    /\ answer \in [Tasks -> Raw \cup {"None", "Cancelled"}]
=============================================================================
