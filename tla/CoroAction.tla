----------------------------- MODULE CoroAction -----------------------------
(***************************************************************************)
(* CoroActionNode of src/bteng/nodes/leaf/coro_action.py: leaves whose     *)
(* work is a coroutine on the loop of an AsyncioBridge, pinned or default. *)
(* One thread ticks and halts them; it is a thread of its own, or that of  *)
(* a loop the host lent.  The program may shut bridges down at any moment. *)
(***************************************************************************)
EXTENDS AsyncioBridge

CONSTANTS
    Leaves,     \* the CoroActionNodes of a tree
    Pins,       \* bridges the program may pin a leaf to
    Tickers,    \* where ticks may come from: lent bridges, None for elsewhere
    Swaps       \* the program may change a default bridge that is in use, or in
                \* the middle of a tick

ASSUME CoroAssumption ==
    /\ Pins \subseteq Bridges
    /\ Tickers # {} /\ Tickers \subseteq (Bridges \ Owned) \cup {None}
    /\ Swaps \in BOOLEAN /\ None \notin Leaves

ASSUME RawAssumption == Raw # {} /\ Raw \subseteq {"SUCCESS", "FAILURE", "NoStatus"}

NodeStatus == {"IDLE", "RUNNING", "SUCCESS", "FAILURE"}

VARIABLES
    status,     \* _status
    held,       \* _future
    orphan,     \* _orphan
    pin,        \* _bridge, as set_bridge() leaves it; None for the default
    pool,       \* _thread_pool, which is the bridge last used
    default,    \* _default_bridge
    at,         \* where the tick thread is inside tick() or halt()
    ticker,     \* the bridge whose loop thread ticks, or None
    owner,      \* history: the leaf a submission works for
    dropped     \* history: coroutines whose leaf gave up its only handle to them

leafVars == <<status, held, orphan, pin, pool, default, at, ticker, owner, dropped>>
vars == <<bridgeVars, leafVars>>

Idle == [op |-> "idle", n |-> None]
At(op, n) == at' = [op |-> op, n |-> n]
Is(op, n) == at = [op |-> op, n |-> n]

Init ==
    /\ BridgeInit
    /\ status = [n \in Leaves |-> "IDLE"]
    /\ held = [n \in Leaves |-> None]
    /\ orphan = [n \in Leaves |-> None]
    /\ pin = [n \in Leaves |-> None] /\ pool = pin
    /\ default = None
    /\ at = Idle
    /\ ticker \in Tickers
    /\ owner = [t \in Tasks |-> None]
    /\ dropped = {}

\* Ticks that come from a loop come while it runs, between steps of its Tasks.
MayTick ==
    ticker # None =>
        loop[ticker] = "running" /\ \A t \in On(ticker) : task[t] # "checked"

Gone(b) == loop[b] = "dead" \/ (loop[b] = "paused" /\ ~Resumes)

\* An element of Tasks may stand for a new submission when nobody will hear of
\* the old one again; which one is taken is no matter.
Reusable(t) ==
    /\ \A n \in Leaves : held[n] # t /\ orphan[n] # t
    /\ \/ task[t] = "free" \/ t \in resolved
       \/ t \in settled /\ Gone(home[t])

\* The last Future of n is dropped as the new one is stored.
New(n, t) ==
    LET free == {u \in Tasks : Reusable(u)}
        own  == {u \in {held[n]} \ {None} : u \in resolved}
        unused == IF free # {} THEN free ELSE own
    IN  t \in unused /\ t = CHOOSE u \in unused : TRUE

Room(n) == held[n] \in resolved \/ \E t \in Tasks : Reusable(t)

Started(t) == task[t] \in {"running", "unwinding"}
Unfinal(t) == t # None /\ t \notin resolved

(***************************************************************************)
(* tick().                                                                 *)
(***************************************************************************)
Begins(n) ==
    /\ at = Idle /\ MayTick
    /\ status[n] # "RUNNING" => Room(n)

Unwinding(n) == orphan[n] # None /\ ~TaskDone(orphan[n])
Stranded(n)  == Unfinal(held[n]) /\ pool[n] # None /\ ~Alive(pool[n])

\* A coroutine that was halted is not over yet: no second one is started.
TickRefuses(n) ==
    /\ Begins(n) /\ Unwinding(n)
    /\ status' = [status EXCEPT ![n] = "FAILURE"]
    /\ UNCHANGED <<bridgeVars, held, orphan, pin, pool, default, at, ticker, owner, dropped>>

\* Mutant of TickStranded: the Future is kept, and ticks of a dead loop are RUNNING.
TickStrandedIgnored(n) ==
    /\ Begins(n) /\ ~Unwinding(n) /\ Stranded(n)
    /\ orphan' = [orphan EXCEPT ![n] = None]
    /\ UNCHANGED <<bridgeVars, status, held, pin, pool, default, at, ticker, owner, dropped>>

\* The loop went under the coroutine: the Future is discarded, the leaf fails.
TickStranded(n) ==
    /\ Begins(n) /\ ~Unwinding(n) /\ Stranded(n)
    /\ orphan' = [orphan EXCEPT ![n] = None]
    /\ Settle(pool[n], held[n])
    /\ dropped' = dropped \cup {held[n]}
    /\ held' = [held EXCEPT ![n] = None]
    /\ status' = [status EXCEPT ![n] = "FAILURE"]
    /\ UNCHANGED <<loop, shut, task, home, flagged, cancelling, resolved, answer,
                   pin, pool, default, at, ticker, owner>>

TickGoesOn(n) ==
    /\ Begins(n) /\ ~Unwinding(n) /\ ~Stranded(n)
    /\ orphan' = [orphan EXCEPT ![n] = None]
    /\ At("ensure", n)
    /\ UNCHANGED <<bridgeVars, status, held, pin, pool, default, ticker, owner, dropped>>

(***************************************************************************)
(* _ensure_bridge(); other threads may have moved since the checks above.  *)
(***************************************************************************)
Fails(n) ==
    /\ status' = [status EXCEPT ![n] = "FAILURE"]
    /\ at' = Idle

\* A pinned leaf never moves to another bridge.
EnsurePinned(n) ==
    /\ Is("ensure", n) /\ pin[n] # None
    /\ IF Alive(pin[n]) THEN At("use", n) /\ UNCHANGED status ELSE Fails(n)
    /\ UNCHANGED <<bridgeVars, held, orphan, pin, pool, default, ticker, owner, dropped>>

EnsureSame(n) ==
    /\ Is("ensure", n) /\ pin[n] = None
    /\ pool[n] # None /\ Alive(pool[n])
    /\ At("use", n)
    /\ UNCHANGED <<bridgeVars, status, held, orphan, pin, pool, default, ticker, owner, dropped>>

\* get_default_bridge(), alive or not; the first use creates a loop.
EnsureDefault(n) ==
    /\ Is("ensure", n) /\ pin[n] = None
    /\ ~(pool[n] # None /\ Alive(pool[n]))
    /\ IF default # None THEN UNCHANGED <<loop, default>>
       ELSE \E b \in Owned :
               /\ loop[b] = "absent"
               /\ loop' = [loop EXCEPT ![b] = "running"]
               /\ default' = b
    /\ pool' = [pool EXCEPT ![n] = default']
    /\ At("use", n)
    /\ UNCHANGED <<shut, pending, taskVars, status, held, orphan, pin, ticker, owner, dropped>>

(***************************************************************************)
(* AsyncActionNode.tick() with the bridge in the place of the pool.        *)
(***************************************************************************)
\* Mutant of Starts: a Future that was polled to its end is not replaced.
StartsKeepingFuture(n, t) ==
    /\ Is("use", n) /\ status[n] # "RUNNING" /\ Alive(pool[n])
    /\ New(n, t)
    /\ Submit(pool[n], t)
    /\ held' = [held EXCEPT ![n] = IF @ = None THEN t ELSE @]
    /\ owner' = [owner EXCEPT ![t] = n]
    /\ status' = [status EXCEPT ![n] = "RUNNING"]
    /\ at' = Idle
    /\ UNCHANGED <<loop, shut, orphan, pin, pool, default, ticker, dropped>>

\* The leaf is not RUNNING: the coroutine is submitted.
Starts(n, t) ==
    /\ Is("use", n) /\ status[n] # "RUNNING" /\ Alive(pool[n])
    /\ New(n, t)
    /\ Submit(pool[n], t)
    /\ held' = [held EXCEPT ![n] = t]
    /\ owner' = [owner EXCEPT ![t] = n]
    /\ dropped' = {u \in dropped \cup {held[n]} : Unfinal(u)} \ {t}
    /\ status' = [status EXCEPT ![n] = "RUNNING"]
    /\ at' = Idle
    /\ UNCHANGED <<loop, shut, orphan, pin, pool, default, ticker>>

\* submit() raises, and tick() makes it a FAILURE.
StartRefused(n) ==
    /\ Is("use", n) /\ status[n] # "RUNNING" /\ ~Alive(pool[n])
    /\ Fails(n)
    /\ UNCHANGED <<bridgeVars, held, orphan, pin, pool, default, ticker, owner, dropped>>

\* _settle_result(), and CancelledError or another exception.
SettleResult(raw) == IF raw \in NodeStatus THEN raw ELSE "FAILURE"

Polls(n) ==
    /\ Is("use", n) /\ status[n] = "RUNNING"
    /\ status' = [status EXCEPT ![n] = IF held[n] \in resolved
                                       THEN SettleResult(answer[held[n]]) ELSE "RUNNING"]
    /\ at' = Idle
    /\ UNCHANGED <<bridgeVars, held, orphan, pin, pool, default, ticker, owner, dropped>>

(***************************************************************************)
(* _on_halt(): halt() calls it on a RUNNING leaf, reset_node() on any.     *)
(***************************************************************************)
\* Mutant of Forget: no handle is kept to a coroutine that goes on.
ForgetAll(n, done) ==
    /\ held' = [held EXCEPT ![n] = None]
    /\ status' = [status EXCEPT ![n] = "IDLE"]
    /\ at' = Idle
    /\ UNCHANGED orphan

\* The end of a halt: the Future is dropped, and kept as an orphan unless its
\* coroutine is over.
Forget(n, done) ==
    /\ held' = [held EXCEPT ![n] = None]
    /\ orphan' = IF done THEN orphan ELSE [orphan EXCEPT ![n] = held[n]]
    /\ status' = [status EXCEPT ![n] = "IDLE"]
    /\ at' = Idle

InLoopThread(n) == pool[n] # None /\ ticker = pool[n]

HaltNothing(n) ==
    /\ at = Idle /\ MayTick /\ held[n] = None
    /\ Forget(n, TRUE)
    /\ UNCHANGED <<bridgeVars, pin, pool, default, ticker, owner, dropped>>

\* On the loop's own thread a wait would never end: cancel, and leave.  With the
\* flag set, task_done() is true of all that has not begun.
HaltInLoop(n) ==
    /\ at = Idle /\ MayTick /\ held[n] # None /\ InLoopThread(n)
    /\ CancelTask(held[n])
    /\ Forget(n, ~Started(held[n]))
    /\ UNCHANGED <<loop, shut, pending, task, home, settled, resolved, answer,
                   pin, pool, default, ticker, owner, dropped>>

HaltWaits(n) ==
    /\ at = Idle /\ MayTick /\ held[n] # None /\ ~InLoopThread(n)
    /\ At("grace", n)
    /\ UNCHANGED <<bridgeVars, status, held, orphan, pin, pool, default, ticker, owner, dropped>>

\* The Future resolved in time, in HALT_GRACE or in JOIN_TIMEOUT.
HaltJoined(n) ==
    /\ at \in [op : {"grace", "join"}, n : {n}] /\ held[n] \in resolved
    /\ Forget(n, TaskDone(held[n]))
    /\ UNCHANGED <<bridgeVars, pin, pool, default, ticker, owner, dropped>>

\* HALT_GRACE is over: the Task is cancelled.
HaltCancels(n) ==
    /\ Is("grace", n) /\ held[n] \notin resolved
    /\ CancelTask(held[n])
    /\ At("join", n)
    /\ UNCHANGED <<loop, shut, pending, task, home, settled, resolved, answer,
                   status, held, orphan, pin, pool, default, ticker, owner, dropped>>

\* JOIN_TIMEOUT is over too; a loop that runs has long done its next step, and
\* what a coroutine does in it may still take long.
HaltTimedOut(n) ==
    /\ Is("join", n) /\ held[n] \notin resolved
    /\ loop[home[held[n]]] = "running" /\ ticker # home[held[n]] =>
          /\ \A t \in On(home[held[n]]) : task[t] # "checked"
          /\ held[n] \notin cancelling
          /\ task[held[n]] \notin {"queued", "over", "stillborn"}
    /\ Forget(n, TaskDone(held[n]))
    /\ UNCHANGED <<bridgeVars, pin, pool, default, ticker, owner, dropped>>

\* halt() of a leaf that has settled.
HaltSettled(n) ==
    /\ at = Idle /\ MayTick /\ status[n] \in {"SUCCESS", "FAILURE"}
    /\ status' = [status EXCEPT ![n] = "IDLE"]
    /\ UNCHANGED <<bridgeVars, held, orphan, pin, pool, default, at, ticker, owner, dropped>>

(***************************************************************************)
(* The program.                                                            *)
(***************************************************************************)
\* set_bridge(), while the leaf has no coroutine.
SetBridge(n, b) ==
    /\ at = Idle /\ MayTick
    /\ status[n] = "IDLE" /\ held[n] = None /\ orphan[n] = None
    /\ pin[n] = None /\ loop[b] # "absent"
    /\ pin' = [pin EXCEPT ![n] = b]
    /\ pool' = [pool EXCEPT ![n] = b]
    /\ UNCHANGED <<bridgeVars, status, held, orphan, default, at, ticker, owner, dropped>>

\* set_default_bridge(), "once at startup", or again after the bridge that leaves
\* use was shut down, as shutdown_default_bridge() does.  Only a program that Swaps
\* takes a living bridge from under its leaves, or clears the default between a
\* tick's test of its bridge (:93-96) and the next one (:79): the leaf would go on
\* with a Future of the old bridge and ask the new one about it.  Without a default, the bound on
\* bridges leaves one to create.
SetDefault(b) ==
    /\ b # default
    /\ \/ Swaps
       \/ /\ at.op # "ensure"
          /\ ~\E n \in Leaves, c \in Bridges : pin[n] = None /\ pool[n] = c /\ shut[c] = "no"
    /\ IF b = None THEN \E o \in Owned : loop[o] = "absent" ELSE loop[b] # "absent"
    /\ default' = b
    /\ UNCHANGED <<bridgeVars, status, held, orphan, pin, pool, at, ticker, owner, dropped>>

\* The loop of a tick thread that is inside tick() or halt() does nothing else.
Free(b) == at = Idle \/ ticker # b

LoopActs(t) == home[t] # None /\ Free(home[t]) /\ LoopStep(t) /\ UNCHANGED leafVars
BridgeActs(b) == Free(b) /\ BridgeStep(b) /\ UNCHANGED leafVars

Tick(n) ==
    \/ TickRefuses(n) \/ TickStranded(n) \/ TickGoesOn(n)
    \/ EnsurePinned(n) \/ EnsureSame(n) \/ EnsureDefault(n)
    \/ (\E t \in Tasks : Starts(n, t)) \/ StartRefused(n) \/ Polls(n)

HaltEnds(n) == HaltJoined(n) \/ HaltCancels(n) \/ HaltTimedOut(n)

Halt(n) ==
    HaltNothing(n) \/ HaltInLoop(n) \/ HaltWaits(n) \/ HaltEnds(n) \/ HaltSettled(n)

Next ==
    \/ \E n \in Leaves : Tick(n) \/ Halt(n)
    \/ \E n \in Leaves, b \in Pins : SetBridge(n, b)
    \/ \E b \in Bridges \cup {None} : SetDefault(b)
    \/ \E t \in Tasks : LoopActs(t)
    \/ \E b \in Bridges : BridgeActs(b)

Spec == Init /\ [][Next]_vars

\* A loop that runs gets on with its Tasks, and a coroutine ends in the end.
Progress(t) ==
    /\ home[t] # None /\ Free(home[t])
    /\ RunnerChecks(t) \/ RunnerStarts(t) \/ CoroutineEnds(t) \/ Resolve(t)
    /\ UNCHANGED leafVars

Poll(n) == status[n] = "RUNNING" /\ (TickRefuses(n) \/ TickStranded(n) \/ TickGoesOn(n))

\* Calls return, and a RUNNING leaf is ticked again and again.
Fairness ==
    /\ SF_vars(\E t \in Tasks : Progress(t))
    /\ \A n \in Leaves :
          /\ WF_vars(Poll(n))
          /\ WF_vars(at # Idle /\ (Tick(n) \/ HaltEnds(n)))

FairSpec == Spec /\ Fairness

(***************************************************************************)
(* Properties.                                                             *)
(***************************************************************************)
\* Types of the variables.
CoroTypeOK ==
    /\ BridgeTypeOK
    /\ status \in [Leaves -> NodeStatus]
    /\ held \in [Leaves -> Tasks \cup {None}]
    /\ orphan \in [Leaves -> Tasks \cup {None}]
    /\ {pin, pool} \subseteq [Leaves -> Bridges \cup {None}]
    /\ default \in Bridges \cup {None}
    /\ at \in [op : {"idle", "ensure", "use", "grace", "join"}, n : Leaves \cup {None}]
    /\ ticker \in Tickers
    /\ owner \in [Tasks -> Leaves \cup {None}]
    /\ dropped \subseteq Tasks

\* wait_all() waits for the count, so the count must be right about the coroutines.
\* It never lets go of one that its loop will still run, unless a leaf gave that
\* one up when it found the loop stopped; and it holds on to none that has come to
\* its end, nor, on a loop that is dead, to one that a tick gave up.
BridgeCounts ==
    \A b \in Bridges :
        LET unresolved == {t \in On(b) : t \notin resolved}
            given_up   == IF loop[b] = "dead" THEN dropped ELSE {}
        IN  /\ Cardinality({t \in On(b) \ dropped : task[t] \in Unfinished}) <= pending[b]
            /\ pending[b] <= Cardinality(unresolved \ given_up)

\* Between two calls a leaf knows of each of its coroutines that has begun and
\* not ended: it is the one it polls, or the orphan that keeps it from starting
\* another; or its loop went down.
NothingUnseen ==
    at = Idle =>
        \A t \in Tasks : Started(t) /\ t \notin dropped =>
            \/ orphan[owner[t]] = t
            \/ /\ held[owner[t]] = t
               /\ \/ status[owner[t]] = "RUNNING" \/ ~Alive(home[t])
                  \/ Resumes /\ pin[owner[t]] # None

\* A RUNNING leaf polls the Future of this very activation, from its start to its
\* end, and settles with SUCCESS only when that coroutine has ended with it.
OwnCoroutine ==
    [][\A n \in Leaves :
          /\ status[n] # "RUNNING" /\ status'[n] = "RUNNING" => task'[held'[n]] = "queued"
          /\ status[n] = "RUNNING" /\ status'[n] = "RUNNING" => held'[n] = held[n]
          /\ status[n] # "SUCCESS" /\ status'[n] = "SUCCESS" =>
                /\ status[n] = "RUNNING"
                /\ owner[held[n]] = n /\ task[held[n]] = "over"
                /\ answer[held[n]] = "SUCCESS"]_vars

\* "Never run two copies" (coro_action.py:85), unless a loop went down on the
\* first: then its Future is given up.
OneCopy ==
    \A n \in Leaves : \A t, u \in Tasks \ dropped :
        Started(t) /\ Started(u) /\ owner[t] = n /\ owner[u] = n => t = u

\* A leaf does not stay RUNNING for ever, whatever becomes of its coroutine and
\* of the loop, as long as ticks come at all.
CoroSettles ==
    \A n \in Leaves : status[n] = "RUNNING" ~>
        status[n] # "RUNNING" \/ (ticker # None /\ loop[ticker] = "paused")
=============================================================================
