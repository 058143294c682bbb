--------------------------- MODULE CoroActionProofs ---------------------------
(***************************************************************************)
(* Theorems about AsyncioBridge and CoroAction, for any number of bridges, *)
(* leaves and submissions, and whatever coroutines come back with.         *)
(***************************************************************************)
EXTENDS CoroAction, FiniteSetTheorems, TLAPS

(***************************************************************************)
(* What holds of every program.                                            *)
(***************************************************************************)
\* The types; counts are Integers until they are known to count.
Typed ==
    /\ loop \in [Bridges -> {"absent", "running", "paused", "dead"}]
    /\ shut \in [Bridges -> {"no", "stopped", "draining", "down"}]
    /\ pending \in [Bridges -> Int]
    /\ task \in [Tasks -> Stages]
    /\ home \in [Tasks -> Bridges \cup {None}]
    /\ flagged \subseteq Tasks /\ settled \subseteq Tasks
    /\ cancelling \subseteq Tasks /\ resolved \subseteq Tasks
    /\ answer \in [Tasks -> Raw \cup {"None", "Cancelled"}]
    /\ status \in [Leaves -> NodeStatus]
    /\ held \in [Leaves -> Tasks \cup {None}]
    /\ orphan \in [Leaves -> Tasks \cup {None}]
    /\ pin \in [Leaves -> Bridges \cup {None}]
    /\ pool \in [Leaves -> Bridges \cup {None}]
    /\ default \in Bridges \cup {None}
    /\ at \in [op : {"idle", "ensure", "use", "grace", "join"}, n : Leaves \cup {None}]
    /\ ticker \in Tickers
    /\ owner \in [Tasks -> Leaves \cup {None}]
    /\ dropped \subseteq Tasks

\* What a submission's stage says of its Future, its bridge and its loop.
StageInv ==
    \A t \in Tasks :
        /\ t \in resolved => task[t] \in {"over", "stillborn"} /\ t \in settled
        /\ task[t] = "stillborn" => answer[t] = "Cancelled"
        /\ task[t] # "free" => home[t] \in Bridges /\ owner[t] \in Leaves
        /\ home[t] # None => task[t] # "free" /\ loop[home[t]] # "absent"
        /\ task[t] = "checked" => loop[home[t]] = "running"

\* A leaf has at most one of a Future and an orphan, both its own, no orphan when
\* it looks for its bridge, and a Future while it waits in a halt.
HandleInv ==
    /\ \A n \in Leaves : held[n] # None => owner[held[n]] = n /\ pool[n] # None
    /\ \A n \in Leaves : orphan[n] # None => owner[orphan[n]] = n /\ held[n] = None
    /\ \A n \in Leaves : pin[n] # None => pool[n] = pin[n]
    /\ at.op # "idle" => at.n \in Leaves
    /\ at.op \in {"ensure", "use"} => orphan[at.n] = None
    /\ at.op = "use" => pool[at.n] # None
    /\ at.op \in {"grace", "join"} => held[at.n] # None /\ ticker # pool[at.n]
    /\ at.op = "join" /\ held[at.n] \notin resolved => held[at.n] \in flagged

BaseInv == Typed /\ StageInv /\ HandleInv

(***************************************************************************)
(* What holds as long as nobody takes a default bridge from under a leaf.  *)
(***************************************************************************)
\* A Future that is not done is on the bridge its leaf asks about it; a leaf
\* without a bridge of its own keeps to the default until that is shut down.
BridgeInv ==
    /\ \A n \in Leaves : Unfinal(held[n]) => home[held[n]] = pool[n]
    /\ \A n \in Leaves : pin[n] = None /\ pool[n] # None =>
          \/ pool[n] = default
          \/ /\ shut[pool[n]] # "no"
             /\ ~(at = [op |-> "ensure", n |-> n] /\ Unfinal(held[n]))

\* Begun and not ended, or about to begin.
Live(t) == \/ task[t] \in {"checked", "running", "unwinding"}
           \/ task[t] = "queued" /\ t \notin flagged

SeenInv ==
    /\ \A t \in Tasks \ dropped : Live(t) => held[owner[t]] = t \/ orphan[owner[t]] = t
    /\ \A n \in Leaves : orphan[n] # None => task[orphan[n]] \in {"running", "unwinding", "over"}

\* Only a pinned leaf whose bridge is down, or was until the host ran its loop
\* again, has a Future that it does not poll.
PollInv ==
    \A n \in Leaves : Unfinal(held[n]) /\ status[n] # "RUNNING" =>
        /\ pin[n] # None
        /\ (Resumes /\ home[held[n]] \notin Owned) \/ ~Alive(home[held[n]])

\* Only an owned loop dies or is drained, and only a lent one pauses.
LoopInv ==
    \A b \in Bridges :
        /\ loop[b] = "dead" \/ shut[b] \in {"stopped", "draining"} => b \in Owned
        /\ loop[b] = "paused" => b \notin Owned

\* What is no longer counted has resolved or was given up; and what was given up
\* without a discard() is on a loop that can only pause.
GivenUpInv ==
    /\ \A t \in settled : t \in resolved \/ t \in dropped
    /\ \A t \in dropped : t \in settled \/ home[t] \notin Owned

\* The count is one for each submission that neither the done callback nor
\* discard() has settled.
Unsettled(b) == {t \in On(b) : t \notin settled}
Counted == \A b \in Bridges : pending[b] = Cardinality(Unsettled(b))

Seen == BridgeInv /\ SeenInv /\ PollInv /\ LoopInv /\ GivenUpInv /\ Counted

IInv == BaseInv /\ Seen

(***************************************************************************)
(* BaseInv, step by step.                                                  *)
(***************************************************************************)
Ops == {"idle", "ensure", "use", "grace", "join"}

LEMMA BaseInit == Init => BaseInv
<1> SUFFICES ASSUME Init PROVE BaseInv
  OBVIOUS
<1>1. Typed
  BY BridgeAssumption, CoroAssumption
     DEF Init, BridgeInit, Typed, Idle, NodeStatus, Stages
<1>2. StageInv
  BY BridgeAssumption DEF Init, BridgeInit, StageInv
<1>3. HandleInv
  BY DEF Init, HandleInv, Idle
<1> QED
  BY <1>1, <1>2, <1>3 DEF BaseInv

LEMMA UnchangedBase == ASSUME BaseInv, UNCHANGED vars PROVE BaseInv'
BY DEF vars, bridgeVars, leafVars, BaseInv, Typed, StageInv, HandleInv

\* Steps of a loop.
LEMMA LoopBase ==
    ASSUME BaseInv, NEW t \in Tasks, LoopActs(t)
    PROVE  BaseInv'
<1>1. UNCHANGED leafVars /\ home[t] \in Bridges /\ LoopStep(t) /\ Turn(t)
  BY DEF LoopActs, BaseInv, Typed, LoopStep, RunnerChecks, RunnerStarts, CoroutineEnds,
     CancelArrives, Resolve, LoopDies
<1>2. HandleInv'
  <2>1. \/ flagged' = flagged /\ resolved' = resolved
        \/ flagged' = flagged \ {t} /\ resolved' = resolved \cup {t}
    BY <1>1 DEF LoopStep, RunnerChecks, RunnerStarts, CoroutineEnds, CancelArrives, Resolve, LoopDies
  <2> QED
    BY <1>1, <2>1 DEF BaseInv, HandleInv, leafVars
<1>3. CASE RunnerChecks(t) \/ RunnerStarts(t) \/ CoroutineEnds(t) \/ CancelArrives(t)
  <2>1. /\ UNCHANGED <<loop, shut, pending, home, flagged, settled, resolved>>
        /\ cancelling' \subseteq cancelling
    BY <1>3 DEF RunnerChecks, RunnerStarts, CoroutineEnds, CancelArrives
  <2>2. \/ UNCHANGED <<task, answer>>
        \/ /\ task[t] = "queued" /\ task' = [task EXCEPT ![t] = "checked"]
           /\ UNCHANGED answer
        \/ /\ task[t] = "queued" /\ task' = [task EXCEPT ![t] = "stillborn"]
           /\ answer' = [answer EXCEPT ![t] = "Cancelled"]
        \/ /\ task[t] = "checked" /\ task' = [task EXCEPT ![t] = "running"]
           /\ UNCHANGED answer
        \/ /\ task[t] = "running" /\ task' = [task EXCEPT ![t] = "unwinding"]
           /\ UNCHANGED answer
        \/ /\ task[t] \in {"running", "unwinding"} /\ task' = [task EXCEPT ![t] = "over"]
           /\ \E raw \in Raw \cup {"Cancelled"} : answer' = [answer EXCEPT ![t] = raw]
    BY <1>3 DEF RunnerChecks, RunnerStarts, CoroutineEnds, CancelArrives, Ends
  <2>3. Typed'
    BY <1>1, <2>1, <2>2 DEF BaseInv, Typed, Stages, leafVars
  <2>4. StageInv'
    BY <1>1, <2>1, <2>2 DEF BaseInv, Typed, StageInv, Turn, leafVars
  <2> QED
    BY <1>2, <2>3, <2>4 DEF BaseInv
<1>4. CASE Resolve(t)
  <2>1. pending' \in [Bridges -> Int] /\ settled' = settled \cup {t}
    BY <1>1, <1>4 DEF Resolve, Settle, BaseInv, Typed
  <2>2. Typed'
    BY <1>1, <1>4, <2>1 DEF Resolve, BaseInv, Typed, leafVars
  <2>3. StageInv'
    BY <1>1, <1>4, <2>1 DEF Resolve, BaseInv, Typed, StageInv, leafVars
  <2> QED
    BY <1>2, <2>2, <2>3 DEF BaseInv
<1>5. CASE LoopDies(t)
  <2>1. Typed'
    BY <1>1, <1>5 DEF LoopDies, Ends, BaseInv, Typed, Stages, leafVars
  <2>2. StageInv'
    BY <1>1, <1>5 DEF LoopDies, Ends, Turn, On, BaseInv, Typed, StageInv, leafVars
  <2> QED
    BY <1>2, <2>1, <2>2 DEF BaseInv
<1> QED
  BY <1>1, <1>3, <1>4, <1>5 DEF LoopStep

\* Steps of the host and of shutdown().
LEMMA BridgeBase ==
    ASSUME BaseInv, NEW b \in Bridges, BridgeActs(b)
    PROVE  BaseInv'
<1>1. UNCHANGED leafVars /\ BridgeStep(b)
  BY DEF BridgeActs
<1>2. UNCHANGED <<pending, task, home, flagged, settled, resolved, answer>>
      /\ cancelling' \subseteq Tasks
  BY <1>1 DEF BridgeStep, HostStops, HostResumes, ShutdownStops, ShutdownDrains, ShutdownCloses,
     taskVars, BaseInv, Typed, On
<1>3. Typed'
  BY <1>1, <1>2 DEF BridgeStep, HostStops, HostResumes, ShutdownStops, ShutdownDrains,
     ShutdownCloses, BaseInv, Typed, leafVars
<1>4. ASSUME NEW t \in Tasks, home[t] # None
      PROVE  /\ loop[home[t]] # "absent" => loop'[home[t]] # "absent"
             /\ task[t] = "checked" => loop'[home[t]] = "running"
  <2>1. CASE HostStops(b)
    BY <1>4, <2>1 DEF HostStops, BaseInv, Typed, StageInv, On
  <2>2. CASE HostResumes(b)
    BY <1>4, <2>2 DEF HostResumes, BaseInv, Typed, StageInv
  <2>3. CASE ShutdownStops(b) \/ ShutdownDrains(b)
    BY <1>4, <2>3 DEF ShutdownStops, ShutdownDrains, BaseInv, Typed, StageInv
  <2>4. CASE ShutdownCloses(b)
    BY <1>4, <2>4 DEF ShutdownCloses, BaseInv, Typed, StageInv, On
  <2> QED
    BY <1>1, <2>1, <2>2, <2>3, <2>4 DEF BridgeStep
<1>5. StageInv'
  BY <1>1, <1>2, <1>4, BridgeAssumption DEF BaseInv, Typed, StageInv, leafVars
<1>6. HandleInv'
  <2>1. UNCHANGED <<flagged, resolved>>
    BY <1>1 DEF BridgeStep, HostStops, HostResumes, ShutdownStops, ShutdownDrains,
       ShutdownCloses, taskVars
  <2> QED
    BY <1>1, <2>1 DEF BaseInv, HandleInv, leafVars
<1> QED
  BY <1>3, <1>5, <1>6 DEF BaseInv

\* Steps of a leaf that leave its Future and its submissions alone.
LEMMA TickBase ==
    ASSUME BaseInv, NEW n \in Leaves,
           \/ TickRefuses(n) \/ TickGoesOn(n) \/ EnsurePinned(n) \/ EnsureSame(n)
           \/ StartRefused(n) \/ Polls(n) \/ HaltWaits(n) \/ HaltSettled(n)
    PROVE  BaseInv'
<1>1. UNCHANGED <<bridgeVars, held, pin, pool, default, ticker, owner, dropped>>
  BY DEF TickRefuses, TickGoesOn, EnsurePinned, EnsureSame, StartRefused, Polls, HaltWaits,
     HaltSettled
<1>2. /\ \A r : SettleResult(r) \in NodeStatus
      /\ {"IDLE", "RUNNING", "FAILURE"} \subseteq NodeStatus
  BY DEF SettleResult, NodeStatus
<1>3. status' \in [Leaves -> NodeStatus] /\ orphan' \in [Leaves -> Tasks \cup {None}]
      /\ at' \in [op : Ops, n : Leaves \cup {None}]
  BY <1>2 DEF TickRefuses, TickGoesOn, EnsurePinned, EnsureSame, StartRefused, Polls, HaltWaits,
     HaltSettled, Fails, At, Idle, BaseInv, Typed, Ops
<1>4. Typed'
  BY <1>1, <1>3 DEF BaseInv, Typed, bridgeVars, Ops
<1>5. StageInv'
  BY <1>1 DEF BaseInv, StageInv, bridgeVars
<1>6. HandleInv'
  <2>1. CASE TickGoesOn(n)
    BY <1>1, <2>1 DEF TickGoesOn, At, BaseInv, Typed, HandleInv, bridgeVars
  <2>2. CASE EnsurePinned(n)
    BY <1>1, <2>2, BridgeAssumption DEF EnsurePinned, At, Is, Fails, Idle, BaseInv, HandleInv, bridgeVars
  <2>3. CASE EnsureSame(n)
    BY <1>1, <2>3 DEF EnsureSame, At, Is, BaseInv, HandleInv, bridgeVars
  <2>4. CASE HaltWaits(n)
    BY <1>1, <2>4 DEF HaltWaits, InLoopThread, At, BaseInv, HandleInv, bridgeVars
  <2>5. CASE TickRefuses(n) \/ StartRefused(n) \/ Polls(n) \/ HaltSettled(n)
    <3>1. UNCHANGED orphan /\ (UNCHANGED at \/ at' = Idle)
      BY <2>5 DEF TickRefuses, StartRefused, Polls, HaltSettled, Fails
    <3> QED
      BY <1>1, <3>1 DEF Idle, BaseInv, HandleInv, bridgeVars
  <2> QED
    BY <2>1, <2>2, <2>3, <2>4, <2>5
<1> QED
  BY <1>4, <1>5, <1>6 DEF BaseInv

LEMMA StrandedBase ==
    ASSUME BaseInv, NEW n \in Leaves, TickStranded(n)
    PROVE  BaseInv'
<1>1. pool[n] \in Bridges /\ held[n] \in Tasks /\ at = Idle
  BY DEF TickStranded, Stranded, Unfinal, Begins, BaseInv, Typed
<1>2. pending' \in [Bridges -> Int] /\ settled' = settled \cup {held[n]}
  BY <1>1 DEF TickStranded, Settle, BaseInv, Typed
<1>3. Typed'
  BY <1>1, <1>2 DEF TickStranded, BaseInv, Typed, NodeStatus
<1>4. StageInv'
  BY <1>1, <1>2 DEF TickStranded, BaseInv, StageInv
<1>5. HandleInv'
  BY <1>1 DEF TickStranded, BaseInv, Typed, HandleInv, Idle
<1> QED
  BY <1>3, <1>4, <1>5 DEF BaseInv

LEMMA DefaultBase ==
    ASSUME BaseInv, NEW n \in Leaves, EnsureDefault(n)
    PROVE  BaseInv'
<1>1. /\ at' = [op |-> "use", n |-> n] /\ at = [op |-> "ensure", n |-> n] /\ pin[n] = None
      /\ pool' = [pool EXCEPT ![n] = default'] /\ default' \in Bridges
      /\ UNCHANGED <<shut, pending, taskVars, status, held, orphan, pin, ticker, owner, dropped>>
      /\ \/ UNCHANGED loop
         \/ \E b \in Bridges : loop[b] = "absent" /\ loop' = [loop EXCEPT ![b] = "running"]
  BY BridgeAssumption DEF EnsureDefault, At, Is, BaseInv, Typed
<1>2. Typed'
  BY <1>1 DEF BaseInv, Typed, taskVars
<1>3. StageInv'
  BY <1>1, BridgeAssumption DEF BaseInv, Typed, StageInv, taskVars
<1>4. HandleInv'
  BY <1>1, BridgeAssumption DEF BaseInv, Typed, HandleInv
<1> QED
  BY <1>2, <1>3, <1>4 DEF BaseInv

\* A new submission is one that nobody but the leaf itself holds, and no orphan.
LEMMA NewOne ==
    ASSUME BaseInv, NEW n \in Leaves, NEW t \in Tasks, New(n, t)
    PROVE  /\ \A m \in Leaves : orphan[m] # t /\ (held[m] = t => m = n)
           /\ \/ task[t] = "free" \/ t \in resolved
              \/ t \in settled /\ Gone(home[t]) /\ held[n] # t
<1>1. Reusable(t) \/ (t = held[n] /\ t \in resolved)
  BY DEF New
<1>2. CASE Reusable(t)
  BY <1>2 DEF Reusable
<1>3. CASE t = held[n] /\ t \in resolved
  BY <1>3, BridgeAssumption DEF BaseInv, HandleInv
<1> QED
  BY <1>1, <1>2, <1>3

LEMMA StartsBase ==
    ASSUME BaseInv, NEW n \in Leaves, NEW t \in Tasks, Starts(n, t)
    PROVE  BaseInv'
<1>1. at = [op |-> "use", n |-> n] /\ at' = Idle /\ pool[n] \in Bridges
      /\ loop[pool[n]] = "running"
  BY DEF Starts, Is, Alive, BaseInv, Typed, HandleInv
<1>2. \A m \in Leaves : orphan[m] # t /\ (held[m] = t => m = n)
  BY <1>1, NewOne DEF Starts
<1>3. dropped' \subseteq Tasks
  BY DEF Starts, BaseInv, Typed, Unfinal
<1>4. Typed'
  BY <1>1, <1>3 DEF Starts, Submit, Idle, NodeStatus, Stages, BaseInv, Typed
<1>5. StageInv'
  BY <1>1, BridgeAssumption DEF Starts, Submit, BaseInv, Typed, StageInv
<1>6. HandleInv'
  BY <1>1, <1>2, BridgeAssumption DEF Starts, Submit, Idle, BaseInv, Typed, HandleInv
<1> QED
  BY <1>4, <1>5, <1>6 DEF BaseInv

\* The end of a halt, and the cancellations in it.
LEMMA ForgetBase ==
    ASSUME BaseInv, NEW n \in Leaves, NEW done \in BOOLEAN, Forget(n, done),
           UNCHANGED <<loop, shut, pending, task, home, settled, resolved, answer,
                       pin, pool, default, ticker, owner, dropped>>,
           flagged' \subseteq Tasks, cancelling' \subseteq Tasks
    PROVE  BaseInv'
<1>1. Typed'
  BY DEF Forget, Idle, NodeStatus, BaseInv, Typed
<1>2. StageInv'
  BY DEF BaseInv, StageInv
<1>3. HandleInv'
  BY DEF Forget, Idle, BaseInv, Typed, HandleInv
<1> QED
  BY <1>1, <1>2, <1>3 DEF BaseInv

LEMMA HaltBase ==
    ASSUME BaseInv, NEW n \in Leaves,
           \/ HaltNothing(n) \/ HaltInLoop(n) \/ HaltJoined(n) \/ HaltTimedOut(n)
    PROVE  BaseInv'
<1>1. CASE HaltNothing(n) \/ HaltJoined(n) \/ HaltTimedOut(n)
  <2>1. Forget(n, TRUE) \/ Forget(n, TaskDone(held[n]))
    BY <1>1 DEF HaltNothing, HaltJoined, HaltTimedOut
  <2>2. PICK done \in BOOLEAN : Forget(n, done)
    BY <2>1 DEF Forget
  <2>3. UNCHANGED <<bridgeVars, pin, pool, default, ticker, owner, dropped>>
    BY <1>1 DEF HaltNothing, HaltJoined, HaltTimedOut
  <2> QED
    BY <2>2, <2>3, ForgetBase DEF bridgeVars, BaseInv, Typed
<1>2. CASE HaltInLoop(n)
  <2>1. PICK done \in BOOLEAN : Forget(n, done)
    BY <1>2 DEF HaltInLoop, Forget, Started
  <2>2. flagged' \subseteq Tasks /\ cancelling' \subseteq Tasks
    BY <1>2 DEF HaltInLoop, CancelTask, BaseInv, Typed
  <2> QED
    BY <1>2, <2>1, <2>2, ForgetBase DEF HaltInLoop
<1> QED
  BY <1>1, <1>2

LEMMA CancelsBase ==
    ASSUME BaseInv, NEW n \in Leaves, HaltCancels(n)
    PROVE  BaseInv'
<1>1. /\ held[n] \in Tasks /\ flagged' = flagged \cup {held[n]} /\ cancelling' \subseteq Tasks
      /\ at = [op |-> "grace", n |-> n] /\ at' = [op |-> "join", n |-> n]
  BY DEF HaltCancels, CancelTask, Is, At, BaseInv, Typed, HandleInv
<1>2. Typed'
  BY <1>1 DEF HaltCancels, BaseInv, Typed
<1>3. StageInv' /\ HandleInv'
  BY <1>1 DEF HaltCancels, BaseInv, StageInv, HandleInv
<1> QED
  BY <1>2, <1>3 DEF BaseInv

LEMMA BindBase ==
    ASSUME BaseInv,
           \/ \E n \in Leaves, b \in Pins : SetBridge(n, b)
           \/ \E b \in Bridges \cup {None} : SetDefault(b)
    PROVE  BaseInv'
<1>1. ASSUME NEW n \in Leaves, NEW b \in Pins, SetBridge(n, b) PROVE BaseInv'
  <2>1. Typed'
    BY <1>1, CoroAssumption DEF SetBridge, bridgeVars, BaseInv, Typed
  <2>2. StageInv' /\ HandleInv'
    BY <1>1, CoroAssumption, BridgeAssumption DEF SetBridge, bridgeVars, BaseInv, Typed, StageInv, HandleInv, Idle
  <2> QED
    BY <2>1, <2>2 DEF BaseInv
<1>2. ASSUME NEW b \in Bridges \cup {None}, SetDefault(b) PROVE BaseInv'
  BY <1>2 DEF SetDefault, bridgeVars, BaseInv, Typed, StageInv, HandleInv
<1> QED
  BY <1>1, <1>2

LEMMA BaseNext == BaseInv /\ [Next]_vars => BaseInv'
<1> SUFFICES ASSUME BaseInv, [Next]_vars PROVE BaseInv'
  OBVIOUS
<1>1. ASSUME NEW n \in Leaves, Tick(n) PROVE BaseInv'
  BY <1>1, TickBase, StrandedBase, DefaultBase, StartsBase DEF Tick
<1>2. ASSUME NEW n \in Leaves, Halt(n) PROVE BaseInv'
  BY <1>2, TickBase, HaltBase, CancelsBase DEF Halt, HaltEnds
<1>3. ASSUME \/ \E n \in Leaves, b \in Pins : SetBridge(n, b)
             \/ \E b \in Bridges \cup {None} : SetDefault(b)
      PROVE  BaseInv'
  BY <1>3, BindBase
<1>4. ASSUME NEW t \in Tasks, LoopActs(t) PROVE BaseInv'
  BY <1>4, LoopBase
<1>5. ASSUME NEW b \in Bridges, BridgeActs(b) PROVE BaseInv'
  BY <1>5, BridgeBase
<1>6. CASE UNCHANGED vars
  BY <1>6, UnchangedBase
<1> QED
  BY <1>1, <1>2, <1>3, <1>4, <1>5, <1>6 DEF Next

\* Stages, Futures and handles agree, whoever shuts which bridge down and
\* whichever default the program sets.
THEOREM BaseInvariant == Spec => []BaseInv
BY BaseInit, BaseNext, PTL DEF Spec

\* A leaf polls the Future of this very activation and succeeds only with it,
\* also when the program changes the default bridge under a RUNNING leaf.
THEOREM OwnCoroutineHolds == Spec => OwnCoroutine
<1> DEFINE Own(n) ==
      /\ status[n] # "RUNNING" /\ status'[n] = "RUNNING" => task'[held'[n]] = "queued"
      /\ status[n] = "RUNNING" /\ status'[n] = "RUNNING" => held'[n] = held[n]
      /\ status[n] # "SUCCESS" /\ status'[n] = "SUCCESS" =>
            /\ status[n] = "RUNNING"
            /\ owner[held[n]] = n /\ task[held[n]] = "over"
            /\ answer[held[n]] = "SUCCESS"
<1>1. ASSUME BaseInv, [Next]_vars, NEW n \in Leaves PROVE Own(n)
  <2>1. status \in [Leaves -> NodeStatus] /\ held \in [Leaves -> Tasks \cup {None}]
        /\ task \in [Tasks -> Stages] /\ resolved \subseteq Tasks
    BY <1>1 DEF BaseInv, Typed
  <2>2. CASE status'[n] = status[n] /\ held'[n] = held[n]
    BY <2>2
  <2>3. ASSUME NEW m \in Leaves, Tick(m) PROVE Own(n)
    <3>1. CASE \E t \in Tasks : Starts(m, t)
      BY <2>1, <3>1 DEF Starts, Submit
    <3>2. CASE Polls(m)
      <4>1. UNCHANGED held /\ (n # m => status'[n] = status[n])
        BY <2>1, <3>2 DEF Polls
      <4>2. CASE n = m /\ held[n] \in resolved
        <5>1. status[n] = "RUNNING" /\ status'[n] = SettleResult(answer[held[n]])
          BY <2>1, <3>2, <4>2 DEF Polls
        <5>2. status'[n] = "SUCCESS" => answer[held[n]] = "SUCCESS"
          BY <5>1 DEF SettleResult
        <5>3. held[n] # None /\ task[held[n]] \in {"over", "stillborn"}
          BY <1>1, <2>1, <4>2, BridgeAssumption DEF BaseInv, StageInv
        <5> QED
          BY <1>1, <2>1, <4>1, <4>2, <5>1, <5>2, <5>3 DEF BaseInv, StageInv, HandleInv
      <4>3. CASE n = m /\ held[n] \notin resolved
        BY <2>1, <3>2, <4>1, <4>3 DEF Polls
      <4> QED
        BY <2>2, <4>1, <4>2, <4>3
    <3>3. CASE \/ TickRefuses(m) \/ TickStranded(m) \/ TickGoesOn(m)
               \/ EnsurePinned(m) \/ EnsureSame(m) \/ EnsureDefault(m) \/ StartRefused(m)
      <4>1. status'[n] = "FAILURE" \/ (status'[n] = status[n] /\ held'[n] = held[n])
        BY <2>1, <3>3 DEF TickRefuses, TickStranded, TickGoesOn, EnsurePinned, EnsureSame,
           EnsureDefault, StartRefused, Fails
      <4> QED
        BY <4>1
    <3> QED
      BY <2>3, <3>1, <3>2, <3>3 DEF Tick
  <2>4. ASSUME NEW m \in Leaves, Halt(m) PROVE Own(n)
    <3>1. status'[n] = "IDLE" \/ (status'[n] = status[n] /\ held'[n] = held[n])
      BY <2>1, <2>4 DEF Halt, HaltEnds, HaltNothing, HaltInLoop, HaltWaits, HaltJoined, HaltCancels,
         HaltTimedOut, HaltSettled, Forget
    <3> QED
      BY <3>1
  <2>5. CASE UNCHANGED <<status, held>>
    BY <2>2, <2>5
  <2> QED
    BY <1>1, <2>3, <2>4, <2>5 DEF Next, SetBridge, SetDefault, LoopActs, BridgeActs, leafVars, vars
<1>2. (\A n \in Leaves : Own(n)) => [\A n \in Leaves : Own(n)]_vars
  OBVIOUS
<1>3. BaseInv /\ [Next]_vars => [\A n \in Leaves : Own(n)]_vars
  BY <1>1, <1>2
<1> QED
  BY <1>3, BaseInvariant, PTL DEF Spec, OwnCoroutine

(***************************************************************************)
(* The counts, and what leaves see of their coroutines.                    *)
(***************************************************************************)
\* A new submission is one more for its bridge, and nothing for the others.
LEMMA SubmitCounts ==
    ASSUME Typed, Counted, NEW b \in Bridges, NEW t \in Tasks, Submit(b, t),
           t \in settled \/ home[t] = None
    PROVE  Counted'
<1>1. ASSUME NEW c \in Bridges PROVE pending'[c] = Cardinality(Unsettled(c)')
  <2>1. IsFiniteSet(Unsettled(c)) /\ t \notin Unsettled(c)
    BY BridgeAssumption, FS_Subset DEF Unsettled, On
  <2>2. CASE c = b
    <3>1. Unsettled(c)' = Unsettled(c) \cup {t}
      BY <2>2 DEF Unsettled, On, Submit, Typed
    <3>2. pending'[c] = pending[c] + 1
      BY <2>2 DEF Submit, Typed
    <3> QED
      BY <2>1, <3>1, <3>2, FS_AddElement DEF Counted
  <2>3. CASE c # b
    <3>1. Unsettled(c)' = Unsettled(c) /\ pending'[c] = pending[c]
      BY <2>1, <2>3 DEF Unsettled, On, Submit, Typed
    <3> QED
      BY <3>1 DEF Counted
  <2> QED
    BY <2>2, <2>3
<1> QED
  BY <1>1 DEF Counted

\* A submission settled on its own bridge is one less there; a second time it is
\* nothing.
LEMMA SettleCounts ==
    ASSUME Typed, Counted, NEW t \in Tasks, home[t] \in Bridges, Settle(home[t], t),
           UNCHANGED home
    PROVE  Counted'
<1>1. CASE t \in settled
  BY <1>1 DEF Settle, Counted, Unsettled, On
<1>2. CASE t \notin settled
  <2>1. ASSUME NEW c \in Bridges PROVE pending'[c] = Cardinality(Unsettled(c)')
    <3>1. IsFiniteSet(Unsettled(c)) /\ settled' = settled \cup {t}
      BY <1>2, BridgeAssumption, FS_Subset DEF Unsettled, On, Settle
    <3>2. CASE c = home[t]
      <4>1. Unsettled(c)' = Unsettled(c) \ {t} /\ t \in Unsettled(c)
        BY <1>2, <3>1, <3>2 DEF Unsettled, On
      <4>2. pending'[c] = pending[c] - 1
        BY <1>2, <3>2 DEF Settle, Typed
      <4> QED
        BY <3>1, <4>1, <4>2, FS_RemoveElement, FS_CardinalityType DEF Counted
    <3>3. CASE c # home[t]
      <4>1. Unsettled(c)' = Unsettled(c) /\ pending'[c] = pending[c]
        BY <1>2, <3>1, <3>3 DEF Unsettled, On, Settle, Typed
      <4> QED
        BY <4>1 DEF Counted
    <3> QED
      BY <3>2, <3>3
  <2> QED
    BY <2>1 DEF Counted
<1> QED
  BY <1>1, <1>2

LEMMA SameCounts ==
    ASSUME Counted, UNCHANGED <<pending, home, settled>> PROVE Counted'
BY DEF Counted, Unsettled, On

LEMMA SeenInit == Init => Seen
<1> SUFFICES ASSUME Init PROVE Seen
  OBVIOUS
<1>1. Counted
  <2>1. ASSUME NEW b \in Bridges PROVE Unsettled(b) = {}
    BY BridgeAssumption DEF Unsettled, On, Init, BridgeInit
  <2> QED
    BY <2>1, FS_EmptySet DEF Init, BridgeInit, Counted
<1>2. BridgeInv /\ PollInv
  BY DEF Init, BridgeInit, BridgeInv, PollInv, Unfinal
<1>3. SeenInv
  BY DEF Init, BridgeInit, SeenInv, Live
<1>4. LoopInv /\ GivenUpInv
  BY DEF Init, BridgeInit, LoopInv, GivenUpInv
<1> QED
  BY <1>1, <1>2, <1>3, <1>4 DEF Seen

LEMMA UnchangedSeen == ASSUME Seen, UNCHANGED vars PROVE Seen'
BY DEF vars, bridgeVars, leafVars, Seen, BridgeInv, SeenInv, PollInv, LoopInv, GivenUpInv,
       Counted, Unsettled, Live, Unfinal, Alive, On

\* A coroutine is no nearer to beginning after any step of its loop than before.
LEMMA LoopSeen ==
    ASSUME BaseInv, Seen, NEW t \in Tasks, LoopActs(t)
    PROVE  Seen'
<1>1. UNCHANGED leafVars /\ LoopStep(t) /\ UNCHANGED <<shut, home>>
  BY DEF LoopActs, LoopStep, RunnerChecks, RunnerStarts, CoroutineEnds, CancelArrives, Resolve, LoopDies
<1>2. Counted'
  <2>1. CASE Resolve(t)
    BY <1>1, <2>1, SettleCounts DEF Resolve, Turn, Seen, BaseInv, Typed
  <2>2. CASE ~Resolve(t)
    BY <1>1, <2>2, SameCounts DEF Seen, LoopStep, RunnerChecks, RunnerStarts, CoroutineEnds,
       CancelArrives, LoopDies
  <2> QED
    BY <2>1, <2>2
<1>3. BridgeInv'
  <2>1. \A u \in Tasks \cup {None} : Unfinal(u)' => Unfinal(u)
    BY <1>1 DEF Unfinal, LoopStep, RunnerChecks, RunnerStarts, CoroutineEnds, CancelArrives, Resolve,
       LoopDies
  <2> QED
    BY <1>1, <2>1 DEF Seen, BridgeInv, leafVars, BaseInv, Typed
<1>4. /\ \A u \in Tasks : Live(u)' => Live(u)
      /\ \A u \in Tasks : task[u] \in {"running", "unwinding", "over"}
                           => task'[u] \in {"running", "unwinding", "over"}
  BY <1>1 DEF Live, LoopStep, RunnerChecks, RunnerStarts, CoroutineEnds, CancelArrives, Resolve,
     LoopDies, Ends, BaseInv, Typed
<1>5. SeenInv'
  BY <1>1, <1>4 DEF Seen, SeenInv, leafVars, BaseInv, Typed
<1>6. resolved \subseteq resolved' /\ \A b \in Bridges : loop'[b] = "running" => loop[b] = "running"
  BY <1>1 DEF LoopStep, RunnerChecks, RunnerStarts, CoroutineEnds, CancelArrives, Resolve, LoopDies,
     BaseInv, Typed
<1>7. \A n \in Leaves : Unfinal(held[n]) => home[held[n]] \in Bridges
  BY DEF Unfinal, Seen, BridgeInv, BaseInv, HandleInv, Typed
<1>8. PollInv'
  BY <1>1, <1>6, <1>7 DEF Seen, PollInv, Unfinal, Alive, leafVars
<1>9. LoopInv'
  <2>1. CASE LoopDies(t)
    BY <1>1, <2>1 DEF LoopDies, Seen, LoopInv, BaseInv, Typed
  <2>2. CASE ~LoopDies(t)
    BY <1>1, <2>2 DEF LoopStep, RunnerChecks, RunnerStarts, CoroutineEnds, CancelArrives, Resolve,
       Seen, LoopInv
  <2> QED
    BY <2>1, <2>2
<1>10. GivenUpInv'
  <2>1. CASE Resolve(t)
    BY <1>1, <2>1 DEF Resolve, Settle, leafVars, Seen, GivenUpInv, BaseInv, Typed
  <2>2. CASE ~Resolve(t)
    BY <1>1, <2>2 DEF LoopStep, RunnerChecks, RunnerStarts, CoroutineEnds, CancelArrives, LoopDies,
       leafVars, Seen, GivenUpInv
  <2> QED
    BY <2>1, <2>2
<1> QED
  BY <1>2, <1>3, <1>5, <1>8, <1>9, <1>10 DEF Seen

LEMMA BridgeSeen ==
    ASSUME BaseInv, Seen, NEW b \in Bridges, BridgeActs(b)
    PROVE  Seen'
<1>1. /\ UNCHANGED leafVars /\ BridgeStep(b)
      /\ UNCHANGED <<pending, task, home, flagged, settled, resolved, answer>>
  BY DEF BridgeActs, BridgeStep, HostStops, HostResumes, ShutdownStops, ShutdownDrains,
     ShutdownCloses, taskVars
<1>2. Counted' /\ SeenInv' /\ GivenUpInv'
  BY <1>1, SameCounts DEF Seen, SeenInv, GivenUpInv, Live, leafVars
<1>3. \A c \in Bridges : Alive(c)' => Alive(c) \/ (Resumes /\ c \notin Owned)
  BY <1>1 DEF Alive, BridgeStep, HostStops, HostResumes, ShutdownStops, ShutdownDrains,
     ShutdownCloses, Seen, LoopInv, BaseInv, Typed
<1>4. \A n \in Leaves : Unfinal(held[n]) => home[held[n]] \in Bridges
  BY DEF Unfinal, Seen, BridgeInv, BaseInv, HandleInv, Typed
<1>5. PollInv'
  BY <1>1, <1>3, <1>4 DEF Seen, PollInv, Unfinal, leafVars
<1>6. BridgeInv'
  <2>1. \A c \in Bridges : shut[c] # "no" => shut'[c] # "no"
    BY <1>1 DEF BridgeStep, HostStops, HostResumes, ShutdownStops, ShutdownDrains, ShutdownCloses,
       BaseInv, Typed
  <2> QED
    BY <1>1, <2>1 DEF Seen, BridgeInv, Unfinal, leafVars, BaseInv, Typed
<1>7. LoopInv'
  BY <1>1 DEF BridgeStep, HostStops, HostResumes, ShutdownStops, ShutdownDrains, ShutdownCloses,
     Seen, LoopInv, BaseInv, Typed
<1> QED
  BY <1>2, <1>5, <1>6, <1>7 DEF Seen

\* Steps of a leaf that leave its Future and its submissions alone.
LEMMA TickSeen ==
    ASSUME BaseInv, Seen, NEW n \in Leaves,
           \/ TickRefuses(n) \/ TickGoesOn(n) \/ EnsurePinned(n) \/ EnsureSame(n)
           \/ StartRefused(n) \/ Polls(n) \/ HaltWaits(n) \/ HaltSettled(n)
    PROVE  Seen'
<1>1. UNCHANGED <<bridgeVars, held, pin, pool, default, owner, dropped>>
  BY DEF TickRefuses, TickGoesOn, EnsurePinned, EnsureSame, StartRefused, Polls, HaltWaits,
     HaltSettled
<1>2. Counted' /\ LoopInv' /\ GivenUpInv'
  BY <1>1, SameCounts DEF Seen, LoopInv, GivenUpInv, bridgeVars
<1>3. SeenInv'
  <2>1. CASE TickGoesOn(n)
    <3>1. /\ orphan' = [orphan EXCEPT ![n] = None]
          /\ orphan[n] # None => TaskDone(orphan[n])
      BY <2>1 DEF TickGoesOn, Unwinding
    <3>2. ASSUME orphan[n] # None PROVE ~Live(orphan[n])
      <4>1. orphan[n] \in Tasks /\ task[orphan[n]] \in {"running", "unwinding", "over"}
        BY <3>2 DEF Seen, SeenInv, BaseInv, Typed
      <4>2. orphan[n] \in resolved => task[orphan[n]] \in {"over", "stillborn"}
        BY <4>1 DEF BaseInv, StageInv
      <4>3. task[orphan[n]] = "over"
        BY <3>1, <3>2, <4>1, <4>2 DEF TaskDone
      <4> QED
        BY <4>3 DEF Live
    <3>3. \A t \in Tasks : Live(t) => t # None /\ owner[t] \in Leaves
      BY BridgeAssumption DEF Live, BaseInv, StageInv
    <3>4. \A t \in Tasks : Live(t)' <=> Live(t)
      BY <1>1 DEF Live, bridgeVars
    <3> QED
      <4>1. \A m \in Leaves : m # n => orphan'[m] = orphan[m]
        BY <3>1 DEF BaseInv, Typed
      <4>2. orphan'[n] = None /\ UNCHANGED <<task, held, owner, dropped>>
        BY <1>1, <3>1 DEF bridgeVars, BaseInv, Typed
      <4>3. ASSUME NEW t \in Tasks \ dropped, Live(t)
            PROVE  held[owner[t]] = t \/ orphan'[owner[t]] = t
        BY <3>2, <3>3, <4>1, <4>3 DEF Seen, SeenInv
      <4>4. \A m \in Leaves : orphan'[m] # None => task[orphan'[m]] \in {"running", "unwinding", "over"}
        BY <4>1, <4>2 DEF Seen, SeenInv
      <4> QED
        BY <3>4, <4>2, <4>3, <4>4 DEF SeenInv
  <2>2. CASE ~TickGoesOn(n)
    <3>1. UNCHANGED orphan
      BY <2>2 DEF TickRefuses, EnsurePinned, EnsureSame, StartRefused, Polls, HaltWaits, HaltSettled
    <3> QED
      BY <1>1, <3>1 DEF Seen, SeenInv, Live, bridgeVars
  <2> QED
    BY <2>1, <2>2
<1>4. PollInv'
  <2>1. ASSUME NEW m \in Leaves, Unfinal(held[m]), status'[m] # "RUNNING", status[m] = "RUNNING"
        PROVE  pin[m] # None /\ ~Alive(home[held[m]])
    <3>1. m = n
      BY <2>1 DEF TickRefuses, TickGoesOn, EnsurePinned, EnsureSame, StartRefused, Polls, HaltWaits,
         HaltSettled, Fails, BaseInv, Typed
    <3>2. held[n] \in Tasks /\ held[n] \notin resolved
      BY <2>1, <3>1 DEF Unfinal, BaseInv, Typed
    <3>3. CASE TickRefuses(n)
      BY <3>2, <3>3, BridgeAssumption DEF TickRefuses, Unwinding, BaseInv, HandleInv
    <3>4. CASE EnsurePinned(n)
      BY <2>1, <3>1, <3>2, <3>4, BridgeAssumption
         DEF EnsurePinned, Seen, BridgeInv, BaseInv, HandleInv
    <3>5. CASE ~TickRefuses(n) /\ ~EnsurePinned(n)
      BY <2>1, <3>1, <3>2, <3>5 DEF TickGoesOn, EnsureSame, StartRefused, Polls, HaltWaits,
         HaltSettled, BaseInv, Typed
    <3> QED
      BY <3>3, <3>4, <3>5
  <2> QED
    BY <1>1, <2>1 DEF Seen, PollInv, Unfinal, Alive, bridgeVars
<1>5. BridgeInv'
  <2>1. \A m \in Leaves : at' = [op |-> "ensure", n |-> m] =>
           at = [op |-> "ensure", n |-> m] \/ (TickGoesOn(n) /\ m = n)
    BY DEF TickRefuses, TickGoesOn, EnsurePinned, EnsureSame, StartRefused, Polls, HaltWaits,
       HaltSettled, Fails, At, Idle
  <2>2. TickGoesOn(n) /\ Unfinal(held[n]) /\ pool[n] # None => shut[pool[n]] = "no"
    BY DEF TickGoesOn, Stranded, Alive
  <2> QED
    BY <1>1, <2>1, <2>2 DEF Seen, BridgeInv, Unfinal, bridgeVars
<1> QED
  BY <1>2, <1>3, <1>4, <1>5 DEF Seen

LEMMA StrandedSeen ==
    ASSUME BaseInv, Seen, NEW n \in Leaves, TickStranded(n)
    PROVE  Seen'
<1>1. /\ held[n] \in Tasks /\ held[n] # None /\ pool[n] \in Bridges
      /\ held' = [held EXCEPT ![n] = None] /\ dropped' = dropped \cup {held[n]}
      /\ orphan' = [orphan EXCEPT ![n] = None]
      /\ UNCHANGED <<loop, shut, task, home, flagged, resolved, pin, pool, default, at, ticker, owner>>
  BY DEF TickStranded, Stranded, Unfinal, BaseInv, Typed
<1>2. home[held[n]] = pool[n] /\ orphan[n] = None
  BY <1>1 DEF TickStranded, Stranded, Seen, BridgeInv, BaseInv, HandleInv
<1>3. Counted'
  BY <1>1, <1>2, SettleCounts DEF TickStranded, Seen, BaseInv
<1>4. BridgeInv'
  BY <1>1 DEF Seen, BridgeInv, Unfinal, BaseInv, Typed
<1>5. SeenInv'
  BY <1>1, <1>2 DEF Seen, SeenInv, Live, BaseInv, Typed, HandleInv
<1>6. PollInv'
  BY <1>1 DEF TickStranded, Seen, PollInv, Unfinal, Alive, BaseInv, Typed
<1>7. LoopInv' /\ GivenUpInv'
  <2>1. settled' = settled \cup {held[n]}
    BY DEF TickStranded, Settle
  <2> QED
    BY <1>1, <2>1 DEF Seen, LoopInv, GivenUpInv
<1> QED
  BY <1>3, <1>4, <1>5, <1>6, <1>7 DEF Seen

\* A leaf moves to another bridge only with a Future that is done.
LEMMA DefaultSeen ==
    ASSUME BaseInv, Seen, NEW n \in Leaves, EnsureDefault(n)
    PROVE  Seen'
<1>1. /\ pin[n] = None /\ at = [op |-> "ensure", n |-> n] /\ at' = [op |-> "use", n |-> n]
      /\ pool' = [pool EXCEPT ![n] = default'] /\ default' # None
      /\ UNCHANGED <<shut, pending, taskVars, status, held, orphan, pin, owner, dropped>>
      /\ \/ default # None /\ UNCHANGED <<loop, default>>
         \/ /\ default = None
            /\ \E b \in Owned : loop[b] = "absent" /\ loop' = [loop EXCEPT ![b] = "running"]
  BY BridgeAssumption DEF EnsureDefault, At, Is, BaseInv, Typed
<1>2. Counted' /\ GivenUpInv'
  BY <1>1, SameCounts DEF Seen, GivenUpInv, taskVars
<1>3. BridgeInv'
  <2>1. Unfinal(held[n]) => default' = pool[n]
    BY <1>1, BridgeAssumption DEF Unfinal, Seen, BridgeInv, BaseInv, HandleInv
  <2>2. ASSUME NEW m \in Leaves, m # n, pin[m] = None, pool[m] # None
        PROVE  pool[m] = default' \/ shut[pool[m]] # "no"
    BY <1>1, <2>2, BridgeAssumption DEF Seen, BridgeInv
  <2> QED
    BY <1>1, <2>1, <2>2 DEF Seen, BridgeInv, Unfinal, BaseInv, Typed, taskVars
<1>4. SeenInv'
  BY <1>1 DEF Seen, SeenInv, Live, taskVars
<1>5. \A m \in Leaves : Unfinal(held[m]) => home[held[m]] # None /\ loop[home[held[m]]] # "absent"
  BY DEF Unfinal, Seen, BridgeInv, BaseInv, HandleInv, StageInv, Typed
<1>6. PollInv'
  BY <1>1, <1>5 DEF Seen, PollInv, Unfinal, Alive, taskVars, BaseInv, Typed
<1>7. LoopInv'
  BY <1>1 DEF Seen, LoopInv, BaseInv, Typed
<1> QED
  BY <1>2, <1>3, <1>4, <1>6, <1>7 DEF Seen

LEMMA StartsSeen ==
    ASSUME BaseInv, Seen, NEW n \in Leaves, NEW t \in Tasks, Starts(n, t)
    PROVE  Seen'
<1>1. /\ at = [op |-> "use", n |-> n] /\ at' = Idle /\ pool[n] \in Bridges /\ orphan[n] = None
      /\ task' = [task EXCEPT ![t] = "queued"] /\ home' = [home EXCEPT ![t] = pool[n]]
      /\ flagged' = flagged \ {t} /\ resolved' = resolved \ {t}
      /\ held' = [held EXCEPT ![n] = t] /\ owner' = [owner EXCEPT ![t] = n]
      /\ status' = [status EXCEPT ![n] = "RUNNING"]
      /\ UNCHANGED <<loop, shut, orphan, pin, pool, default, ticker>>
  BY DEF Starts, Submit, Is, BaseInv, Typed, HandleInv
<1>2. \A m \in Leaves : orphan[m] # t /\ (held[m] = t => m = n)
  BY NewOne DEF Starts
<1>3. t \in settled \/ home[t] = None
  BY NewOne DEF Starts, BaseInv, StageInv
<1>4. Counted'
  BY <1>1, <1>3, SubmitCounts DEF Starts, Seen, BaseInv
<1>5. BridgeInv'
  <2>1. t # None /\ \A u \in Tasks : u # t => (Unfinal(u)' <=> Unfinal(u)) /\ home'[u] = home[u]
    BY <1>1, BridgeAssumption DEF Unfinal, BaseInv, Typed
  <2>2. home'[held'[n]] = pool[n]
    BY <1>1 DEF BaseInv, Typed
  <2>3. \A m \in Leaves : at' # [op |-> "ensure", n |-> m]
    BY <1>1 DEF Idle
  <2>4. ASSUME NEW m \in Leaves, Unfinal(held[m])' PROVE home'[held'[m]] = pool'[m]
    <3>1. CASE m = n
      BY <1>1, <2>2, <3>1
    <3>2. CASE m # n
      <4>1. held'[m] = held[m] /\ held[m] # t /\ held[m] \in Tasks
        BY <1>1, <1>2, <2>4, <3>2 DEF Unfinal, BaseInv, Typed
      <4>2. held[m] # None /\ held[m] \notin resolved
        BY <1>1, <2>4, <4>1 DEF Unfinal
      <4>3. home[held[m]] = pool[m]
        BY <4>2 DEF Seen, BridgeInv, Unfinal
      <4> QED
        BY <1>1, <2>1, <4>1, <4>3
    <3> QED
      BY <3>1, <3>2
  <2>5. \A m \in Leaves : pin'[m] = None /\ pool'[m] # None =>
           pool'[m] = default' \/ shut'[pool'[m]] # "no"
    BY <1>1 DEF Seen, BridgeInv
  <2> QED
    BY <2>3, <2>4, <2>5 DEF BridgeInv
<1>6. SeenInv'
  <2>1. dropped' = {u \in dropped \cup {held[n]} : Unfinal(u)} \ {t}
    BY DEF Starts
  <2>2. ASSUME NEW u \in Tasks, u # t, u \notin dropped', Live(u)
        PROVE  held'[owner[u]] = u \/ orphan[owner[u]] = u
    <3>1. u \notin resolved
      BY <2>2 DEF Live, BaseInv, StageInv
    <3>2. u \notin dropped /\ u # held[n]
      BY <2>1, <2>2, <3>1, BridgeAssumption DEF Unfinal
    <3>3. held[owner[u]] = u \/ orphan[owner[u]] = u
      BY <2>2, <3>2 DEF Seen, SeenInv
    <3> QED
      BY <1>1, <3>2, <3>3 DEF BaseInv, Typed
  <2>3. \A u \in Tasks : u # t => (Live(u)' <=> Live(u)) /\ owner'[u] = owner[u]
    BY <1>1 DEF Live, BaseInv, Typed
  <2>4. \A m \in Leaves : orphan[m] # None => task'[orphan[m]] = task[orphan[m]]
    BY <1>1, <1>2 DEF BaseInv, Typed
  <2>5. held'[owner'[t]] = t
    BY <1>1 DEF BaseInv, Typed
  <2> QED
    BY <1>1, <2>2, <2>3, <2>4, <2>5 DEF Seen, SeenInv
<1>7. PollInv'
  BY <1>1, <1>2 DEF Seen, PollInv, Unfinal, Alive, BaseInv, Typed
<1>8. LoopInv'
  BY <1>1 DEF Seen, LoopInv
<1>9. GivenUpInv'
  <2>1. dropped' = {u \in dropped \cup {held[n]} : Unfinal(u)} \ {t} /\ settled' = settled \ {t}
    BY DEF Starts, Submit
  <2>2. Unfinal(held[n]) => home[held[n]] \notin Owned
    BY <1>1 DEF Starts, Seen, PollInv, BridgeInv
  <2>3. \A u \in Tasks : u # t => home'[u] = home[u] /\ (u \in resolved' <=> u \in resolved)
    BY <1>1 DEF BaseInv, Typed
  <2>4. \A u \in settled' : u \in resolved' \/ u \in dropped'
    BY <2>1, <2>3, BridgeAssumption DEF Seen, GivenUpInv, Unfinal, BaseInv, Typed
  <2>5. \A u \in dropped' : u \in settled' \/ home'[u] \notin Owned
    BY <2>1, <2>2, <2>3 DEF Seen, GivenUpInv, Unfinal, BaseInv, Typed
  <2> QED
    BY <2>4, <2>5 DEF GivenUpInv
<1> QED
  BY <1>4, <1>5, <1>6, <1>7, <1>8, <1>9 DEF Seen

\* The end of a halt: what is still under way stays in sight.
LEMMA ForgetSeen ==
    ASSUME BaseInv, Seen, NEW n \in Leaves, NEW done \in BOOLEAN, Forget(n, done),
           UNCHANGED <<loop, shut, pending, task, home, settled, resolved, pin, pool, default,
                       owner, dropped>>,
           \A t \in Tasks : Live(t)' => Live(t),
           \A t \in Tasks : done /\ held[n] = t => ~Live(t)',
           ~done => /\ held[n] # None
                    /\ task[held[n]] \in {"running", "unwinding", "over"}
    PROVE  Seen'
<1>1. /\ held' = [held EXCEPT ![n] = None] /\ status' = [status EXCEPT ![n] = "IDLE"] /\ at' = Idle
      /\ \/ done /\ UNCHANGED orphan
         \/ ~done /\ orphan' = [orphan EXCEPT ![n] = held[n]]
  BY DEF Forget
<1>2. Counted' /\ LoopInv' /\ GivenUpInv'
  BY SameCounts DEF Seen, LoopInv, GivenUpInv
<1>3. BridgeInv'
  BY <1>1 DEF Seen, BridgeInv, Unfinal, Idle, BaseInv, Typed
<1>4. PollInv'
  BY <1>1 DEF Seen, PollInv, Unfinal, Alive, BaseInv, Typed
<1>5. SeenInv'
  <2>1. ASSUME NEW t \in Tasks \ dropped, Live(t)'
        PROVE  held'[owner[t]] = t \/ orphan'[owner[t]] = t
    <3>1. Live(t) /\ t # None
      BY <2>1, BridgeAssumption
    <3>2. owner[t] \in Leaves
      BY <3>1 DEF Live, BaseInv, StageInv
    <3>3. CASE owner[t] # n
      BY <1>1, <3>1, <3>2, <3>3 DEF Seen, SeenInv, BaseInv, Typed
    <3>4. CASE owner[t] = n /\ orphan[n] = t
      <4>1. held[n] = None
        BY <3>1, <3>4 DEF BaseInv, HandleInv
      <4> QED
        BY <1>1, <3>4, <4>1 DEF BaseInv, Typed
    <3>5. CASE owner[t] = n /\ held[n] = t
      BY <1>1, <2>1, <3>1, <3>5 DEF BaseInv, Typed
    <3> QED
      BY <3>1, <3>3, <3>4, <3>5 DEF Seen, SeenInv
  <2>2. \A m \in Leaves : orphan'[m] # None => task[orphan'[m]] \in {"running", "unwinding", "over"}
    BY <1>1 DEF Seen, SeenInv, BaseInv, Typed
  <2> QED
    BY <2>1, <2>2 DEF SeenInv
<1> QED
  BY <1>2, <1>3, <1>4, <1>5 DEF Seen

\* What a halt that does not wait, or has waited, knows of its coroutine.
LEMMA HaltSeen ==
    ASSUME BaseInv, Seen, NEW n \in Leaves,
           \/ HaltNothing(n) \/ HaltInLoop(n) \/ HaltJoined(n) \/ HaltTimedOut(n)
    PROVE  Seen'
<1>1. CASE HaltNothing(n)
  <2>1. \A t \in Tasks : held[n] # t /\ (Live(t)' => Live(t))
    BY <1>1, BridgeAssumption DEF HaltNothing, Live, bridgeVars
  <2> QED
    BY <1>1, <2>1, ForgetSeen DEF HaltNothing, bridgeVars
<1>2. ASSUME held[n] # None
      PROVE  /\ held[n] \in Tasks /\ task[held[n]] \in Stages \ {"free"}
             /\ held[n] \notin resolved => home[held[n]] = pool[n] /\ pool[n] # None
  BY <1>2 DEF Unfinal, Seen, BridgeInv, BaseInv, HandleInv, StageInv, Typed, Stages
<1>3. CASE HaltInLoop(n)
  <2>1. /\ held[n] # None /\ flagged' = flagged \cup {held[n]} /\ UNCHANGED task
        /\ Forget(n, ~Started(held[n]))
    BY <1>3 DEF HaltInLoop, CancelTask
  <2>2. task[held[n]] # "checked"
    BY <1>2, <1>3 DEF HaltInLoop, InLoopThread, MayTick, On, BaseInv, StageInv
  <2>3. \A t \in Tasks : Live(t)' => Live(t)
    BY <2>1 DEF Live
  <2>4. PICK done \in BOOLEAN : Forget(n, done) /\ done = ~Started(held[n])
    BY <2>1 DEF Forget, Started
  <2>5. \A t \in Tasks : done /\ held[n] = t => ~Live(t)'
    BY <2>1, <2>2, <2>4 DEF Live, Started
  <2> QED
    BY <1>3, <2>1, <2>3, <2>4, <2>5, ForgetSeen DEF HaltInLoop, Started
<1>4. CASE HaltJoined(n) \/ HaltTimedOut(n)
  <2>1. /\ held[n] # None /\ ticker # pool[n] /\ at.op \in {"grace", "join"}
        /\ at.op = "join" /\ held[n] \notin resolved => held[n] \in flagged
        /\ Forget(n, TaskDone(held[n]))
        /\ UNCHANGED <<bridgeVars, pin, pool, default, ticker, owner, dropped>>
    BY <1>4 DEF HaltJoined, HaltTimedOut, Is, BaseInv, HandleInv
  <2>2. \A t \in Tasks : Live(t)' <=> Live(t)
    BY <2>1 DEF Live, bridgeVars
  <2>3. PICK done \in BOOLEAN : Forget(n, done) /\ done = TaskDone(held[n])
    BY <2>1 DEF Forget, TaskDone
  <2>4. held[n] \notin resolved => (task[held[n]] # "checked" /\ held[n] \in flagged)
    <3>1. HaltTimedOut(n) => at.op = "join"
      BY DEF HaltTimedOut, Is
    <3>2. ASSUME HaltTimedOut(n), task[held[n]] = "checked" PROVE FALSE
      <4>1. loop[home[held[n]]] = "running"
        BY <1>2, <2>1, <3>2, BridgeAssumption DEF BaseInv, StageInv, Typed
      <4> QED
        BY <1>2, <2>1, <3>2, <4>1 DEF HaltTimedOut, On
    <3> QED
      BY <1>4, <2>1, <3>1, <3>2 DEF HaltJoined
  <2>5. \A t \in Tasks : done /\ held[n] = t => ~Live(t)
    BY <2>3, <2>4 DEF TaskDone, Live, BaseInv, StageInv
  <2>6. ~done => task[held[n]] \in {"running", "unwinding", "over"}
    BY <1>2, <2>1, <2>3, <2>4 DEF TaskDone, Stages
  <2> QED
    BY <2>1, <2>2, <2>3, <2>5, <2>6, ForgetSeen DEF bridgeVars
<1> QED
  BY <1>1, <1>3, <1>4

LEMMA CancelsSeen ==
    ASSUME BaseInv, Seen, NEW n \in Leaves, HaltCancels(n)
    PROVE  Seen'
<1>1. /\ flagged \subseteq flagged' /\ at'.op # "ensure"
      /\ UNCHANGED <<loop, shut, pending, task, home, settled, resolved,
                     status, held, orphan, pin, pool, default, owner, dropped>>
  BY DEF HaltCancels, CancelTask, At
<1>2. \A t \in Tasks : Live(t)' => Live(t)
  BY <1>1 DEF Live
<1>3. Counted'
  BY <1>1, SameCounts DEF Seen
<1> QED
  BY <1>1, <1>2, <1>3 DEF Seen, BridgeInv, SeenInv, PollInv, LoopInv, GivenUpInv, Unfinal, Alive

\* The default bridge changes only when no leaf is on one that accepts work, and
\* no tick is between its look at the bridge and its use of it.
LEMMA BindSeen ==
    ASSUME ~Swaps, BaseInv, Seen,
           \/ \E n \in Leaves, b \in Pins : SetBridge(n, b)
           \/ \E b \in Bridges \cup {None} : SetDefault(b)
    PROVE  Seen'
<1>1. UNCHANGED <<bridgeVars, status, held, orphan, at, owner, dropped>>
  BY DEF SetBridge, SetDefault
<1>2. Counted' /\ SeenInv' /\ LoopInv' /\ GivenUpInv'
  BY <1>1, SameCounts DEF bridgeVars, Seen, SeenInv, LoopInv, GivenUpInv, Live
<1>3. ASSUME NEW n \in Leaves, NEW b \in Pins, SetBridge(n, b) PROVE BridgeInv' /\ PollInv'
  <2>1. b # None /\ held[n] = None
    BY <1>3, CoroAssumption, BridgeAssumption DEF SetBridge
  <2> QED
    BY <1>1, <1>3, <2>1 DEF SetBridge, bridgeVars, Seen, BridgeInv, PollInv, Unfinal, Alive, BaseInv, Typed
<1>4. ASSUME NEW b \in Bridges \cup {None}, SetDefault(b) PROVE BridgeInv' /\ PollInv'
  <2>1. at.op # "ensure" /\ UNCHANGED <<pin, pool>>
        /\ \A n \in Leaves : pin[n] = None /\ pool[n] # None => shut[pool[n]] # "no"
    BY <1>4 DEF SetDefault, BaseInv, Typed
  <2> QED
    BY <1>1, <2>1 DEF bridgeVars, Seen, BridgeInv, PollInv, Unfinal, Alive
<1> QED
  BY <1>2, <1>3, <1>4 DEF Seen

LEMMA SeenNext ==
    ASSUME ~Swaps, BaseInv, Seen, [Next]_vars
    PROVE  Seen'
<1>1. ASSUME NEW n \in Leaves, Tick(n) PROVE Seen'
  BY <1>1, TickSeen, StrandedSeen, DefaultSeen, StartsSeen DEF Tick
<1>2. ASSUME NEW n \in Leaves, Halt(n) PROVE Seen'
  BY <1>2, TickSeen, HaltSeen, CancelsSeen DEF Halt, HaltEnds
<1>3. ASSUME \/ \E n \in Leaves, b \in Pins : SetBridge(n, b)
             \/ \E b \in Bridges \cup {None} : SetDefault(b)
      PROVE  Seen'
  BY <1>3, BindSeen
<1>4. ASSUME NEW t \in Tasks, LoopActs(t) PROVE Seen'
  BY <1>4, LoopSeen
<1>5. ASSUME NEW b \in Bridges, BridgeActs(b) PROVE Seen'
  BY <1>5, BridgeSeen
<1>6. CASE UNCHANGED vars
  BY <1>6, UnchangedSeen
<1> QED
  BY <1>1, <1>2, <1>3, <1>4, <1>5, <1>6 DEF Next

\* The inductive invariant of a program that changes its default bridge only once
\* that bridge is shut down, and never inside a tick.
THEOREM CoroInvariant == ASSUME ~Swaps PROVE Spec => []IInv
<1>1. Init => IInv
  BY BaseInit, SeenInit DEF IInv
<1>2. IInv /\ [Next]_vars => IInv'
  BY BaseNext, SeenNext DEF IInv
<1> QED
  BY <1>1, <1>2, PTL DEF Spec

\* pending_tasks() misses no submission that a loop will still run, but for those
\* given up on a loop that stood still, and counts none whose Future is done or that
\* was given up on a dead loop: over every race of a halt, the done callback,
\* discard() and shutdown().
THEOREM BridgeCountsHolds == ASSUME ~Swaps PROVE Spec => []BridgeCounts
<1>1. IInv => BridgeCounts
  <2> SUFFICES ASSUME IInv, NEW b \in Bridges
               PROVE  LET unresolved == {t \in On(b) : t \notin resolved}
                          given_up   == IF loop[b] = "dead" THEN dropped ELSE {}
                      IN  /\ Cardinality({t \in On(b) \ dropped : task[t] \in Unfinished}) <= pending[b]
                          /\ pending[b] <= Cardinality(unresolved \ given_up)
    BY DEF BridgeCounts
  <2> DEFINE at_work    == {t \in On(b) \ dropped : task[t] \in Unfinished}
             unresolved == {t \in On(b) : t \notin resolved}
             given_up   == IF loop[b] = "dead" THEN dropped ELSE {}
  <2>1. IsFiniteSet(Unsettled(b)) /\ IsFiniteSet(unresolved \ given_up)
    BY BridgeAssumption, FS_Subset DEF Unsettled, On
  <2>2. at_work \subseteq Unsettled(b)
    BY DEF IInv, BaseInv, StageInv, Seen, GivenUpInv, Unsettled, On, Unfinished
  <2>3. Unsettled(b) \subseteq unresolved \ given_up
    BY DEF IInv, BaseInv, StageInv, Seen, GivenUpInv, LoopInv, Unsettled, On
  <2>4. /\ Cardinality(at_work) <= Cardinality(Unsettled(b))
        /\ Cardinality(Unsettled(b)) <= Cardinality(unresolved \ given_up)
    BY <2>1, <2>2, <2>3, FS_Subset
  <2> QED
    BY <2>4 DEF IInv, Seen, Counted
<1> QED
  BY <1>1, CoroInvariant, PTL

\* Whatever runs without having been given up is polled or held as an orphan.
THEOREM NothingUnseenHolds == ASSUME ~Swaps PROVE Spec => []NothingUnseen
<1>1. IInv => NothingUnseen
  <2> SUFFICES ASSUME IInv, NEW t \in Tasks, Started(t), t \notin dropped,
                      orphan[owner[t]] # t
               PROVE  /\ held[owner[t]] = t
                      /\ \/ status[owner[t]] = "RUNNING" \/ ~Alive(home[t])
                         \/ Resumes /\ pin[owner[t]] # None
    BY DEF NothingUnseen
  <2>1. held[owner[t]] = t
    BY DEF IInv, Seen, SeenInv, Live, Started
  <2>2. Unfinal(t) /\ owner[t] \in Leaves
    BY BridgeAssumption DEF Started, Unfinal, IInv, BaseInv, StageInv
  <2> QED
    BY <2>1, <2>2 DEF IInv, Seen, PollInv
<1> QED
  BY <1>1, CoroInvariant, PTL

\* "Never run two copies" (coro_action.py:85): of the coroutines of one leaf that
\* no loop took down, at most one is under way.
THEOREM OneCopyHolds == ASSUME ~Swaps PROVE Spec => []OneCopy
<1>1. IInv => OneCopy
  <2> SUFFICES ASSUME IInv, NEW n \in Leaves, NEW t \in Tasks \ dropped, NEW u \in Tasks \ dropped,
                      Started(t), Started(u), owner[t] = n, owner[u] = n
               PROVE  t = u
    BY DEF OneCopy
  <2>1. (held[n] = t \/ orphan[n] = t) /\ (held[n] = u \/ orphan[n] = u)
    BY DEF IInv, Seen, SeenInv, Live, Started
  <2>2. orphan[n] # None => held[n] = None
    BY DEF IInv, BaseInv, HandleInv
  <2> QED
    BY <2>1, <2>2, BridgeAssumption
<1> QED
  BY <1>1, CoroInvariant, PTL

\* The types, with counts that never fall below zero.
THEOREM CoroTypes == ASSUME ~Swaps PROVE Spec => []CoroTypeOK
<1>1. IInv => CoroTypeOK
  <2> SUFFICES ASSUME IInv PROVE CoroTypeOK
    OBVIOUS
  <2>1. ASSUME NEW b \in Bridges PROVE pending[b] \in Nat
    <3>1. IsFiniteSet(Unsettled(b))
      BY BridgeAssumption, FS_Subset DEF Unsettled, On
    <3> QED
      BY <3>1, FS_CardinalityType DEF IInv, Seen, Counted
  <2>2. pending \in [Bridges -> Nat]
    BY <2>1 DEF IInv, BaseInv, Typed
  <2> QED
    BY <2>2 DEF IInv, BaseInv, Typed, CoroTypeOK, BridgeTypeOK
<1> QED
  BY <1>1, CoroInvariant, PTL
=============================================================================
