----------------------------- MODULE TickMachine -----------------------------
(***************************************************************************)
(* One tree being ticked: Tree.tick_once() calls execute_tick() on the     *)
(* root, tick() of every class calls execute_tick() on its children, and   *)
(* the call stack unwinds with the results.  The machine takes one step    *)
(* per call and one per return, so that what other threads do between two  *)
(* of them (a blackboard write) is visible.                                *)
(***************************************************************************)
EXTENDS NodeTree

CONSTANTS
    Policy,             \* ParallelNode: "all", "one", "complete" or "none"
    SuccessThreshold,   \* ParallelNode: values the port may hold
    FailureThreshold,
    Budget,             \* Retry: values num_attempts may hold
    Outcome,            \* leaf: what its tick() may do, "RAISE" included
    Watching,           \* Reactive* whose subtree reaches a blackboard
    EnvOps              \* what the program calls between ticks

ASSUME ParameterAssumption ==
    /\ Policy \in [Of({"Parallel"}) -> {"all", "one", "complete", "none"}]
    /\ SuccessThreshold \in [Of({"Parallel"}) -> SUBSET Int]
    /\ FailureThreshold \in [Of({"Parallel"}) -> SUBSET Int]
    /\ Budget \in [Of({"Retry"}) -> SUBSET Int]
    /\ Outcome \in [Of(LeafKinds) -> SUBSET (Results \cup {"RAISE"})]
    /\ Watching \subseteq Of(ReactiveKinds)
    /\ EnvOps \subseteq {"halt", "reset", "write"}

VARIABLES
    frame,      \* local variables of the tick() a node is executing
    cur,        \* the node that has control, Env between ticks
    ret,        \* "CALL", or the result the child that returned gave to cur
    \* History variables: no action reads them.
    live,       \* StatefulActionNodes started and neither finished nor halted
    notified,   \* StatefulActionNodes whose on_halted() ran in the last step
    fresh,      \* nodes that gave a result in their parent's activation
    ticked,     \* guards called in the current (or last) tick of the root
    unseen      \* skippable children with no result since a write their parent subscribed to

vars == <<status, mem, frame, cur, ret, live, notified, fresh, ticked, unseen>>

Off == [at |-> "off", i |-> 0]
Frames(n) == [at : {"off", "loop", "full", "guard", "main", "rest"},
              i : 0..Len(Kids[n])]

Init ==
    /\ status = [n \in Nodes |-> "IDLE"]
    /\ mem = [n \in Nodes |-> Fresh]
    /\ frame = [n \in Nodes |-> Off]
    /\ cur = Env
    /\ ret = "NONE"
    /\ live = {} /\ notified = {} /\ fresh = {} /\ ticked = {} /\ unseen = {}

(***************************************************************************)
(* Calls and returns: TreeNode.execute_tick().                             *)
(***************************************************************************)
Called(n)      == cur = n /\ ret = "CALL"
Resumed(n, s)  == cur = n /\ ret = s /\ ret \in Results

\* The guards of the reactive nodes.
Guards == {c \in Nodes \ {Root} :
              Kind[Parent[c]] \in ReactiveKinds /\ IsConditionGuard(c)}

\* n, whose memory becomes own and whose locals become f, ticks its child c.
Call(n, own, f, c) ==
    /\ cur' = c
    /\ ret' = "CALL"
    /\ mem' = [mem EXCEPT ![n] = own]
    /\ frame' = [frame EXCEPT ![n] = f]
    /\ fresh' = IF status[c] = "RUNNING" THEN fresh ELSE fresh \ KidSet(c)
    /\ ticked' = ticked \cup ({c} \cap Guards)
    /\ notified' = {}
    /\ UNCHANGED <<status, live, unseen>>

\* halt() reached the nodes in H, _reset_subtree() those in R: _on_halt(), and
\* with it on_halted(), runs on those that were RUNNING.

\* Mutant of Stopped: _reset_subtree() calls reset_node(), hooks and all.
StoppedOrReset(H, R) ==
    {m \in H \cup R : m \in R \/ status[m] = "RUNNING"} \cap Of({"Stateful"})

\* Mutant of Stopped: a Parallel sets the statuses below it by hand.
StoppedElsewhere(H, R) ==
    {m \in H \cup R : status[m] = "RUNNING" /\ \A p \in Of({"Parallel"}) : m \notin Under[p]}
        \cap Of({"Stateful"})

Stopped(H, R) == {m \in H \cup R : status[m] = "RUNNING"} \cap Of({"Stateful"})

Clear(H, R) == live' = live \ Stopped(H, R) /\ notified' = Stopped(H, R)

Cleared(H, R) == [m \in Nodes |-> CASE m \in H -> HaltNode(m)
                                    [] m \in R -> ResetSubtreeNode(m)
                                    [] OTHER -> mem[m]]

Idled(S) == [m \in Nodes |-> IF m \in S THEN "IDLE" ELSE status[m]]

\* tick() of n returns s after clearing H and R below n.
Return(n, own, s, H, R) ==
    /\ status' = [Idled(H \cup R) EXCEPT ![n] = s]
    /\ mem' = [Cleared(H, R) EXCEPT ![n] = own]
    /\ Clear(H, R)
    /\ frame' = [frame EXCEPT ![n] = Off]
    /\ cur' = Parent[n]
    /\ ret' = s
    /\ fresh' = fresh \cup {n}
    /\ unseen' = unseen \ {n}
    /\ UNCHANGED ticked

Yield(n, own, s) == Return(n, own, s, {}, {})

\* tick() of n returns s after calling halt() on the nodes in C.
HaltAndReturn(n, own, s, C) == Return(n, own, s, HaltSet(C), ResetSet(C))

\* An exception leaves tick() of cur and of every caller: statuses and
\* memories stay as they are.
Raise ==
    /\ cur' = Env
    /\ ret' = "RAISE"
    /\ frame' = [n \in Nodes |-> Off]
    /\ notified' = {}
    /\ UNCHANGED <<status, mem, live, fresh, ticked, unseen>>

(***************************************************************************)
(* Leaves: FunctionAction, FunctionCondition and StatefulActionNode.       *)
(***************************************************************************)
LeafReturn(n) ==
    /\ Kind[n] \in LeafKinds /\ Called(n)
    /\ \E s \in Outcome[n] \ {"RAISE"} :
          /\ status' = [status EXCEPT ![n] = s]
          /\ live' = IF Kind[n] = "Stateful" /\ s = "RUNNING"
                     THEN live \cup {n} ELSE live \ {n}
          /\ cur' = Parent[n]
          /\ ret' = s
          /\ fresh' = fresh \cup {n}
          /\ notified' = {}
          /\ unseen' = unseen \ {n}
    /\ UNCHANGED <<mem, frame, ticked>>

LeafRaise(n) ==
    /\ Kind[n] \in LeafKinds /\ Called(n)
    /\ "RAISE" \in Outcome[n]
    /\ Raise

(***************************************************************************)
(* SequenceNode and FallbackNode.  Pass is the result that moves on to the *)
(* next child, Stop the one that ends the loop.                            *)
(***************************************************************************)
Pass(n) == IF Kind[n] \in {"Sequence", "ReactiveSequence"} THEN "SUCCESS" ELSE "FAILURE"
Stop(n) == IF Pass(n) = "SUCCESS" THEN "FAILURE" ELSE "SUCCESS"

\* Mutant of Advance: _current_idx stays past the end after the last child.
AdvanceNoRewind(n, i) ==
    IF i <= Len(Kids[n])
    THEN Call(n, [mem[n] EXCEPT !.cursor = i], [at |-> "loop", i |-> 0], Kids[n][i])
    ELSE Yield(n, [mem[n] EXCEPT !.cursor = i], Pass(n))

Advance(n, i) ==
    IF i <= Len(Kids[n])
    THEN Call(n, [mem[n] EXCEPT !.cursor = i], [at |-> "loop", i |-> 0], Kids[n][i])
    ELSE Yield(n, [mem[n] EXCEPT !.cursor = 1], Pass(n))

EnterOrdered(n) ==
    /\ Kind[n] \in OrderedKinds /\ Called(n)
    /\ Advance(n, mem[n].cursor)

\* Mutant of ResumeOrdered: the stopping branch forgets _current_idx.
ResumeOrderedKeepingCursor(n) ==
    /\ Kind[n] \in OrderedKinds
    /\ \/ Resumed(n, "RUNNING") /\ Yield(n, mem[n], "RUNNING")
       \/ Resumed(n, Stop(n)) /\ HaltAndReturn(n, mem[n], Stop(n), KidSet(n))
       \/ Resumed(n, Pass(n)) /\ Advance(n, mem[n].cursor + 1)

ResumeOrdered(n) ==
    /\ Kind[n] \in OrderedKinds
    /\ \/ Resumed(n, "RUNNING") /\ Yield(n, mem[n], "RUNNING")
       \/ /\ Resumed(n, Stop(n))
          /\ HaltAndReturn(n, [mem[n] EXCEPT !.cursor = 1], Stop(n), KidSet(n))
       \/ Resumed(n, Pass(n)) /\ Advance(n, mem[n].cursor + 1)

\* The smallest element of a set of positions, if there is one.
Least(S) == {j \in S : \A k \in S : j <= k}

(***************************************************************************)
(* ParallelNode.                                                           *)
(***************************************************************************)
Clamp(x, lo, hi) == IF x < lo THEN lo ELSE IF x > hi THEN hi ELSE x

\* Mutant of EffectiveThresholds: a failure threshold of zero is taken at its word.
EffectiveThresholdsUnclamped(n, rs, rf) ==
    LET k == Len(Kids[n])
        success == IF rs <= 0 THEN k ELSE Clamp(rs, 1, k)
    IN  CASE Policy[n] = "one"      -> <<1, k>>
          [] Policy[n] = "all"      -> <<k, 1>>
          [] Policy[n] = "complete" -> <<success, k>>
          [] Policy[n] = "none"     -> <<success, rf>>

\* _effective_thresholds() when the ports hold rs and rf.
EffectiveThresholds(n, rs, rf) ==
    LET k == Len(Kids[n])
        success == IF rs <= 0 THEN k ELSE Clamp(rs, 1, k)
    IN  CASE Policy[n] = "one"      -> <<1, k>>
          [] Policy[n] = "all"      -> <<k, 1>>
          [] Policy[n] = "complete" -> <<success, k>>
          [] Policy[n] = "none"     -> <<success, Clamp(rf, 1, k)>>

\* The children that have succeeded, and those that have failed.
Won(n)  == {c \in KidSet(n) : status[c] = "SUCCESS"}
Lost(n) == {c \in KidSet(n) : status[c] = "FAILURE"}

\* Mutant of Verdict: nothing is decided when every child has settled.
VerdictThresholdsOnly(n, t) ==
    IF Cardinality(Won(n)) >= t[1] THEN "SUCCESS"
    ELSE IF Cardinality(Lost(n)) >= t[2] THEN "FAILURE"
    ELSE "RUNNING"

\* What tick() returns once every child has been looked at, t the thresholds.
Verdict(n, t) ==
    LET k    == Len(Kids[n])
        won  == Cardinality(Won(n))
        lost == Cardinality(Lost(n))
    IN  IF k = 0 THEN "SUCCESS"
        ELSE IF Policy[n] = "complete" /\ won + lost < k THEN "RUNNING"
        ELSE IF won >= t[1] THEN "SUCCESS"
        ELSE IF Policy[n] = "complete" \/ lost >= t[2] \/ won + lost >= k THEN "FAILURE"
        ELSE "RUNNING"

\* Mutant of Pending: settled children are ticked again.
PendingAll(n, i) == i..Len(Kids[n])

\* The children from position i that tick() does not skip.
Pending(n, i) == {j \in i..Len(Kids[n]) : status[Kids[n][j]] \notin Settled}

\* _finish() halts what runs below n and resets the rest.
FinishHalts(n) == HaltSet({n}) \ {n}

\* tick() goes on with the first child from position i that has not settled.
Parallel(n, i) ==
    LET todo == Pending(n, i)
    IN  \/ \E j \in Least(todo) : Call(n, mem[n], [at |-> "loop", i |-> j], Kids[n][j])
        \/ /\ todo = {}
           /\ \E rs \in SuccessThreshold[n], rf \in FailureThreshold[n] :
                LET v == Verdict(n, EffectiveThresholds(n, rs, rf))
                IN  IF v = "RUNNING" THEN Yield(n, mem[n], v)
                    ELSE Return(n, mem[n], v, FinishHalts(n), ResetSet({n}))

EnterParallel(n) ==
    /\ Kind[n] = "Parallel" /\ Called(n)
    /\ Parallel(n, 1)

ResumeParallel(n) ==
    /\ Kind[n] = "Parallel"
    /\ \E s \in Results : Resumed(n, s)
    /\ Parallel(n, frame[n].i + 1)

(***************************************************************************)
(* ReactiveSequenceNode and ReactiveFallbackNode.  The four loops of their *)
(* tick() are "full" (_full_eval), "guard", "main" and "rest" (_fast_tick).*)
(***************************************************************************)
\* Mutant of ClearRunning: without _unsubscribe().
ClearRunningOnly(x) == [x EXCEPT !.running = 0]

ClearRunning(x) == [x EXCEPT !.running = 0, !.subs = FALSE]
\* Mutant of Subscribe: a new subscription starts clean.
SubscribeClean(n, x) == [x EXCEPT !.subs = @ \/ n \in Watching, !.dirty = FALSE]

Subscribe(n, x) == [x EXCEPT !.subs = @ \/ n \in Watching]

KidsFrom(n, i) == {Kids[n][j] : j \in i..Len(Kids[n])}

\* Mutant of GuardsFrom: the fast path goes straight to the running child.
NoGuards(n, i) == {}

\* The guards in front of the running child, from position i.
GuardsFrom(n, i) == {j \in i..(mem[n].running - 1) : IsConditionGuard(Kids[n][j])}

\* Go on at position i of loop at, or leave tick() with the passing result.
OnWith(n, own, at, i) ==
    IF i <= Len(Kids[n])
    THEN Call(n, own, [at |-> at, i |-> i], Kids[n][i])
    ELSE Yield(n, ClearRunning(own), Pass(n))

\* The next guard from position i, then the running child.
Guarded(n, i) ==
    \/ \E g \in Least(GuardsFrom(n, i)) : OnWith(n, mem[n], "guard", g)
    \/ GuardsFrom(n, i) = {} /\ OnWith(n, mem[n], "main", mem[n].running)

NeedsFullEval(n) == mem[n].dirty \/ mem[n].running = 0 \/ ~mem[n].subs

FullEval(n) ==
    /\ Kind[n] \in ReactiveKinds /\ Called(n)
    /\ NeedsFullEval(n)
    /\ OnWith(n, [mem[n] EXCEPT !.dirty = FALSE], "full", 1)

FastTick(n) ==
    /\ Kind[n] \in ReactiveKinds /\ Called(n)
    /\ ~NeedsFullEval(n)
    /\ Guarded(n, 1)

ReactivePass(n) ==
    LET f == frame[n]
    IN  CASE f.at \in {"full", "rest"} -> OnWith(n, mem[n], f.at, f.i + 1)
          [] f.at = "guard" -> Guarded(n, f.i + 1)
          [] f.at = "main"  -> OnWith(n, ClearRunning(mem[n]), "rest", f.i + 1)

ReactiveRunning(n) ==
    LET f   == frame[n]
        own == IF f.at = "rest" \/ (f.at = "full" /\ mem[n].running = 0)
               THEN Subscribe(n, mem[n]) ELSE mem[n]
    IN  HaltAndReturn(n, [own EXCEPT !.running = f.i], "RUNNING",
                      IF f.at = "main" THEN {} ELSE KidsFrom(n, f.i + 1))

ResumeReactive(n) ==
    /\ Kind[n] \in ReactiveKinds
    /\ \/ Resumed(n, Pass(n)) /\ ReactivePass(n)
       \/ Resumed(n, "RUNNING") /\ ReactiveRunning(n)
       \/ /\ Resumed(n, Stop(n))
          /\ HaltAndReturn(n, ClearRunning(mem[n]), Stop(n), KidsFrom(n, frame[n].i + 1))

(***************************************************************************)
(* Decorators.                                                             *)
(***************************************************************************)
Kid(n) == Kids[n][1]

CallKid(n, own) == Call(n, own, [at |-> "loop", i |-> 1], Kid(n))

EnterWrapper(n) ==
    /\ Kind[n] \in WrapperKinds /\ Called(n)
    /\ CallKid(n, mem[n])

\* tick() of Inverter, ForceSuccess, ForceFailure, SubTree (and Timeout).
Wrapped(n, s) ==
    IF s = "RUNNING" THEN s
    ELSE CASE Kind[n] = "Inverter"     -> IF s = "SUCCESS" THEN "FAILURE" ELSE "SUCCESS"
           [] Kind[n] = "ForceSuccess" -> "SUCCESS"
           [] Kind[n] = "ForceFailure" -> "FAILURE"
           [] OTHER                    -> s

ResumeWrapper(n) ==
    /\ Kind[n] \in WrapperKinds \cup {"Timeout"}
    /\ \E s \in Results : Resumed(n, s) /\ Yield(n, mem[n], Wrapped(n, s))

\* Retry.tick() up to the child's tick.
EnterRetry(n) ==
    /\ Kind[n] = "Retry" /\ Called(n)
    /\ \/ /\ \E b \in Budget[n] : b <= 0
          /\ Yield(n, [mem[n] EXCEPT !.attempts = 0], "FAILURE")
       \/ /\ \E b \in Budget[n] : b > 0
          /\ CallKid(n, [mem[n] EXCEPT !.attempts =
                             IF status[n] = "RUNNING" THEN @ ELSE 0])

Exhausted(a, b) == a >= b

\* Retry.tick() from there on; the budget is the one read on entry, which was
\* positive and about which nothing else has been decided since.
ResumeRetry(n) ==
    LET spent == [mem[n] EXCEPT !.attempts = @ + 1]
    IN  /\ Kind[n] = "Retry"
        /\ \/ Resumed(n, "RUNNING") /\ Yield(n, mem[n], "RUNNING")
           \/ /\ Resumed(n, "SUCCESS")
              /\ Yield(n, [mem[n] EXCEPT !.attempts = 0], "SUCCESS")
           \/ /\ Resumed(n, "FAILURE")
              /\ \E b \in {x \in Budget[n] : x > 0} :
                    HaltAndReturn(n, spent,
                        IF Exhausted(spent.attempts, b) THEN "FAILURE" ELSE "RUNNING", {Kid(n)})

\* Timeout.tick() with a duration that is not negative: the clock may have
\* passed it only once the node has been RUNNING, since a fresh activation
\* restarts _start_time.
EnterTimeout(n) ==
    /\ Kind[n] = "Timeout" /\ Called(n)
    /\ CallKid(n, mem[n])

\* Mutant of Expire: the child is not halted.
ExpireKeepingChild(n) ==
    /\ Kind[n] = "Timeout" /\ Called(n)
    /\ status[n] = "RUNNING"
    /\ Yield(n, mem[n], "FAILURE")

Expire(n) ==
    /\ Kind[n] = "Timeout" /\ Called(n)
    /\ status[n] = "RUNNING"
    /\ HaltAndReturn(n, mem[n], "FAILURE", {Kid(n)})

\* RateController.tick(): a stamp older than the period, or none, ticks the child.
EnterRate(n) ==
    /\ Kind[n] = "RateController" /\ Called(n)
    /\ CallKid(n, [mem[n] EXCEPT !.stamped = TRUE])

ReplayRate(n) ==
    /\ Kind[n] = "RateController" /\ Called(n)
    /\ mem[n].stamped
    /\ IF mem[n].last = "IDLE" THEN Raise    \* execute_tick()'s TypeError
                               ELSE Yield(n, mem[n], mem[n].last)

ResumeRate(n) ==
    /\ Kind[n] = "RateController"
    /\ \E s \in Results : Resumed(n, s) /\ Yield(n, [mem[n] EXCEPT !.last = s], s)

(***************************************************************************)
(* The program around the tree: Tree.tick_once(), halt_all(), reset_all()  *)
(* between two ticks, and Blackboard.set() from any thread at any time.    *)
(***************************************************************************)
TickOnce ==
    /\ cur = Env
    /\ cur' = Root
    /\ ret' = "CALL"
    /\ fresh' = IF status[Root] = "RUNNING" THEN fresh ELSE fresh \ KidSet(Root)
    /\ ticked' = {}
    /\ notified' = {}
    /\ UNCHANGED <<status, mem, frame, live, unseen>>

HaltAll ==
    LET H == HaltSet({Root})
        R == ResetSet({Root})
    IN  /\ "halt" \in EnvOps /\ cur = Env
        /\ status' = Idled(H \cup R)
        /\ mem' = Cleared(H, R)
        /\ Clear(H, R)
        /\ UNCHANGED <<frame, cur, ret, fresh, ticked, unseen>>

ResetAll ==
    /\ "reset" \in EnvOps /\ cur = Env
    /\ status' = [n \in Nodes |-> "IDLE"]
    /\ mem' = [n \in Nodes |-> ResetNode(n)]
    /\ live' = {}
    /\ notified' = Of({"Stateful"})
    /\ UNCHANGED <<frame, cur, ret, fresh, ticked, unseen>>

\* A reactive node may leave n out of a fast tick.
Skippable(n) == n # Root /\ Kind[Parent[n]] \in ReactiveKinds /\ ~IsConditionGuard(n)

Write ==
    /\ "write" \in EnvOps
    /\ mem' = [n \in Nodes |-> [mem[n] EXCEPT !.dirty = @ \/ mem[n].subs]]
    /\ unseen' = unseen \cup {n \in Nodes : Skippable(n) /\ mem[Parent[n]].subs}
    /\ notified' = {}
    /\ UNCHANGED <<status, frame, cur, ret, live, fresh, ticked>>

NodeStep(n) ==
    \/ LeafReturn(n) \/ LeafRaise(n)
    \/ EnterOrdered(n) \/ ResumeOrdered(n)
    \/ EnterParallel(n) \/ ResumeParallel(n)
    \/ FullEval(n) \/ FastTick(n) \/ ResumeReactive(n)
    \/ EnterWrapper(n) \/ ResumeWrapper(n)
    \/ EnterRetry(n) \/ ResumeRetry(n)
    \/ EnterTimeout(n) \/ Expire(n)
    \/ EnterRate(n) \/ ReplayRate(n) \/ ResumeRate(n)

Next ==
    \/ TickOnce \/ HaltAll \/ ResetAll \/ Write
    \/ \E n \in Nodes : NodeStep(n)

Spec == Init /\ [][Next]_vars

\* What liveness assumes: the tick loop goes on, and a piece of work that is
\* polled for ever ends some time; so does a RateController's period.
Fairness ==
    /\ WF_vars(TickOnce)
    /\ \A n \in Nodes : WF_vars(NodeStep(n))
    /\ \A n \in Of(LeafKinds) : SF_vars(LeafReturn(n) /\ ret' \in Settled)
    /\ \A n \in Of({"RateController"}) : SF_vars(EnterRate(n))

FairSpec == Spec /\ Fairness

(***************************************************************************)
(* Properties.                                                             *)
(***************************************************************************)
\* Types of the variables; the cursors stay inside the list of children.
TypeOK ==
    /\ status \in [Nodes -> Status]
    /\ DOMAIN mem = Nodes /\ \A n \in Nodes : mem[n] \in Memory(n)
    /\ DOMAIN frame = Nodes /\ \A n \in Nodes : frame[n] \in Frames(n)
    /\ cur \in Nodes \cup {Env}
    /\ ret \in Results \cup {"CALL", "RAISE", "NONE"}
    /\ live \subseteq Nodes /\ notified \subseteq Nodes /\ fresh \subseteq Nodes
    /\ ticked \subseteq Nodes /\ unseen \subseteq Nodes

\* tick() of n is not on the call stack, and not about to be.
OffStack(n) == frame[n] = Off
AtRest(n)   == OffStack(n) /\ ~Called(n)

\* No orphan: whenever tick() of a node is not on the call stack, a RUNNING
\* child has a RUNNING parent.  Every path that gives up a child (a failing
\* sibling, a reactive guard, a Timeout, a Parallel that decides, halt_all())
\* must have halted it, or its work goes on with nobody polling it.
NoOrphan ==
    \A n \in Nodes : status[n] = "RUNNING" /\ n # Root /\ OffStack(Parent[n])
                        => status[Parent[n]] = "RUNNING"

\* A Sequence (Fallback, Reactive*) that passes has every child's passing
\* result from this very activation: no child was skipped, none was carried
\* over from an earlier activation.
PassedByAll ==
    \A n \in Of(OrderedKinds \cup ReactiveKinds) :
        AtRest(n) /\ status[n] = Pass(n)
            => \A c \in KidSet(n) : c \in fresh /\ status[c] = Pass(n)

\* A node at rest that is IDLE left nothing below it: every descendant is IDLE,
\* every cursor is back at the first child and no blackboard calls it back.
\* So does a Parallel that has decided.
LeavesNothing ==
    \A n \in Nodes :
        AtRest(n) /\ (status[n] = "IDLE" \/ (Kind[n] = "Parallel" /\ status[n] \in Settled))
            => \A m \in Under[n] \ {n} : /\ status[m] = "IDLE"
                                          /\ mem[m].cursor = 1
                                          /\ mem[m].running = 0
                                          /\ ~mem[m].subs

\* A reactive node is subscribed only while it is RUNNING or executing; a
\* subscription that outlives its activation keeps the whole subtree alive in
\* the blackboard's callback table.
NoLeakedSubscription ==
    \A n \in Of(ReactiveKinds) :
        mem[n].subs => status[n] = "RUNNING" \/ ~AtRest(n)

\* The user's goal behind a StatefulActionNode: on_start() has returned RUNNING
\* and neither a result nor on_halted() has ended it, exactly while the engine
\* shows the node as RUNNING.
GoalsTracked ==
    \A n \in Of({"Stateful"}) : n \in live <=> status[n] = "RUNNING"

\* on_halted() is delivered only to a goal that is live ("was RUNNING"): never
\* to one that already finished.
HaltedWasRunning == [][notified' \subseteq live]_vars

\* Every guard in front of the child a reactive node is waiting for, or of all
\* children when it passes, has been ticked in the same tick of the root.
GuardsEveryTick ==
    [][\A n \in Of(ReactiveKinds) :
          frame[n] # Off /\ cur = n /\ cur' = Parent[n] /\ ret' \in {"RUNNING", Pass(n)} =>
              \A i \in DOMAIN Kids[n] :
                  /\ IsConditionGuard(Kids[n][i])
                  /\ ret' = "RUNNING" => i <= mem'[n].running
                  => Kids[n][i] \in ticked]_vars

\* A key written while a reactive node is subscribed is never forgotten, whenever
\* in a tick the write falls: the node leaves out a child on the fast path only
\* if that child has answered since.
WriteReEvaluates ==
    [][\A n \in Of(ReactiveKinds) : FastTick(n) =>
          \A i \in 1..(mem[n].running - 1) : Kids[n][i] \notin unseen]_vars

\* In one activation of a Sequence, Fallback or Parallel a child that settled is
\* never ticked again.
SettledOnce ==
    [][\A c \in Nodes :
          /\ cur # c /\ cur' = c /\ ret' = "CALL"
          /\ c # Root /\ Kind[Parent[c]] \in OrderedKinds \cup {"Parallel"}
          => c \notin fresh \/ status[c] \notin Settled]_vars

\* How many successes the policy may ask of n's children, and how many failures
\* may end it: an integer in a port that is no number of children stands for the
\* nearest one, and a success threshold that is not positive for all of them.
Asked(n) ==
    CASE Policy[n] = "one" -> {1}
      [] Policy[n] = "all" -> {Len(Kids[n])}
      [] OTHER -> {IF r \in 1..Len(Kids[n]) THEN r ELSE Len(Kids[n]) : r \in SuccessThreshold[n]}

Fatal(n) ==
    CASE Policy[n] = "all"  -> {1}
      [] Policy[n] = "none" -> {IF r < 1 THEN 1 ELSE IF r > Len(Kids[n]) THEN Len(Kids[n]) ELSE r :
                                   r \in FailureThreshold[n]}
      [] OTHER -> {Len(Kids[n])}

AllSettled(n) == Won(n) \cup Lost(n) = KidSet(n)

\* A Parallel with children answers what its policy and some values of its ports
\* call for.  It succeeds only with the successes asked for, and fails only without
\* them and when the failures are fatal or no child is left that could change
\* anything.  It waits only for an unfinished child, so never for a threshold out of
\* reach, and a Parallel that waits for all never halts a child in mid-flight.
PolicyKept ==
    [][\A n \in Of({"Parallel"}) :
          cur = n /\ cur' = Parent[n] /\ ret' \in Results /\ KidSet(n) # {} =>
              /\ Policy[n] = "complete" => (ret' \in Settled <=> AllSettled(n))
              /\ ret' = "RUNNING" => ~AllSettled(n)
              /\ \E a \in Asked(n), f \in Fatal(n) :
                    /\ ret' = "SUCCESS" => Cardinality(Won(n)) >= a
                    /\ ret' = "FAILURE" => /\ Cardinality(Won(n)) < a
                                           /\ Cardinality(Lost(n)) >= f \/ AllSettled(n)
                    /\ ret' = "RUNNING" /\ Policy[n] # "complete" =>
                          Cardinality(Won(n)) < a /\ Cardinality(Lost(n)) < f]_vars

\* A tree that is ticked for ever, and whose leaves settle, leaves RUNNING: no
\* threshold, cursor, cache or retry loop keeps it there.
Decides == status[Root] = "RUNNING" ~> status[Root] # "RUNNING"
=============================================================================
