--------------------------- MODULE MCTickMachine ---------------------------
(***************************************************************************)
(* Small trees for TLC.  A tree is a function from its nodes to            *)
(* <<class, children>>; everything else is computed from it.  TLC keeps    *)
(* the value of a definition, but not that of a definition a cfg puts in   *)
(* the place of a constant: hence the definitions that only name a table.  *)
(***************************************************************************)
EXTENDS TickMachine, TLC

CONSTANT Tree   \* the tree of this run

NodeSet == DOMAIN Tree
KindTable == [n \in NodeSet |-> Tree[n][1]] @@ <<>>
KidsTable == [n \in NodeSet |-> Tree[n][2]] @@ <<>>
ParentTable == [n \in NodeSet |->
    IF n = "root" THEN "env"
    ELSE CHOOSE p \in NodeSet : \E i \in DOMAIN KidsTable[p] : KidsTable[p][i] = n] @@ <<>>

RECURSIVE SubtreeOf(_)
SubtreeOf(n) == {n} \cup UNION {SubtreeOf(KidsTable[n][i]) : i \in DOMAIN KidsTable[n]}
UnderTable == [n \in NodeSet |-> SubtreeOf(n)] @@ <<>>

TreeNodes  == NodeSet
TreeKind   == KindTable
TreeKids   == KidsTable
TreeParent == ParentTable
TreeUnder  == UnderTable

\* A fallback whose first child may be retried and fails in the end, and whose
\* second is a parallel that waits for all, over a sequence and a parallel that
\* goes by its thresholds, with a reactive sequence in a subtree below it.
ControlTree == [
    root |-> <<"Fallback", <<"seq", "par">>>>,
    seq  |-> <<"Sequence", <<"retry", "ff">>>>,
    retry |-> <<"Retry", <<"time">>>>,
    time |-> <<"Timeout", <<"s1">>>>,
    ff   |-> <<"ForceFailure", <<"s2">>>>,
    par  |-> <<"Parallel", <<"two", "in">>>>,
    two  |-> <<"Sequence", <<"c2", "rate">>>>,
    rate |-> <<"RateController", <<"s3">>>>,
    in   |-> <<"Parallel", <<"sub", "fs">>>>,
    sub  |-> <<"SubTree", <<"rs">>>>,
    rs   |-> <<"ReactiveSequence", <<"c1", "a1", "s4">>>>,
    fs   |-> <<"ForceSuccess", <<"s5">>>>,
    c1   |-> <<"Condition", <<>>>>, c2 |-> <<"Condition", <<>>>>,
    a1   |-> <<"Stateful", <<>>>>,
    s1   |-> <<"Stateful", <<>>>>,  s2 |-> <<"Stateful", <<>>>>,
    s3   |-> <<"Stateful", <<>>>>,  s4 |-> <<"Stateful", <<>>>>,
    s5   |-> <<"Stateful", <<>>>>]

\* Every kind of loop under a reactive sequence that its guard or the action ahead
\* may interrupt, with a fallback to turn to.
LiveTree == [
    root |-> <<"ReactiveFallback", <<"rs", "s4">>>>,
    rs   |-> <<"ReactiveSequence", <<"c1", "a1", "par">>>>,
    par  |-> <<"Parallel", <<"retry", "rate", "fb">>>>,
    retry |-> <<"Retry", <<"s1">>>>,
    rate |-> <<"RateController", <<"s2">>>>,
    fb   |-> <<"Fallback", <<"c2", "s3">>>>,
    c1   |-> <<"Condition", <<>>>>, c2 |-> <<"Condition", <<>>>>, a1 |-> <<"Stateful", <<>>>>,
    s1   |-> <<"Stateful", <<>>>>, s2 |-> <<"Stateful", <<>>>>,
    s3   |-> <<"Stateful", <<>>>>, s4 |-> <<"Stateful", <<>>>>]

\* Leaves that may raise below nodes that keep state outside _status: reactive ones
\* with their subscriptions, a negated guard, a parallel, a cache, a count of attempts.
FaultTree == [
    root |-> <<"ReactiveFallback", <<"rs", "s3">>>>,
    rs   |-> <<"ReactiveSequence", <<"c1", "a1", "inv", "par">>>>,
    inv  |-> <<"Inverter", <<"c2">>>>,
    par  |-> <<"Parallel", <<"rate", "retry">>>>,
    rate |-> <<"RateController", <<"s1">>>>,
    retry |-> <<"Retry", <<"s2">>>>,
    c1   |-> <<"Condition", <<>>>>, c2 |-> <<"Condition", <<>>>>,
    a1   |-> <<"Stateful", <<>>>>,
    s1   |-> <<"Stateful", <<>>>>, s2 |-> <<"Stateful", <<>>>>,
    s3   |-> <<"Stateful", <<>>>>]

Parallels == {n \in TreeNodes : Tree[n][1] = "Parallel"}
Retries   == {n \in TreeNodes : Tree[n][1] = "Retry"}
AllLeaves == {n \in TreeNodes : Tree[n][1] \in LeafKinds}

\* A condition answers at once, an action may stay RUNNING; so may c2, since
\* FunctionCondition hands through whatever NodeStatus its callable returns.
Answers(n) == IF Tree[n][1] = "Condition" /\ n # "c2" THEN Settled ELSE Results
CalmOutcome   == [n \in AllLeaves |-> Answers(n)]
RaisingOutcome == [n \in AllLeaves |-> Answers(n) \cup {"RAISE"}]

\* The outer parallel waits for all, the inner one goes by its thresholds; the others.
WaitingPolicy == [n \in Parallels |-> IF n = "in" THEN "none" ELSE "complete"]
OnePolicy     == [n \in Parallels |-> "one"]
NoPolicy      == [n \in Parallels |-> "none"]
Thresholds  == [n \in Parallels |-> {-1, 1, 2}]
FewFailures == [n \in Parallels |-> {0, 2, 9}]

PositiveBudget == [n \in Retries |-> {1, 2}]
AnyBudget      == [n \in Retries |-> {0, 2}]

EveryReactive == {n \in TreeNodes : Tree[n][1] \in ReactiveKinds}
=============================================================================
