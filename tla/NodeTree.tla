------------------------------ MODULE NodeTree ------------------------------
(***************************************************************************)
(* The tree a tick walks over: TreeNode, ControlNode, DecoratorNode and    *)
(* LeafNode of src/bteng/core/node.py, the per-node state that survives a  *)
(* tick, and what halt(), reset_node() and ParallelNode's child reset do   *)
(* to a whole subtree.  The shape of the tree is constant here.            *)
(***************************************************************************)
EXTENDS Integers, Sequences, FiniteSets

CONSTANTS
    Nodes,      \* the nodes of one tree
    Root,       \* its root
    Env,        \* the caller of Tree.tick_once(): the parent of the root
    Kind,       \* the class of every node
    Kids,       \* its children, left to right
    Parent,     \* the inverse of Kids
    Under       \* a node and all its descendants

OrderedKinds  == {"Sequence", "Fallback"}
ReactiveKinds == {"ReactiveSequence", "ReactiveFallback"}
ControlKinds  == OrderedKinds \cup ReactiveKinds \cup {"Parallel"}
WrapperKinds  == {"Inverter", "ForceSuccess", "ForceFailure", "SubTree"}
DecoratorKinds == WrapperKinds \cup {"Retry", "Timeout", "RateController"}
LeafKinds     == {"Action", "Condition", "Stateful"}

KidSet(n) == {Kids[n][i] : i \in DOMAIN Kids[n]}

\* Kids, Parent and Under describe one finite tree.
ASSUME KidsAssumption ==
    /\ IsFiniteSet(Nodes)
    /\ Kids \in [Nodes -> Seq(Nodes)]
    /\ \A n \in Nodes : \A i, j \in DOMAIN Kids[n] :
          Kids[n][i] = Kids[n][j] => i = j
    /\ Parent \in [Nodes -> Nodes \cup {Env}]
    /\ \A n, p \in Nodes : Parent[n] = p <=> n \in KidSet(p)
    /\ Root \in Nodes /\ Env \notin Nodes
    /\ \A n \in Nodes : Parent[n] = Env <=> n = Root

ASSUME UnderAssumption ==
    /\ Under \in [Nodes -> SUBSET Nodes]
    /\ Under[Root] = Nodes
    /\ \A n \in Nodes : n \in Under[n]
    /\ \A n, m \in Nodes : m \in Under[n] => Under[m] \subseteq Under[n]
    /\ \A n, m \in Nodes : m \in Under[n] /\ n \in Under[m] => m = n
    /\ \A n, m \in Nodes : m \in Under[n] /\ m # n => Parent[m] \in Under[n]
    /\ \A n, m \in Nodes : Parent[m] \in Under[n] => m \in Under[n] \ {n}

ASSUME KindAssumption ==
    /\ Kind \in [Nodes -> ControlKinds \cup DecoratorKinds \cup LeafKinds]
    /\ \A n \in Nodes : Kind[n] \in LeafKinds => Kids[n] = <<>>
    /\ \A n \in Nodes : Kind[n] \in DecoratorKinds => Len(Kids[n]) = 1

Of(kinds) == {n \in Nodes : Kind[n] \in kinds}

(***************************************************************************)
(* Per-node state.                                                         *)
(***************************************************************************)
Results == {"RUNNING", "SUCCESS", "FAILURE"}
Settled == {"SUCCESS", "FAILURE"}
Status  == Results \cup {"IDLE"}

\* What a node keeps between ticks besides _status.  Every node has every
\* field; a class that lacks the attribute never moves its field.
Memory(n) ==
    [cursor   : 1..Len(Kids[n]) \cup {1},  \* Sequence/Fallback _current_idx, from 1
     running  : 0..Len(Kids[n]),           \* Reactive* _running_child_idx, 0 for None
     dirty    : BOOLEAN,                   \* Reactive* _dirty
     subs     : BOOLEAN,                   \* Reactive* _bb_subscriptions is not empty
     attempts : Nat,                       \* Retry _attempts
     stamped  : BOOLEAN,                   \* RateController _last_tick is not None
     last     : Status]                    \* RateController _last_status

Fresh == [cursor |-> 1, running |-> 0, dirty |-> TRUE, subs |-> FALSE,
          attempts |-> 0, stamped |-> FALSE, last |-> "IDLE"]

VARIABLES
    status,     \* TreeNode._status of every node
    mem         \* its Memory

\* The _on_halt() hooks, all classes together.
OnHalt(x) == [x EXCEPT !.running = 0, !.subs = FALSE, !.attempts = 0,
                       !.stamped = FALSE, !.last = "IDLE"]

\* The _on_reset() hooks, all classes together.
OnReset(x) == [x EXCEPT !.dirty = TRUE, !.stamped = FALSE, !.last = "IDLE"]

\* _on_halt() as halt() and ParallelNode._reset_subtree() call it: only on a
\* node that was RUNNING.
OnHaltIfRunning(m) == IF status[m] = "RUNNING" THEN OnHalt(mem[m]) ELSE mem[m]

\* The node's own part of halt(); Sequence and Fallback also rewind.
HaltNode(m) == IF Kind[m] \in OrderedKinds
               THEN [OnHaltIfRunning(m) EXCEPT !.cursor = 1]
               ELSE OnHaltIfRunning(m)

\* The node's own part of ParallelNode._reset_subtree().
ResetSubtreeNode(m) == OnReset(OnHaltIfRunning(m))

\* The node's own part of reset_node(): both hooks, whatever its status.
ResetNode(m) == OnReset(OnHalt(mem[m]))

(***************************************************************************)
(* halt() called on n walks down n's subtree, but a ParallelNode passes it *)
(* on to its RUNNING children only: it resets a completed child with       *)
(* _reset_subtree() and leaves an IDLE child alone.  Turned(n, m) are the  *)
(* nodes on the way from n to m at which a ParallelNode turned halt() into *)
(* something else; the topmost of them decides what happens to m.          *)
(***************************************************************************)
Turned(n, m) == {c \in Under[n] \ {n} : /\ m \in Under[c]
                                        /\ Kind[Parent[c]] = "Parallel"
                                        /\ status[c] # "RUNNING"}

HaltSet(C)  == {m \in Nodes : \E n \in C : m \in Under[n] /\ Turned(n, m) = {}}

\* Mutant of ResetSet: a Parallel resets its children, not their subtrees.
ResetSetChildrenOnly(C) == {m \in Nodes : \E n \in C :
                    /\ m \in Under[n] /\ m # n
                    /\ Turned(n, m) = {m} /\ status[m] \in Settled}

ResetSet(C) == {m \in Nodes : \E n \in C : \E c \in Turned(n, m) :
                    /\ m \in Under[n]
                    /\ status[c] \in Settled
                    /\ \A d \in Turned(n, m) : d \in Under[c]}

\* _is_condition_guard(): every leaf below is a condition, and there is one
\* below every inner node.
IsConditionGuard(n) ==
    \A m \in Under[n] : Kids[m] = <<>> => Kind[m] = "Condition"
=============================================================================
