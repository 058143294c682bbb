--------------------------- MODULE NodeLifecycle ---------------------------
(***************************************************************************)
(* What src/bteng/core/node.py promises of setup() and shutdown(),         *)
(* whoever calls them: a node is set up once before its first tick, and    *)
(* what it opened is closed when nothing ticks it.                         *)
(***************************************************************************)
EXTENDS Naturals

CONSTANT Nodes

VARIABLES
    present,    \* the nodes of the tree
    opened,     \* calls of a node's setup() since its last shutdown()
    ticking     \* the root's tick() is on the stack

lifecycle == <<present, opened, ticking>>

Init == /\ present \subseteq Nodes
        /\ opened = [n \in Nodes |-> 0]
        /\ ticking = FALSE

Setup(n) ==
    /\ ~ticking /\ opened[n] = 0
    /\ opened' = [opened EXCEPT ![n] = 1]
    /\ UNCHANGED <<present, ticking>>

Shutdown(n) ==
    /\ ~ticking /\ opened[n] = 1
    /\ opened' = [opened EXCEPT ![n] = 0]
    /\ UNCHANGED <<present, ticking>>

\* Nodes come and go between two ticks.
Modify ==
    /\ ~ticking
    /\ present' \in SUBSET Nodes
    /\ UNCHANGED <<opened, ticking>>

TickStarts ==
    /\ ~ticking /\ ticking' = TRUE
    /\ present' \in SUBSET present /\ \A n \in present' : opened[n] = 1
    /\ UNCHANGED opened

TickEnds ==
    /\ ticking /\ ticking' = FALSE
    /\ UNCHANGED <<present, opened>>

Next == \/ \E n \in Nodes : Setup(n) \/ Shutdown(n)
        \/ Modify \/ TickStarts \/ TickEnds

Spec == Init /\ [][Next]_lifecycle
=============================================================================
