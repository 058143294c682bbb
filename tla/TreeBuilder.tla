---------------------------- MODULE TreeBuilder ----------------------------
(***************************************************************************)
(* TreeBuilder of src/bteng/core/tree_builder.py: a stack of open scopes,  *)
(* to which every call adds a node or closes one.  The caller may go on    *)
(* after a call that raised.  Names, ports and the callables are left out. *)
(***************************************************************************)
EXTENDS Integers, Sequences, SequencesExt, FiniteSets

CONSTANTS
    Nodes,      \* every node a caller may build, or install later
    Kind,       \* the class of each
    Supplied,   \* the nodes the caller hands to the builder
    Prepared,   \* the children of the nodes made without the builder
    Hole,       \* the "__placeholder__" child of a new decorator
    None

AllKinds == {"Sequence", "ReactiveSequence"}    \* pass when every child succeeds
AnyKinds == {"Fallback", "ReactiveFallback"}    \* pass when every child fails
ControlKinds == AllKinds \cup AnyKinds
LeafKinds == {"Action", "Condition"}

ASSUME BuilderAssumption ==
    /\ Kind \in [Nodes -> ControlKinds \cup {"Inverter"} \cup LeafKinds]
    /\ Supplied \subseteq Nodes
    /\ Prepared \in [Nodes \ Supplied -> Seq(Nodes \ Supplied)]
    /\ Hole \notin Nodes /\ None \notin Nodes

Leaves == {n \in Nodes : Kind[n] \in LeafKinds}
Decorators == {n \in Nodes : Kind[n] = "Inverter"}

\* k gives nodes their children: none is in two places or below itself, a
\* decorator has one child and a leaf none.
Forest(k) ==
    /\ \A p, q \in DOMAIN k : \A i \in DOMAIN k[p], j \in DOMAIN k[q] :
          k[p][i] = k[q][j] /\ k[p][i] # Hole => p = q /\ i = j
    /\ \A S \in (SUBSET DOMAIN k) \ {{}} : \E n \in S : ToSet(k[n]) \cap S = {}
    /\ \A n \in DOMAIN k : /\ n \in Decorators => Len(k[n]) = 1
                           /\ n \in Leaves => k[n] = <<>>

ASSUME PreparedAssumption == Forest(Prepared)

VARIABLES
    kids,       \* _children, or <<_child>> of a decorator
    root,       \* the builder's _root, then the Tree's
    stack,      \* _stack, outermost scope first
    added,      \* the nodes handed to the builder so far
    built       \* build() returned a Tree

buildVars == <<kids, root, stack, added, built>>

\* A scope opener makes its node without children; a decorator gets a placeholder.
Empty(n) == IF n \in Decorators THEN <<Hole>> ELSE <<>>

BuildInit ==
    /\ kids = [n \in Nodes |-> IF n \in Supplied THEN Empty(n) ELSE Prepared[n]]
    /\ root = None /\ stack = <<>> /\ added = {} /\ built = FALSE

\* n becomes a child of the innermost open scope; a decorator drops the child it had.
Attach(scopes, n) ==
    IF scopes = <<>>
    THEN root' = n /\ UNCHANGED kids
    ELSE LET top == Last(scopes) IN
         /\ kids' = [kids EXCEPT ![top] = IF top \in Decorators THEN <<n>> ELSE Append(@, n)]
         /\ UNCHANGED root

\* sequence(), fallback(), inverter(), ...: _push_frame().
Open(n) ==
    /\ ~built /\ n \in Supplied \ (added \cup Leaves)
    /\ stack' = Append(stack, n)
    /\ added' = added \cup {n}
    /\ UNCHANGED <<kids, root, built>>

\* node(), action(), condition(): _attach_leaf().
AddLeaf(n) ==
    /\ ~built /\ n \in (Supplied \cap Leaves) \ added
    /\ Attach(stack, n)
    /\ added' = added \cup {n}
    /\ UNCHANGED <<stack, built>>

\* Mutant of End: without the test for a placeholder.
EndUnchecked ==
    /\ ~built /\ stack # <<>>
    /\ Attach(Front(stack), Last(stack))
    /\ stack' = Front(stack)
    /\ UNCHANGED <<added, built>>

\* end().  A decorator without a child raises, but its frame is off the stack.
End ==
    /\ ~built /\ stack # <<>>
    /\ IF kids[Last(stack)] = <<Hole>> THEN UNCHANGED <<kids, root>>
                                       ELSE Attach(Front(stack), Last(stack))
    /\ stack' = Front(stack)
    /\ UNCHANGED <<added, built>>

\* build() raises while a scope is open or nothing was added.
Build ==
    /\ ~built /\ stack = <<>> /\ root # None
    /\ built' = TRUE
    /\ UNCHANGED <<kids, root, stack, added>>

Building == (\E n \in Nodes : Open(n) \/ AddLeaf(n)) \/ End \/ Build
=============================================================================
