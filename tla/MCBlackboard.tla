---------------------------- MODULE MCBlackboard ----------------------------
(***************************************************************************)
(* Scopes three levels deep: a root, mid that writes its key through to    *)
(* it, leaf that does so through mid, and side, a child of the root that   *)
(* only inherits.                                                          *)
(***************************************************************************)
EXTENDS Blackboard, TLC

CONSTANTS root, mid, leaf, side, x, old, met

DeepOuter == [s \in Scopes |-> CASE s = root -> None [] s = leaf -> mid [] OTHER -> root] @@ <<>>
DeepRemap == [s \in Scopes |-> [k \in Keys |-> IF s \in {mid, leaf} THEN k ELSE None] @@ <<>>] @@ <<>>

\* Both subscribers listen to the root.
RootWhere == [c \in Subs |-> root] @@ <<>>

\* One of them reads side, where a get() may wait for the root, and the other the
\* root; or the first reads leaf, which writes come through.
SideLooks == [c \in Subs |-> IF c = old THEN side ELSE root] @@ <<>>
LeafLooks == [c \in Subs |-> IF c = old THEN leaf ELSE root] @@ <<>>

Alike == Permutations(Threads)
=============================================================================
