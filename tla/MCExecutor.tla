----------------------------- MODULE MCExecutor -----------------------------
(***************************************************************************)
(* A root and a child; a node that may replace the child or come as        *)
(* another, or come below a new root.                                      *)
(***************************************************************************)
EXTENDS Executor

RootAndChild == <<"root", "child">>

Depths == [n \in Nodes |-> IF n \in {"root", "newRoot"} THEN 0 ELSE 1]
Subtrees == [n \in Nodes |-> IF n = "newRoot" THEN <<"newRoot", "new">> ELSE <<n>>]
=============================================================================
