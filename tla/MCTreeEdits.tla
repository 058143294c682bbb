---------------------------- MODULE MCTreeEdits ----------------------------
(***************************************************************************)
(* A builder is given a sequence, a reactive fallback, an inverter and an  *)
(* action; a condition is made apart and may be installed later, like      *)
(* whatever the builder or a modification left out of the tree.            *)
(***************************************************************************)
EXTENDS TreeEdits, TLC

CONSTANTS seq, rfb, inv, act, alt

Classes == (seq :> "Sequence") @@ (rfb :> "ReactiveFallback") @@ (inv :> "Inverter")
          @@ (act :> "Action") @@ (alt :> "Condition")
MCKind == Classes

NoChildren == [n \in Nodes \ Supplied |-> <<>>] @@ <<>>
MCPrepared == NoChildren
=============================================================================
