---------------------------- MODULE MCCoroAction ----------------------------
(***************************************************************************)
(* Small instances: one leaf between a loop the host lent and a loop that  *)
(* the default bridge runs itself.                                         *)
(***************************************************************************)
EXTENDS CoroAction

CONSTANTS lent, inner
=============================================================================
