--------------------------- MODULE MCAsyncAction ---------------------------
(***************************************************************************)
(* Small instances: a leaf of the pool, whose work may outlast its halt,   *)
(* and a leaf that starts threads of its own.                              *)
(***************************************************************************)
EXTENDS AsyncAction
=============================================================================
