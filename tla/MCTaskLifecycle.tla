--------------------------- MODULE MCTaskLifecycle ---------------------------
(* TaskLifecycle with the bounds of its configurations. *)
EXTENDS TaskLifecycle
=============================================================================
