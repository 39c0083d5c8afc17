--------------------------- MODULE MCSnapshotCache ---------------------------
(* One file prepared on two connections. *)
EXTENDS SnapshotCache, TLC
CONSTANTS f1, h1, h2
=============================================================================
