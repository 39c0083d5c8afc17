--------------------------- MODULE MCMuxConnection ---------------------------
(* A control connection (a snapshot with another request behind it) and a data
   connection (a chunk and a batch side by side). *)
EXTENDS MuxConnection, TLC

CONSTANTS r1, r2

ControlAndData == {(r1 :> "snapshot" @@ r2 :> "unary"), (r1 :> "chunk" @@ r2 :> "batch")}
=============================================================================
