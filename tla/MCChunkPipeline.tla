--------------------------- MODULE MCChunkPipeline ---------------------------
(* Two or three files with more chunks than there are permits, captured and
   not captured. *)
EXTENDS ChunkPipeline

CONSTANTS f1, f2

OneBig == [f \in {f1} |-> 4]
Mixed  == [f \in {f1, f2} |-> IF f = f1 THEN 3 ELSE 2]
Two    == [f \in {f1, f2} |-> 2]
=============================================================================
