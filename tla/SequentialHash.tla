--------------------------- MODULE SequentialHash ---------------------------
(***************************************************************************)
(* What the chunk transfers of a run amount to, seen from the files: each  *)
(* captured file is hashed from its first chunk to its last, as a program  *)
(* would do that reads one chunk after the other, and is accepted when the *)
(* hash has seen all of it.  A file that is not captured is read back      *)
(* instead.  ChunkPipeline implements this with many transfers at once.    *)
(***************************************************************************)
EXTENDS Integers, Sequences

CONSTANTS Files, Chunks, Capture

VARIABLES
  fed,     \* what the hasher of each file was fed
  verdict, \* "none", "accepted" or "given_up", per file
  result   \* of the run: "no", "completed" or "failed"

vars == <<fed, verdict, result>>

Init ==
  /\ fed = [f \in Files |-> <<>>]
  /\ verdict = [f \in Files |-> "none"]
  /\ result = "no"

(* The next chunk of a file that is still open. *)
Feed(f) ==
  /\ f \in Capture /\ verdict[f] = "none" /\ Len(fed[f]) < Chunks[f]
  /\ fed' = [fed EXCEPT ![f] = Append(@, Len(@) + 1)]
  /\ UNCHANGED <<verdict, result>>

Accept(f) ==
  /\ verdict[f] = "none"
  /\ f \in Capture => Len(fed[f]) = Chunks[f]
  /\ verdict' = [verdict EXCEPT ![f] = "accepted"]
  /\ UNCHANGED <<fed, result>>

GiveUp(f) ==
  /\ verdict[f] = "none"
  /\ verdict' = [verdict EXCEPT ![f] = "given_up"]
  /\ UNCHANGED <<fed, result>>

(* The run ends: with every file accepted, or without those that are open. *)
Complete ==
  /\ result = "no" /\ \A f \in Files : verdict[f] = "accepted"
  /\ result' = "completed"
  /\ UNCHANGED <<fed, verdict>>

Fail ==
  /\ result = "no"
  /\ result' = "failed"
  /\ verdict' = [f \in Files |-> IF verdict[f] = "none" THEN "given_up" ELSE verdict[f]]
  /\ UNCHANGED fed

Next == (\E f \in Files : Feed(f) \/ Accept(f) \/ GiveUp(f)) \/ Complete \/ Fail

Spec == Init /\ [][Next]_vars
=============================================================================
