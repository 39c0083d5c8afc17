---------------------------- MODULE RequestStreams ----------------------------
(***************************************************************************)
(* What a connection promises to those who make requests on it: each has a *)
(* stream of its own, as if there were no other request, and a call that   *)
(* succeeds has received its whole answer.  No frame of another request,   *)
(* no gap and no short answer; only a connection that is over ends a call  *)
(* unheard.  MuxConnection implements this on one TCP connection.          *)
(***************************************************************************)
EXTENDS Integers, Sequences

CONSTANTS
  Requests,
  Answers   \* functions that say which frames the answer to each request has

VARIABLES
  answer,   \* the one that holds on this connection
  stage,    \* "new", "open", or how the call has ended
  received, \* the frames its caller was given
  over      \* the connection is over for the client

vars == <<answer, stage, received, over>>

Init ==
  /\ answer \in Answers
  /\ stage = [r \in Requests |-> "new"]
  /\ received = [r \in Requests |-> <<>>]
  /\ over = FALSE

Begin(r) ==
  /\ stage[r] = "new"
  /\ stage' = [stage EXCEPT ![r] = "open"]
  /\ UNCHANGED <<answer, received, over>>

(* The caller is given its next frame; with the last one it has its answer,
   an error in place of it ends the call. *)
Give(r, frameKind) ==
  received' = [received EXCEPT ![r] =
                 Append(@, [req |-> r, n |-> Len(@) + 1, kind |-> frameKind])]

Receive(r) ==
  /\ stage[r] = "open" /\ Len(received[r]) < Len(answer[r])
  /\ Give(r, answer[r][Len(received[r]) + 1])
  /\ stage' = IF Len(received'[r]) = Len(answer[r]) THEN [stage EXCEPT ![r] = "ok"] ELSE stage
  /\ UNCHANGED <<answer, over>>

Refused(r) ==
  /\ stage[r] = "open"
  /\ Give(r, "error")
  /\ stage' = [stage EXCEPT ![r] = "error"]
  /\ UNCHANGED <<answer, over>>

GiveUp(r) ==
  /\ stage[r] = "open"
  /\ \E s \in {"error", "timeout", "cancelled", "unwritten"} : stage' = [stage EXCEPT ![r] = s]
  /\ UNCHANGED <<answer, received, over>>

Closed(r) ==
  /\ stage[r] = "open" /\ over
  /\ stage' = [stage EXCEPT ![r] = "closed"]
  /\ UNCHANGED <<answer, received, over>>

Disconnect ==
  /\ over' = TRUE
  /\ UNCHANGED <<answer, stage, received>>

Next == \/ \E r \in Requests : Begin(r) \/ Receive(r) \/ Refused(r) \/ GiveUp(r) \/ Closed(r)
        \/ Disconnect

Spec == Init /\ [][Next]_vars
=============================================================================
