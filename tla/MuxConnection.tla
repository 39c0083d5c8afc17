---------------------------- MODULE MuxConnection ----------------------------
(***************************************************************************)
(* One TCP connection between two peers and the requests multiplexed on    *)
(* it: MuxConnection with its reader task and its map of pending requests  *)
(* (client.rs), and handle_connection with its writer task and the tasks   *)
(* it spawns to serve chunks and batches (server.rs).                      *)
(*                                                                         *)
(* An answer is a sequence of frames: "data", "more" (a control frame with *)
(* FLAG_MORE), "final" (a control frame without it) or "error".  What the  *)
(* frames carry is in FileDownload; here a frame knows its request and its *)
(* place in the answer.                                                    *)
(***************************************************************************)
EXTENDS Integers, Sequences, FiniteSets

CONSTANTS
  Requests,   \* requests made on this connection, each with its own id
  Kinds,      \* functions that say what each request is: "unary", "snapshot",
              \* "chunk" or "batch"; a connection carries one of them
  ChanCap,    \* frames a request's channel holds (16 in the code)
  OutCap,     \* frames the server's outgoing channel holds (64)
  WireCap,    \* frames in the TCP buffers from server to client
  ReqCap,     \* frames in the TCP buffers from client to server
  Breaks      \* whether the connection may break

Answer == [unary    |-> <<"final">>,
           snapshot |-> <<"more", "final">>,
           chunk    |-> <<"data", "final">>,
           batch    |-> <<"data", "more", "final">>]

(* What is left of a frame whose writer was dropped. *)
Torn == "torn"

ASSUME MuxConnectionAssumption ==
  /\ Torn \notin Requests
  /\ Kinds \subseteq [Requests -> DOMAIN Answer]
  /\ ChanCap \in Nat \ {0} /\ OutCap \in Nat \ {0} /\ WireCap \in Nat \ {0}
  /\ ReqCap \in Nat \ {0}
  /\ Breaks \in BOOLEAN

VARIABLES
  kind,       \* kind[r]: what the request r is
  caller,     \* the future of each request on the client
  pending,    \* requests whose sender is in the map
  chan,       \* frames in the channel of each request
  got,        \* frames each caller has received so far
  reader,     \* the reader task: "read", "send" or "remove" with a frame, "ended"
  requests,   \* frames from the client, "torn" for the half of one
  serve,      \* the answer to each request on the server
  sent,       \* frames of the answer produced so far
  handler,    \* handle_connection: "read", "busy" with a request, "ended"
  out,        \* the outgoing channel of the server
  wire,       \* frames from the server on their way
  up,         \* the connection carries data
  silent,     \* it does not, and nothing has told the client
  cancelled   \* the token of the transfers

clientVars == <<caller, pending, chan, got, reader, cancelled>>
serverVars == <<serve, sent, handler, out>>
vars == <<kind, clientVars, serverVars, requests, wire, up, silent>>

Waiting == {"inserted", "written"}
Done == {"ok", "error", "closed", "timeout", "cancelled", "unwritten"}
Transfers == {r \in Requests : kind[r] \in {"chunk", "batch"}}
Inline == Requests \ Transfers

Frame(r, n) == [req |-> r, n |-> n, kind |-> Answer[kind[r]][n]]
ErrorFrame(r) == [req |-> r, n |-> sent[r] + 1, kind |-> "error"]
NoFrame == [req |-> Torn, n |-> 0, kind |-> "error"]

Init ==
  /\ kind \in Kinds
  /\ caller = [r \in Requests |-> "new"] /\ pending = {}
  /\ chan = [r \in Requests |-> <<>>] /\ got = [r \in Requests |-> <<>>]
  /\ reader = [st |-> "read", frame |-> NoFrame]
  /\ requests = <<>> /\ wire = <<>> /\ up = TRUE /\ silent = FALSE
  /\ cancelled = FALSE
  /\ serve = [r \in Requests |-> "no"] /\ sent = [r \in Requests |-> 0]
  /\ handler = [st |-> "read", req |-> Torn] /\ out = <<>>

-----------------------------------------------------------------------------
(* start_request: the sender enters the map first; nothing looks whether the
   reader task is still there. *)
Insert(r) ==
  /\ caller[r] = "new"
  /\ caller' = [caller EXCEPT ![r] = "inserted"]
  /\ pending' = pending \cup {r}
  /\ UNCHANGED <<kind, chan, got, reader, cancelled, serverVars, requests, wire, up, silent>>

(* The frame is written as soon as the buffers have room for it: whoever holds
   the lock of the writer lets the others wait.  A kernel that does not know of
   the break takes the frame and keeps it; one that does may still take it, or
   the write fails and the entry is removed. *)
Write(r) ==
  /\ caller[r] = "inserted"
  /\ \/ /\ Len(requests) < ReqCap
        /\ caller' = [caller EXCEPT ![r] = "written"]
        /\ requests' = IF up \/ silent THEN Append(requests, r) ELSE requests
        /\ UNCHANGED pending
     \/ /\ ~up /\ ~silent
        /\ caller' = [caller EXCEPT ![r] = "unwritten"]
        /\ pending' = pending \ {r}
        /\ UNCHANGED requests
  /\ UNCHANGED <<kind, chan, got, reader, cancelled, serverVars, wire, up, silent>>

(* Mutation: a frame with FLAG_MORE, the progress of a snapshot or one file of
   a batch, is taken for the answer. *)
ReceiveProgress(r) ==
  /\ caller[r] = "written" /\ chan[r] # <<>>
  /\ LET frame == Head(chan[r])
     IN /\ chan' = [chan EXCEPT ![r] = Tail(@)]
        /\ got' = [got EXCEPT ![r] = Append(@, frame)]
        /\ caller' = [caller EXCEPT ![r] = CASE frame.kind = "error" -> "error"
                                             [] frame.kind = "data" -> @
                                             [] OTHER -> "ok"]
        /\ pending' = IF kind[r] \in {"unary", "snapshot"} THEN pending \ {r} ELSE pending
  /\ UNCHANGED <<kind, reader, cancelled, serverVars, requests, wire, up, silent>>

(* The next frame of the answer: an error or the end of the answer ends the
   call.  unary and create_snapshot remove their entry themselves, the latter
   not after an error frame. *)
Receive(r) ==
  /\ caller[r] = "written" /\ chan[r] # <<>>
  /\ LET frame == Head(chan[r])
     IN /\ chan' = [chan EXCEPT ![r] = Tail(@)]
        /\ got' = [got EXCEPT ![r] = Append(@, frame)]
        /\ caller' = [caller EXCEPT ![r] = CASE frame.kind = "error" -> "error"
                                             [] frame.kind = "final" -> "ok"
                                             [] OTHER -> @]
        /\ pending' = IF kind[r] = "unary" \/ (kind[r] = "snapshot" /\ frame.kind = "final")
                      THEN pending \ {r} ELSE pending
  /\ UNCHANGED <<kind, reader, cancelled, serverVars, requests, wire, up, silent>>

(* A transfer gives up on a frame: the file cannot be written, or the frame
   does not belong where it comes.  The receiver goes, the entry stays. *)
Reject(r) ==
  /\ r \in Transfers /\ caller[r] = "written" /\ chan[r] # <<>>
  /\ caller' = [caller EXCEPT ![r] = "error"]
  /\ chan' = [chan EXCEPT ![r] = <<>>]
  /\ UNCHANGED <<kind, pending, got, reader, cancelled, serverVars, requests, wire, up, silent>>

(* recv returns None: no frame is left and no sender exists any more. *)
ReceiveClosed(r) ==
  /\ caller[r] = "written" /\ chan[r] = <<>>
  /\ r \notin pending /\ reader.frame.req # r
  /\ caller' = [caller EXCEPT ![r] = "closed"]
  /\ UNCHANGED <<kind, pending, chan, got, reader, cancelled, serverVars, requests, wire, up, silent>>

(* unary waits 30 s, create_snapshot 5 or 30 minutes for the next progress;
   a transfer has no timeout. *)
Timeout(r) ==
  /\ r \in Inline /\ caller[r] = "written" /\ chan[r] = <<>>
  /\ caller' = [caller EXCEPT ![r] = "timeout"]
  /\ pending' = pending \ {r}
  /\ UNCHANGED <<kind, chan, got, reader, cancelled, serverVars, requests, wire, up, silent>>

(* The run is paused, cancelled or has failed: its token. *)
CancelAll ==
  /\ Transfers # {} /\ ~cancelled
  /\ cancelled' = TRUE
  /\ UNCHANGED <<kind, caller, pending, chan, got, reader, serverVars, requests, wire, up, silent>>

(* select! drops the future of a transfer: the receiver goes, the entry stays,
   and a frame that was being written may stay half written. *)
DropTransfer(r) ==
  /\ cancelled /\ r \in Transfers /\ caller[r] \in Waiting
  /\ caller' = [caller EXCEPT ![r] = "cancelled"]
  /\ chan' = [chan EXCEPT ![r] = <<>>]
  /\ \/ UNCHANGED requests
     \/ /\ caller[r] = "inserted" /\ (up \/ silent) /\ Len(requests) < ReqCap
        /\ requests' = Append(requests, Torn)
  /\ UNCHANGED <<kind, pending, got, reader, cancelled, serverVars, wire, up, silent>>

-----------------------------------------------------------------------------
(* The reader task: a frame of a request that is not in the map is dropped. *)
ReadFrame ==
  /\ reader.st = "read" /\ wire # <<>>
  /\ wire' = Tail(wire)
  /\ reader' = IF Head(wire).req \in pending
               THEN [st |-> "send", frame |-> Head(wire)] ELSE reader
  /\ UNCHANGED <<kind, caller, pending, chan, got, cancelled, serverVars, requests, up, silent>>

(* Mutation: an error frame is not the last. *)
FinalFrameNoError == reader.frame.kind = "final"

(* final_frame: not data, and no FLAG_MORE. *)
FinalFrame == reader.frame.kind \in {"final", "error"}

(* Mutation: the full channel of a caller that has gone is waited for. *)
DeliverWaiting ==
  /\ reader.st = "send"
  /\ LET r == reader.frame.req
     IN /\ Len(chan[r]) < ChanCap
        /\ chan' = [chan EXCEPT ![r] = Append(@, reader.frame)]
  /\ reader' = IF FinalFrame THEN [reader EXCEPT !.st = "remove"]
                             ELSE [st |-> "read", frame |-> NoFrame]
  /\ UNCHANGED <<kind, caller, pending, got, cancelled, serverVars, requests, wire, up, silent>>

(* The frame enters the channel of its request, which waits for room; with
   the receiver gone the send fails at once. *)
Deliver ==
  /\ reader.st = "send"
  /\ LET r == reader.frame.req
     IN \/ /\ caller[r] \in Waiting /\ Len(chan[r]) < ChanCap
           /\ chan' = [chan EXCEPT ![r] = Append(@, reader.frame)]
        \/ caller[r] \in Done /\ UNCHANGED chan
  /\ reader' = IF FinalFrame THEN [reader EXCEPT !.st = "remove"]
                             ELSE [st |-> "read", frame |-> NoFrame]
  /\ UNCHANGED <<kind, caller, pending, got, cancelled, serverVars, requests, wire, up, silent>>

RemoveFinished ==
  /\ reader.st = "remove"
  /\ pending' = pending \ {reader.frame.req}
  /\ reader' = [st |-> "read", frame |-> NoFrame]
  /\ UNCHANGED <<kind, caller, chan, got, cancelled, serverVars, requests, wire, up, silent>>

(* The stream ends: every sender is dropped.  The reader itself would wait for
   ever, so somebody has to tell the client's kernel that the connection is
   gone. *)
ReaderEnds ==
  /\ reader.st = "read" /\ wire = <<>> /\ ~up /\ ~silent
  /\ pending' = {}
  /\ reader' = [st |-> "ended", frame |-> NoFrame]
  /\ UNCHANGED <<kind, caller, chan, got, cancelled, serverVars, requests, wire, up, silent>>

-----------------------------------------------------------------------------
(* handle_connection reads the next frame.  Chunks and batches are served by
   a task of their own unless they are refused; everything else, a snapshot
   with its hashing included, is answered before the next frame is read.
   Half a frame makes what follows unreadable and ends the connection. *)
HandlerReads ==
  /\ handler.st = "read" /\ up /\ requests # <<>>
  /\ requests' = Tail(requests)
  /\ LET r == Head(requests)
     IN IF r = Torn
        THEN handler' = [st |-> "ended", req |-> Torn] /\ UNCHANGED serve
        ELSE \/ /\ r \in Transfers
                /\ serve' = [serve EXCEPT ![r] = "spawned"]
                /\ UNCHANGED handler
             \/ /\ serve' = [serve EXCEPT ![r] = IF r \in Transfers THEN "refused"
                                                 ELSE "inline"]
                /\ handler' = [st |-> "busy", req |-> r]
  /\ UNCHANGED <<kind, clientVars, sent, out, wire, up, silent>>

(* The client has closed its side, or the connection is gone, of which the
   server's keepalive tells it. *)
HandlerEof ==
  /\ handler.st = "read"
  /\ ~up \/ (requests = <<>> /\ \A r \in Requests : caller[r] \in Done)
  /\ handler' = [st |-> "ended", req |-> Torn]
  /\ UNCHANGED <<kind, clientVars, serve, sent, out, requests, wire, up, silent>>

Serving(r) == serve[r] \in {"inline", "spawned", "refused"}
Answered(r) ==
  /\ serve' = [serve EXCEPT ![r] = "done"]
  /\ handler' = IF handler.req = r THEN [st |-> "read", req |-> Torn] ELSE handler

(* Mutation: the channel is not bounded. *)
EmitFrameAnyway(r) ==
  /\ serve[r] \in {"inline", "spawned"} /\ up
  /\ out' = Append(out, Frame(r, sent[r] + 1))
  /\ sent' = [sent EXCEPT ![r] = @ + 1]
  /\ IF sent'[r] = Len(Answer[kind[r]]) THEN Answered(r) ELSE UNCHANGED <<serve, handler>>
  /\ UNCHANGED <<kind, clientVars, requests, wire, up, silent>>

(* The next frame of the answer enters the outgoing channel. *)
EmitFrame(r) ==
  /\ serve[r] \in {"inline", "spawned"} /\ up /\ Len(out) < OutCap
  /\ out' = Append(out, Frame(r, sent[r] + 1))
  /\ sent' = [sent EXCEPT ![r] = @ + 1]
  /\ IF sent'[r] = Len(Answer[kind[r]]) THEN Answered(r) ELSE UNCHANGED <<serve, handler>>
  /\ UNCHANGED <<kind, clientVars, requests, wire, up, silent>>

(* An error frame ends the answer: the request is refused, or serving it
   failed part of the way. *)
EmitError(r) ==
  /\ Serving(r) /\ up /\ Len(out) < OutCap
  /\ serve[r] = "inline" => sent[r] = 0
  /\ out' = Append(out, ErrorFrame(r))
  /\ Answered(r)
  /\ UNCHANGED <<kind, clientVars, sent, requests, wire, up, silent>>

(* The handler returns an error ("?"): no answer, and nothing is read from
   this connection any more; what the serving tasks have is still written. *)
HandlerFails ==
  /\ handler.st = "busy" /\ serve[handler.req] = "inline"
  /\ serve' = [serve EXCEPT ![handler.req] = "done"]
  /\ handler' = [st |-> "ended", req |-> Torn]
  /\ UNCHANGED <<kind, clientVars, sent, out, requests, wire, up, silent>>

(* The writer task has ended: nothing can be sent. *)
SendFails(r) ==
  /\ Serving(r) /\ ~up
  /\ serve' = [serve EXCEPT ![r] = "done"]
  /\ handler' = IF handler.req = r THEN [st |-> "ended", req |-> Torn] ELSE handler
  /\ UNCHANGED <<kind, clientVars, sent, out, requests, wire, up, silent>>

(* The writer task. *)
WriteOut ==
  /\ up /\ out # <<>> /\ Len(wire) < WireCap
  /\ wire' = Append(wire, Head(out))
  /\ out' = Tail(out)
  /\ UNCHANGED <<kind, clientVars, serve, sent, handler, requests, up, silent>>

(* The last sender of the outgoing channel is gone: the writer task ends and
   the connection is closed behind what it wrote.  Requests nobody read make
   the close a reset, which may overtake the answers. *)
ServerCloses ==
  /\ up /\ handler.st = "ended" /\ out = <<>> /\ \A r \in Requests : ~Serving(r)
  /\ up' = FALSE /\ requests' = <<>>
  /\ \E k \in 0 .. Len(wire) : /\ requests = <<>> => k = Len(wire)
                               /\ wire' = SubSeq(wire, 1, k)
  /\ UNCHANGED <<kind, clientVars, serverVars, silent>>

(* The connection breaks and loses what is on the way.  A reset tells the
   client; a peer that is switched off or out of reach does not, and its kernel
   keeps what the peer has not acknowledged. *)
Break ==
  /\ Breaks /\ up
  /\ up' = FALSE
  /\ \/ silent' = FALSE /\ requests' = <<>>
     \/ /\ silent' = TRUE
        /\ \E k \in 0 .. Len(requests) : requests' = SubSeq(requests, k + 1, Len(requests))
  /\ \E k \in 0 .. Len(wire) : wire' = SubSeq(wire, 1, k)
  /\ UNCHANGED <<kind, clientVars, serverVars>>

(* The client's kernel gives up on a peer it does not hear from. *)
Notice ==
  /\ silent
  /\ silent' = FALSE /\ requests' = <<>>
  /\ UNCHANGED <<kind, clientVars, serverVars, wire, up>>

(* It does so because nobody acknowledges what it sends, frames or the end of
   its side of the connection.  It probes no idle connection: connect sets no
   keepalive, and read_frame has no timeout. *)
Unacknowledged == requests # <<>> \/ \A r \in Requests : caller[r] \in Done

-----------------------------------------------------------------------------
CallerStep(r) == Write(r) \/ Receive(r) \/ Reject(r) \/ ReceiveClosed(r) \/ DropTransfer(r)
ReaderStep == ReadFrame \/ Deliver \/ RemoveFinished \/ ReaderEnds
ServeStep(r) == EmitFrame(r) \/ EmitError(r) \/ SendFails(r)
HandlerStep == HandlerReads \/ HandlerEof \/ HandlerFails
Next == \/ \E r \in Requests : Insert(r) \/ CallerStep(r) \/ Timeout(r) \/ ServeStep(r)
        \/ CancelAll \/ ReaderStep \/ HandlerStep \/ WriteOut \/ ServerCloses
        \/ Break \/ Notice

Spec == Init /\ [][Next]_vars

(* Both runtimes poll their tasks and TCP carries data while the connection is
   up, and gives up on data nobody acknowledges; timers fire. *)
FairSpec == /\ Spec
            /\ \A r \in Requests : /\ WF_vars(CallerStep(r)) /\ WF_vars(ServeStep(r))
                                   /\ WF_vars(Timeout(r))
            /\ WF_vars(ReaderStep) /\ WF_vars(HandlerStep)
            /\ WF_vars(WriteOut) /\ WF_vars(ServerCloses)
            /\ WF_vars(Unacknowledged /\ Notice)

-----------------------------------------------------------------------------
FrameType == [req : Requests \cup {Torn}, n : Nat, kind : {"data", "more", "final", "error"}]

(* Type invariant. *)
TypeOK ==
  /\ kind \in Kinds
  /\ caller \in [Requests -> {"new"} \cup Waiting \cup Done]
  /\ pending \subseteq Requests
  /\ chan \in [Requests -> Seq(FrameType)] /\ got \in [Requests -> Seq(FrameType)]
  /\ \A r \in Requests : Len(chan[r]) <= ChanCap
  /\ reader \in [st : {"read", "send", "remove", "ended"}, frame : FrameType]
  /\ requests \in Seq(Requests \cup {Torn}) /\ Len(requests) <= ReqCap
  /\ serve \in [Requests -> {"no", "inline", "spawned", "refused", "done"}]
  /\ sent \in [Requests -> 0 .. 3]
  /\ handler \in [st : {"read", "busy", "ended"}, req : Requests \cup {Torn}]
  /\ out \in Seq(FrameType) /\ Len(out) <= OutCap
  /\ wire \in Seq(FrameType) /\ Len(wire) <= WireCap
  /\ up \in BOOLEAN /\ silent \in BOOLEAN /\ cancelled \in BOOLEAN
  /\ silent => ~up

(* Each request has a stream of its own: what the shared connection, the
   reader task, the flags and the bounded channels do to its frames cannot be
   told from a connection with no other request on it, and a call succeeds
   with its whole answer only. *)
Streams == INSTANCE RequestStreams
             WITH Answers <- {[r \in Requests |-> Answer[k[r]]] : k \in Kinds},
                  answer <- [r \in Requests |-> Answer[kind[r]]],
                  stage <- [r \in Requests |-> IF caller[r] \in Waiting THEN "open" ELSE caller[r]],
                  received <- got, over <- reader.st = "ended"
StreamsOfTheirOwn == Streams!Spec

FramesToCome == {reader.frame.req} \cup {wire[i].req : i \in 1 .. Len(wire)}
                \cup {out[i].req : i \in 1 .. Len(out)}
                \cup {requests[i] : i \in 1 .. Len(requests)}
                \cup {r \in Requests : Serving(r)}

(* The map does not grow: while the connection works, an entry has a caller
   that waits for it or an answer that is still to come and will remove it. *)
NoOrphanEntry ==
  up /\ handler.st # "ended" /\ ~cancelled =>
    \A r \in pending : caller[r] \in Waiting \/ r \in FramesToCome

(* A transfer nobody will answer and nobody has given up: its peer has gone
   without a word, or its sender entered the map after the reader task had
   ended. *)
Forsaken(r) == r \in Transfers /\ ~cancelled /\ (silent \/ reader.st = "ended")

(* Every call ends, but for a transfer that is forsaken: bounded channels, a
   slow caller in front of others, a writer that waits for the lock, cancelled
   transfers, a server that gives up and a connection that breaks block no
   caller for good. *)
RequestsEnd ==
  \A r \in Requests : <>[](caller[r] \in Waiting) => <>[]Forsaken(r)

(* Once the client is done with the connection every task on both sides ends:
   no handler, serving task or reader is left behind on a full channel. *)
Teardown ==
  (\A r \in Requests : caller[r] \in Done)
    ~> /\ reader.st = "ended" /\ handler.st = "ended"
       /\ \A r \in Requests : ~Serving(r)
=============================================================================
