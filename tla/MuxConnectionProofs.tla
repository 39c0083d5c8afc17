------------------------- MODULE MuxConnectionProofs -------------------------
(***************************************************************************)
(* Proofs, for any number of requests of any kind and channels of any      *)
(* size, that a multiplexed connection gives every request a stream of its *)
(* own, that its map of pending requests keeps no entry that nothing will  *)
(* remove, and that its tasks never wait for each other in a circle and    *)
(* run out of steps.                                                       *)
(***************************************************************************)
EXTENDS MuxConnection, FiniteSetTheorems, TLAPS

FrameKinds == {"data", "more", "final"}

(* An answer has one final frame, its last. *)
LEMMA AnswerShape ==
  ASSUME NEW k \in DOMAIN Answer
  PROVE  /\ Answer[k] \in Seq(FrameKinds) /\ Len(Answer[k]) \in 1 .. 3
         /\ \A i \in 1 .. Len(Answer[k]) : /\ Answer[k][i] \in FrameKinds
                                           /\ Answer[k][i] = "final" <=> i = Len(Answer[k])
<1>1. k \in {"unary", "snapshot", "chunk", "batch"}
  BY DEF Answer
<1>2. CASE k = "unary"
  BY <1>2 DEF Answer, FrameKinds
<1>3. CASE k = "snapshot"
  BY <1>3 DEF Answer, FrameKinds
<1>4. CASE k = "chunk"
  BY <1>4 DEF Answer, FrameKinds
<1>5. CASE k = "batch"
  BY <1>5 DEF Answer, FrameKinds
<1> QED
  BY <1>1, <1>2, <1>3, <1>4, <1>5

LEMMA Constants ==
  /\ Torn \notin Requests
  /\ \A k \in Kinds : \A r \in Requests : k[r] \in DOMAIN Answer
  /\ ChanCap \in Nat \ {0} /\ OutCap \in Nat \ {0} /\ WireCap \in Nat \ {0} /\ ReqCap \in Nat \ {0}
  BY MuxConnectionAssumption

-----------------------------------------------------------------------------
(* A request is written once and served once. *)
OnceInv ==
  /\ \A i, j \in 1 .. Len(requests) : requests[i] = requests[j] /\ requests[i] # Torn => i = j
  /\ \A i \in 1 .. Len(requests) : requests[i] # Torn =>
       /\ serve[requests[i]] = "no" /\ caller[requests[i]] \notin {"new", "inserted"}
  /\ \A r \in Requests : caller[r] \in {"new", "inserted"} => serve[r] = "no"

(* Serving a request ends with the last frame of its answer. *)
SentInv ==
  \A r \in Requests :
    /\ serve[r] \in {"no", "refused"} => sent[r] = 0
    /\ serve[r] \in {"inline", "spawned"} => sent[r] < Len(Answer[kind[r]])
    /\ sent[r] <= Len(Answer[kind[r]])

Basic == TypeOK /\ OnceInv /\ SentInv

LEMMA FramesTyped ==
  ASSUME Basic, NEW r \in Requests
  PROVE  /\ sent[r] \in Nat /\ ErrorFrame(r) \in FrameType /\ NoFrame \in FrameType
         /\ Len(Answer[kind[r]]) \in 1 .. 3
         /\ serve[r] \in {"inline", "spawned"} =>
              Frame(r, sent[r] + 1) \in FrameType /\ sent[r] + 1 <= Len(Answer[kind[r]])
<1>1. kind[r] \in DOMAIN Answer /\ sent[r] \in Nat
  <2>1. kind \in Kinds /\ sent[r] \in 0 .. 3
    BY DEF Basic, TypeOK
  <2> QED
    BY <2>1, Constants
<1>2. ErrorFrame(r) \in FrameType /\ NoFrame \in FrameType
  <2>1. sent[r] + 1 \in Nat /\ 0 \in Nat /\ r \in Requests \cup {Torn}
    BY <1>1
  <2> QED
    BY <2>1 DEF ErrorFrame, NoFrame, FrameType
<1>3. ASSUME serve[r] \in {"inline", "spawned"}
      PROVE  Frame(r, sent[r] + 1) \in FrameType /\ sent[r] + 1 <= Len(Answer[kind[r]])
  <2>1. sent[r] + 1 \in 1 .. Len(Answer[kind[r]])
    BY <1>1, <1>3, AnswerShape DEF Basic, SentInv
  <2>2. Answer[kind[r]][sent[r] + 1] \in {"data", "more", "final"}
    BY <1>1, <2>1, AnswerShape DEF FrameKinds
  <2> QED
    BY <1>1, <2>1, <2>2 DEF Frame, FrameType
<1> QED
  BY <1>1, <1>2, <1>3, AnswerShape

(* Shortening and extending a queue. *)
LEMMA QueueTypes ==
  ASSUME NEW S, NEW q \in Seq(S)
  PROVE  /\ Len(q) \in Nat
         /\ q # <<>> => /\ Head(q) = q[1] /\ q[1] \in S /\ Tail(q) \in Seq(S)
                        /\ Len(q) \in Nat \ {0} /\ Len(Tail(q)) = Len(q) - 1
                        /\ \A i \in 1 .. Len(q) - 1 : Tail(q)[i] = q[i + 1]
         /\ \A x \in S : /\ Append(q, x) \in Seq(S) /\ Len(Append(q, x)) = Len(q) + 1
                         /\ \A i \in 1 .. Len(q) : Append(q, x)[i] = q[i]
                         /\ Append(q, x)[Len(q) + 1] = x
         /\ \A k \in 0 .. Len(q) : /\ SubSeq(q, 1, k) \in Seq(S) /\ Len(SubSeq(q, 1, k)) = k
                                   /\ \A i \in 1 .. k : SubSeq(q, 1, k)[i] = q[i]
  OBVIOUS

LEMMA CallerType ==
  ASSUME Basic, NEW r \in Requests, Insert(r) \/ CallerStep(r) \/ Timeout(r) PROVE TypeOK'
<1>1. CASE Insert(r)
  BY <1>1 DEF Basic, TypeOK, Insert, serverVars, Waiting, Done
<1>2. CASE Write(r)
  <2>1. requests' \in Seq(Requests \cup {Torn}) /\ Len(requests') <= ReqCap
    <3>1. /\ requests \in Seq(Requests \cup {Torn}) /\ r \in Requests \cup {Torn}
          /\ Len(requests) <= ReqCap /\ ReqCap \in Nat
      BY Constants DEF Basic, TypeOK
    <3>2. requests' = requests \/ (requests' = Append(requests, r) /\ Len(requests) < ReqCap)
      BY <1>2 DEF Write
    <3> HIDE DEF Torn
    <3> QED
      BY <3>1, <3>2
  <2>2. caller' \in [Requests -> {"new"} \cup Waiting \cup Done]
    BY <1>2 DEF Basic, TypeOK, Write, Waiting, Done
  <2> QED
    BY <1>2, <2>1, <2>2 DEF Basic, TypeOK, Write, serverVars
<1>3. CASE Receive(r)
  <2>1. chan[r] \in Seq(FrameType) /\ got[r] \in Seq(FrameType) /\ chan[r] # <<>> /\ Len(chan[r]) <= ChanCap
    BY <1>3 DEF Basic, TypeOK, Receive
  <2>2. /\ Head(chan[r]) \in FrameType /\ Tail(chan[r]) \in Seq(FrameType)
        /\ Len(Tail(chan[r])) <= ChanCap
    BY <2>1, Constants, QueueTypes
  <2>3. Append(got[r], Head(chan[r])) \in Seq(FrameType)
    BY <2>1, <2>2
  <2>4. /\ chan' = [chan EXCEPT ![r] = Tail(chan[r])]
        /\ got' = [got EXCEPT ![r] = Append(got[r], Head(chan[r]))]
        /\ pending' \subseteq Requests
    BY <1>3 DEF Basic, TypeOK, Receive
  <2>5. caller' \in [Requests -> {"new"} \cup Waiting \cup Done]
    BY <1>3 DEF Basic, TypeOK, Receive, Done
  <2>6. /\ chan' \in [Requests -> Seq(FrameType)] /\ got' \in [Requests -> Seq(FrameType)]
        /\ \A q \in Requests : Len(chan'[q]) <= ChanCap
    BY <2>2, <2>3, <2>4 DEF Basic, TypeOK
  <2> QED
    BY <1>3, <2>4, <2>5, <2>6 DEF Basic, TypeOK, Receive, serverVars
<1>4. CASE Reject(r) \/ DropTransfer(r)
  <2>0. <<>> \in Seq(FrameType) /\ Len(<<>>) <= ChanCap /\ chan' = [chan EXCEPT ![r] = <<>>]
    BY <1>4, Constants DEF Reject, DropTransfer
  <2>1. /\ chan' \in [Requests -> Seq(FrameType)]
        /\ \A q \in Requests : Len(chan'[q]) <= ChanCap
    BY <2>0 DEF Basic, TypeOK
  <2>2. caller' \in [Requests -> {"new"} \cup Waiting \cup Done]
    BY <1>4 DEF Basic, TypeOK, Reject, DropTransfer, Done
  <2>3. requests' \in Seq(Requests \cup {Torn}) /\ Len(requests') <= ReqCap
    <3>1. /\ requests \in Seq(Requests \cup {Torn}) /\ Torn \in Requests \cup {Torn}
          /\ Len(requests) <= ReqCap /\ ReqCap \in Nat
      BY Constants DEF Basic, TypeOK
    <3>2. requests' = requests \/ (requests' = Append(requests, Torn) /\ Len(requests) < ReqCap)
      BY <1>4 DEF Reject, DropTransfer
    <3> HIDE DEF Torn
    <3> QED
      BY <3>1, <3>2
  <2> QED
    BY <1>4, <2>1, <2>2, <2>3 DEF Basic, TypeOK, Reject, DropTransfer, serverVars
<1>5. CASE ReceiveClosed(r) \/ Timeout(r)
  <2>1. caller' \in [Requests -> {"new"} \cup Waiting \cup Done] /\ pending' \subseteq Requests
    BY <1>5 DEF Basic, TypeOK, ReceiveClosed, Timeout, Done
  <2>2. UNCHANGED <<kind, chan, got, reader, cancelled, serve, sent, handler, out, requests, wire, up, silent>>
    BY <1>5 DEF ReceiveClosed, Timeout, serverVars
  <2> QED
    BY <2>1, <2>2 DEF Basic, TypeOK
<1> QED
  BY <1>1, <1>2, <1>3, <1>4, <1>5 DEF CallerStep

LEMMA ReaderType == ASSUME Basic, ReaderStep PROVE TypeOK'
<1>1. NoFrame \in FrameType
  BY DEF NoFrame, FrameType
<1>2. CASE ReadFrame
  <2>1. wire \in Seq(FrameType) /\ wire # <<>> /\ Len(wire) <= WireCap
    BY <1>2 DEF ReadFrame, Basic, TypeOK
  <2>2. Head(wire) \in FrameType /\ Tail(wire) \in Seq(FrameType) /\ Len(Tail(wire)) <= WireCap
    BY <2>1, Constants, QueueTypes
  <2> QED
    BY <1>2, <2>2 DEF ReadFrame, Basic, TypeOK, serverVars
<1>3. CASE Deliver
  <2>1. reader' \in [st : {"read", "send", "remove", "ended"}, frame : FrameType]
    BY <1>1, <1>3 DEF Deliver, Basic, TypeOK
  <2>2. /\ chan' \in [Requests -> Seq(FrameType)]
        /\ \A q \in Requests : Len(chan'[q]) <= ChanCap
    <3>1. CASE UNCHANGED chan
      BY <3>1 DEF Basic, TypeOK
    <3>2. CASE ~UNCHANGED chan
      <4> DEFINE r == reader.frame.req
      <4>1. chan' = [chan EXCEPT ![r] = Append(@, reader.frame)] /\ Len(chan[r]) < ChanCap
        BY <1>3, <3>2 DEF Deliver
      <4>2. reader.frame \in FrameType
        BY DEF Basic, TypeOK
      <4>3. ASSUME r \in Requests
            PROVE  Append(chan[r], reader.frame) \in Seq(FrameType) /\ Len(Append(chan[r], reader.frame)) <= ChanCap
        <5>1. chan[r] \in Seq(FrameType)
          BY <4>3 DEF Basic, TypeOK
        <5> HIDE DEF r
        <5> QED
          BY <4>1, <4>2, <5>1, Constants
      <4> QED
        BY <4>1, <4>3 DEF Basic, TypeOK
    <3> QED
      BY <3>1, <3>2
  <2> QED
    BY <1>3, <2>1, <2>2 DEF Deliver, Basic, TypeOK, serverVars
<1>4. CASE RemoveFinished
  BY <1>1, <1>4 DEF RemoveFinished, Basic, TypeOK, serverVars
<1>5. CASE ReaderEnds
  BY <1>1, <1>5 DEF ReaderEnds, Basic, TypeOK, serverVars
<1> QED
  BY <1>2, <1>3, <1>4, <1>5 DEF ReaderStep

LEMMA AnsweredType ==
  ASSUME Basic, NEW r \in Requests, Answered(r)
  PROVE  /\ serve' \in [Requests -> {"no", "inline", "spawned", "refused", "done"}]
         /\ handler' \in [st : {"read", "busy", "ended"}, req : Requests \cup {Torn}]
  BY DEF Basic, TypeOK, Answered

LEMMA ServeType == ASSUME Basic, NEW r \in Requests, ServeStep(r) PROVE TypeOK'
<1>0. out \in Seq(FrameType) /\ Len(out) <= OutCap /\ OutCap \in Nat
  BY Constants DEF Basic, TypeOK
<1>1. CASE EmitFrame(r)
  <2>1. Frame(r, sent[r] + 1) \in FrameType
    BY <1>1, FramesTyped DEF EmitFrame
  <2>2. out' \in Seq(FrameType) /\ Len(out') <= OutCap
    BY <1>0, <1>1, <2>1, QueueTypes DEF EmitFrame
  <2>3. sent[r] \in Nat /\ sent[r] + 1 <= Len(Answer[kind[r]]) /\ Len(Answer[kind[r]]) \in 1 .. 3
    BY <1>1, FramesTyped DEF EmitFrame
  <2>4. sent' \in [Requests -> 0 .. 3]
    <3>1. sent[r] + 1 \in 0 .. 3
      <4>1. PICK last \in 1 .. 3 : sent[r] + 1 <= last
        BY <2>3
      <4> QED
        BY <2>3, <4>1
    <3>2. sent \in [Requests -> 0 .. 3]
      BY DEF Basic, TypeOK
    <3> QED
      BY <1>1, <3>1, <3>2 DEF EmitFrame
  <2>5. /\ serve' \in [Requests -> {"no", "inline", "spawned", "refused", "done"}]
        /\ handler' \in [st : {"read", "busy", "ended"}, req : Requests \cup {Torn}]
    BY <1>1, AnsweredType DEF EmitFrame, Basic, TypeOK
  <2> QED
    BY <1>1, <2>2, <2>4, <2>5 DEF EmitFrame, Basic, TypeOK, clientVars
<1>2. CASE EmitError(r)
  <2>1. ErrorFrame(r) \in FrameType
    BY FramesTyped
  <2>2. out' \in Seq(FrameType) /\ Len(out') <= OutCap
    BY <1>0, <1>2, <2>1, QueueTypes DEF EmitError
  <2> QED
    BY <1>2, <2>2, AnsweredType DEF EmitError, Basic, TypeOK, clientVars
<1>3. CASE SendFails(r)
  BY <1>3 DEF SendFails, Basic, TypeOK, clientVars
<1> QED
  BY <1>1, <1>2, <1>3 DEF ServeStep

LEMMA HandlerType == ASSUME Basic, HandlerStep PROVE TypeOK'
<1>1. CASE HandlerReads
  <2>1. requests \in Seq(Requests \cup {Torn}) /\ requests # <<>>
    BY <1>1 DEF HandlerReads, Basic, TypeOK
  <2>2. /\ Head(requests) \in Requests \cup {Torn} /\ requests' \in Seq(Requests \cup {Torn})
        /\ Len(requests') <= ReqCap
    <3>1. /\ Head(requests) \in Requests \cup {Torn} /\ Tail(requests) \in Seq(Requests \cup {Torn})
          /\ Len(Tail(requests)) = Len(requests) - 1 /\ Len(requests) \in Nat
      BY <2>1, QueueTypes
    <3>2. Len(requests) <= ReqCap /\ ReqCap \in Nat
      BY Constants DEF Basic, TypeOK
    <3>3. Len(Tail(requests)) <= ReqCap
      BY <3>1, <3>2
    <3> QED
      BY <1>1, <3>1, <3>3 DEF HandlerReads
  <2>3. /\ serve' \in [Requests -> {"no", "inline", "spawned", "refused", "done"}]
        /\ handler' \in [st : {"read", "busy", "ended"}, req : Requests \cup {Torn}]
    <3> DEFINE r == Head(requests)
    <3>1. /\ serve' = serve \/ \E s \in {"spawned", "refused", "inline"} : serve' = [serve EXCEPT ![r] = s]
          /\ handler' \in {handler, [st |-> "ended", req |-> Torn], [st |-> "busy", req |-> r]}
      BY <1>1 DEF HandlerReads
    <3>2. r \in Requests \cup {Torn}
      BY <2>2
    <3>3. /\ serve \in [Requests -> {"no", "inline", "spawned", "refused", "done"}]
          /\ handler \in [st : {"read", "busy", "ended"}, req : Requests \cup {Torn}]
          /\ Torn \in Requests \cup {Torn}
      BY DEF Basic, TypeOK
    <3> HIDE DEF r
    <3>4. serve' \in [Requests -> {"no", "inline", "spawned", "refused", "done"}]
      BY <3>1, <3>3
    <3>5. handler' \in [st : {"read", "busy", "ended"}, req : Requests \cup {Torn}]
      BY <3>1, <3>2, <3>3
    <3> QED
      BY <3>4, <3>5
  <2> QED
    BY <1>1, <2>2, <2>3 DEF HandlerReads, Basic, TypeOK, clientVars
<1>2. CASE HandlerEof
  BY <1>2 DEF HandlerEof, Basic, TypeOK, clientVars
<1>3. CASE HandlerFails
  BY <1>3 DEF HandlerFails, Basic, TypeOK, clientVars
<1> QED
  BY <1>1, <1>2, <1>3 DEF HandlerStep

(* The end of the queue is a queue. *)
LEMMA SuffixOf ==
  ASSUME NEW S, NEW q \in Seq(S), NEW j \in 0 .. Len(q)
  PROVE  /\ SubSeq(q, j + 1, Len(q)) \in Seq(S) /\ Len(SubSeq(q, j + 1, Len(q))) = Len(q) - j
         /\ \A i \in 1 .. Len(q) - j : SubSeq(q, j + 1, Len(q))[i] = q[i + j]
  OBVIOUS

LEMMA UnsentType ==
  ASSUME Basic
  PROVE  /\ <<>> \in Seq(Requests \cup {Torn}) /\ Len(<<>>) <= ReqCap
         /\ \A j \in 0 .. Len(requests) :
              /\ SubSeq(requests, j + 1, Len(requests)) \in Seq(Requests \cup {Torn})
              /\ Len(SubSeq(requests, j + 1, Len(requests))) <= ReqCap
<1>1. ReqCap \in Nat /\ requests \in Seq(Requests \cup {Torn}) /\ Len(requests) <= ReqCap
  BY Constants DEF Basic, TypeOK
<1>2. <<>> \in Seq(Requests \cup {Torn}) /\ Len(<<>>) <= ReqCap
  BY <1>1
<1>3. ASSUME NEW j \in 0 .. Len(requests)
      PROVE  /\ SubSeq(requests, j + 1, Len(requests)) \in Seq(Requests \cup {Torn})
             /\ Len(SubSeq(requests, j + 1, Len(requests))) <= ReqCap
  <2> DEFINE s == SubSeq(requests, j + 1, Len(requests))
             n == Len(requests)
             m == Len(s)
  <2>1. s \in Seq(Requests \cup {Torn}) /\ m = n - j
    BY <1>1, SuffixOf
  <2>2. n \in Nat /\ n <= ReqCap /\ j \in 0 .. n
    BY <1>1
  <2>3. m <= ReqCap
    <3> HIDE DEF n, m
    <3> QED
      BY <1>1, <2>1, <2>2
  <2> QED
    BY <2>1, <2>3
<1> QED
  BY <1>2, <1>3

LEMMA WireType == ASSUME Basic, WriteOut \/ ServerCloses \/ Break \/ Notice PROVE TypeOK'
<1>0. /\ out \in Seq(FrameType) /\ Len(out) <= OutCap /\ OutCap \in Nat
      /\ wire \in Seq(FrameType) /\ Len(wire) <= WireCap /\ WireCap \in Nat
  BY Constants DEF Basic, TypeOK
<1>1. CASE WriteOut
  <2>1. /\ wire' \in Seq(FrameType) /\ Len(wire') <= WireCap
        /\ out' \in Seq(FrameType) /\ Len(out') <= OutCap
    BY <1>0, <1>1, QueueTypes DEF WriteOut
  <2> QED
    BY <1>1, <2>1 DEF WriteOut, Basic, TypeOK, clientVars
<1>2. CASE ServerCloses \/ Break
  <2>1. PICK k \in 0 .. Len(wire) : wire' = SubSeq(wire, 1, k)
    BY <1>2 DEF ServerCloses, Break
  <2>2. wire' \in Seq(FrameType) /\ Len(wire') <= WireCap
    BY <1>0, <2>1, QueueTypes
  <2>3. /\ requests' \in Seq(Requests \cup {Torn}) /\ Len(requests') <= ReqCap
        /\ up' = FALSE /\ silent' \in BOOLEAN
    <3>1. up' = FALSE /\ silent' \in BOOLEAN
      BY <1>2 DEF ServerCloses, Break, Basic, TypeOK
    <3>2. requests' = <<>> \/ \E j \in 0 .. Len(requests) : requests' = SubSeq(requests, j + 1, Len(requests))
      BY <1>2 DEF ServerCloses, Break
    <3> QED
      BY <3>1, <3>2, UnsentType
  <2>4. UNCHANGED <<kind, caller, pending, chan, got, reader, cancelled, serve, sent, handler, out>>
    BY <1>2 DEF ServerCloses, Break, clientVars, serverVars
  <2> QED
    BY <2>2, <2>3, <2>4 DEF Basic, TypeOK
<1>3. CASE Notice
  <2>1. UNCHANGED <<kind, caller, pending, chan, got, reader, cancelled, serve, sent, handler, out, wire, up>>
        /\ requests' = <<>> /\ silent' = FALSE
    BY <1>3 DEF Notice, clientVars, serverVars
  <2>2. requests' \in Seq(Requests \cup {Torn}) /\ Len(requests') <= ReqCap
    BY <2>1, UnsentType
  <2> QED
    BY <2>1, <2>2 DEF Basic, TypeOK
<1> QED
  BY <1>1, <1>2, <1>3

LEMMA OnceStep == ASSUME Basic, [Next]_vars PROVE OnceInv' /\ SentInv'
<1>0. /\ requests \in Seq(Requests \cup {Torn}) /\ Torn \notin Requests
      /\ Len(requests) \in Nat
      /\ caller \in [Requests -> {"new"} \cup Waiting \cup Done]
      /\ serve \in [Requests -> {"no", "inline", "spawned", "refused", "done"}]
      /\ sent \in [Requests -> 0 .. 3]
      /\ \A i \in 1 .. Len(requests) : requests[i] # Torn => requests[i] \in Requests
  BY Constants DEF Basic, TypeOK
<1>1. ASSUME UNCHANGED <<kind, serve, sent>> PROVE SentInv'
  BY <1>1 DEF Basic, SentInv
<1>2. ASSUME UNCHANGED <<serve, requests>>,
             \A r \in Requests : caller'[r] # caller[r] => caller'[r] \notin {"new", "inserted"}
      PROVE  OnceInv'
  BY <1>0, <1>2 DEF Basic, OnceInv
<1>3. ASSUME NEW r \in Requests, Insert(r) PROVE OnceInv' /\ SentInv'
  BY <1>0, <1>1, <1>3 DEF Insert, serverVars, Basic, OnceInv
<1>4. ASSUME NEW r \in Requests, Write(r) PROVE OnceInv' /\ SentInv'
  <2>1. SentInv' /\ UNCHANGED serve
    BY <1>1, <1>4 DEF Write, serverVars
  <2>2. /\ caller[r] = "inserted" /\ caller'[r] \notin {"new", "inserted"}
        /\ \A q \in Requests : q # r => caller'[q] = caller[q]
    BY <1>0, <1>4 DEF Write
  <2>3. serve[r] = "no" /\ \A i \in 1 .. Len(requests) : requests[i] # r
    BY <1>0, <2>2 DEF Basic, OnceInv
  <2>4. CASE requests' = requests
    BY <1>2, <2>1, <2>2, <2>4
  <2>5. CASE requests' = Append(requests, r)
    <3>1. /\ Len(requests') = Len(requests) + 1 /\ requests'[Len(requests) + 1] = r
          /\ \A i \in 1 .. Len(requests) : requests'[i] = requests[i]
      <4> HIDE DEF Torn
      <4> QED
        BY <1>0, <2>5
    <3>2. \A i \in 1 .. Len(requests') : i \in 1 .. Len(requests) \/ i = Len(requests) + 1
      BY <1>0, <3>1
    <3>3. \A i \in 1 .. Len(requests) : requests[i] # Torn =>
             requests[i] \in Requests /\ serve[requests[i]] = "no"
             /\ caller'[requests[i]] \notin {"new", "inserted"}
      BY <1>0, <2>2 DEF Basic, OnceInv
    <3> QED
      BY <1>0, <2>1, <2>2, <2>3, <3>1, <3>2, <3>3 DEF Basic, OnceInv
  <2> QED
    BY <1>4, <2>4, <2>5 DEF Write
<1>5. ASSUME NEW r \in Requests,
             Receive(r) \/ Reject(r) \/ ReceiveClosed(r) \/ Timeout(r)
      PROVE  OnceInv' /\ SentInv'
  <2>1. /\ UNCHANGED <<kind, serve, sent, requests>> /\ caller[r] = "written"
        /\ \A q \in Requests : q # r => caller'[q] = caller[q]
    BY <1>0, <1>5 DEF Receive, Reject, ReceiveClosed, Timeout, serverVars
  <2>2. caller'[r] \notin {"new", "inserted"}
    BY <1>0, <1>5 DEF Receive, Reject, ReceiveClosed, Timeout
  <2> QED
    BY <1>1, <1>2, <2>1, <2>2
<1>6. ASSUME NEW r \in Requests, DropTransfer(r) PROVE OnceInv' /\ SentInv'
  <2>1. /\ UNCHANGED <<kind, serve, sent>> /\ caller'[r] = "cancelled"
        /\ \A q \in Requests : q # r => caller'[q] = caller[q]
        /\ requests' = requests \/ requests' = Append(requests, Torn)
    BY <1>0, <1>6 DEF DropTransfer, serverVars
  <2>2. CASE requests' = requests
    BY <1>1, <1>2, <2>1, <2>2
  <2>3. CASE requests' = Append(requests, Torn)
    <3>1. /\ Len(requests') = Len(requests) + 1 /\ requests'[Len(requests) + 1] = Torn
          /\ \A i \in 1 .. Len(requests) : requests'[i] = requests[i]
      <4> HIDE DEF Torn
      <4> QED
        BY <1>0, <2>3
    <3>2. \A i \in 1 .. Len(requests') : i \in 1 .. Len(requests) \/ i = Len(requests) + 1
      BY <1>0, <3>1
    <3>3. \A i \in 1 .. Len(requests) : requests[i] # Torn =>
             requests[i] \in Requests /\ serve[requests[i]] = "no"
             /\ caller'[requests[i]] \notin {"new", "inserted"}
      BY <1>0, <2>1 DEF Basic, OnceInv
    <3> QED
      BY <1>0, <1>1, <2>1, <3>1, <3>2, <3>3 DEF Basic, OnceInv
  <2> QED
    BY <2>1, <2>2, <2>3
<1>7. ASSUME ReaderStep \/ CancelAll \/ WriteOut \/ HandlerEof \/ UNCHANGED vars
      PROVE  OnceInv' /\ SentInv'
  <2>1. UNCHANGED <<kind, serve, sent, requests, caller>>
    BY <1>7 DEF ReaderStep, ReadFrame, Deliver, RemoveFinished, ReaderEnds, CancelAll, WriteOut,
                HandlerEof, vars, serverVars, clientVars
  <2> QED
    BY <1>1, <1>2, <2>1
<1>8. ASSUME NEW r \in Requests, ServeStep(r) PROVE OnceInv' /\ SentInv'
  <2>1. /\ UNCHANGED <<kind, caller, requests>> /\ serve[r] # "no"
        /\ serve' = serve \/ serve' = [serve EXCEPT ![r] = "done"]
    BY <1>8 DEF ServeStep, EmitFrame, EmitError, SendFails, Answered, Serving, clientVars
  <2>2. OnceInv'
    BY <1>0, <2>1 DEF Basic, OnceInv
  <2>3. CASE EmitFrame(r)
    <3>1. sent[r] \in Nat /\ sent[r] + 1 <= Len(Answer[kind[r]]) /\ Len(Answer[kind[r]]) \in Nat
      BY <2>3, FramesTyped DEF EmitFrame
    <3>2. /\ sent' = [sent EXCEPT ![r] = sent[r] + 1]
          /\ serve'[r] = "done" \/ (serve'[r] \in {"inline", "spawned"} /\ sent[r] + 1 # Len(Answer[kind[r]]))
          /\ \A q \in Requests : q # r => serve'[q] = serve[q]
      BY <1>0, <2>3 DEF EmitFrame, Answered
    <3> QED
      BY <1>0, <2>1, <2>2, <3>1, <3>2 DEF Basic, SentInv
  <2>4. CASE EmitError(r) \/ SendFails(r)
    <3>1. UNCHANGED sent /\ serve' = [serve EXCEPT ![r] = "done"]
      BY <2>4 DEF EmitError, SendFails, Answered
    <3> QED
      BY <1>0, <2>1, <2>2, <3>1 DEF Basic, SentInv
  <2> QED
    BY <1>8, <2>3, <2>4 DEF ServeStep
<1>9. ASSUME HandlerReads PROVE OnceInv' /\ SentInv'
  <2>1. /\ UNCHANGED <<kind, caller, sent>> /\ requests # <<>> /\ requests' = Tail(requests)
    BY <1>9 DEF HandlerReads, clientVars
  <2>2. /\ Len(requests) \in Nat \ {0} /\ Len(requests') = Len(requests) - 1
        /\ Head(requests) = requests[1] /\ requests[1] \in Requests \cup {Torn}
        /\ \A i \in 1 .. Len(requests') : requests'[i] = requests[i + 1] /\ i + 1 \in 1 .. Len(requests)
    <3> HIDE DEF Torn
    <3> QED
      BY <1>0, <2>1, QueueTypes
  <2> DEFINE r == requests[1]
  <2>3. CASE r = Torn
    <3>1. UNCHANGED serve
      BY <1>9, <2>2, <2>3 DEF HandlerReads
    <3>2. SentInv'
      BY <1>1, <2>1, <3>1
    <3> QED
      BY <2>1, <2>2, <3>1, <3>2 DEF Basic, OnceInv
  <2>4. CASE r # Torn
    <3>1. \E s \in {"spawned", "refused", "inline"} : serve' = [serve EXCEPT ![r] = s]
      BY <1>9, <2>2, <2>4 DEF HandlerReads
    <3>2. serve[r] = "no" /\ caller[r] \notin {"new", "inserted"} /\ r \in Requests
      BY <2>2, <2>4 DEF Basic, OnceInv
    <3>3. \A i \in 1 .. Len(requests') : requests'[i] # r
      BY <2>2, <2>4 DEF Basic, OnceInv
    <3>4. OnceInv'
      <4> HIDE DEF r
      <4> QED
        BY <1>0, <2>1, <2>2, <3>1, <3>2, <3>3 DEF Basic, OnceInv
    <3>5. SentInv'
      <4>1. sent[r] = 0 /\ Len(Answer[kind[r]]) \in 1 .. 3
        BY <3>2, FramesTyped DEF Basic, SentInv
      <4> HIDE DEF r
      <4>2. PICK s \in {"spawned", "refused", "inline"} : serve' = [serve EXCEPT ![r] = s]
        BY <3>1
      <4>3. serve'[r] = s /\ \A q \in Requests : q # r => serve'[q] = serve[q]
        BY <1>0, <3>2, <4>2
      <4>4. sent' = sent /\ kind' = kind
        BY <2>1
      <4>5. SUFFICES ASSUME NEW q \in Requests
                     PROVE  /\ serve'[q] \in {"no", "refused"} => sent[q] = 0
                            /\ serve'[q] \in {"inline", "spawned"} => sent[q] < Len(Answer[kind[q]])
                            /\ sent[q] <= Len(Answer[kind[q]])
        BY <4>4 DEF SentInv
      <4>6. CASE q = r
        BY <4>1, <4>6, SMTT(20) DEF Basic, SentInv
      <4>7. CASE q # r
        BY <4>3, <4>7 DEF Basic, SentInv
      <4> QED
        BY <4>6, <4>7
    <3> QED
      BY <3>4, <3>5
  <2> QED
    BY <2>3, <2>4
<1>10. ASSUME HandlerFails PROVE OnceInv' /\ SentInv'
  <2>1. /\ UNCHANGED <<kind, caller, sent, requests>> /\ serve[handler.req] = "inline"
        /\ serve' = [serve EXCEPT ![handler.req] = "done"]
    BY <1>10 DEF HandlerFails, clientVars
  <2> QED
    BY <1>0, <2>1 DEF Basic, OnceInv, SentInv
<1>11. ASSUME ServerCloses \/ Break \/ Notice PROVE OnceInv' /\ SentInv'
  <2>1. UNCHANGED <<kind, serve, sent, caller>>
    BY <1>11 DEF ServerCloses, Break, Notice, serverVars, clientVars
  <2>2. CASE requests' = <<>>
    BY <1>1, <2>1, <2>2 DEF Basic, OnceInv
  <2>3. ASSUME NEW j \in 0 .. Len(requests), requests' = SubSeq(requests, j + 1, Len(requests))
        PROVE  OnceInv' /\ SentInv'
    <3>1. /\ Len(requests') = Len(requests) - j /\ Len(requests) \in Nat
          /\ \A i \in 1 .. Len(requests) - j : requests'[i] = requests[i + j]
      BY <1>0, <2>3, SuffixOf
    <3>2. \A i \in 1 .. Len(requests') : i + j \in 1 .. Len(requests) /\ requests'[i] = requests[i + j]
      BY <3>1
    <3>3. \A i, k \in 1 .. Len(requests') : requests'[i] = requests'[k] /\ requests'[i] # Torn => i = k
      <4> SUFFICES ASSUME NEW i \in 1 .. Len(requests'), NEW k \in 1 .. Len(requests'),
                          requests'[i] = requests'[k], requests'[i] # Torn
                   PROVE  i = k
        OBVIOUS
      <4>1. i + j = k + j
        BY <3>2 DEF Basic, OnceInv
      <4>2. i \in Nat /\ k \in Nat /\ j \in Nat
        BY <3>1
      <4> QED
        BY <4>1, <4>2
    <3>4. \A i \in 1 .. Len(requests') : requests'[i] # Torn =>
            serve'[requests'[i]] = "no" /\ caller'[requests'[i]] \notin {"new", "inserted"}
      BY <2>1, <3>2 DEF Basic, OnceInv
    <3>5. SentInv' /\ \A r \in Requests : caller'[r] \in {"new", "inserted"} => serve'[r] = "no"
      BY <2>1 DEF Basic, OnceInv, SentInv
    <3> QED
      BY <3>3, <3>4, <3>5 DEF OnceInv
  <2> QED
    BY <1>11, <2>2, <2>3 DEF ServerCloses, Break, Notice
<1> QED
  BY <1>3, <1>4, <1>5, <1>6, <1>7, <1>8, <1>9, <1>10, <1>11 DEF Next, CallerStep, HandlerStep

LEMMA BasicStep == ASSUME Basic, [Next]_vars PROVE Basic'
<1>1. CASE CancelAll \/ UNCHANGED vars
  <2>1. /\ UNCHANGED <<kind, caller, pending, chan, got, reader, serve, sent, handler, out>>
        /\ UNCHANGED <<requests, wire, up, silent>> /\ cancelled' \in BOOLEAN
    BY <1>1 DEF CancelAll, serverVars, clientVars, vars, Basic, TypeOK
  <2>2. TypeOK'
    BY <2>1 DEF Basic, TypeOK
  <2> QED
    BY <2>2, OnceStep DEF Basic
<1>2. CASE ~(CancelAll \/ UNCHANGED vars)
  BY <1>2, OnceStep, CallerType, ReaderType, ServeType, HandlerType, WireType DEF Next, Basic
<1> QED
  BY <1>1, <1>2

LEMMA InitBasic == Init => Basic
<1> SUFFICES ASSUME Init PROVE Basic
  OBVIOUS
<1>1. kind \in Kinds /\ \A r \in Requests : Len(Answer[kind[r]]) \in 1 .. 3
  BY Constants, AnswerShape DEF Init
<1>2. TypeOK
  <2>1. /\ Len(<<>>) = 0 /\ <<>> \in Seq(FrameType) /\ <<>> \in Seq(Requests \cup {Torn})
        /\ NoFrame \in FrameType /\ Torn \in Requests \cup {Torn}
    BY DEF NoFrame, FrameType
  <2>2. /\ reader \in [st : {"read", "send", "remove", "ended"}, frame : FrameType]
        /\ handler \in [st : {"read", "busy", "ended"}, req : Requests \cup {Torn}]
    BY <2>1 DEF Init
  <2>3. /\ chan \in [Requests -> Seq(FrameType)] /\ got \in [Requests -> Seq(FrameType)]
        /\ \A r \in Requests : Len(chan[r]) <= ChanCap
        /\ out \in Seq(FrameType) /\ Len(out) <= OutCap
        /\ wire \in Seq(FrameType) /\ Len(wire) <= WireCap
    BY <2>1, Constants DEF Init
  <2>4. /\ caller \in [Requests -> {"new"} \cup Waiting \cup Done] /\ pending \subseteq Requests
        /\ sent \in [Requests -> 0 .. 3]
        /\ serve \in [Requests -> {"no", "inline", "spawned", "refused", "done"}]
    BY DEF Init
  <2>5. requests \in Seq(Requests \cup {Torn}) /\ Len(requests) <= ReqCap
    BY <2>1, Constants DEF Init
  <2>6. up \in BOOLEAN /\ silent \in BOOLEAN /\ cancelled \in BOOLEAN /\ (silent => ~up)
    BY DEF Init
  <2> QED
    BY <1>1, <2>2, <2>3, <2>4, <2>5, <2>6 DEF TypeOK
<1> QED
  BY <1>1, <1>2 DEF Init, Basic, OnceInv, SentInv

(* Channels, queues and tasks keep to their types and to their capacities
   whatever requests, answers, cancellations and breaks come together. *)
THEOREM ConnectionTypeCorrect == Spec => []TypeOK
  BY InitBasic, BasicStep, PTL DEF Spec, Basic

LEMMA BasicHolds == Spec => []Basic
  BY InitBasic, BasicStep, PTL DEF Spec

-----------------------------------------------------------------------------
LEMMA Concatenation ==
  ASSUME NEW S, NEW a \in Seq(S), NEW b \in Seq(S)
  PROVE  /\ a \o b \in Seq(S) /\ Len(a) \in Nat /\ Len(b) \in Nat
         /\ Len(a \o b) = Len(a) + Len(b) /\ Len(a \o b) \in Nat
         /\ \A i \in 1 .. Len(a) + Len(b) :
              (a \o b)[i] = IF i <= Len(a) THEN a[i] ELSE b[i - Len(a)]
  OBVIOUS

LEMMA EqualQueues ==
  ASSUME NEW S, NEW a \in Seq(S), NEW b \in Seq(S), Len(a) = Len(b),
         \A i \in 1 .. Len(a) : a[i] = b[i]
  PROVE  a = b
  OBVIOUS

(* What passing a frame on does to two queues taken as one. *)
LEMMA TwoQueues ==
  ASSUME NEW S, NEW a \in Seq(S), NEW b \in Seq(S)
  PROVE  /\ a \o b \in Seq(S)
         /\ b # <<>> => Append(a, Head(b)) \o Tail(b) = a \o b
         /\ a # <<>> => /\ a \o b # <<>> /\ Head(a \o b) = Head(a)
                        /\ Tail(a \o b) = Tail(a) \o b
         /\ \A x \in S : a \o Append(b, x) = Append(a \o b, x)
         /\ \A k \in 0 .. Len(a) : k \in 0 .. Len(a \o b) /\ SubSeq(a \o b, 1, k) = SubSeq(a, 1, k)
<1>1. a \o b \in Seq(S) /\ Len(a \o b) = Len(a) + Len(b) /\ Len(a) \in Nat /\ Len(b) \in Nat
  OBVIOUS
<1>2. ASSUME b # <<>> PROVE Append(a, Head(b)) \o Tail(b) = a \o b
  <2> DEFINE c == Append(a, Head(b))
             d == Tail(b)
  <2>1. /\ c \in Seq(S) /\ Len(c) = Len(a) + 1 /\ c[Len(a) + 1] = b[1]
        /\ \A i \in 1 .. Len(a) : c[i] = a[i]
        /\ d \in Seq(S) /\ Len(d) = Len(b) - 1 /\ \A i \in 1 .. Len(b) - 1 : d[i] = b[i + 1]
    BY <1>2, QueueTypes
  <2> HIDE DEF c, d
  <2>2. /\ c \o d \in Seq(S) /\ Len(c \o d) = Len(c) + Len(d)
        /\ \A i \in 1 .. Len(c) + Len(d) :
             (c \o d)[i] = IF i <= Len(c) THEN c[i] ELSE d[i - Len(c)]
    BY <2>1, Concatenation
  <2>3. Len(c) + Len(d) = Len(a) + Len(b)
    BY <1>1, <2>1
  <2>4. ASSUME NEW i \in 1 .. Len(a) + Len(b) PROVE (c \o d)[i] = (a \o b)[i]
    <3>1. (a \o b)[i] = IF i <= Len(a) THEN a[i] ELSE b[i - Len(a)]
      BY <2>4, Concatenation
    <3>2. (c \o d)[i] = IF i <= Len(a) + 1 THEN c[i] ELSE d[i - (Len(a) + 1)]
      BY <2>1, <2>2, <2>3, <2>4
    <3>3. CASE i <= Len(a)
      BY <1>1, <2>1, <2>4, <3>1, <3>2, <3>3
    <3>4. CASE i = Len(a) + 1
      BY <1>1, <2>1, <2>4, <3>1, <3>2, <3>4
    <3>5. CASE i > Len(a) + 1
      <4> DEFINE j == i - (Len(a) + 1)
      <4>1. j \in 1 .. Len(b) - 1 /\ j + 1 = i - Len(a)
        BY <1>1, <2>4, <3>5
      <4>2. ~(i <= Len(a)) /\ ~(i <= Len(a) + 1)
        BY <1>1, <2>4, <3>5
      <4>3. (a \o b)[i] = b[j + 1] /\ (c \o d)[i] = d[j]
        BY <3>1, <3>2, <4>1, <4>2
      <4> HIDE DEF j
      <4>4. d[j] = b[j + 1]
        BY <2>1, <4>1
      <4> QED
        BY <4>3, <4>4
    <3>6. i <= Len(a) \/ i = Len(a) + 1 \/ i > Len(a) + 1
      BY <1>1, <2>4
    <3> QED
      BY <3>3, <3>4, <3>5, <3>6
  <2>5. c \o d = a \o b
    BY <1>1, <2>2, <2>3, <2>4, EqualQueues
  <2> QED
    BY <2>5 DEF c, d
<1>3. ASSUME a # <<>>
      PROVE  a \o b # <<>> /\ Head(a \o b) = Head(a) /\ Tail(a \o b) = Tail(a) \o b
  <2> DEFINE c == a \o b
             d == Tail(a)
  <2>1. /\ c \in Seq(S) /\ Len(c) = Len(a) + Len(b) /\ Len(c) > 0 /\ c # <<>> /\ Head(c) = Head(a)
    BY <1>3
  <2>2. /\ d \in Seq(S) /\ Len(d) = Len(a) - 1 /\ \A i \in 1 .. Len(a) - 1 : d[i] = a[i + 1]
        /\ Tail(c) \in Seq(S) /\ Len(Tail(c)) = Len(c) - 1
        /\ \A i \in 1 .. Len(c) - 1 : Tail(c)[i] = c[i + 1]
    BY <1>3, <2>1, QueueTypes
  <2>3. \A i \in 1 .. Len(c) - 1 : c[i + 1] = IF i <= Len(a) - 1 THEN a[i + 1] ELSE b[i - (Len(a) - 1)]
    BY <1>1
  <2> HIDE DEF c, d
  <2>4. /\ d \o b \in Seq(S) /\ Len(d \o b) = Len(d) + Len(b)
        /\ \A i \in 1 .. Len(d) + Len(b) :
             (d \o b)[i] = IF i <= Len(d) THEN d[i] ELSE b[i - Len(d)]
    BY <2>2, Concatenation
  <2>5. Len(d) + Len(b) = Len(c) - 1
    BY <1>1, <2>1, <2>2
  <2>7. ASSUME NEW i \in 1 .. Len(c) - 1 PROVE Tail(c)[i] = (d \o b)[i]
    BY <1>1, <2>1, <2>2, <2>3, <2>4, <2>5, <2>7
  <2>6. Tail(c) = d \o b
    BY <2>2, <2>4, <2>5, <2>7, EqualQueues
  <2> QED
    BY <2>1, <2>6 DEF c, d
<1>4. ASSUME NEW x \in S PROVE a \o Append(b, x) = Append(a \o b, x)
  <2> DEFINE c == a \o Append(b, x)
             d == Append(a \o b, x)
  <2>1. c \in Seq(S) /\ d \in Seq(S) /\ Len(c) = Len(d)
    BY <1>1
  <2>2. ASSUME NEW i \in 1 .. Len(c) PROVE c[i] = d[i]
    BY <1>1, <2>2
  <2> HIDE DEF c, d
  <2>3. c = d
    BY <2>1, <2>2
  <2> QED
    BY <2>3 DEF c, d
<1>5. ASSUME NEW k \in 0 .. Len(a)
      PROVE  k \in 0 .. Len(a \o b) /\ SubSeq(a \o b, 1, k) = SubSeq(a, 1, k)
  <2>1. k \in 0 .. Len(a \o b)
    BY <1>1
  <2> DEFINE c == SubSeq(a \o b, 1, k)
             d == SubSeq(a, 1, k)
  <2>2. c \in Seq(S) /\ d \in Seq(S) /\ Len(c) = k /\ Len(d) = k
    BY <1>1, <2>1
  <2>3. ASSUME NEW i \in 1 .. k PROVE c[i] = d[i]
    BY <1>1, <2>1, <2>3
  <2> HIDE DEF c, d
  <2>4. c = d
    BY <2>2, <2>3
  <2> QED
    BY <2>1, <2>4 DEF c, d
<1> QED
  BY <1>1, <1>2, <1>3, <1>4, <1>5

-----------------------------------------------------------------------------
(* The frames that will still reach the reader task: those in the TCP buffers
   and, while the connection is up, those in the server's outgoing channel. *)
Coming == IF up THEN wire \o out ELSE wire

LEMMA ComingType ==
  ASSUME Basic PROVE Coming \in Seq(FrameType) /\ out \in Seq(FrameType) /\ wire \in Seq(FrameType)
<1>1. out \in Seq(FrameType) /\ wire \in Seq(FrameType)
  BY DEF Basic, TypeOK
<1> QED
  BY <1>1, TwoQueues DEF Coming

LEMMA ComingEmitted ==
  ASSUME Basic, up, up', UNCHANGED wire, NEW frame \in FrameType, out' = Append(out, frame)
  PROVE  Coming' = Append(Coming, frame)
  BY ComingType, TwoQueues DEF Coming

LEMMA ComingRead ==
  ASSUME Basic, ReadFrame
  PROVE  Coming # <<>> /\ Head(Coming) = Head(wire) /\ Coming' = Tail(Coming)
<1>1. wire # <<>> /\ wire' = Tail(wire) /\ out' = out /\ (up' <=> up)
  BY DEF ReadFrame, serverVars
<1>2. /\ wire \o out # <<>> /\ Head(wire \o out) = Head(wire)
      /\ Tail(wire \o out) = Tail(wire) \o out
  BY <1>1, ComingType, TwoQueues
<1>3. CASE up
  BY <1>1, <1>2, <1>3 DEF Coming
<1>4. CASE ~up
  BY <1>1, <1>4 DEF Coming
<1> QED
  BY <1>3, <1>4

LEMMA ComingWritten == ASSUME Basic, WriteOut PROVE Coming' = Coming
<1>1. out # <<>> /\ up /\ up' /\ wire' = Append(wire, Head(out)) /\ out' = Tail(out)
  BY DEF WriteOut
<1> QED
  BY <1>1, ComingType, TwoQueues DEF Coming

LEMMA ComingBreaks ==
  ASSUME Basic, ServerCloses \/ Break
  PROVE  \E k \in 0 .. Len(Coming) : Coming' = SubSeq(Coming, 1, k)
<1>1. PICK k \in 0 .. Len(wire) : wire' = SubSeq(wire, 1, k)
  BY DEF ServerCloses, Break
<1>2. up /\ ~up'
  BY DEF ServerCloses, Break
<1>3. k \in 0 .. Len(wire \o out) /\ SubSeq(wire \o out, 1, k) = SubSeq(wire, 1, k)
  BY ComingType, TwoQueues
<1> QED
  BY <1>1, <1>2, <1>3 DEF Coming

-----------------------------------------------------------------------------
Closing(frame) == frame.kind \in {"final", "error"}

Carries(q, r) == \E i \in 1 .. Len(q) : q[i].req = r
Closes(q, r) == \E i \in 1 .. Len(q) : q[i].req = r /\ Closing(q[i])

(* The end of the answer to r is still to come. *)
AnswerComing(r) ==
  \/ Serving(r)
  \/ \E i \in 1 .. Len(requests) : requests[i] = r
  \/ Closes(Coming, r)
  \/ reader.st \in {"send", "remove"} /\ reader.frame.req = r /\ Closing(reader.frame)

(* handle_connection is busy with one request or with none. *)
HandlerInv == handler.st # "busy" => handler.req = Torn

(* The future of r was dropped, and its entry is left behind. *)
Abandoned(r) == cancelled /\ caller[r] = "cancelled"

EntriesInv ==
  up /\ handler.st # "ended" =>
    \A r \in pending : caller[r] = "inserted" \/ AnswerComing(r) \/ Abandoned(r)

LEMMA QueueChanges ==
  ASSUME NEW S, NEW q \in Seq(S), NEW r
  PROVE  /\ \A x \in S : Closes(Append(q, x), r) <=> Closes(q, r) \/ (x.req = r /\ Closing(x))
         /\ q # <<>> /\ Closes(q, r) =>
              Closes(Tail(q), r) \/ (Head(q).req = r /\ Closing(Head(q)))
<1>1. ASSUME NEW x \in S
      PROVE  Closes(Append(q, x), r) <=> Closes(q, r) \/ (x.req = r /\ Closing(x))
  <2>1. /\ Len(q) \in Nat /\ Len(Append(q, x)) = Len(q) + 1 /\ Append(q, x)[Len(q) + 1] = x
        /\ \A i \in 1 .. Len(q) : Append(q, x)[i] = q[i]
    BY <1>1, QueueTypes
  <2>2. \A i \in 1 .. Len(q) + 1 : i \in 1 .. Len(q) \/ i = Len(q) + 1
    BY <2>1
  <2>3. Len(q) + 1 \in 1 .. Len(q) + 1 /\ \A i \in 1 .. Len(q) : i \in 1 .. Len(q) + 1
    BY <2>1
  <2> DEFINE c == Append(q, x)
  <2> HIDE DEF c
  <2> QED
    BY <2>1, <2>2, <2>3 DEF Closes, c
<1>2. ASSUME q # <<>>, Closes(q, r)
      PROVE  Closes(Tail(q), r) \/ (Head(q).req = r /\ Closing(Head(q)))
  <2>1. /\ Len(q) \in Nat \ {0} /\ Head(q) = q[1] /\ Len(Tail(q)) = Len(q) - 1
        /\ \A i \in 1 .. Len(q) - 1 : Tail(q)[i] = q[i + 1]
    BY <1>2, QueueTypes
  <2>2. PICK i \in 1 .. Len(q) : q[i].req = r /\ Closing(q[i])
    BY <1>2 DEF Closes
  <2>3. CASE i = 1
    BY <2>1, <2>2, <2>3
  <2>4. CASE i # 1
    <3>1. i - 1 \in 1 .. Len(q) - 1 /\ (i - 1) + 1 = i
      BY <2>1, <2>4
    <3>2. Tail(q)[i - 1] = q[i]
      BY <2>1, <3>1
    <3> QED
      BY <2>1, <2>2, <3>1, <3>2 DEF Closes
  <2> QED
    BY <2>3, <2>4
<1> QED
  BY <1>1, <1>2

LEMMA HandlerStepInv == ASSUME Basic, HandlerInv, [Next]_vars PROVE HandlerInv'
<1>0. handler \in [st : {"read", "busy", "ended"}, req : Requests \cup {Torn}]
  BY DEF Basic, TypeOK
<1>1. CASE UNCHANGED handler
  BY <1>1 DEF HandlerInv
<1>2. ASSUME NEW r \in Requests, ServeStep(r) PROVE HandlerInv'
  BY <1>0, <1>2 DEF ServeStep, EmitFrame, EmitError, SendFails, Answered, HandlerInv
<1>3. CASE HandlerStep
  BY <1>0, <1>3 DEF HandlerStep, HandlerReads, HandlerEof, HandlerFails, HandlerInv
<1>4. ASSUME NEW r \in Requests, Insert(r) \/ CallerStep(r) \/ Timeout(r) PROVE UNCHANGED handler
  BY <1>4 DEF Insert, CallerStep, Timeout, Write, Receive, Reject, ReceiveClosed, DropTransfer, serverVars
<1>5. CASE CancelAll \/ ReaderStep \/ WriteOut \/ ServerCloses \/ Break \/ Notice
           \/ UNCHANGED vars
  BY <1>1, <1>5 DEF CancelAll, ReaderStep, ReadFrame, Deliver, RemoveFinished, ReaderEnds, WriteOut,
                    ServerCloses, Break, Notice, serverVars, vars
<1> QED
  BY <1>1, <1>2, <1>3, <1>4, <1>5 DEF Next

(* What a step keeps of the end of an answer. *)
LEMMA AnswerKept ==
  ASSUME NEW r \in Requests, AnswerComing(r), UNCHANGED <<serve, requests, reader, up, wire, out>>
  PROVE  AnswerComing(r)'
  BY DEF AnswerComing, Serving, Coming, Closes

LEMMA EntriesStep == ASSUME Basic, HandlerInv, EntriesInv, [Next]_vars PROVE EntriesInv'
<1> SUFFICES ASSUME up', handler'.st # "ended", NEW r \in pending', ~(cancelled' /\ caller'[r] = "cancelled")
             PROVE  caller'[r] = "inserted" \/ AnswerComing(r)'
  BY DEF EntriesInv, Abandoned
<1>0. /\ requests \in Seq(Requests \cup {Torn}) /\ Torn \notin Requests
      /\ caller \in [Requests -> {"new"} \cup Waiting \cup Done] /\ pending \subseteq Requests
      /\ serve \in [Requests -> {"no", "inline", "spawned", "refused", "done"}]
      /\ handler \in [st : {"read", "busy", "ended"}, req : Requests \cup {Torn}]
      /\ reader \in [st : {"read", "send", "remove", "ended"}, frame : FrameType]
  BY Constants DEF Basic, TypeOK
<1>1. ASSUME NEW q \in Requests, Insert(q) PROVE caller'[r] = "inserted" \/ AnswerComing(r)'
  <2>1. /\ UNCHANGED <<serve, requests, reader, up, wire, out, handler, cancelled>>
        /\ caller' = [caller EXCEPT ![q] = "inserted"] /\ pending' = pending \cup {q}
    BY <1>1 DEF Insert, serverVars
  <2>2. CASE r = q
    BY <1>0, <2>1, <2>2
  <2>3. CASE r # q
    BY <1>0, <2>1, <2>3, AnswerKept DEF EntriesInv, Abandoned
  <2> QED
    BY <2>2, <2>3
<1>2. ASSUME NEW q \in Requests, Write(q) PROVE caller'[r] = "inserted" \/ AnswerComing(r)'
  <2>1. /\ UNCHANGED <<serve, reader, up, wire, out, handler, cancelled>> /\ up
        /\ caller' = [caller EXCEPT ![q] = "written"] /\ pending' = pending
        /\ requests' = Append(requests, q)
    BY <1>2 DEF Write, serverVars
  <2>2. /\ Len(requests) \in Nat /\ Len(requests') = Len(requests) + 1
        /\ requests'[Len(requests) + 1] = q
        /\ \A i \in 1 .. Len(requests) : requests'[i] = requests[i]
    BY <1>0, <2>1, QueueTypes
  <2>3. CASE r = q
    BY <2>2, <2>3 DEF AnswerComing
  <2>4. CASE r # q
    <3>1. r \in pending /\ caller'[r] = caller[r] /\ handler.st # "ended" /\ ~Abandoned(r)
      BY <1>0, <2>1, <2>4 DEF Abandoned
    <3>2. caller[r] = "inserted" \/ AnswerComing(r)
      BY <2>1, <3>1 DEF EntriesInv
    <3>3. AnswerComing(r) => AnswerComing(r)'
      <4>1. (\E i \in 1 .. Len(requests) : requests[i] = r) => \E i \in 1 .. Len(requests') : requests'[i] = r
        BY <2>2
      <4> QED
        BY <2>1, <4>1 DEF AnswerComing, Serving, Coming, Closes
    <3> QED
      BY <3>1, <3>2, <3>3
  <2> QED
    BY <2>3, <2>4
<1>3. ASSUME NEW q \in Requests, Receive(q) \/ Reject(q) \/ ReceiveClosed(q) \/ Timeout(q)
      PROVE  caller'[r] = "inserted" \/ AnswerComing(r)'
  <2>1. /\ UNCHANGED <<serve, requests, reader, up, wire, out, handler, cancelled>>
        /\ caller[q] = "written" /\ pending' \subseteq pending
        /\ \A p \in Requests : p # q => caller'[p] = caller[p]
    BY <1>0, <1>3 DEF Receive, Reject, ReceiveClosed, Timeout, serverVars
  <2>2. caller[r] = "inserted" \/ AnswerComing(r)
    BY <1>0, <2>1 DEF EntriesInv, Abandoned
  <2> QED
    BY <1>0, <2>1, <2>2, AnswerKept
<1>4. ASSUME NEW q \in Requests, DropTransfer(q) PROVE caller'[r] = "inserted" \/ AnswerComing(r)'
  <2>1. /\ UNCHANGED <<serve, reader, up, wire, out, handler, pending>> /\ cancelled /\ cancelled'
        /\ caller' = [caller EXCEPT ![q] = "cancelled"]
        /\ requests' = requests \/ requests' = Append(requests, Torn)
    BY <1>4 DEF DropTransfer, serverVars
  <2>2. r # q /\ r \in pending /\ caller'[r] = caller[r]
    BY <1>0, <2>1
  <2>3. caller[r] = "inserted" \/ AnswerComing(r)
    BY <2>1, <2>2 DEF EntriesInv, Abandoned
  <2>4. (\E i \in 1 .. Len(requests) : requests[i] = r) => \E i \in 1 .. Len(requests') : requests'[i] = r
    <3>1. CASE requests' = requests
      BY <3>1
    <3>2. CASE requests' = Append(requests, Torn)
      <4>1. /\ Len(requests) \in Nat /\ Len(requests') = Len(requests) + 1
            /\ \A i \in 1 .. Len(requests) : requests'[i] = requests[i]
        BY <1>0, <3>2, QueueTypes
      <4> QED
        BY <4>1
    <3> QED
      BY <2>1, <3>1, <3>2
  <2>5. AnswerComing(r) => AnswerComing(r)'
    BY <2>1, <2>4 DEF AnswerComing, Serving, Coming, Closes
  <2> QED
    BY <2>2, <2>3, <2>5
<1>5. ASSUME NEW q \in Requests, ServeStep(q) PROVE caller'[r] = "inserted" \/ AnswerComing(r)'
  <2>1. /\ UNCHANGED <<requests, reader, wire, caller, pending, cancelled>> /\ up
    BY <1>5 DEF ServeStep, EmitFrame, EmitError, SendFails, clientVars
  <2>2. handler.st # "ended"
    <3>1. UNCHANGED handler \/ handler.req = q \/ handler' = handler
      BY <1>5, <2>1 DEF ServeStep, EmitFrame, EmitError, SendFails, Answered
    <3> QED
      BY <1>0, <3>1 DEF HandlerInv
  <2>3. caller[r] = "inserted" \/ AnswerComing(r)
    BY <2>1, <2>2 DEF EntriesInv, Abandoned
  <2>4. PICK frame \in FrameType :
          /\ out' = Append(out, frame) /\ frame.req = q
          /\ serve' = serve \/ (serve' = [serve EXCEPT ![q] = "done"] /\ Closing(frame))
    <3>1. CASE EmitFrame(q)
      <4> DEFINE frame == Frame(q, sent[q] + 1)
      <4>1. /\ frame \in FrameType /\ frame.req = q /\ out' = Append(out, frame)
            /\ frame.kind = Answer[kind[q]][sent[q] + 1] /\ sent[q] + 1 \in 1 .. Len(Answer[kind[q]])
        BY <3>1, FramesTyped DEF EmitFrame, Frame
      <4>2. serve' = serve \/ (serve' = [serve EXCEPT ![q] = "done"] /\ sent[q] + 1 = Len(Answer[kind[q]]))
        BY <3>1 DEF EmitFrame, Answered, Basic, TypeOK
      <4>3. kind[q] \in DOMAIN Answer
        BY Constants DEF Basic, TypeOK
      <4>4. sent[q] + 1 = Len(Answer[kind[q]]) => frame.kind = "final"
        BY <4>1, <4>3, AnswerShape
      <4> HIDE DEF frame
      <4> QED
        BY <4>1, <4>2, <4>4 DEF Closing
    <3>2. CASE EmitError(q)
      BY <3>2, FramesTyped DEF EmitError, ErrorFrame, Answered, Closing
    <3> QED
      BY <1>5, <2>1, <3>1, <3>2 DEF ServeStep, SendFails
  <2>5. Coming' = Append(Coming, frame)
    BY <2>1, <2>4, ComingEmitted
  <2>6. Closes(Coming', r) <=> Closes(Coming, r) \/ (frame.req = r /\ Closing(frame))
    BY <2>5, ComingType, QueueChanges
  <2>7. ASSUME AnswerComing(r) PROVE AnswerComing(r)'
    <3>1. CASE Serving(r)
      <4>1. CASE serve' = serve
        BY <3>1, <4>1 DEF AnswerComing, Serving
      <4>2. CASE serve' = [serve EXCEPT ![q] = "done"] /\ Closing(frame)
        BY <1>0, <2>1, <2>4, <2>6, <3>1, <4>2 DEF AnswerComing, Serving
      <4> QED
        BY <2>4, <4>1, <4>2
    <3>2. CASE \E i \in 1 .. Len(requests) : requests[i] = r
      BY <2>1, <3>2 DEF AnswerComing
    <3>3. CASE Closes(Coming, r)
      BY <2>6, <3>3 DEF AnswerComing
    <3>4. CASE reader.st \in {"send", "remove"} /\ reader.frame.req = r /\ Closing(reader.frame)
      BY <2>1, <3>4 DEF AnswerComing
    <3> QED
      BY <2>7, <3>1, <3>2, <3>3, <3>4 DEF AnswerComing
  <2> QED
    BY <2>1, <2>3, <2>7
<1>6. CASE ReadFrame
  <2>1. /\ UNCHANGED <<serve, requests, caller, pending, cancelled, handler>> /\ (up' <=> up)
        /\ reader.st = "read"
        /\ reader' = IF Head(wire).req \in pending
                     THEN [st |-> "send", frame |-> Head(wire)] ELSE reader
    BY <1>6 DEF ReadFrame, serverVars
  <2>2. Coming # <<>> /\ Head(Coming) = Head(wire) /\ Coming' = Tail(Coming) /\ Coming \in Seq(FrameType)
    BY <1>6, ComingRead, ComingType
  <2>3. caller[r] = "inserted" \/ AnswerComing(r)
    BY <2>1 DEF EntriesInv, Abandoned
  <2>4. Closes(Coming, r) => Closes(Coming', r) \/ (Head(wire).req = r /\ Closing(Head(wire)))
    BY <2>2, QueueChanges
  <2>5. Head(wire).req = r => reader' = [st |-> "send", frame |-> Head(wire)]
    BY <2>1
  <2>6. AnswerComing(r) => AnswerComing(r)'
    BY <2>1, <2>4, <2>5 DEF AnswerComing, Serving
  <2> QED
    BY <2>1, <2>3, <2>6
<1>7. CASE Deliver \/ RemoveFinished
  <2>1. /\ UNCHANGED <<serve, requests, caller, cancelled, handler, up, wire, out>> /\ pending' \subseteq pending
    BY <1>7 DEF Deliver, RemoveFinished, serverVars
  <2>2. caller[r] = "inserted" \/ AnswerComing(r)
    BY <2>1 DEF EntriesInv, Abandoned
  <2>3. ASSUME reader.st \in {"send", "remove"}, reader.frame.req = r, Closing(reader.frame)
        PROVE  reader'.st = "remove" /\ reader'.frame = reader.frame
    BY <1>0, <1>7, <2>3 DEF Deliver, RemoveFinished, FinalFrame, Closing
  <2>4. AnswerComing(r) => AnswerComing(r)'
    BY <2>1, <2>3 DEF AnswerComing, Serving, Coming, Closes
  <2> QED
    BY <2>1, <2>2, <2>4
<1>8. CASE ReaderEnds \/ ServerCloses \/ Break
  BY <1>8 DEF ReaderEnds, ServerCloses, Break
<1>9. CASE HandlerReads
  <2>1. /\ UNCHANGED <<caller, pending, cancelled, reader, up, wire, out>> /\ requests # <<>>
        /\ requests' = Tail(requests) /\ handler.st = "read"
    BY <1>9 DEF HandlerReads, clientVars
  <2>2. /\ Len(requests) \in Nat \ {0} /\ Head(requests) = requests[1]
        /\ Len(requests') = Len(requests) - 1
        /\ \A i \in 1 .. Len(requests) - 1 : requests'[i] = requests[i + 1]
        /\ requests[1] \in Requests \cup {Torn}
    BY <1>0, <2>1, QueueTypes
  <2>3. caller[r] = "inserted" \/ AnswerComing(r)
    BY <2>1 DEF EntriesInv, Abandoned
  <2> DEFINE q == requests[1]
  <2>4. /\ q \in Requests
        /\ \E s \in {"spawned", "refused", "inline"} : serve' = [serve EXCEPT ![q] = s]
    BY <1>9, <2>2 DEF HandlerReads
  <2>5. Serving(r) => Serving(r)'
    BY <1>0, <2>4 DEF Serving
  <2>6. ASSUME NEW i \in 1 .. Len(requests), requests[i] = r
        PROVE  Serving(r)' \/ \E j \in 1 .. Len(requests') : requests'[j] = r
    <3>1. CASE i = 1
      BY <1>0, <2>4, <2>6, <3>1 DEF Serving
    <3>2. CASE i # 1
      <4>1. i - 1 \in 1 .. Len(requests) - 1 /\ (i - 1) + 1 = i
        BY <2>2, <3>2
      <4> QED
        BY <2>2, <2>6, <4>1
    <3> QED
      BY <3>1, <3>2
  <2>7. AnswerComing(r) => AnswerComing(r)'
    BY <2>1, <2>5, <2>6 DEF AnswerComing, Coming, Closes
  <2> QED
    BY <2>1, <2>3, <2>7
<1>10. CASE HandlerEof \/ HandlerFails
  <2>1. handler' = [st |-> "ended", req |-> Torn]
    BY <1>10 DEF HandlerEof, HandlerFails
  <2>2. handler'.st = "ended"
    BY <2>1
  <2> QED
    BY <2>2
<1>11. CASE WriteOut
  <2>1. UNCHANGED <<serve, requests, caller, pending, cancelled, handler, reader>> /\ (up' <=> up)
    BY <1>11 DEF WriteOut, clientVars
  <2>2. Coming' = Coming
    BY <1>11, ComingWritten
  <2>3. caller[r] = "inserted" \/ AnswerComing(r)
    BY <2>1 DEF EntriesInv, Abandoned
  <2> QED
    BY <2>1, <2>2, <2>3 DEF AnswerComing, Serving
<1>12. CASE CancelAll
  <2>1. UNCHANGED <<serve, requests, caller, pending, handler, reader, up, wire, out>> /\ cancelled'
    BY <1>12 DEF CancelAll, serverVars
  <2>2. caller[r] = "inserted" \/ AnswerComing(r)
    BY <2>1 DEF EntriesInv, Abandoned
  <2> QED
    BY <1>0, <2>1, <2>2, AnswerKept
<1>13. CASE UNCHANGED vars
  <2>1. UNCHANGED <<serve, requests, caller, pending, cancelled, handler, reader, up, wire, out>>
    BY <1>13 DEF vars, clientVars, serverVars
  <2>2. caller[r] = "inserted" \/ AnswerComing(r)
    BY <2>1 DEF EntriesInv, Abandoned
  <2> QED
    BY <1>0, <2>1, <2>2, AnswerKept
<1>14. ~Notice
  BY DEF Notice, Basic, TypeOK
<1> QED
  BY <1>1, <1>2, <1>3, <1>4, <1>5, <1>6, <1>7, <1>8, <1>9, <1>10, <1>11, <1>12, <1>13, <1>14
     DEF Next, CallerStep, ReaderStep, HandlerStep

LEMMA EntriesHold == Spec => [](Basic /\ HandlerInv /\ EntriesInv)
<1>1. Init => HandlerInv /\ EntriesInv
  BY DEF Init, HandlerInv, EntriesInv
<1> QED
  BY <1>1, InitBasic, BasicStep, HandlerStepInv, EntriesStep, PTL DEF Spec

(* MuxConnection's map: while the connection works and no run was cancelled, an
   entry has a caller that waits for it or an answer that is still to come and
   will remove it, whichever callers gave up, were refused or timed out. *)
THEOREM NoEntryIsOrphaned == Spec => []NoOrphanEntry
<1>1. Basic /\ HandlerInv /\ EntriesInv => NoOrphanEntry
  <2> SUFFICES ASSUME Basic, EntriesInv, up, handler.st # "ended", ~cancelled, NEW r \in pending
               PROVE  caller[r] \in Waiting \/ r \in FramesToCome
    BY DEF NoOrphanEntry
  <2>1. r \in Requests /\ (caller[r] = "inserted" \/ AnswerComing(r))
    BY DEF EntriesInv, Abandoned, Basic, TypeOK
  <2>2. CASE caller[r] = "inserted"
    BY <2>2 DEF Waiting
  <2>3. CASE Serving(r) \/ reader.frame.req = r \/ \E i \in 1 .. Len(requests) : requests[i] = r
    BY <2>1, <2>3 DEF FramesToCome
  <2>4. CASE Closes(Coming, r)
    <3>1. PICK i \in 1 .. Len(wire \o out) : (wire \o out)[i].req = r
      BY <2>4 DEF Closes, Coming
    <3>2. /\ Len(wire) \in Nat /\ Len(out) \in Nat /\ Len(wire \o out) = Len(wire) + Len(out)
          /\ (wire \o out)[i] = IF i <= Len(wire) THEN wire[i] ELSE out[i - Len(wire)]
      BY ComingType, Concatenation
    <3>3. CASE i <= Len(wire)
      BY <3>1, <3>2, <3>3 DEF FramesToCome
    <3>4. CASE i > Len(wire)
      <4>1. i - Len(wire) \in 1 .. Len(out)
        BY <3>2, <3>4
      <4> QED
        BY <3>1, <3>2, <3>4, <4>1 DEF FramesToCome
    <3> QED
      BY <3>2, <3>3, <3>4
  <2> QED
    BY <2>1, <2>2, <2>3, <2>4 DEF AnswerComing
<1> QED
  BY <1>1, EntriesHold, PTL
-----------------------------------------------------------------------------
(* Each request's frames, in the order of its answer. *)

(* The call of r has not ended. *)
Live(r) == caller[r] \in {"new"} \cup Waiting

(* The frames of r in a queue carry consecutive numbers, from the one after
   "from" up to one of "ends". *)
Line(q, r, from, ends) ==
  \E c \in [0 .. Len(q) -> Nat] :
    /\ c[0] = from /\ c[Len(q)] \in ends
    /\ \A i \in 1 .. Len(q) : IF q[i].req = r THEN c[i] = c[i - 1] + 1 /\ q[i].n = c[i]
                                              ELSE c[i] = c[i - 1]

(* Frames of r that are in its channel, or beyond it. *)
Reached(r) == Len(got[r]) + Len(chan[r])
                + (IF reader.st = "send" /\ reader.frame.req = r THEN 1 ELSE 0)

(* How many frames of r the server may have sent; none is missing while the
   connection is up. *)
Issued(r) == IF ~up THEN Nat
             ELSE IF serve[r] = "done" THEN {sent[r], sent[r] + 1} ELSE {sent[r]}

(* A frame is one of the answer to its request, or an error. *)
Genuine(frame, kinds) ==
  /\ frame.req \in Requests
  /\ \/ frame.kind = "error"
     \/ /\ frame.n \in 1 .. Len(Answer[kinds[frame.req]])
        /\ frame.kind = Answer[kinds[frame.req]][frame.n]

AllGenuine(q, kinds, served) ==
  \A i \in 1 .. Len(q) : Genuine(q[i], kinds) /\ served[q[i].req] # "no"

FrameInv ==
  /\ AllGenuine(Coming, kind, serve)
  /\ reader.st \in {"send", "remove"} => Genuine(reader.frame, kind) /\ serve[reader.frame.req] # "no"
  /\ \A r \in Requests : \A i \in 1 .. Len(chan[r]) : Genuine(chan[r][i], kind) /\ chan[r][i].req = r

(* What waits for r is in order and without a gap. *)
InOrder(r) ==
  /\ \A i \in 1 .. Len(chan[r]) : chan[r][i].n = Len(got[r]) + i
  /\ reader.st = "send" /\ reader.frame.req = r => reader.frame.n = Len(got[r]) + Len(chan[r]) + 1
  /\ Line(Coming, r, Reached(r), Issued(r))

(* No frame of r follows one that closes its answer, and its entry is removed
   behind such a frame only. *)
ClosedIn(q, r) ==
  \A i \in 1 .. Len(q) : q[i].req = r /\ Closing(q[i]) => \A j \in i + 1 .. Len(q) : q[j].req # r

ClosedLast(r) ==
  /\ ClosedIn(Coming, r) /\ (Closes(Coming, r) => serve[r] = "done")
  /\ reader.st \in {"send", "remove"} /\ reader.frame.req = r /\ Closing(reader.frame) =>
       serve[r] = "done" /\ ~Carries(Coming, r)
  /\ Closes(chan[r], r) =>
       /\ serve[r] = "done" /\ ~Carries(Coming, r)
       /\ ~(reader.st = "send" /\ reader.frame.req = r)
  /\ /\ caller[r] \in Waiting /\ reader.st # "ended"
     /\ r \notin pending \/ (reader.st = "remove" /\ reader.frame.req = r)
     => Closes(chan[r], r)

StreamInv == FrameInv /\ \A r \in Requests : Live(r) => InOrder(r) /\ ClosedLast(r)

LEMMA LineEnds ==
  ASSUME NEW q, NEW r, NEW from, NEW E, NEW F, E \subseteq F, Line(q, r, from, E)
  PROVE  Line(q, r, from, F)
  BY DEF Line

LEMMA LineAppend ==
  ASSUME NEW S, NEW q \in Seq(S), NEW x \in S, NEW r, NEW from \in Nat, NEW E, Line(q, r, from, E)
  PROVE  /\ x.req # r => Line(Append(q, x), r, from, E)
         /\ \A s \in Nat : x.req = r /\ E = {s} /\ x.n = s + 1 => Line(Append(q, x), r, from, {s + 1})
<1>1. /\ Len(q) \in Nat /\ Len(Append(q, x)) = Len(q) + 1 /\ Append(q, x)[Len(q) + 1] = x
      /\ \A i \in 1 .. Len(q) : Append(q, x)[i] = q[i]
  BY QueueTypes
<1>2. PICK c \in [0 .. Len(q) -> Nat] :
        /\ c[0] = from /\ c[Len(q)] \in E
        /\ \A i \in 1 .. Len(q) : IF q[i].req = r THEN c[i] = c[i - 1] + 1 /\ q[i].n = c[i]
                                                  ELSE c[i] = c[i - 1]
  BY DEF Line
<1> DEFINE p == Append(q, x)
           last == IF x.req = r THEN c[Len(q)] + 1 ELSE c[Len(q)]
           d == [i \in 0 .. Len(q) + 1 |-> IF i = Len(q) + 1 THEN last ELSE c[i]]
<1>3. c[Len(q)] \in Nat /\ last \in Nat
  BY <1>1, <1>2
<1>4. /\ d \in [0 .. Len(q) + 1 -> Nat] /\ d[0] = from /\ d[Len(q) + 1] = last
      /\ \A i \in 0 .. Len(q) : d[i] = c[i]
  BY <1>1, <1>2, <1>3
<1>5. ASSUME x.req = r => x.n = c[Len(q)] + 1, NEW F, last \in F
      PROVE  Line(p, r, from, F)
  <2>1. ASSUME NEW i \in 1 .. Len(q) + 1
        PROVE  IF p[i].req = r THEN d[i] = d[i - 1] + 1 /\ p[i].n = d[i] ELSE d[i] = d[i - 1]
    <3>1. CASE i = Len(q) + 1
      <4>1. p[i] = x /\ d[i] = last /\ d[i - 1] = c[Len(q)]
        BY <1>1, <1>4, <3>1
      <4> HIDE DEF p, d
      <4> QED
        BY <1>3, <1>5, <4>1
    <3>2. CASE i # Len(q) + 1
      <4>1. i \in 1 .. Len(q) /\ i - 1 \in 0 .. Len(q) /\ i \in 0 .. Len(q)
        BY <1>1, <3>2
      <4>2. p[i] = q[i] /\ d[i] = c[i] /\ d[i - 1] = c[i - 1]
        BY <1>1, <1>4, <4>1
      <4> HIDE DEF p, d
      <4> QED
        BY <1>2, <4>1, <4>2
    <3> QED
      BY <3>1, <3>2
  <2>2. Len(p) = Len(q) + 1
    BY <1>1
  <2> HIDE DEF p, d
  <2> QED
    BY <1>4, <1>5, <2>1, <2>2 DEF Line
<1>6. ASSUME x.req # r PROVE Line(p, r, from, E)
  BY <1>2, <1>5, <1>6
<1>7. ASSUME NEW s \in Nat, x.req = r, E = {s}, x.n = s + 1 PROVE Line(p, r, from, {s + 1})
  <2>1. c[Len(q)] = s /\ last = s + 1
    BY <1>2, <1>7
  <2> HIDE DEF last, p, d
  <2> QED
    BY <1>5, <1>7, <2>1
<1> QED
  BY <1>6, <1>7

LEMMA LineTail ==
  ASSUME NEW S, NEW q \in Seq(S), q # <<>>, NEW r, NEW from \in Nat, NEW E, Line(q, r, from, E)
  PROVE  /\ Head(q).req = r => Head(q).n = from + 1 /\ Line(Tail(q), r, from + 1, E)
         /\ Head(q).req # r => Line(Tail(q), r, from, E)
<1>1. /\ Len(q) \in Nat \ {0} /\ Head(q) = q[1] /\ Len(Tail(q)) = Len(q) - 1
      /\ \A i \in 1 .. Len(q) - 1 : Tail(q)[i] = q[i + 1]
  BY QueueTypes
<1>2. PICK c \in [0 .. Len(q) -> Nat] :
        /\ c[0] = from /\ c[Len(q)] \in E
        /\ \A i \in 1 .. Len(q) : IF q[i].req = r THEN c[i] = c[i - 1] + 1 /\ q[i].n = c[i]
                                                  ELSE c[i] = c[i - 1]
  BY DEF Line
<1> DEFINE d == [i \in 0 .. Len(q) - 1 |-> c[i + 1]]
<1>3. /\ d \in [0 .. Len(q) - 1 -> Nat] /\ d[Len(q) - 1] \in E
      /\ \A i \in 0 .. Len(q) - 1 : d[i] = c[i + 1]
  BY <1>1, <1>2
<1>4. d[0] = c[1] /\ (IF q[1].req = r THEN c[1] = from + 1 /\ q[1].n = c[1] ELSE c[1] = from)
  BY <1>1, <1>2, <1>3
<1>5. ASSUME NEW i \in 1 .. Len(q) - 1
      PROVE  IF Tail(q)[i].req = r THEN d[i] = d[i - 1] + 1 /\ Tail(q)[i].n = d[i] ELSE d[i] = d[i - 1]
  <2>1. i + 1 \in 1 .. Len(q) /\ (i + 1) - 1 = i /\ i - 1 \in 0 .. Len(q) - 1 /\ (i - 1) + 1 = i
        /\ i \in 0 .. Len(q) - 1
    BY <1>1
  <2>2. Tail(q)[i] = q[i + 1] /\ d[i] = c[i + 1] /\ d[i - 1] = c[i]
    BY <1>1, <1>3, <2>1
  <2> HIDE DEF d
  <2> QED
    BY <1>2, <2>1, <2>2
<1>6. Line(Tail(q), r, c[1], E)
  <2> HIDE DEF d
  <2> QED
    BY <1>1, <1>3, <1>4, <1>5 DEF Line
<1> QED
  BY <1>1, <1>4, <1>6

LEMMA LinePrefix ==
  ASSUME NEW S, NEW q \in Seq(S), NEW k \in 0 .. Len(q), NEW r, NEW from, NEW E, Line(q, r, from, E)
  PROVE  Line(SubSeq(q, 1, k), r, from, Nat)
<1>1. Len(SubSeq(q, 1, k)) = k /\ Len(q) \in Nat /\ \A i \in 1 .. k : SubSeq(q, 1, k)[i] = q[i]
  BY QueueTypes
<1>2. PICK c \in [0 .. Len(q) -> Nat] :
        /\ c[0] = from
        /\ \A i \in 1 .. Len(q) : IF q[i].req = r THEN c[i] = c[i - 1] + 1 /\ q[i].n = c[i]
                                                  ELSE c[i] = c[i - 1]
  BY DEF Line
<1> DEFINE d == [i \in 0 .. k |-> c[i]]
           p == SubSeq(q, 1, k)
<1>3. d \in [0 .. k -> Nat] /\ d[0] = from /\ d[k] \in Nat /\ \A i \in 0 .. k : d[i] = c[i]
  BY <1>1, <1>2
<1>4. ASSUME NEW i \in 1 .. k
      PROVE  IF p[i].req = r THEN d[i] = d[i - 1] + 1 /\ p[i].n = d[i] ELSE d[i] = d[i - 1]
  <2>1. i \in 1 .. Len(q) /\ i - 1 \in 0 .. k /\ i \in 0 .. k
    BY <1>1
  <2>2. p[i] = q[i] /\ d[i] = c[i] /\ d[i - 1] = c[i - 1]
    BY <1>1, <1>3, <2>1
  <2> HIDE DEF d, p
  <2> QED
    BY <1>2, <2>1, <2>2
<1>5. Len(p) = k
  BY <1>1
<1> HIDE DEF d, p
<1>6. Line(p, r, from, Nat)
  BY <1>3, <1>4, <1>5 DEF Line
<1> QED
  BY <1>6 DEF p

LEMMA AppendFrame ==
  ASSUME NEW S, NEW q \in Seq(S), NEW x \in S, NEW r
  PROVE  /\ Carries(Append(q, x), r) => Carries(q, r) \/ x.req = r
         /\ ClosedIn(q, r) /\ (x.req = r => ~Closes(q, r)) => ClosedIn(Append(q, x), r)
         /\ \A kinds, served :
              AllGenuine(q, kinds, served) /\ Genuine(x, kinds) /\ served[x.req] # "no" =>
                AllGenuine(Append(q, x), kinds, served)
<1> DEFINE p == Append(q, x)
<1>1. /\ Len(q) \in Nat /\ Len(p) = Len(q) + 1 /\ p[Len(q) + 1] = x
      /\ \A i \in 1 .. Len(q) : p[i] = q[i]
  BY QueueTypes
<1> HIDE DEF p
<1>2. \A i \in 1 .. Len(p) : i \in 1 .. Len(q) \/ i = Len(q) + 1
  BY <1>1
<1>3. Carries(p, r) => Carries(q, r) \/ x.req = r
  BY <1>1, <1>2 DEF Carries
<1>4. ASSUME ClosedIn(q, r), x.req = r => ~Closes(q, r) PROVE ClosedIn(p, r)
  <2> SUFFICES ASSUME NEW i \in 1 .. Len(p), p[i].req = r, Closing(p[i]),
                      NEW j \in i + 1 .. Len(p)
               PROVE  p[j].req # r
    BY DEF ClosedIn
  <2>1. i \in 1 .. Len(q) /\ p[i] = q[i]
    BY <1>1
  <2>2. CASE j \in i + 1 .. Len(q)
    <3>1. j \in 1 .. Len(q)
      BY <1>1, <2>1, <2>2
    <3> QED
      BY <1>1, <1>4, <2>1, <2>2, <3>1 DEF ClosedIn
  <2>3. CASE j = Len(q) + 1
    BY <1>1, <1>4, <2>1, <2>3 DEF Closes
  <2> QED
    BY <1>1, <2>1, <2>2, <2>3
<1>5. ASSUME NEW kinds, NEW served, AllGenuine(q, kinds, served), Genuine(x, kinds), served[x.req] # "no"
      PROVE  AllGenuine(p, kinds, served)
  BY <1>1, <1>2, <1>5 DEF AllGenuine
<1> QED
  BY <1>3, <1>4, <1>5 DEF p

LEMMA TailFrames ==
  ASSUME NEW S, NEW q \in Seq(S), q # <<>>, NEW r
  PROVE  /\ Carries(Tail(q), r) => Carries(q, r)
         /\ Closes(Tail(q), r) => Closes(q, r)
         /\ Head(q).req = r => Carries(q, r)
         /\ Head(q).req = r /\ Closing(Head(q)) => Closes(q, r)
         /\ ClosedIn(q, r) => ClosedIn(Tail(q), r)
         /\ ClosedIn(q, r) /\ Head(q).req = r /\ Closing(Head(q)) => ~Carries(Tail(q), r)
         /\ \A kinds, served : AllGenuine(q, kinds, served) =>
              /\ AllGenuine(Tail(q), kinds, served)
              /\ Genuine(Head(q), kinds) /\ served[Head(q).req] # "no"
<1> DEFINE p == Tail(q)
<1>1. /\ Len(q) \in Nat \ {0} /\ Head(q) = q[1] /\ Len(p) = Len(q) - 1
      /\ \A i \in 1 .. Len(q) - 1 : p[i] = q[i + 1]
  BY QueueTypes
<1> HIDE DEF p
<1>2. \A i \in 1 .. Len(p) : i + 1 \in 1 .. Len(q) /\ p[i] = q[i + 1]
  BY <1>1
<1>3. 1 \in 1 .. Len(q)
  BY <1>1
<1>4. ASSUME ClosedIn(q, r) PROVE ClosedIn(p, r)
  <2> SUFFICES ASSUME NEW i \in 1 .. Len(p), p[i].req = r, Closing(p[i]),
                      NEW j \in i + 1 .. Len(p)
               PROVE  p[j].req # r
    BY DEF ClosedIn
  <2>1. j \in 1 .. Len(p) /\ j + 1 \in (i + 1) + 1 .. Len(q)
    BY <1>1
  <2> QED
    BY <1>2, <1>4, <2>1 DEF ClosedIn
<1>5. ASSUME ClosedIn(q, r), Head(q).req = r, Closing(Head(q)), NEW i \in 1 .. Len(p) PROVE p[i].req # r
  <2>1. i + 1 \in 1 + 1 .. Len(q)
    BY <1>1
  <2> QED
    BY <1>1, <1>2, <1>3, <1>5, <2>1 DEF ClosedIn
<1>6. Carries(p, r) => Carries(q, r)
  BY <1>2 DEF Carries
<1>7. Closes(p, r) => Closes(q, r)
  BY <1>2 DEF Closes
<1>8. ASSUME NEW kinds, NEW served, AllGenuine(q, kinds, served)
      PROVE  /\ AllGenuine(p, kinds, served)
             /\ Genuine(Head(q), kinds) /\ served[Head(q).req] # "no"
  BY <1>1, <1>2, <1>3, <1>8 DEF AllGenuine
<1>9. ClosedIn(q, r) /\ Head(q).req = r /\ Closing(Head(q)) => ~Carries(p, r)
  BY <1>5 DEF Carries
<1>10. (Head(q).req = r => Carries(q, r)) /\ (Head(q).req = r /\ Closing(Head(q)) => Closes(q, r))
  BY <1>1, <1>3 DEF Carries, Closes
<1> QED
  BY <1>4, <1>6, <1>7, <1>8, <1>9, <1>10 DEF p

LEMMA PrefixFrames ==
  ASSUME NEW S, NEW q \in Seq(S), NEW k \in 0 .. Len(q), NEW r
  PROVE  /\ Carries(SubSeq(q, 1, k), r) => Carries(q, r)
         /\ Closes(SubSeq(q, 1, k), r) => Closes(q, r)
         /\ ClosedIn(q, r) => ClosedIn(SubSeq(q, 1, k), r)
         /\ \A kinds, served :
              AllGenuine(q, kinds, served) => AllGenuine(SubSeq(q, 1, k), kinds, served)
<1> DEFINE p == SubSeq(q, 1, k)
<1>1. Len(p) = k /\ Len(q) \in Nat /\ \A i \in 1 .. k : p[i] = q[i]
  BY QueueTypes
<1> HIDE DEF p
<1>2. \A i \in 1 .. Len(p) : i \in 1 .. Len(q) /\ p[i] = q[i]
  BY <1>1
<1>3. \A i, j \in 1 .. Len(p) : j \in i + 1 .. Len(p) => j \in i + 1 .. Len(q)
  BY <1>1
<1>4. \A i \in 1 .. Len(p) : \A j \in i + 1 .. Len(p) : j \in 1 .. Len(p)
  BY <1>1
<1>5. ClosedIn(q, r) => ClosedIn(p, r)
  BY <1>2, <1>3, <1>4 DEF ClosedIn
<1>6. (Carries(p, r) => Carries(q, r)) /\ (Closes(p, r) => Closes(q, r))
  BY <1>2 DEF Carries, Closes
<1>7. \A kinds, served : AllGenuine(q, kinds, served) => AllGenuine(p, kinds, served)
  BY <1>2 DEF AllGenuine
<1> QED
  BY <1>5, <1>6, <1>7 DEF p

LEMMA StreamParts ==
  ASSUME Basic
  PROVE  /\ requests \in Seq(Requests \cup {Torn}) /\ Torn \notin Requests
         /\ caller \in [Requests -> {"new"} \cup Waiting \cup Done] /\ pending \subseteq Requests
         /\ serve \in [Requests -> {"no", "inline", "spawned", "refused", "done"}]
         /\ sent \in [Requests -> Nat]
         /\ handler \in [st : {"read", "busy", "ended"}, req : Requests \cup {Torn}]
         /\ reader \in [st : {"read", "send", "remove", "ended"}, frame : FrameType]
         /\ chan \in [Requests -> Seq(FrameType)] /\ got \in [Requests -> Seq(FrameType)]
         /\ Coming \in Seq(FrameType)
         /\ \A r \in Requests : /\ Reached(r) \in Nat /\ chan[r] \in Seq(FrameType)
                                /\ Len(chan[r]) \in Nat /\ Len(got[r]) \in Nat
<1>0. chan \in [Requests -> Seq(FrameType)] /\ got \in [Requests -> Seq(FrameType)]
  BY DEF Basic, TypeOK
<1>1. sent \in [Requests -> Nat]
  <2>1. sent \in [Requests -> 0 .. 3] /\ 0 .. 3 \subseteq Nat
    BY DEF Basic, TypeOK
  <2> QED
    BY <2>1
<1>2. ASSUME NEW r \in Requests PROVE chan[r] \in Seq(FrameType) /\ Len(chan[r]) \in Nat /\ Len(got[r]) \in Nat
  BY <1>0
<1>3. ASSUME NEW r \in Requests PROVE Reached(r) \in Nat
  <2> DEFINE m == Len(got[r])
             n == Len(chan[r])
  <2>1. m \in Nat /\ n \in Nat
    BY <1>2
  <2>2. Reached(r) = m + n + 1 \/ Reached(r) = m + n + 0
    BY DEF Reached
  <2> HIDE DEF m, n
  <2> QED
    BY <2>1, <2>2
<1> QED
  BY <1>0, <1>1, <1>2, <1>3, ComingType, Constants DEF Basic, TypeOK

(* Requests are taken up on the server, or given up there without an answer. *)
LEMMA ServedOn ==
  ASSUME Basic, StreamInv, UNCHANGED <<kind, caller, pending, chan, got, reader, sent, up, wire, out>>,
         \A r \in Requests : serve'[r] # serve[r] => serve[r] # "done" /\ serve'[r] # "no"
  PROVE  StreamInv'
<1>1. Coming' = Coming /\ (up' <=> up)
  BY DEF Coming
<1>2. \A r \in Requests : Issued(r) \subseteq Issued(r)'
  BY <1>1, StreamParts DEF Issued
<1>3. \A r \in Requests : Reached(r)' = Reached(r) /\ (Live(r)' <=> Live(r))
  BY DEF Reached, Live
<1>4. FrameInv'
  BY <1>1 DEF StreamInv, FrameInv, AllGenuine, Genuine
<1>5. ASSUME NEW r \in Requests, Live(r)' PROVE InOrder(r)' /\ ClosedLast(r)'
  <2>1. InOrder(r) /\ ClosedLast(r)
    BY <1>3, <1>5 DEF StreamInv
  <2>2. Line(Coming', r, Reached(r)', Issued(r)')
    BY <1>1, <1>2, <1>3, <2>1, LineEnds DEF InOrder
  <2>3. InOrder(r)'
    BY <2>1, <2>2 DEF InOrder
  <2>4. ClosedLast(r)'
    BY <1>1, <2>1 DEF ClosedLast
  <2> QED
    BY <2>3, <2>4
<1> QED
  BY <1>4, <1>5 DEF StreamInv

(* The frame that a serving step sends. *)
LEMMA Emitted ==
  ASSUME Basic, NEW q \in Requests, EmitFrame(q) \/ EmitError(q)
  PROVE  \E frame \in FrameType :
           /\ Coming' = Append(Coming, frame) /\ frame.req = q /\ frame.n = sent[q] + 1
           /\ Genuine(frame, kind) /\ (Closing(frame) => serve'[q] = "done")
           /\ up /\ up' /\ UNCHANGED <<kind, clientVars>>
           /\ serve[q] \notin {"no", "done"} /\ serve'[q] \in {serve[q], "done"}
           /\ sent[q] + 1 \in {sent'[q]} \/ (serve'[q] = "done" /\ sent'[q] = sent[q])
           /\ \A r \in Requests : r # q => serve'[r] = serve[r] /\ sent'[r] = sent[r]
<1>1. /\ kind[q] \in DOMAIN Answer /\ sent \in [Requests -> Nat]
      /\ serve \in [Requests -> {"no", "inline", "spawned", "refused", "done"}]
  BY StreamParts, Constants DEF Basic, TypeOK
<1>2. CASE EmitFrame(q)
  <2> DEFINE frame == Frame(q, sent[q] + 1)
  <2>1. /\ frame \in FrameType /\ frame.req = q /\ frame.n = sent[q] + 1
        /\ frame.kind = Answer[kind[q]][sent[q] + 1] /\ sent[q] + 1 \in 1 .. Len(Answer[kind[q]])
    BY <1>2, FramesTyped DEF EmitFrame, Frame
  <2>2. /\ out' = Append(out, frame) /\ up /\ up' /\ UNCHANGED <<wire, kind, clientVars>>
        /\ serve[q] \in {"inline", "spawned"} /\ sent' = [sent EXCEPT ![q] = sent[q] + 1]
        /\ IF sent[q] + 1 = Len(Answer[kind[q]]) THEN serve' = [serve EXCEPT ![q] = "done"] ELSE serve' = serve
    BY <1>1, <1>2 DEF EmitFrame, Answered
  <2>3. /\ frame.kind \in FrameKinds
        /\ frame.kind = "final" <=> sent[q] + 1 = Len(Answer[kind[q]])
    BY <1>1, <2>1, AnswerShape
  <2> HIDE DEF frame
  <2>4. Closing(frame) => serve'[q] = "done"
    BY <1>1, <2>2, <2>3 DEF Closing, FrameKinds
  <2>5. Genuine(frame, kind)
    BY <2>1 DEF Genuine
  <2>6. Coming' = Append(Coming, frame)
    BY <2>1, <2>2, ComingEmitted
  <2>7. /\ serve'[q] \in {serve[q], "done"} /\ sent'[q] = sent[q] + 1
        /\ \A r \in Requests : r # q => serve'[r] = serve[r] /\ sent'[r] = sent[r]
    BY <1>1, <2>2
  <2> QED
    BY <2>1, <2>2, <2>4, <2>5, <2>6, <2>7
<1>3. CASE EmitError(q)
  <2> DEFINE frame == ErrorFrame(q)
  <2>1. frame \in FrameType /\ frame.req = q /\ frame.n = sent[q] + 1 /\ frame.kind = "error"
    BY FramesTyped DEF ErrorFrame
  <2>2. /\ out' = Append(out, frame) /\ up /\ up' /\ UNCHANGED <<wire, kind, clientVars, sent>>
        /\ serve[q] \in {"inline", "spawned", "refused"} /\ serve' = [serve EXCEPT ![q] = "done"]
    BY <1>3 DEF EmitError, Answered, Serving
  <2> HIDE DEF frame
  <2>3. Genuine(frame, kind)
    BY <2>1 DEF Genuine
  <2>4. Coming' = Append(Coming, frame)
    BY <2>1, <2>2, ComingEmitted
  <2>5. serve'[q] = "done" /\ \A r \in Requests : r # q => serve'[r] = serve[r]
    BY <1>1, <2>2
  <2> QED
    BY <2>1, <2>2, <2>3, <2>4, <2>5
<1> QED
  BY <1>2, <1>3

LEMMA EmittedStream ==
  ASSUME Basic, StreamInv, NEW q \in Requests, EmitFrame(q) \/ EmitError(q) PROVE StreamInv'
<1>1. PICK frame \in FrameType :
           /\ Coming' = Append(Coming, frame) /\ frame.req = q /\ frame.n = sent[q] + 1
           /\ Genuine(frame, kind) /\ (Closing(frame) => serve'[q] = "done")
           /\ up /\ up' /\ UNCHANGED <<kind, clientVars>>
           /\ serve[q] \notin {"no", "done"} /\ serve'[q] \in {serve[q], "done"}
           /\ sent[q] + 1 \in {sent'[q]} \/ (serve'[q] = "done" /\ sent'[q] = sent[q])
           /\ \A r \in Requests : r # q => serve'[r] = serve[r] /\ sent'[r] = sent[r]
  BY Emitted
<1>2. Coming \in Seq(FrameType) /\ sent \in [Requests -> Nat] /\ UNCHANGED <<caller, pending, chan, got, reader>>
  BY <1>1, StreamParts DEF clientVars
<1>3. \A r \in Requests : serve[r] # "no" => serve'[r] # "no"
  BY <1>1
<1>4. \A r \in Requests : Reached(r)' = Reached(r) /\ (Live(r)' <=> Live(r)) /\ Reached(r) \in Nat
  BY <1>2, StreamParts DEF Reached, Live
<1>5. FrameInv'
  <2>1. AllGenuine(Coming, kind, serve')
    BY <1>3 DEF StreamInv, FrameInv, AllGenuine, Genuine
  <2>2. AllGenuine(Coming', kind, serve')
    BY <1>1, <1>2, <2>1, AppendFrame
  <2>3. UNCHANGED <<kind, chan, reader>>
    BY <1>1, <1>2
  <2>4. reader.st \in {"send", "remove"} =>
          Genuine(reader.frame, kind) /\ serve'[reader.frame.req] # "no"
    BY <1>3 DEF StreamInv, FrameInv, Genuine
  <2>5. \A r \in Requests : \A i \in 1 .. Len(chan[r]) :
          Genuine(chan[r][i], kind) /\ chan[r][i].req = r
    BY DEF StreamInv, FrameInv
  <2> QED
    BY <2>2, <2>3, <2>4, <2>5 DEF FrameInv
<1>6. ASSUME NEW r \in Requests, Live(r)' PROVE InOrder(r)' /\ ClosedLast(r)'
  <2>1. InOrder(r) /\ ClosedLast(r) /\ Line(Coming, r, Reached(r), Issued(r))
    BY <1>4, <1>6 DEF StreamInv, InOrder
  <2>2. CASE r = q
    <3>1. Issued(r) = {sent[q]} /\ sent[q] \in Nat
      BY <1>1, <1>2, <2>2 DEF Issued
    <3>2. Line(Append(Coming, frame), r, Reached(r), {sent[q] + 1})
      BY <1>1, <1>2, <1>4, <2>1, <2>2, <3>1, LineAppend
    <3>3. {sent[q] + 1} \subseteq Issued(r)'
      BY <1>1, <2>2 DEF Issued
    <3>4. Line(Coming', r, Reached(r)', Issued(r)')
      BY <1>1, <1>4, <3>2, <3>3, LineEnds
    <3>5. InOrder(r)'
      BY <1>2, <2>1, <3>4 DEF InOrder
    <3>6. ~Closes(Coming, r) /\ ~Closes(chan[r], r)
          /\ ~(reader.st \in {"send", "remove"} /\ reader.frame.req = r /\ Closing(reader.frame))
      BY <1>1, <2>1, <2>2 DEF ClosedLast
    <3>7. ClosedIn(Coming', r)
      BY <1>1, <1>2, <2>1, <3>6, AppendFrame DEF ClosedLast
    <3>8. Closes(Coming', r) => serve'[r] = "done"
      BY <1>1, <1>2, <2>2, <3>6, QueueChanges
    <3>9. ClosedLast(r)'
      BY <1>2, <2>1, <3>6, <3>7, <3>8 DEF ClosedLast
    <3> QED
      BY <3>5, <3>9
  <2>3. CASE r # q
    <3>1. Issued(r)' = Issued(r)
      BY <1>1, <2>3 DEF Issued
    <3>2. Line(Coming', r, Reached(r)', Issued(r)')
      BY <1>1, <1>2, <1>4, <2>1, <2>3, <3>1, LineAppend
    <3>3. InOrder(r)'
      BY <1>2, <2>1, <3>2 DEF InOrder
    <3>4. /\ ClosedIn(Coming', r) /\ (Closes(Coming', r) => Closes(Coming, r))
          /\ (Carries(Coming', r) => Carries(Coming, r)) /\ serve'[r] = serve[r]
      BY <1>1, <1>2, <2>1, <2>3, AppendFrame, QueueChanges DEF ClosedLast
    <3>5. ClosedLast(r)'
      BY <1>2, <2>1, <3>4 DEF ClosedLast
    <3> QED
      BY <3>3, <3>5
  <2> QED
    BY <2>2, <2>3
<1> QED
  BY <1>5, <1>6 DEF StreamInv

(* The writer task, and what a break leaves of the frames on their way. *)
LEMMA WireStream == ASSUME Basic, StreamInv, WriteOut \/ ServerCloses \/ Break PROVE StreamInv'
<1>1. UNCHANGED <<kind, caller, pending, chan, got, reader, serve, sent>>
  BY DEF WriteOut, ServerCloses, Break, clientVars, serverVars
<1>2. Coming \in Seq(FrameType)
  BY StreamParts
<1>3. \/ Coming' = Coming /\ (up' <=> up)
      \/ ~up' /\ \E k \in 0 .. Len(Coming) : Coming' = SubSeq(Coming, 1, k)
  BY ComingWritten, ComingBreaks DEF WriteOut, ServerCloses, Break
<1>4. AllGenuine(Coming', kind, serve)
  <2>1. AllGenuine(Coming, kind, serve)
    BY DEF StreamInv, FrameInv
  <2>2. ASSUME NEW k \in 0 .. Len(Coming) PROVE AllGenuine(SubSeq(Coming, 1, k), kind, serve)
    BY <1>2, <2>1, PrefixFrames
  <2> QED
    BY <1>3, <2>1, <2>2
<1>5. FrameInv'
  BY <1>1, <1>4 DEF StreamInv, FrameInv
<1>6. ASSUME NEW r \in Requests, Live(r)' PROVE InOrder(r)' /\ ClosedLast(r)'
  <2>1. /\ InOrder(r) /\ ClosedLast(r) /\ Line(Coming, r, Reached(r), Issued(r))
        /\ Reached(r)' = Reached(r)
    BY <1>1, <1>6 DEF StreamInv, InOrder, Live, Reached
  <2>2. Line(Coming', r, Reached(r)', Issued(r)')
    <3>1. CASE Coming' = Coming /\ (up' <=> up)
      <4>1. Issued(r)' = Issued(r)
        BY <1>1, <3>1 DEF Issued
      <4> QED
        BY <2>1, <3>1, <4>1
    <3>2. CASE ~up' /\ \E k \in 0 .. Len(Coming) : Coming' = SubSeq(Coming, 1, k)
      <4>1. Issued(r)' = Nat
        BY <3>2 DEF Issued
      <4> QED
        BY <1>2, <2>1, <3>2, <4>1, LinePrefix
    <3> QED
      BY <1>3, <3>1, <3>2
  <2>3. /\ ClosedIn(Coming', r) /\ (Closes(Coming', r) => Closes(Coming, r))
        /\ Carries(Coming', r) => Carries(Coming, r)
    BY <1>2, <1>3, <2>1, PrefixFrames DEF ClosedLast
  <2>4. InOrder(r)'
    BY <1>1, <2>1, <2>2 DEF InOrder
  <2>5. ClosedLast(r)'
    BY <1>1, <2>1, <2>3 DEF ClosedLast
  <2> QED
    BY <2>4, <2>5
<1> QED
  BY <1>5, <1>6 DEF StreamInv

LEMMA ReadFrameStream == ASSUME Basic, StreamInv, ReadFrame PROVE StreamInv'
<1> DEFINE frame == Head(wire)
<1>1. /\ UNCHANGED <<kind, caller, pending, chan, got, serve, sent>> /\ (up' <=> up)
      /\ reader.st = "read"
      /\ reader' = IF frame.req \in pending THEN [st |-> "send", frame |-> frame] ELSE reader
  BY DEF ReadFrame, serverVars
<1>2. /\ Coming \in Seq(FrameType) /\ Coming # <<>> /\ Head(Coming) = frame
      /\ Coming' = Tail(Coming)
  BY ComingRead, StreamParts
<1>3. /\ Genuine(frame, kind) /\ serve[frame.req] # "no" /\ frame.req \in Requests
      /\ AllGenuine(Coming', kind, serve)
  <2>1. AllGenuine(Coming, kind, serve)
    BY DEF StreamInv, FrameInv
  <2>2. /\ AllGenuine(Tail(Coming), kind, serve)
        /\ Genuine(Head(Coming), kind) /\ serve[Head(Coming).req] # "no"
    BY <1>2, <2>1, TailFrames
  <2> HIDE DEF frame
  <2> QED
    BY <1>2, <2>2 DEF Genuine
<1> HIDE DEF frame
<1>4. FrameInv'
  BY <1>1, <1>3 DEF StreamInv, FrameInv
<1>5. ASSUME NEW r \in Requests, Live(r)' PROVE InOrder(r)' /\ ClosedLast(r)'
  <2>1. /\ InOrder(r) /\ ClosedLast(r) /\ Line(Coming, r, Reached(r), Issued(r))
        /\ Issued(r)' = Issued(r) /\ Reached(r) = Len(got[r]) + Len(chan[r]) /\ Reached(r) \in Nat
        /\ Len(got[r]) + Len(chan[r]) \in Nat
    <3>1. Reached(r) = Len(got[r]) + Len(chan[r]) + 0
      BY <1>1 DEF Reached
    <3>2. Len(got[r]) \in Nat /\ Len(chan[r]) \in Nat /\ Reached(r) \in Nat
      BY StreamParts
    <3>3. Reached(r) = Len(got[r]) + Len(chan[r]) /\ Len(got[r]) + Len(chan[r]) \in Nat
      <4> DEFINE m == Len(got[r])
                 n == Len(chan[r])
      <4>1. m \in Nat /\ n \in Nat /\ Reached(r) = m + n + 0
        BY <3>1, <3>2
      <4> HIDE DEF m, n
      <4>2. Reached(r) = m + n /\ m + n \in Nat
        BY <4>1
      <4> QED
        BY <4>2 DEF m, n
    <3> QED
      BY <1>1, <1>5, <3>2, <3>3 DEF StreamInv, InOrder, Live, Issued
  <2>2. ClosedIn(Coming', r) /\ (Closes(Coming', r) => Closes(Coming, r))
        /\ (Carries(Coming', r) => Carries(Coming, r))
    BY <1>2, <2>1, TailFrames DEF ClosedLast
  <2>3. CASE frame.req = r
    <3>1. Carries(Coming, r)
      BY <1>2, <2>3, TailFrames
    <3>2. ~Closes(chan[r], r)
      BY <2>1, <3>1 DEF ClosedLast
    <3>3. r \in pending
      <4>1. caller[r] # "new"
        BY <1>3, <2>3 DEF Basic, OnceInv
      <4>2. caller[r] \in Waiting
        BY <1>1, <1>5, <4>1 DEF Live
      <4> QED
        BY <1>1, <2>1, <3>2, <4>2 DEF ClosedLast
    <3>4. reader'.st = "send" /\ reader'.frame = frame
      BY <1>1, <2>3, <3>3
    <3>5. frame.n = Reached(r) + 1 /\ Line(Coming', r, Reached(r) + 1, Issued(r))
      BY <1>2, <2>1, <2>3, LineTail
    <3>6. Reached(r)' = Reached(r) + 1
      BY <1>1, <2>1, <2>3, <3>4 DEF Reached
    <3>7. InOrder(r)'
      BY <1>1, <2>1, <3>4, <3>5, <3>6 DEF InOrder
    <3>8. Closing(frame) => serve[r] = "done" /\ ~Carries(Coming', r)
      BY <1>2, <2>1, <2>3, TailFrames DEF ClosedLast
    <3>9. ClosedLast(r)'
      BY <1>1, <2>1, <2>2, <3>2, <3>3, <3>4, <3>8 DEF ClosedLast
    <3> QED
      BY <3>7, <3>9
  <2>4. CASE frame.req # r
    <3>1. /\ ~(reader'.st \in {"send", "remove"} /\ reader'.frame.req = r)
          /\ reader'.st # "ended"
      BY <1>1, <2>4
    <3>2. Reached(r)' = Reached(r)
      BY <1>1, <3>1 DEF Reached
    <3>3. Line(Coming', r, Reached(r)', Issued(r)')
      BY <1>2, <2>1, <2>4, <3>2, LineTail
    <3>4. InOrder(r)'
      BY <1>1, <2>1, <3>1, <3>3 DEF InOrder
    <3>5. ClosedLast(r)'
      BY <1>1, <2>1, <2>2, <3>1 DEF ClosedLast
    <3> QED
      BY <3>4, <3>5
  <2> QED
    BY <2>3, <2>4
<1> QED
  BY <1>4, <1>5 DEF StreamInv

(* A channel with a frame behind the others. *)
LEMMA DeliverStream == ASSUME Basic, StreamInv, Deliver PROVE StreamInv'
<1> DEFINE frame == reader.frame
           q == reader.frame.req
<1>1. /\ UNCHANGED <<kind, caller, pending, got, serve, sent, up, wire, out>> /\ (up' <=> up)
      /\ reader.st = "send"
      /\ IF Closing(frame) THEN reader'.st = "remove" /\ reader'.frame = frame
                           ELSE reader'.st = "read"
  BY StreamParts DEF Deliver, serverVars, FinalFrame, Closing
<1>2. /\ Genuine(frame, kind) /\ serve[q] # "no" /\ q \in Requests /\ frame \in FrameType
      /\ Coming' = Coming /\ Coming \in Seq(FrameType)
  BY <1>1, StreamParts DEF StreamInv, FrameInv, Genuine, Coming
<1>3. /\ (caller[q] \in Done /\ chan' = chan) \/ chan' = [chan EXCEPT ![q] = Append(chan[q], frame)]
      /\ caller[q] \in Waiting \/ chan' = chan
  BY DEF Deliver
<1>4. /\ Len(chan[q]) \in Nat /\ Len(Append(chan[q], frame)) = Len(chan[q]) + 1
      /\ Append(chan[q], frame)[Len(chan[q]) + 1] = frame
      /\ \A i \in 1 .. Len(chan[q]) : Append(chan[q], frame)[i] = chan[q][i]
      /\ \A i \in 1 .. Len(chan[q]) + 1 : i \in 1 .. Len(chan[q]) \/ i = Len(chan[q]) + 1
  BY <1>2, StreamParts, QueueTypes
<1>5. /\ chan \in [Requests -> Seq(FrameType)]
      /\ \A r \in Requests : r # q => chan'[r] = chan[r]
  BY <1>3, StreamParts
<1> HIDE DEF frame, q
<1>6. FrameInv'
  <2>1. ASSUME NEW r \in Requests, NEW i \in 1 .. Len(chan'[r])
        PROVE  Genuine(chan'[r][i], kind) /\ chan'[r][i].req = r
    <3>1. CASE chan'[r] = chan[r]
      BY <2>1, <3>1 DEF StreamInv, FrameInv
    <3>2. CASE chan'[r] # chan[r]
      <4>1. r = q /\ chan'[r] = Append(chan[q], frame)
        BY <1>2, <1>3, <1>5, <3>2
      <4>2. frame.req = q
        BY DEF frame, q
      <4> QED
        BY <1>2, <1>4, <2>1, <4>1, <4>2 DEF StreamInv, FrameInv
    <3> QED
      BY <3>1, <3>2
  <2>2. reader'.st \in {"send", "remove"} => Genuine(reader'.frame, kind) /\ serve[reader'.frame.req] # "no"
    BY <1>1, <1>2 DEF frame, q
  <2> QED
    BY <1>1, <1>2, <2>1, <2>2 DEF StreamInv, FrameInv
<1>7. ASSUME NEW r \in Requests, Live(r)' PROVE InOrder(r)' /\ ClosedLast(r)'
  <2>1. /\ InOrder(r) /\ ClosedLast(r) /\ Line(Coming, r, Reached(r), Issued(r))
        /\ Issued(r)' = Issued(r) /\ (Live(r)' <=> Live(r))
    BY <1>1, <1>7 DEF StreamInv, InOrder, Live, Issued
  <2>2. Len(chan[r]) \in Nat /\ Len(got[r]) \in Nat
    BY StreamParts
  <2>3. CASE r = q
    <3>0. /\ reader.st = "send" /\ reader.frame.req = r /\ frame = reader.frame
      BY <1>1, <2>3 DEF frame, q
    <3>1. chan'[r] = Append(chan[r], frame)
      <4>1. caller[r] \notin Done
        BY <1>1, <1>7 DEF Live, Waiting, Done
      <4> QED
        BY <1>3, <1>5, <2>3, <4>1
    <3>2. Len(chan'[r]) = Len(chan[r]) + 1 /\ frame.n = Len(got[r]) + Len(chan[r]) + 1
      BY <1>4, <2>1, <2>3, <3>0, <3>1 DEF InOrder
    <3>3. Reached(r)' = Reached(r)
      <4>1. Reached(r) = Len(got[r]) + Len(chan[r]) + 1
        BY <3>0 DEF Reached
      <4>2. Reached(r)' = Len(got[r]) + Len(chan'[r]) + 0
        BY <1>1 DEF Reached
      <4> DEFINE m == Len(got[r])
                 n == Len(chan[r])
      <4>3. m \in Nat /\ n \in Nat /\ Reached(r) = m + n + 1 /\ Reached(r)' = m + (n + 1) + 0
        BY <2>2, <3>2, <4>1, <4>2
      <4> HIDE DEF m, n
      <4> QED
        BY <4>3
    <3>4. ASSUME NEW i \in 1 .. Len(chan'[r]) PROVE chan'[r][i].n = Len(got[r]) + i
      <4> DEFINE m == Len(got[r])
                 n == Len(chan[r])
      <4>1. /\ m \in Nat /\ n \in Nat /\ i \in 1 .. n + 1 /\ frame.n = m + n + 1
            /\ chan'[r][n + 1] = frame /\ \A j \in 1 .. n : chan'[r][j] = chan[r][j]
        BY <1>4, <2>2, <2>3, <3>1, <3>2, <3>4
      <4>2. \A j \in 1 .. n : chan[r][j].n = m + j
        BY <2>1 DEF InOrder
      <4> HIDE DEF m, n
      <4>3. frame.n = m + (n + 1) /\ (i \in 1 .. n \/ i = n + 1)
        BY <4>1
      <4>4. chan'[r][i].n = m + i
        BY <4>1, <4>2, <4>3
      <4> QED
        BY <4>4 DEF m
    <3>5. InOrder(r)'
      BY <1>1, <1>2, <2>1, <3>3, <3>4 DEF InOrder
    <3>6. /\ Closes(chan'[r], r) => Closes(chan[r], r) \/ Closing(frame)
          /\ Closing(frame) => Closes(chan'[r], r)
      <4>1. chan[r] \in Seq(FrameType) /\ frame \in FrameType /\ frame.req = r
        BY <1>2, <3>0, StreamParts
      <4>2. Closes(Append(chan[r], frame), r) <=> Closes(chan[r], r) \/ (frame.req = r /\ Closing(frame))
        BY <4>1, QueueChanges
      <4> QED
        BY <3>1, <4>1, <4>2
    <3>7. Closing(frame) => serve[r] = "done" /\ ~Carries(Coming, r)
      BY <2>1, <3>0 DEF ClosedLast
    <3>8. ~Closes(chan[r], r)
      BY <2>1, <3>0 DEF ClosedLast
    <3>9. reader'.st \in {"read", "remove"} /\ (reader'.st = "remove" => Closing(frame) /\ reader'.frame = frame)
      BY <1>1
    <3>10. caller[r] \in Waiting => r \in pending
      BY <2>1, <3>0, <3>8 DEF ClosedLast
    <3>11. ClosedLast(r)'
      BY <1>1, <1>2, <2>1, <3>0, <3>6, <3>7, <3>8, <3>9, <3>10 DEF ClosedLast
    <3> QED
      BY <3>5, <3>11
  <2>4. CASE r # q
    <3>1. /\ chan'[r] = chan[r] /\ reader.frame.req # r
          /\ reader'.st # "send" /\ reader'.st # "ended"
          /\ ~(reader'.st \in {"send", "remove"} /\ reader'.frame.req = r)
      BY <1>1, <1>5, <2>4 DEF frame, q
    <3>2. Reached(r)' = Reached(r)
      BY <1>1, <3>1 DEF Reached
    <3>3. InOrder(r)'
      BY <1>1, <1>2, <2>1, <3>1, <3>2 DEF InOrder
    <3>4. ClosedLast(r)'
      BY <1>1, <1>2, <2>1, <3>1 DEF ClosedLast
    <3> QED
      BY <3>3, <3>4
  <2> QED
    BY <2>3, <2>4
<1> QED
  BY <1>6, <1>7 DEF StreamInv

LEMMA RemoveStream == ASSUME Basic, StreamInv, RemoveFinished \/ ReaderEnds PROVE StreamInv'
<1>1. /\ UNCHANGED <<kind, caller, chan, got, serve, sent, up, wire, out>> /\ (up' <=> up)
      /\ reader.st # "send" /\ reader'.st \in {"read", "ended"}
      /\ \/ reader.st = "remove" /\ pending' = pending \ {reader.frame.req}
         \/ reader'.st = "ended"
  BY DEF RemoveFinished, ReaderEnds, serverVars
<1>2. Coming' = Coming
  BY <1>1 DEF Coming
<1>3. FrameInv'
  BY <1>1, <1>2 DEF StreamInv, FrameInv
<1>4. ASSUME NEW r \in Requests, Live(r)' PROVE InOrder(r)' /\ ClosedLast(r)'
  <2>1. /\ InOrder(r) /\ ClosedLast(r) /\ Line(Coming, r, Reached(r), Issued(r))
        /\ Issued(r)' = Issued(r) /\ Reached(r)' = Reached(r)
    BY <1>1, <1>4 DEF StreamInv, InOrder, Live, Issued, Reached
  <2>2. InOrder(r)'
    BY <1>1, <1>2, <2>1 DEF InOrder
  <2>3. ClosedLast(r)'
    BY <1>1, <1>2, <2>1 DEF ClosedLast
  <2> QED
    BY <2>2, <2>3
<1> QED
  BY <1>3, <1>4 DEF StreamInv

(* A request whose frames stay where they are. *)
LEMMA StreamKept ==
  ASSUME NEW r \in Requests, InOrder(r), ClosedLast(r),
         UNCHANGED <<reader, serve, sent, up, wire, out>>,
         chan'[r] = chan[r], got'[r] = got[r],
         caller'[r] \in Waiting => caller[r] \in Waiting,
         r \in pending => r \in pending'
  PROVE  InOrder(r)' /\ ClosedLast(r)'
<1>1. Coming' = Coming /\ Issued(r)' = Issued(r) /\ Reached(r)' = Reached(r)
  BY DEF Coming, Issued, Reached
<1>2. InOrder(r)'
  BY <1>1 DEF InOrder
<1>3. ClosedLast(r)'
  BY <1>1 DEF ClosedLast
<1> QED
  BY <1>2, <1>3

(* The call of q ends without another frame. *)
LEMMA EndedStream ==
  ASSUME Basic, StreamInv, NEW q \in Requests,
         UNCHANGED <<kind, got, reader, serve, sent, up, wire, out>>,
         NEW s \in Done, caller' = [caller EXCEPT ![q] = s],
         chan' = chan \/ chan' = [chan EXCEPT ![q] = <<>>],
         pending' = pending \/ pending' = pending \ {q}
  PROVE  StreamInv'
<1>1. Coming' = Coming /\ caller'[q] = s /\ chan'[q] \in {chan[q], <<>>}
  BY StreamParts DEF Coming
<1>2. \A r \in Requests : r # q =>
        caller'[r] = caller[r] /\ chan'[r] = chan[r] /\ (r \in pending => r \in pending')
  BY StreamParts
<1>3. FrameInv'
  <2>1. \A r \in Requests : chan'[r] = chan[r] \/ chan'[r] = <<>>
    BY <1>1, <1>2
  <2>2. \A r \in Requests : \A i \in 1 .. Len(chan'[r]) : chan'[r] = chan[r]
    BY <2>1
  <2>3. \A r \in Requests : \A i \in 1 .. Len(chan'[r]) : Genuine(chan'[r][i], kind) /\ chan'[r][i].req = r
    BY <2>2 DEF StreamInv, FrameInv
  <2> QED
    BY <1>1, <2>3 DEF StreamInv, FrameInv
<1>4. ASSUME NEW r \in Requests, Live(r)' PROVE InOrder(r)' /\ ClosedLast(r)'
  <2>1. r # q
    BY <1>1, <1>4 DEF Live, Done, Waiting
  <2>2. InOrder(r) /\ ClosedLast(r)
    BY <1>2, <1>4, <2>1 DEF StreamInv, Live
  <2> QED
    BY <1>2, <2>1, <2>2, StreamKept
<1> QED
  BY <1>3, <1>4 DEF StreamInv

(* The call of q begins, or its request is written. *)
LEMMA BegunStream == ASSUME Basic, StreamInv, NEW q \in Requests, Insert(q) \/ Write(q) PROVE StreamInv'
<1>1. UNCHANGED <<kind, got, chan, reader, serve, sent, up, wire, out>>
  BY DEF Insert, Write, serverVars
<1>2. FrameInv'
  <2>1. Coming' = Coming
    BY <1>1 DEF Coming
  <2> QED
    BY <1>1, <2>1 DEF StreamInv, FrameInv
<1>3. CASE Insert(q)
  <2>1. /\ caller[q] = "new" /\ caller' = [caller EXCEPT ![q] = "inserted"]
        /\ pending' = pending \cup {q}
    BY <1>3 DEF Insert
  <2>2. serve[q] = "no"
    BY <2>1 DEF Basic, OnceInv
  <2>3. ~(reader.st \in {"send", "remove"} /\ reader.frame.req = q)
    BY <2>2 DEF StreamInv, FrameInv
  <2>4. ASSUME NEW r \in Requests, Live(r)' PROVE InOrder(r)' /\ ClosedLast(r)'
    <3>1. caller[r] = caller'[r] \/ (r = q /\ caller[r] = "new")
      BY <2>1, StreamParts
    <3>2. r \in pending => r \in pending'
      BY <2>1
    <3>3. CASE r # q
      BY <1>1, <2>1, <2>4, <3>1, <3>2, <3>3, StreamKept DEF StreamInv, Live
    <3>4. CASE r = q
      <4>1. InOrder(r) /\ ClosedLast(r)
        BY <2>1, <3>4 DEF StreamInv, Live
      <4>2. Coming' = Coming /\ Issued(r)' = Issued(r) /\ Reached(r)' = Reached(r)
        BY <1>1 DEF Coming, Issued, Reached
      <4>3. InOrder(r)'
        BY <1>1, <4>1, <4>2 DEF InOrder
      <4>4. ClosedLast(r)'
        BY <1>1, <2>1, <2>3, <3>4, <4>1, <4>2 DEF ClosedLast
      <4> QED
        BY <4>3, <4>4
    <3> QED
      BY <3>3, <3>4
  <2> QED
    BY <1>2, <2>4 DEF StreamInv
<1>4. CASE Write(q) /\ caller'[q] # "unwritten"
  <2>1. /\ caller[q] = "inserted" /\ caller' = [caller EXCEPT ![q] = "written"]
        /\ pending' = pending
    BY <1>4, StreamParts DEF Write
  <2>2. ASSUME NEW r \in Requests, Live(r)' PROVE InOrder(r)' /\ ClosedLast(r)'
    <3>1. caller[r] = caller'[r] \/ caller[r] = "inserted"
      BY <2>1, StreamParts
    <3>2. Live(r) /\ (caller'[r] \in Waiting => caller[r] \in Waiting)
      BY <2>2, <3>1 DEF Live, Waiting
    <3> QED
      BY <1>1, <2>1, <3>2, StreamKept DEF StreamInv
  <2> QED
    BY <1>2, <2>2 DEF StreamInv
<1>5. CASE Write(q) /\ caller'[q] = "unwritten"
  <2>1. caller' = [caller EXCEPT ![q] = "unwritten"] /\ pending' = pending \ {q} /\ "unwritten" \in Done
    BY <1>5, StreamParts DEF Write, Done
  <2> QED
    BY <1>1, <2>1, EndedStream
<1> QED
  BY <1>3, <1>4, <1>5

LEMMA GivenUpStream ==
  ASSUME Basic, StreamInv, NEW q \in Requests,
         Reject(q) \/ ReceiveClosed(q) \/ Timeout(q) \/ DropTransfer(q)
  PROVE  StreamInv'
<1>1. UNCHANGED <<kind, got, reader, serve, sent, up, wire, out>>
  BY DEF Reject, ReceiveClosed, Timeout, DropTransfer, serverVars
<1>2. /\ \E s \in Done : caller' = [caller EXCEPT ![q] = s]
      /\ chan' = chan \/ chan' = [chan EXCEPT ![q] = <<>>]
      /\ pending' = pending \/ pending' = pending \ {q}
  BY DEF Reject, ReceiveClosed, Timeout, DropTransfer, Done
<1> QED
  BY <1>1, <1>2, EndedStream
(* The caller of q is given the next frame of its answer. *)
LEMMA ReceivedFrame ==
  ASSUME Basic, StreamInv, NEW q \in Requests, Receive(q)
  PROVE  /\ chan[q] \in Seq(FrameType) /\ chan[q] # <<>> /\ Head(chan[q]) \in FrameType
         /\ Genuine(Head(chan[q]), kind) /\ Head(chan[q]).req = q
         /\ Head(chan[q]).n = Len(got[q]) + 1
         /\ kind[q] \in DOMAIN Answer /\ got[q] \in Seq(FrameType)
<1>1. caller[q] = "written" /\ chan[q] # <<>> /\ chan[q] \in Seq(FrameType) /\ got[q] \in Seq(FrameType)
  BY StreamParts DEF Receive
<1>2. Head(chan[q]) = chan[q][1] /\ chan[q][1] \in FrameType /\ 1 \in 1 .. Len(chan[q])
  <2>1. Head(chan[q]) = chan[q][1] /\ chan[q][1] \in FrameType /\ Len(chan[q]) \in Nat \ {0}
    BY <1>1, QueueTypes
  <2> QED
    BY <2>1
<1>3. InOrder(q)
  BY <1>1 DEF StreamInv, Live, Waiting
<1>4. kind[q] \in DOMAIN Answer
  BY Constants DEF Basic, TypeOK
<1> QED
  BY <1>1, <1>2, <1>3, <1>4 DEF StreamInv, FrameInv, InOrder

LEMMA ReceiveStream == ASSUME Basic, StreamInv, NEW q \in Requests, Receive(q) PROVE StreamInv'
<1> DEFINE frame == Head(chan[q])
           m == Len(got[q])
           n == Len(chan[q])
<1>1. /\ UNCHANGED <<kind, reader, serve, sent, up, wire, out>> /\ caller[q] = "written"
      /\ chan' = [chan EXCEPT ![q] = Tail(chan[q])] /\ got' = [got EXCEPT ![q] = Append(got[q], frame)]
      /\ pending' = pending \/ pending' = pending \ {q}
      /\ caller' = [caller EXCEPT ![q] = CASE frame.kind = "error" -> "error"
                                           [] frame.kind = "final" -> "ok"
                                           [] OTHER -> caller[q]]
  BY DEF Receive, serverVars
<1>2. /\ chan[q] \in Seq(FrameType) /\ chan[q] # <<>> /\ frame \in FrameType
      /\ Genuine(frame, kind) /\ frame.req = q /\ frame.n = m + 1 /\ m \in Nat
      /\ kind[q] \in DOMAIN Answer /\ got[q] \in Seq(FrameType)
  BY ReceivedFrame, StreamParts
<1>3. /\ n \in Nat \ {0} /\ Tail(chan[q]) \in Seq(FrameType) /\ Len(Tail(chan[q])) = n - 1
      /\ \A i \in 1 .. n - 1 : Tail(chan[q])[i] = chan[q][i + 1] /\ i + 1 \in 1 .. n
      /\ Len(Append(got[q], frame)) = m + 1
  <2>1. /\ n \in Nat \ {0} /\ Tail(chan[q]) \in Seq(FrameType) /\ Len(Tail(chan[q])) = n - 1
        /\ \A i \in 1 .. n - 1 : Tail(chan[q])[i] = chan[q][i + 1]
    BY <1>2, QueueTypes
  <2>2. Len(Append(got[q], frame)) = m + 1
    <3> HIDE DEF frame
    <3> QED
      BY <1>2, QueueTypes
  <2> HIDE DEF n, m, frame
  <2> QED
    BY <2>1, <2>2
<1>4. /\ chan'[q] = Tail(chan[q]) /\ got'[q] = Append(got[q], frame)
      /\ \A r \in Requests : r # q =>
           /\ caller'[r] = caller[r] /\ chan'[r] = chan[r] /\ got'[r] = got[r]
           /\ r \in pending => r \in pending'
  BY <1>1, StreamParts
<1>5. Coming' = Coming
  BY <1>1 DEF Coming
<1>6. FrameInv'
  <2>1. ASSUME NEW r \in Requests, NEW i \in 1 .. Len(chan'[r])
        PROVE  Genuine(chan'[r][i], kind) /\ chan'[r][i].req = r
    <3>1. CASE r = q
      <4>1. i \in 1 .. n - 1 /\ chan'[r] = Tail(chan[q])
        BY <1>3, <1>4, <2>1, <3>1
      <4>2. chan'[r][i] = chan[q][i + 1] /\ i + 1 \in 1 .. n
        BY <1>3, <4>1
      <4> QED
        BY <3>1, <4>2 DEF StreamInv, FrameInv
    <3>2. CASE r # q
      BY <1>4, <2>1, <3>2 DEF StreamInv, FrameInv
    <3> QED
      BY <3>1, <3>2
  <2> QED
    BY <1>1, <1>5, <2>1 DEF StreamInv, FrameInv
<1>7. ASSUME NEW r \in Requests, Live(r)', r # q PROVE InOrder(r)' /\ ClosedLast(r)'
  <2>1. InOrder(r) /\ ClosedLast(r)
    BY <1>4, <1>7 DEF StreamInv, Live
  <2> QED
    BY <1>1, <1>4, <1>7, <2>1, StreamKept
<1>8. ASSUME Live(q)' PROVE InOrder(q)' /\ ClosedLast(q)'
  <2>1. ~Closing(frame) /\ caller'[q] = "written"
    <3>1. caller'[q] \notin {"error", "ok"}
      BY <1>8 DEF Live, Waiting
    <3>2. caller'[q] = CASE frame.kind = "error" -> "error"
                         [] frame.kind = "final" -> "ok"
                         [] OTHER -> caller[q]
      BY <1>1, StreamParts
    <3> HIDE DEF frame
    <3> QED
      BY <1>1, <3>1, <3>2 DEF Closing
  <2>2. pending' = pending
    <3>1. kind[q] # "unary"
      <4>1. CASE kind[q] = "unary"
        <5>1. frame.n \in 1 .. Len(Answer["unary"]) /\ frame.kind = Answer["unary"][frame.n]
          BY <1>2, <2>1, <4>1 DEF Genuine, Closing
        <5>2. Answer["unary"] = <<"final">>
          BY DEF Answer
        <5> HIDE DEF frame
        <5>3. frame.n = 1 /\ frame.kind = "final"
          BY <5>1, <5>2
        <5> QED
          BY <2>1, <5>3 DEF Closing
      <4> QED
        BY <4>1
    <3>2. frame.kind # "final"
      BY <2>1 DEF Closing
    <3> QED
      BY <3>1, <3>2 DEF Receive
  <2>3. InOrder(q) /\ ClosedLast(q) /\ Line(Coming, q, Reached(q), Issued(q))
    BY <1>1 DEF StreamInv, Live, Waiting, InOrder
  <2>4. /\ Len(chan'[q]) = n - 1 /\ Len(got'[q]) = m + 1 /\ m + 1 + (n - 1) = m + n
        /\ \A i \in 1 .. n - 1 : m + (i + 1) = (m + 1) + i
    <3>1. Len(chan'[q]) = n - 1 /\ Len(got'[q]) = m + 1
      BY <1>3, <1>4
    <3> HIDE DEF n, m, frame
    <3> QED
      BY <1>2, <1>3, <3>1
  <2>5. Reached(q)' = Reached(q) /\ Issued(q)' = Issued(q)
    <3> DEFINE k == IF reader.st = "send" /\ reader.frame.req = q THEN 1 ELSE 0
    <3>1. Reached(q) = m + n + k
      BY DEF Reached
    <3>2. Reached(q)' = Len(got'[q]) + Len(chan'[q]) + k
      BY <1>1 DEF Reached
    <3>3. Issued(q)' = Issued(q)
      BY <1>1 DEF Issued
    <3> HIDE DEF m, n, k
    <3> QED
      BY <2>4, <3>1, <3>2, <3>3
  <2>6. InOrder(q)'
    <3>1. ASSUME NEW i \in 1 .. n - 1 PROVE chan'[q][i].n = Len(got'[q]) + i
      <4>1. chan'[q][i] = chan[q][i + 1] /\ i + 1 \in 1 .. n
        BY <1>3, <1>4
      <4>2. chan[q][i + 1].n = m + (i + 1)
        BY <2>3, <4>1 DEF InOrder
      <4> QED
        BY <2>4, <4>1, <4>2
    <3>2. reader.st = "send" /\ reader.frame.req = q => reader.frame.n = Len(got'[q]) + Len(chan'[q]) + 1
      BY <2>3, <2>4 DEF InOrder
    <3>3. Line(Coming', q, Reached(q)', Issued(q)')
      BY <1>5, <2>3, <2>5
    <3> QED
      BY <1>1, <2>4, <3>1, <3>2, <3>3 DEF InOrder
  <2>7. Closes(chan'[q], q) <=> Closes(chan[q], q)
    <3>1. Closes(chan[q], q) => Closes(Tail(chan[q]), q) \/ (Head(chan[q]).req = q /\ Closing(Head(chan[q])))
      BY <1>2, QueueChanges
    <3>2. Closes(Tail(chan[q]), q) => Closes(chan[q], q)
      BY <1>2, TailFrames
    <3> QED
      BY <1>4, <2>1, <3>1, <3>2
  <2>8. ClosedLast(q)'
    BY <1>1, <1>5, <2>1, <2>2, <2>3, <2>7 DEF ClosedLast, Waiting
  <2> QED
    BY <2>6, <2>8
<1> QED
  BY <1>6, <1>7, <1>8 DEF StreamInv


LEMMA StreamStep == ASSUME Basic, StreamInv, [Next]_vars PROVE StreamInv'
<1>1. ASSUME NEW q \in Requests, Insert(q) \/ CallerStep(q) \/ Timeout(q) PROVE StreamInv'
  BY <1>1, BegunStream, ReceiveStream, GivenUpStream DEF CallerStep
<1>2. ASSUME NEW q \in Requests, EmitFrame(q) \/ EmitError(q) PROVE StreamInv'
  BY <1>2, EmittedStream
<1>3. ASSUME ReaderStep PROVE StreamInv'
  BY <1>3, ReadFrameStream, DeliverStream, RemoveStream DEF ReaderStep
<1>4. ASSUME WriteOut \/ ServerCloses \/ Break PROVE StreamInv'
  BY <1>4, WireStream
<1>5. ASSUME UNCHANGED <<kind, caller, pending, chan, got, reader, sent, up, wire, out>>,
             \/ serve' = serve
             \/ \E q, s : serve' = [serve EXCEPT ![q] = s] /\ s # "no" /\ (q \in Requests => serve[q] # "done")
      PROVE  StreamInv'
  <2>1. \A r \in Requests : serve'[r] # serve[r] => serve[r] # "done" /\ serve'[r] # "no"
    BY <1>5, StreamParts
  <2> QED
    BY <1>5, <2>1, ServedOn
<1>6. ASSUME NEW q \in Requests, SendFails(q) PROVE StreamInv'
  <2>1. /\ UNCHANGED <<kind, caller, pending, chan, got, reader, sent, up, wire, out>>
        /\ serve' = [serve EXCEPT ![q] = "done"] /\ serve[q] # "done"
    BY <1>6 DEF SendFails, clientVars, Serving
  <2> QED
    BY <1>5, <2>1
<1>7. ASSUME HandlerReads PROVE StreamInv'
  <2> DEFINE q == Head(requests)
  <2>1. UNCHANGED <<kind, caller, pending, chan, got, reader, sent, up, wire, out>>
    BY <1>7 DEF HandlerReads, clientVars
  <2>2. serve' = serve \/ (q # Torn /\ \E s \in {"spawned", "refused", "inline"} : serve' = [serve EXCEPT ![q] = s])
    BY <1>7 DEF HandlerReads
  <2>3. q # Torn => serve[q] = "no"
    <3>1. requests \in Seq(Requests \cup {Torn}) /\ requests # <<>>
      BY <1>7, StreamParts DEF HandlerReads
    <3>2. Head(requests) = requests[1] /\ Len(requests) \in Nat \ {0}
      <4> HIDE DEF Torn
      <4> QED
        BY <3>1, QueueTypes
    <3>3. 1 \in 1 .. Len(requests)
      BY <3>2
    <3> QED
      BY <3>2, <3>3 DEF Basic, OnceInv
  <2> HIDE DEF q
  <2> QED
    BY <1>5, <2>1, <2>2, <2>3
<1>8. ASSUME HandlerFails PROVE StreamInv'
  <2>1. /\ UNCHANGED <<kind, caller, pending, chan, got, reader, sent, up, wire, out>>
        /\ serve' = [serve EXCEPT ![handler.req] = "done"] /\ serve[handler.req] # "done"
    BY <1>8 DEF HandlerFails, clientVars
  <2> QED
    BY <1>5, <2>1
<1>9. ASSUME CancelAll \/ HandlerEof \/ Notice \/ UNCHANGED vars PROVE StreamInv'
  <2>1. UNCHANGED <<kind, caller, pending, chan, got, reader, serve, sent, up, wire, out>>
    BY <1>9 DEF CancelAll, HandlerEof, Notice, vars, clientVars, serverVars
  <2> QED
    BY <1>5, <2>1
<1> QED
  BY <1>1, <1>2, <1>3, <1>4, <1>6, <1>7, <1>8, <1>9 DEF Next, ServeStep, HandlerStep

LEMMA InitStream == Init => StreamInv
<1> SUFFICES ASSUME Init PROVE StreamInv
  OBVIOUS
<1>1. /\ chan = [r \in Requests |-> <<>>] /\ got = [r \in Requests |-> <<>>] /\ Coming = <<>> /\ up
      /\ reader.st = "read" /\ caller = [r \in Requests |-> "new"]
      /\ serve = [r \in Requests |-> "no"] /\ sent = [r \in Requests |-> 0]
  <2>1. wire = <<>> /\ out = <<>> /\ wire \o out = <<>>
    BY DEF Init
  <2> QED
    BY <2>1 DEF Init, Coming
<1>2. FrameInv
  BY <1>1 DEF FrameInv, AllGenuine
<1>3. ASSUME NEW r \in Requests PROVE InOrder(r) /\ ClosedLast(r)
  <2>1. Reached(r) = 0 /\ Issued(r) = {0}
    BY <1>1 DEF Reached, Issued
  <2>2. Line(<<>>, r, 0, {0})
    <3> DEFINE c == [i \in 0 .. 0 |-> 0]
    <3>1. Len(<<>>) = 0 /\ c \in [0 .. 0 -> Nat] /\ c[0] = 0
      OBVIOUS
    <3>2. \A i : i \notin 1 .. 0
      OBVIOUS
    <3> HIDE DEF c
    <3> QED
      BY <3>1, <3>2 DEF Line
  <2>3. InOrder(r)
    BY <1>1, <2>1, <2>2 DEF InOrder
  <2>4. ClosedLast(r)
    BY <1>1 DEF ClosedLast, ClosedIn, Closes, Waiting
  <2> QED
    BY <2>3, <2>4
<1> QED
  BY <1>2, <1>3 DEF StreamInv

(* The frames of a request whose call has not ended reach its caller in the
   order of its answer, without a gap and with nothing behind the last. *)
LEMMA StreamsHold == Spec => [](Basic /\ StreamInv)
  BY InitBasic, BasicStep, InitStream, StreamStep, PTL DEF Spec
-----------------------------------------------------------------------------
(* The connection as RequestStreams has it. *)
Stage == [r \in Requests |-> IF caller[r] \in Waiting THEN "open" ELSE caller[r]]
AnswerTo == [r \in Requests |-> Answer[kind[r]]]

LEMMA StagesChange ==
  ASSUME Basic, NEW q \in Requests, NEW s, caller' = [caller EXCEPT ![q] = s]
  PROVE  /\ s \in Waiting => Stage' = [Stage EXCEPT ![q] = "open"]
         /\ s \notin Waiting => Stage' = [Stage EXCEPT ![q] = s]
         /\ s \in Waiting /\ caller[q] \in Waiting => Stage' = Stage
         /\ caller[q] \in Waiting => Stage[q] = "open"
         /\ caller[q] \notin Waiting => Stage[q] = caller[q]
<1>1. /\ caller'[q] = s /\ \A r \in Requests : r # q => caller'[r] = caller[r]
  BY StreamParts
<1> QED
  BY <1>1 DEF Stage

LEMMA StreamsQuiet ==
  ASSUME UNCHANGED <<kind, got>>, Stage' = Stage, (reader'.st = "ended") <=> (reader.st = "ended")
  PROVE  UNCHANGED Streams!vars
  BY DEF Stage, Streams!vars

LEMMA StreamBegins == ASSUME Basic, NEW q \in Requests, Insert(q) PROVE Streams!Begin(q)
<1>1. /\ UNCHANGED <<kind, got, reader>> /\ caller[q] = "new"
      /\ caller' = [caller EXCEPT ![q] = "inserted"]
  BY DEF Insert
<1>2. "inserted" \in Waiting /\ "new" \notin Waiting
  BY DEF Waiting
<1>3. Stage[q] = "new" /\ Stage' = [Stage EXCEPT ![q] = "open"]
  BY <1>1, <1>2, StagesChange
<1> QED
  BY <1>1, <1>3 DEF Stage, Streams!Begin

LEMMA StreamGivenUp ==
  ASSUME Basic, NEW q \in Requests, UNCHANGED <<kind, got, reader>>, caller[q] \in Waiting,
         NEW s \in {"error", "timeout", "cancelled", "unwritten"}, caller' = [caller EXCEPT ![q] = s]
  PROVE  Streams!GiveUp(q)
<1>1. Stage[q] = "open" /\ Stage' = [Stage EXCEPT ![q] = s]
  BY StagesChange DEF Waiting
<1> QED
  BY <1>1 DEF Stage, Streams!GiveUp

LEMMA StreamClosed ==
  ASSUME Basic, StreamInv, NEW q \in Requests, ReceiveClosed(q) PROVE Streams!Closed(q)
<1>1. /\ UNCHANGED <<kind, got, reader>> /\ caller[q] = "written" /\ chan[q] = <<>>
      /\ q \notin pending /\ reader.frame.req # q /\ caller' = [caller EXCEPT ![q] = "closed"]
  BY DEF ReceiveClosed
<1>2. reader.st = "ended"
  <2>1. ClosedLast(q)
    BY <1>1 DEF StreamInv, Live, Waiting
  <2>2. ~Closes(chan[q], q)
    BY <1>1 DEF Closes
  <2> QED
    BY <1>1, <2>1, <2>2 DEF ClosedLast, Waiting
<1>3. Stage[q] = "open" /\ Stage' = [Stage EXCEPT ![q] = "closed"]
  BY <1>1, StagesChange DEF Waiting
<1> QED
  BY <1>1, <1>2, <1>3 DEF Stage, Streams!Closed

LEMMA StreamReceives ==
  ASSUME Basic, StreamInv, NEW q \in Requests, Receive(q)
  PROVE  Streams!Receive(q) \/ Streams!Refused(q)
<1> DEFINE frame == Head(chan[q])
           m == Len(got[q])
<1>1. /\ UNCHANGED <<kind, reader>> /\ caller[q] = "written"
      /\ got' = [got EXCEPT ![q] = Append(got[q], frame)]
      /\ frame.kind = "error" => caller' = [caller EXCEPT ![q] = "error"]
      /\ frame.kind = "final" => caller' = [caller EXCEPT ![q] = "ok"]
      /\ frame.kind \notin {"error", "final"} => caller' = [caller EXCEPT ![q] = "written"]
  <2>1. /\ UNCHANGED <<kind, reader>> /\ caller[q] = "written"
        /\ got' = [got EXCEPT ![q] = Append(got[q], frame)]
        /\ caller' = [caller EXCEPT ![q] = CASE frame.kind = "error" -> "error"
                                             [] frame.kind = "final" -> "ok"
                                             [] OTHER -> caller[q]]
    BY DEF Receive
  <2> HIDE DEF frame
  <2> QED
    BY <2>1
<1>2. /\ frame \in FrameType /\ Genuine(frame, kind) /\ frame.req = q /\ frame.n = m + 1
      /\ kind[q] \in DOMAIN Answer /\ got \in [Requests -> Seq(FrameType)] /\ m \in Nat
  BY ReceivedFrame, StreamParts
<1>3. Len(got'[q]) = m + 1
  <2>1. got[q] \in Seq(FrameType) /\ got'[q] = Append(got[q], frame)
    BY <1>1, <1>2
  <2> HIDE DEF frame
  <2> QED
    BY <1>2, <2>1, QueueTypes
<1>4. frame = [req |-> q, n |-> m + 1, kind |-> frame.kind]
  <2> HIDE DEF frame, m
  <2> QED
    BY <1>2 DEF FrameType
<1>5. Stage[q] = "open"
  BY <1>1 DEF Stage, Waiting
<1>6. ASSUME NEW k, frame.kind = k PROVE Streams!Give(q, k)
  <2>1. frame = [req |-> q, n |-> Len(got[q]) + 1, kind |-> k]
    BY <1>4, <1>6
  <2>2. got' = [got EXCEPT ![q] = Append(got[q], [req |-> q, n |-> Len(got[q]) + 1, kind |-> k])]
    BY <1>1, <2>1
  <2> QED
    BY <2>2 DEF Streams!Give
<1>7. CASE frame.kind = "error"
  <2>1. Stage' = [Stage EXCEPT ![q] = "error"]
    BY <1>1, <1>7, StagesChange DEF Waiting
  <2>2. Streams!Give(q, "error")
    BY <1>6, <1>7
  <2> QED
    BY <1>1, <1>5, <2>1, <2>2 DEF Stage, Streams!Refused
<1>8. CASE frame.kind # "error"
  <2>1. /\ m + 1 \in 1 .. Len(AnswerTo[q]) /\ frame.kind = AnswerTo[q][m + 1]
        /\ frame.kind = "final" <=> m + 1 = Len(AnswerTo[q])
    <3>1. m + 1 \in 1 .. Len(Answer[kind[q]]) /\ frame.kind = Answer[kind[q]][m + 1]
      BY <1>2, <1>8 DEF Genuine
    <3>2. frame.kind = "final" <=> m + 1 = Len(Answer[kind[q]])
      BY <1>2, <3>1, AnswerShape
    <3> QED
      BY <3>1, <3>2 DEF AnswerTo
  <2>2. Streams!Give(q, AnswerTo[q][m + 1])
    BY <1>6, <2>1
  <2>3. Len(got[q]) < Len(AnswerTo[q])
    <3>1. Len(AnswerTo[q]) \in Nat
      BY <1>2, AnswerShape DEF AnswerTo
    <3>2. m < Len(AnswerTo[q])
      <4> DEFINE l == Len(AnswerTo[q])
      <4>1. l \in Nat /\ m + 1 \in 1 .. l
        BY <2>1, <3>1
      <4> HIDE DEF l, m
      <4>2. m < l
        BY <1>2, <4>1
      <4> QED
        BY <4>2 DEF l
    <3> QED
      BY <3>2
  <2>4. Stage' = IF Len(got'[q]) = Len(AnswerTo[q]) THEN [Stage EXCEPT ![q] = "ok"] ELSE Stage
    <3>1. CASE frame.kind = "final"
      <4>1. Stage' = [Stage EXCEPT ![q] = "ok"]
        BY <1>1, <3>1, StagesChange DEF Waiting
      <4> QED
        BY <1>3, <2>1, <3>1, <4>1
    <3>2. CASE frame.kind # "final"
      <4>1. Stage' = Stage
        BY <1>1, <1>8, <3>2, StagesChange DEF Waiting
      <4> QED
        BY <1>3, <2>1, <3>2, <4>1
    <3> QED
      BY <3>1, <3>2
  <2>5. Streams!Receive(q)
    BY <1>1, <1>5, <2>2, <2>3, <2>4 DEF Stage, AnswerTo, Streams!Receive
  <2> QED
    BY <2>5
<1> QED
  BY <1>7, <1>8

LEMMA StreamsStep ==
  ASSUME Basic, StreamInv, [Next]_vars PROVE [Streams!Next]_(Streams!vars)
<1>1. ASSUME NEW q \in Requests, Insert(q) PROVE Streams!Next
  BY <1>1, StreamBegins DEF Streams!Next
<1>2. ASSUME NEW q \in Requests, Write(q) PROVE [Streams!Next]_(Streams!vars)
  <2>1. UNCHANGED <<kind, got, reader>> /\ caller[q] \in Waiting
    BY <1>2 DEF Write, Waiting
  <2>2. CASE caller' = [caller EXCEPT ![q] = "written"]
    BY <2>1, <2>2, StagesChange, StreamsQuiet DEF Waiting
  <2>3. CASE caller' = [caller EXCEPT ![q] = "unwritten"]
    BY <2>1, <2>3, StreamGivenUp DEF Streams!Next
  <2> QED
    BY <1>2, <2>2, <2>3 DEF Write
<1>3. ASSUME NEW q \in Requests, Receive(q) PROVE Streams!Next
  BY <1>3, StreamReceives DEF Streams!Next
<1>4. ASSUME NEW q \in Requests, Reject(q) \/ Timeout(q) \/ DropTransfer(q) PROVE Streams!Next
  <2>1. /\ UNCHANGED <<kind, got, reader>> /\ caller[q] \in Waiting
        /\ \E s \in {"error", "timeout", "cancelled", "unwritten"} : caller' = [caller EXCEPT ![q] = s]
    BY <1>4 DEF Reject, Timeout, DropTransfer, Waiting
  <2> QED
    BY <2>1, StreamGivenUp DEF Streams!Next
<1>5. ASSUME NEW q \in Requests, ReceiveClosed(q) PROVE Streams!Next
  BY <1>5, StreamClosed DEF Streams!Next
<1>6. CASE ReaderEnds
  <2>1. UNCHANGED <<kind, got, caller>> /\ reader'.st = "ended"
    BY <1>6 DEF ReaderEnds
  <2>2. Streams!Disconnect
    BY <2>1 DEF Streams!Disconnect
  <2> QED
    BY <2>2 DEF Streams!Next
<1>7. ASSUME UNCHANGED <<kind, got, caller>>, (reader'.st = "ended") <=> (reader.st = "ended")
      PROVE  UNCHANGED Streams!vars
  BY <1>7, StreamsQuiet DEF Stage
<1>8. CASE ReadFrame \/ Deliver \/ RemoveFinished
  <2>1. UNCHANGED <<kind, got, caller>> /\ reader.st # "ended" /\ reader'.st # "ended"
    BY <1>8, StreamParts DEF ReadFrame, Deliver, RemoveFinished
  <2> QED
    BY <1>7, <2>1
<1>9. CASE CancelAll \/ HandlerStep \/ WriteOut \/ ServerCloses \/ Break \/ Notice \/ UNCHANGED vars
  <2>1. UNCHANGED <<kind, got, caller, reader>>
    BY <1>9 DEF CancelAll, HandlerStep, HandlerReads, HandlerEof, HandlerFails, WriteOut,
                ServerCloses, Break, Notice, vars, clientVars
  <2> QED
    BY <1>7, <2>1
<1>10. ASSUME NEW q \in Requests, ServeStep(q) PROVE UNCHANGED Streams!vars
  <2>1. UNCHANGED <<kind, got, caller, reader>>
    BY <1>10 DEF ServeStep, EmitFrame, EmitError, SendFails, clientVars
  <2> QED
    BY <1>7, <2>1
<1> QED
  BY <1>1, <1>2, <1>3, <1>4, <1>5, <1>6, <1>8, <1>9, <1>10 DEF Next, CallerStep, ReaderStep

LEMMA StreamsInit == Init => Streams!Init
<1> SUFFICES ASSUME Init PROVE Streams!Init
  OBVIOUS
<1>1. kind \in Kinds /\ caller = [r \in Requests |-> "new"] /\ got = [r \in Requests |-> <<>>]
      /\ reader.st = "read"
  BY DEF Init
<1>2. Stage = [r \in Requests |-> "new"]
  BY <1>1 DEF Stage, Waiting
<1> QED
  BY <1>1, <1>2 DEF Stage, Streams!Init

(* Whatever requests share a connection, however its channels fill up and
   whoever is cancelled, every request has a stream of its own: its frames
   and no others, in order and without a gap, success with the whole answer
   only, and no call told that the connection has ended while it has not. *)
THEOREM RequestsDoNotMix == Spec => StreamsOfTheirOwn
<1>1. Basic /\ StreamInv /\ [Next]_vars => [Streams!Next]_(Streams!vars)
  BY StreamsStep
<1> QED
  BY <1>1, StreamsInit, StreamsHold, PTL DEF Spec, StreamsOfTheirOwn, Streams!Spec
-----------------------------------------------------------------------------
(* A connection gets on: callers, reader, handler, serving tasks and writer
   never wait for each other in a circle. *)

(* What a broken connection has lost, and what the tasks are at work on. *)
TaskInv ==
  /\ ~up /\ ~silent => requests = <<>>
  /\ handler.st = "busy" => handler.req \in Requests /\ Serving(handler.req)
  /\ reader.st \in {"read", "ended"} => reader.frame = NoFrame
  /\ reader.st = "ended" => ~up /\ ~silent

LEMMA TaskStep == ASSUME Basic, HandlerInv, TaskInv, [Next]_vars PROVE TaskInv'
<1>0. /\ requests \in Seq(Requests \cup {Torn}) /\ Torn \notin Requests
      /\ serve \in [Requests -> {"no", "inline", "spawned", "refused", "done"}]
      /\ handler \in [st : {"read", "busy", "ended"}, req : Requests \cup {Torn}]
      /\ reader \in [st : {"read", "send", "remove", "ended"}, frame : FrameType]
  BY Constants DEF Basic, TypeOK
<1>1. ASSUME UNCHANGED <<requests, up, silent, handler, serve, reader>> PROVE TaskInv'
  BY <1>1 DEF TaskInv, Serving
<1>2. ASSUME NEW r \in Requests, Insert(r) \/ Receive(r) \/ Reject(r) \/ ReceiveClosed(r) \/ Timeout(r)
      PROVE  TaskInv'
  BY <1>1, <1>2 DEF Insert, Receive, Reject, ReceiveClosed, Timeout, serverVars
<1>3. ASSUME NEW r \in Requests, Write(r) \/ DropTransfer(r) PROVE TaskInv'
  <2>1. UNCHANGED <<up, silent, handler, serve, reader>> /\ (~up /\ ~silent => requests' = requests)
    BY <1>3 DEF Write, DropTransfer, serverVars
  <2> QED
    BY <2>1 DEF TaskInv, Serving
<1>4. ASSUME NEW r \in Requests, ServeStep(r) PROVE TaskInv'
  <2>1. /\ UNCHANGED <<requests, up, silent, reader>>
        /\ \A q \in Requests : q # r => serve'[q] = serve[q]
        /\ \/ UNCHANGED <<serve, handler>>
           \/ handler'.st # "busy" \/ (handler' = handler /\ handler.req # r)
    BY <1>0, <1>4 DEF ServeStep, EmitFrame, EmitError, SendFails, Answered, clientVars
  <2> QED
    BY <1>0, <2>1 DEF TaskInv, Serving
<1>5. CASE HandlerReads
  <2>1. /\ UNCHANGED <<up, silent, reader>> /\ requests # <<>> /\ handler.st = "read" /\ up
        /\ handler'.st = "busy" =>
             /\ handler'.req = Head(requests) /\ Head(requests) # Torn
             /\ serve' = [serve EXCEPT ![Head(requests)] =
                            IF Head(requests) \in Transfers THEN "refused" ELSE "inline"]
    BY <1>5 DEF HandlerReads, clientVars
  <2>2. Head(requests) \in Requests \cup {Torn}
    BY <1>0, <2>1, QueueTypes
  <2>3. handler'.st = "busy" => handler'.req \in Requests /\ serve'[handler'.req] \in {"refused", "inline"}
    BY <1>0, <2>1, <2>2
  <2> QED
    BY <2>1, <2>3 DEF TaskInv, Serving
<1>6. CASE HandlerEof \/ HandlerFails
  <2>1. UNCHANGED <<up, silent, requests, reader>> /\ handler'.st # "busy"
    BY <1>6 DEF HandlerEof, HandlerFails, clientVars
  <2> QED
    BY <2>1 DEF TaskInv
<1>7. CASE ReaderStep
  <2>1. UNCHANGED <<up, silent, requests, handler, serve>>
    BY <1>7 DEF ReaderStep, ReadFrame, Deliver, RemoveFinished, ReaderEnds, serverVars
  <2>2. reader'.st \in {"read", "ended"} => reader'.frame = NoFrame
    BY <1>0, <1>7 DEF ReaderStep, ReadFrame, Deliver, RemoveFinished, ReaderEnds, TaskInv
  <2>3. reader'.st = "ended" => ~up /\ ~silent
    BY <1>0, <1>7 DEF ReaderStep, ReadFrame, Deliver, RemoveFinished, ReaderEnds
  <2> QED
    BY <2>1, <2>2, <2>3 DEF TaskInv, Serving
<1>8. CASE ServerCloses \/ Break \/ Notice
  <2>1. UNCHANGED <<handler, serve, reader>> /\ (~silent' => requests' = <<>>) /\ (up \/ silent)
    BY <1>8 DEF ServerCloses, Break, Notice, clientVars, serverVars, Basic, TypeOK
  <2>2. ~up'
    BY <1>8 DEF ServerCloses, Break, Notice, Basic, TypeOK
  <2> QED
    BY <2>1, <2>2 DEF TaskInv, Serving
<1>9. CASE WriteOut \/ CancelAll \/ UNCHANGED vars
  BY <1>1, <1>9 DEF WriteOut, CancelAll, vars, clientVars, serverVars
<1> QED
  BY <1>2, <1>3, <1>4, <1>5, <1>6, <1>7, <1>8, <1>9 DEF Next, CallerStep, HandlerStep

(* The guards of the callers' actions, of the serving tasks', of the reader's,
   of the handler's, of the writer task, of the close behind it and of the
   kernel that gives up on its peer. *)
CallerReady(r) ==
  \/ caller[r] = "inserted" /\ (Len(requests) < ReqCap \/ (~up /\ ~silent))
  \/ caller[r] = "written" /\ (chan[r] # <<>> \/ (r \notin pending /\ reader.frame.req # r))
  \/ cancelled /\ r \in Transfers /\ caller[r] \in Waiting
ServeReady(r) == Serving(r) /\ (~up \/ Len(out) < OutCap)
ReaderReady ==
  \/ reader.st = "read" /\ (wire # <<>> \/ (~up /\ ~silent))
  \/ /\ reader.st = "send"
     /\ LET r == reader.frame.req
        IN caller[r] \in Done \/ (caller[r] \in Waiting /\ Len(chan[r]) < ChanCap)
  \/ reader.st = "remove"
HandlerReady ==
  \/ handler.st = "read" /\ (requests # <<>> \/ ~up \/ \A r \in Requests : caller[r] \in Done)
  \/ handler.st = "busy" /\ serve[handler.req] = "inline"
WriteReady == up /\ out # <<>> /\ Len(wire) < WireCap
CloseReady == up /\ handler.st = "ended" /\ out = <<>> /\ \A r \in Requests : ~Serving(r)
NoticeReady == silent /\ Unacknowledged

CanStep == \/ \E r \in Requests : CallerReady(r) \/ ServeReady(r)
           \/ ReaderReady \/ HandlerReady \/ WriteReady \/ CloseReady \/ NoticeReady

TornDown == /\ reader.st = "ended" /\ handler.st = "ended"
            /\ \A r \in Requests : ~Serving(r)

(* An inline call that has been written has a timer. *)
Timed(r) == r \in Inline /\ caller[r] = "written" /\ chan[r] = <<>>

Unblocked ==
  ~CanStep => /\ \A r \in Requests : caller[r] \in Waiting => ~up /\ (Timed(r) \/ Forsaken(r))
              /\ (\A r \in Requests : caller[r] \in Done) => TornDown

(* When nobody can step, the connection is up and idle, or it has broken and
   everything behind it has ended, but for a reader nobody has told. *)
LEMMA IdleConnection ==
  ASSUME Basic, HandlerInv, FrameInv, TaskInv, ~CanStep
  PROVE  /\ \A r \in Requests : ~Serving(r)
         /\ \A r \in Requests : caller[r] \in Waiting =>
              /\ caller[r] = "written" /\ chan[r] = <<>> /\ r \in pending
              /\ cancelled => r \notin Transfers
         /\ \/ /\ up /\ out = <<>> /\ wire = <<>> /\ requests = <<>> /\ handler.st = "read"
               /\ reader.st = "read" /\ ~\A r \in Requests : caller[r] \in Done
            \/ ~up /\ reader.st = "ended" /\ handler.st = "ended"
            \/ ~up /\ silent /\ handler.st = "ended" /\ ~\A r \in Requests : caller[r] \in Done
<1>0. /\ handler \in [st : {"read", "busy", "ended"}, req : Requests \cup {Torn}]
      /\ reader \in [st : {"read", "send", "remove", "ended"}, frame : FrameType]
      /\ caller \in [Requests -> {"new"} \cup Waiting \cup Done] /\ up \in BOOLEAN
      /\ wire \in Seq(FrameType) /\ out \in Seq(FrameType)
      /\ ChanCap \in Nat \ {0} /\ OutCap \in Nat \ {0} /\ WireCap \in Nat \ {0} /\ ReqCap \in Nat \ {0}
      /\ Torn \notin Requests /\ silent \in BOOLEAN
  BY Constants DEF Basic, TypeOK
<1>1. /\ \A r \in Requests : ~CallerReady(r) /\ ~ServeReady(r)
      /\ ~ReaderReady /\ ~HandlerReady /\ ~WriteReady /\ ~CloseReady /\ ~NoticeReady
  BY DEF CanStep
<1>2. reader.st \in {"read", "ended"}
  <2> SUFFICES ASSUME reader.st = "send" PROVE FALSE
    BY <1>0, <1>1 DEF ReaderReady
  <2>1. reader.frame.req \in Requests /\ serve[reader.frame.req] # "no"
    BY DEF FrameInv, Genuine
  <2> DEFINE r == reader.frame.req
  <2> HIDE DEF r
  <2>2. r \in Requests /\ caller[r] \notin {"new", "inserted"}
    BY <2>1 DEF Basic, OnceInv, r
  <2>3. caller[r] \notin Done /\ ~(caller[r] \in Waiting /\ Len(chan[r]) < ChanCap)
    BY <1>1 DEF ReaderReady, r
  <2>4. caller[r] = "written"
    BY <1>0, <2>2, <2>3 DEF Waiting
  <2>5. chan[r] = <<>>
    BY <1>1, <2>2, <2>4 DEF CallerReady
  <2>6. Len(chan[r]) = 0
    BY <2>5
  <2> QED
    BY <1>0, <2>3, <2>4, <2>6 DEF Waiting
<1>3. reader.frame.req = Torn
  BY <1>2 DEF TaskInv, NoFrame
<1>4. ASSUME requests = <<>> \/ (~up /\ ~silent), NEW r \in Requests, caller[r] \in Waiting
      PROVE  /\ caller[r] = "written" /\ chan[r] = <<>> /\ r \in pending
             /\ cancelled => r \notin Transfers
  <2>1. requests = <<>> => Len(requests) < ReqCap
    BY <1>0
  <2>2. caller[r] = "written"
    BY <1>1, <1>4, <2>1 DEF CallerReady, Waiting
  <2> QED
    BY <1>0, <1>1, <1>3, <1>4, <2>2 DEF CallerReady
<1>5. CASE up
  <2>1. reader.st = "read" /\ wire = <<>>
    BY <1>1, <1>2, <1>5 DEF TaskInv, ReaderReady
  <2>2. Len(wire) < WireCap
    BY <1>0, <2>1
  <2>3. out = <<>>
    BY <1>1, <1>5, <2>2 DEF WriteReady
  <2>4. Len(out) < OutCap
    BY <1>0, <2>3
  <2>5. \A r \in Requests : ~Serving(r)
    BY <1>1, <2>4 DEF ServeReady
  <2>6. handler.st = "read"
    BY <1>0, <1>1, <1>5, <2>3, <2>5 DEF CloseReady, TaskInv
  <2>7. requests = <<>> /\ ~\A r \in Requests : caller[r] \in Done
    BY <1>1, <2>6 DEF HandlerReady
  <2> QED
    BY <1>4, <1>5, <2>1, <2>3, <2>5, <2>6, <2>7
<1>6. CASE ~up
  <2>1. \A r \in Requests : ~Serving(r)
    BY <1>1, <1>6 DEF ServeReady
  <2>2. handler.st = "ended"
    BY <1>0, <1>1, <1>6, <2>1 DEF HandlerReady, TaskInv
  <2>3. CASE silent
    <3>1. requests = <<>> /\ ~\A r \in Requests : caller[r] \in Done
      BY <1>1, <2>3 DEF NoticeReady, Unacknowledged
    <3> QED
      BY <1>4, <1>6, <2>1, <2>2, <2>3, <3>1
  <2>4. CASE ~silent
    <3>1. reader.st = "ended"
      BY <1>1, <1>2, <1>6, <2>4 DEF ReaderReady
    <3> QED
      BY <1>4, <1>6, <2>1, <2>2, <2>4, <3>1
  <2> QED
    BY <2>3, <2>4
<1> QED
  BY <1>5, <1>6

(* MuxConnection's tasks never wait for each other in a circle: when no task
   can step, and no kernel gives up on its peer, a call that still waits has a
   timer or is a transfer of a broken connection that nobody has given up; and
   when all calls have ended, everything behind them has.  While the connection
   is up, no full channel, no caller that gave up, no half-written request and
   no failure leaves a call waiting, and none needs its time-out. *)
THEOREM ConnectionIsNeverBlocked == Spec => []Unblocked
<1>1. Init => TaskInv
  BY DEF Init, TaskInv
<1>2. Basic /\ HandlerInv /\ EntriesInv /\ StreamInv /\ TaskInv => Unblocked
  <2> SUFFICES ASSUME Basic, HandlerInv, EntriesInv, FrameInv, TaskInv, ~CanStep
               PROVE  /\ \A r \in Requests : caller[r] \in Waiting => ~up /\ (Timed(r) \/ Forsaken(r))
                      /\ (\A r \in Requests : caller[r] \in Done) => TornDown
    BY DEF Unblocked, StreamInv
  <2>1. CASE up
    <3>1. ASSUME NEW r \in Requests, caller[r] \in Waiting PROVE FALSE
      <4>1. /\ caller[r] = "written" /\ r \in pending /\ handler.st = "read"
            /\ ~Serving(r) /\ requests = <<>> /\ wire = <<>> /\ out = <<>> /\ reader.st = "read"
        BY <2>1, <3>1, IdleConnection
      <4>2. AnswerComing(r)
        BY <2>1, <4>1 DEF EntriesInv, Abandoned
      <4>3. Coming = <<>>
        BY <2>1, <4>1 DEF Coming
      <4>4. Len(Coming) = 0 /\ Len(requests) = 0
        BY <4>1, <4>3
      <4> QED
        BY <4>1, <4>2, <4>4 DEF AnswerComing, Closes
    <3> QED
      BY <2>1, <3>1, IdleConnection
  <2>2. CASE ~up
    <3>1. ASSUME NEW r \in Requests, caller[r] \in Waiting PROVE Timed(r) \/ Forsaken(r)
      <4>1. /\ caller[r] = "written" /\ chan[r] = <<>> /\ (cancelled => r \notin Transfers)
            /\ silent \/ reader.st = "ended"
        BY <2>2, <3>1, IdleConnection
      <4> QED
        BY <4>1 DEF Timed, Inline, Forsaken
    <3>2. (\A r \in Requests : caller[r] \in Done) => TornDown
      BY <2>2, IdleConnection DEF TornDown
    <3> QED
      BY <2>2, <3>1, <3>2
  <2> QED
    BY <2>1, <2>2
<1> QED
  BY <1>1, <1>2, EntriesHold, StreamsHold, TaskStep, PTL DEF Spec
-----------------------------------------------------------------------------
(* A connection over which a number of requests is made comes to its end. *)

(* What a call, the answer to it and the reader have still before them; each
   step weighs more than what it hands on. *)
CallStages(c) == CASE c = "new" -> 3 [] c = "inserted" -> 2 [] c = "written" -> 1 [] OTHER -> 0
ServeStages(s) == CASE s = "no" -> 2 [] s = "done" -> 0 [] OTHER -> 1
ReaderStages(s) == CASE s = "send" -> 4 [] s = "remove" -> 2 [] s = "read" -> 1 [] OTHER -> 0
RequestSteps(r) == 2 * CallStages(caller[r]) + 6 * ServeStages(serve[r]) + 6 * (3 - sent[r])
                   + Len(chan[r])

RequestsAhead == {p \in Requests \X (1 .. 36 + ChanCap) : p[2] <= RequestSteps(p[1])}
QueuesAhead == Len(requests) + 5 * Len(out) + 4 * Len(wire)
EndsAhead == (IF handler.st = "ended" THEN 0 ELSE 1) + (IF up THEN 2 ELSE 0)
             + (IF silent THEN 1 ELSE 0) + (IF cancelled THEN 0 ELSE 1)
SharedAhead == QueuesAhead + ReaderStages(reader.st) + EndsAhead
StepsLeft == Cardinality(RequestsAhead) + SharedAhead

LEMMA StepsOf ==
  ASSUME TypeOK, NEW r \in Requests
  PROVE  /\ CallStages(caller[r]) \in 0 .. 3 /\ ServeStages(serve[r]) \in 0 .. 2
         /\ sent[r] \in 0 .. 3 /\ Len(chan[r]) \in 0 .. ChanCap
         /\ RequestSteps(r) \in 0 .. 36 + ChanCap
<1>1. CallStages(caller[r]) \in 0 .. 3 /\ ServeStages(serve[r]) \in 0 .. 2
  BY DEF CallStages, ServeStages
<1>2. sent[r] \in 0 .. 3 /\ ChanCap \in Nat
  BY Constants DEF TypeOK
<1>3. Len(chan[r]) \in 0 .. ChanCap
  <2>1. chan[r] \in Seq(FrameType) /\ Len(chan[r]) <= ChanCap
    BY DEF TypeOK
  <2>2. Len(chan[r]) \in Nat
    BY <2>1
  <2> QED
    BY <1>2, <2>1, <2>2
<1> DEFINE c == CallStages(caller[r])
           s == ServeStages(serve[r])
           n == sent[r]
           l == Len(chan[r])
<1>4. RequestSteps(r) = 2 * c + 6 * s + 6 * (3 - n) + l
  BY DEF RequestSteps
<1>5. c \in 0 .. 3 /\ s \in 0 .. 2 /\ n \in 0 .. 3 /\ l \in 0 .. ChanCap
  BY <1>1, <1>2, <1>3
<1> HIDE DEF c, s, n, l
<1>6. RequestSteps(r) \in 0 .. 36 + ChanCap
  BY <1>2, <1>4, <1>5
<1> QED
  BY <1>1, <1>2, <1>3, <1>6

LEMMA SharedType == ASSUME TypeOK PROVE SharedAhead \in Nat
<1>1. Len(requests) \in Nat /\ Len(out) \in Nat /\ Len(wire) \in Nat
  BY DEF TypeOK
<1>2. ReaderStages(reader.st) \in 0 .. 4 /\ EndsAhead \in 0 .. 5
  BY DEF ReaderStages, EndsAhead
<1>3. QueuesAhead \in Nat
  BY <1>1 DEF QueuesAhead
<1> QED
  BY <1>2, <1>3 DEF SharedAhead

StepsTyped == SharedAhead \in Nat /\ \A r \in Requests : RequestSteps(r) \in 0 .. 36 + ChanCap

LEMMA StepsType == TypeOK => StepsTyped
  BY StepsOf, SharedType DEF StepsTyped

LEMMA StepsTypeNext == TypeOK' => StepsTyped'
  BY StepsType, PTL

(* When only q moves, the requests have moved as much as q has. *)
LEMMA RequestMoves ==
  ASSUME IsFiniteSet(Requests), TypeOK, TypeOK', NEW q \in Requests,
         \A r \in Requests : r # q => RequestSteps(r)' = RequestSteps(r)
  PROVE  /\ Cardinality(RequestsAhead) \in Nat
         /\ Cardinality(RequestsAhead') = Cardinality(RequestsAhead)
                                            + RequestSteps(q)' - RequestSteps(q)
<1> DEFINE m == 36 + ChanCap
           a == RequestSteps(q)
           b == RequestSteps(q)'
           one == {q}
           A == one \X (1 .. a)
           B == one \X (1 .. b)
           R == {p \in (Requests \ one) \X (1 .. m) : p[2] <= RequestSteps(p[1])}
<1>1. a \in 0 .. m /\ b \in 0 .. m /\ m \in Nat
  BY StepsType, StepsTypeNext, Constants DEF StepsTyped
<1>2. IsFiniteSet(one) /\ Cardinality(one) = 1
  BY FS_Singleton
<1>3. IsFiniteSet(R)
  <2>1. R \in SUBSET (Requests \X (1 .. m))
    OBVIOUS
  <2>2. 1 \in Int /\ m \in Int
    BY <1>1
  <2> HIDE DEF m, R
  <2>3. IsFiniteSet(1 .. m)
    BY <2>2, FS_Interval
  <2>4. IsFiniteSet(Requests \X (1 .. m))
    BY <2>3, FS_Product
  <2> QED
    BY <2>1, <2>4, FS_Subset
<1>4. RequestsAhead = R \cup A /\ R \cap A = {}
  <2>1. \A k : k \in 1 .. m /\ k <= a <=> k \in 1 .. a
    BY <1>1
  <2> HIDE DEF m, a
  <2> QED
    BY <2>1 DEF RequestsAhead, m, a
<1>5. RequestsAhead' = R \cup B /\ R \cap B = {}
  <2>1. \A k : k \in 1 .. m /\ k <= b <=> k \in 1 .. b
    BY <1>1
  <2>2. \A p \in (Requests \ one) \X (1 .. m) : RequestSteps(p[1])' = RequestSteps(p[1])
    OBVIOUS
  <2>3. RequestsAhead' = {p \in Requests \X (1 .. m) : p[2] <= RequestSteps(p[1])'}
    BY DEF RequestsAhead
  <2> HIDE DEF m, b
  <2> QED
    BY <2>1, <2>2, <2>3 DEF b
<1>6. /\ IsFiniteSet(A) /\ Cardinality(A) = a
      /\ IsFiniteSet(B) /\ Cardinality(B) = b
  <2> HIDE DEF m, a, b, one
  <2>1. 1 \in Int /\ a \in Int /\ b \in Int /\ a >= 0 /\ b >= 0
    BY <1>1
  <2>2. IsFiniteSet(1 .. a) /\ Cardinality(1 .. a) = a
    BY <2>1, FS_Interval
  <2>3. IsFiniteSet(1 .. b) /\ Cardinality(1 .. b) = b
    BY <2>1, FS_Interval
  <2>4. IsFiniteSet(A) /\ Cardinality(A) = Cardinality(one) * Cardinality(1 .. a)
    BY <1>2, <2>2, FS_Product
  <2>5. IsFiniteSet(B) /\ Cardinality(B) = Cardinality(one) * Cardinality(1 .. b)
    BY <1>2, <2>3, FS_Product
  <2> QED
    BY <1>2, <2>1, <2>2, <2>3, <2>4, <2>5
<1> HIDE DEF A, B, R, m, a, b, one
<1>7. /\ Cardinality(RequestsAhead) = Cardinality(R) + a
      /\ Cardinality(RequestsAhead') = Cardinality(R) + b
  <2>1. Cardinality(R) \in Nat
    BY <1>3, FS_CardinalityType
  <2>2. Cardinality({}) = 0
    BY FS_EmptySet
  <2>3. Cardinality(RequestsAhead) = Cardinality(R) + Cardinality(A) - Cardinality({})
    BY <1>3, <1>4, <1>6, FS_Union
  <2>4. Cardinality(RequestsAhead') = Cardinality(R) + Cardinality(B) - Cardinality({})
    BY <1>3, <1>5, <1>6, FS_Union
  <2> QED
    BY <1>1, <1>6, <2>1, <2>2, <2>3, <2>4
<1>8. Cardinality(R) \in Nat
  BY <1>3, FS_CardinalityType
<1>9. Cardinality(RequestsAhead) \in Nat /\ Cardinality(RequestsAhead') = Cardinality(RequestsAhead) + b - a
  BY <1>1, <1>7, <1>8
<1> QED
  BY <1>9 DEF a, b

LEMMA RequestCounted ==
  ASSUME IsFiniteSet(Requests), TypeOK, TypeOK', NEW q \in Requests,
         \A r \in Requests : r # q => RequestSteps(r)' = RequestSteps(r),
         RequestSteps(q)' + SharedAhead' < RequestSteps(q) + SharedAhead
  PROVE  StepsLeft \in Nat /\ StepsLeft' < StepsLeft
<1> DEFINE a == RequestSteps(q)
           b == RequestSteps(q)'
           s == SharedAhead
           t == SharedAhead'
           c == Cardinality(RequestsAhead)
           d == Cardinality(RequestsAhead')
<1>1. s \in Nat /\ t \in Nat
  BY StepsType, StepsTypeNext DEF StepsTyped
<1>2. a \in Int /\ b \in Int
  BY StepsType, StepsTypeNext, Constants DEF StepsTyped
<1>3. c \in Nat /\ d = c + b - a
  BY RequestMoves
<1>4. StepsLeft = c + s /\ StepsLeft' = d + t
  BY DEF StepsLeft
<1>5. b + t < a + s
  OBVIOUS
<1> HIDE DEF a, b, c, d, s, t
<1> QED
  BY <1>1, <1>2, <1>3, <1>4, <1>5

(* A step of what the requests share. *)
LEMMA SharedCounted ==
  ASSUME IsFiniteSet(Requests), TypeOK, TypeOK', UNCHANGED <<caller, serve, sent, chan>>,
         SharedAhead' < SharedAhead
  PROVE  StepsLeft \in Nat /\ StepsLeft' < StepsLeft
<1>1. RequestsAhead' = RequestsAhead
  BY DEF RequestsAhead, RequestSteps
<1>2. IsFiniteSet(RequestsAhead)
  <2> DEFINE m == 36 + ChanCap
  <2>1. 1 \in Int /\ m \in Int
    BY Constants
  <2>2. RequestsAhead \in SUBSET (Requests \X (1 .. m))
    BY DEF RequestsAhead
  <2> HIDE DEF m
  <2>3. IsFiniteSet(1 .. m)
    BY <2>1, FS_Interval
  <2>4. IsFiniteSet(Requests \X (1 .. m))
    BY <2>3, FS_Product
  <2> QED
    BY <2>2, <2>4, FS_Subset
<1> DEFINE c == Cardinality(RequestsAhead)
           d == Cardinality(RequestsAhead')
           s == SharedAhead
           t == SharedAhead'
<1>3. c \in Nat /\ d = c
  BY <1>1, <1>2, FS_CardinalityType
<1>4. s \in Nat /\ t \in Nat /\ t < s
  BY StepsType, StepsTypeNext DEF StepsTyped
<1>5. StepsLeft = c + s /\ StepsLeft' = d + t
  BY DEF StepsLeft
<1> HIDE DEF c, d, s, t
<1> QED
  BY <1>3, <1>4, <1>5

(* The sizes that the sums are made of. *)
Sizes(r) ==
  /\ CallStages(caller[r]) \in Nat /\ ServeStages(serve[r]) \in Nat
  /\ sent[r] \in Nat /\ Len(chan[r]) \in Nat
  /\ Len(requests) \in Nat /\ Len(out) \in Nat /\ Len(wire) \in Nat
  /\ ReaderStages(reader.st) \in Nat /\ EndsAhead \in Nat
AllSizes == \A r \in Requests : Sizes(r)

LEMMA SizesType == TypeOK => AllSizes
<1> SUFFICES ASSUME TypeOK, NEW r \in Requests PROVE Sizes(r)
  BY DEF AllSizes
<1>1. /\ CallStages(caller[r]) \in Nat /\ ServeStages(serve[r]) \in Nat /\ sent[r] \in Nat
      /\ ReaderStages(reader.st) \in Nat /\ EndsAhead \in Nat
  BY StepsOf DEF ReaderStages, EndsAhead
<1>2. chan[r] \in Seq(FrameType) /\ requests \in Seq(Requests \cup {Torn})
      /\ out \in Seq(FrameType) /\ wire \in Seq(FrameType)
  BY DEF TypeOK
<1> HIDE DEF FrameType
<1>3. /\ Len(chan[r]) \in Nat /\ Len(requests) \in Nat /\ Len(out) \in Nat /\ Len(wire) \in Nat
  BY <1>2
<1> QED
  BY <1>1, <1>3 DEF Sizes

LEMMA SizesTypeNext == TypeOK' => AllSizes'
  BY SizesType, PTL

(* A step of a caller. *)
LEMMA CallCounted ==
  ASSUME IsFiniteSet(Requests), TypeOK, TypeOK', NEW q \in Requests,
         UNCHANGED <<serve, sent, reader, handler, up, silent, cancelled, out, wire>>,
         \A r \in Requests : r # q => caller'[r] = caller[r] /\ chan'[r] = chan[r],
         2 * CallStages(caller'[q]) + Len(chan'[q]) + Len(requests')
           < 2 * CallStages(caller[q]) + Len(chan[q]) + Len(requests)
  PROVE  StepsLeft \in Nat /\ StepsLeft' < StepsLeft
<1>1. \A r \in Requests : r # q => RequestSteps(r)' = RequestSteps(r)
  BY DEF RequestSteps
<1> DEFINE a == CallStages(caller[q])
           b == Len(chan[q])
           c == Len(requests)
           x == CallStages(caller'[q])
           y == Len(chan'[q])
           z == Len(requests')
           s == ServeStages(serve[q])
           n == sent[q]
           u == Len(out)
           v == Len(wire)
           w == ReaderStages(reader.st)
           e == EndsAhead
<1>2. Sizes(q) /\ Sizes(q)'
  BY SizesType, SizesTypeNext DEF AllSizes
<1>3. EndsAhead' = EndsAhead
  BY DEF EndsAhead
<1>4. /\ RequestSteps(q) = 2 * a + 6 * s + 6 * (3 - n) + b
      /\ SharedAhead = c + 5 * u + 4 * v + w + e
      /\ RequestSteps(q)' = 2 * x + 6 * s + 6 * (3 - n) + y
      /\ SharedAhead' = z + 5 * u + 4 * v + w + e
  BY <1>3 DEF RequestSteps, SharedAhead, QueuesAhead
<1>5. 2 * x + y + z < 2 * a + b + c
  OBVIOUS
<1>6. /\ a \in Nat /\ b \in Nat /\ c \in Nat /\ s \in Nat /\ n \in Nat /\ u \in Nat /\ v \in Nat
      /\ w \in Nat /\ e \in Nat
  BY <1>2 DEF Sizes
<1>7. x \in Nat /\ y \in Nat /\ z \in Nat
  BY <1>2 DEF Sizes
<1> HIDE DEF a, b, c, x, y, z, s, n, u, v, w, e
<1>8. RequestSteps(q)' + SharedAhead' < RequestSteps(q) + SharedAhead
  BY <1>4, <1>5, <1>6, <1>7
<1> QED
  BY <1>1, <1>8, RequestCounted

(* A step of the server for a request. *)
LEMMA ServeCounted ==
  ASSUME IsFiniteSet(Requests), TypeOK, TypeOK', NEW q \in Requests,
         UNCHANGED <<caller, chan, reader, up, silent, cancelled, wire>>,
         \A r \in Requests : r # q => serve'[r] = serve[r] /\ sent'[r] = sent[r],
         EndsAhead' <= EndsAhead,
         6 * ServeStages(serve'[q]) - 6 * sent'[q] + 5 * Len(out') + Len(requests')
           < 6 * ServeStages(serve[q]) - 6 * sent[q] + 5 * Len(out) + Len(requests)
  PROVE  StepsLeft \in Nat /\ StepsLeft' < StepsLeft
<1>1. \A r \in Requests : r # q => RequestSteps(r)' = RequestSteps(r)
  BY DEF RequestSteps
<1> DEFINE a == ServeStages(serve[q])
           b == sent[q]
           c == Len(out)
           d == Len(requests)
           e == EndsAhead
           x == ServeStages(serve'[q])
           y == sent'[q]
           z == Len(out')
           t == Len(requests')
           f == EndsAhead'
           g == CallStages(caller[q])
           h == Len(chan[q])
           u == Len(wire)
           v == ReaderStages(reader.st)
<1>2. Sizes(q) /\ Sizes(q)'
  BY SizesType, SizesTypeNext DEF AllSizes
<1>3. /\ RequestSteps(q) = 2 * g + 6 * a + 6 * (3 - b) + h
      /\ SharedAhead = d + 5 * c + 4 * u + v + e
      /\ RequestSteps(q)' = 2 * g + 6 * x + 6 * (3 - y) + h
      /\ SharedAhead' = t + 5 * z + 4 * u + v + f
  BY DEF RequestSteps, SharedAhead, QueuesAhead
<1>4. 6 * x - 6 * y + 5 * z + t < 6 * a - 6 * b + 5 * c + d /\ f <= e
  OBVIOUS
<1>5. /\ a \in Nat /\ b \in Nat /\ c \in Nat /\ d \in Nat /\ e \in Nat
      /\ g \in Nat /\ h \in Nat /\ u \in Nat /\ v \in Nat
  BY <1>2 DEF Sizes
<1>6. x \in Nat /\ y \in Nat /\ z \in Nat /\ t \in Nat /\ f \in Nat
  BY <1>2 DEF Sizes
<1> HIDE DEF a, b, c, d, e, x, y, z, t, f, g, h, u, v
<1>7. RequestSteps(q)' + SharedAhead' < RequestSteps(q) + SharedAhead
  BY <1>3, <1>4, <1>5, <1>6
<1> QED
  BY <1>1, <1>7, RequestCounted

LEMMA CallFewer ==
  ASSUME IsFiniteSet(Requests), Basic, TypeOK', NEW q \in Requests,
         Insert(q) \/ CallerStep(q) \/ Timeout(q)
  PROVE  StepsLeft \in Nat /\ StepsLeft' < StepsLeft
<1>0. /\ requests \in Seq(Requests \cup {Torn}) /\ chan \in [Requests -> Seq(FrameType)]
      /\ caller \in [Requests -> {"new"} \cup Waiting \cup Done] /\ TypeOK
  BY DEF Basic, TypeOK
<1>1. /\ CallStages("new") = 3 /\ CallStages("inserted") = 2 /\ CallStages("written") = 1
      /\ \A s \in Done : CallStages(s) = 0
  BY DEF CallStages, Done
<1>2. Len(requests) \in Nat /\ Len(chan[q]) \in Nat
  BY SizesType, <1>0 DEF AllSizes, Sizes
<1>3. UNCHANGED <<serve, sent, reader, handler, up, silent, cancelled, out, wire>>
  BY DEF Insert, CallerStep, Timeout, Write, Receive, Reject, ReceiveClosed, DropTransfer, serverVars
<1>4. \A r \in Requests : r # q => caller'[r] = caller[r] /\ chan'[r] = chan[r]
  BY <1>0 DEF Insert, CallerStep, Timeout, Write, Receive, Reject, ReceiveClosed, DropTransfer
<1>5. \/ Len(requests') = Len(requests)
      \/ caller[q] = "inserted" /\ Len(requests') = Len(requests) + 1
  <2>1. requests' = requests \/
          (caller[q] = "inserted" /\ \E x \in Requests \cup {Torn} : requests' = Append(requests, x))
    BY DEF Insert, CallerStep, Timeout, Write, Receive, Reject, ReceiveClosed, DropTransfer
  <2> QED
    BY <1>0, <2>1, QueueTypes
<1>6. CASE Insert(q)
  <2>1. /\ caller[q] = "new" /\ caller'[q] = "inserted" /\ chan'[q] = chan[q] /\ requests' = requests
    BY <1>0, <1>6 DEF Insert
  <2>2. 2 * CallStages(caller'[q]) + Len(chan'[q]) + Len(requests')
          < 2 * CallStages(caller[q]) + Len(chan[q]) + Len(requests)
    BY <1>1, <1>2, <2>1
  <2> QED
    BY <1>0, <1>3, <1>4, <2>2, CallCounted
<1>7. CASE Write(q) \/ Reject(q) \/ ReceiveClosed(q) \/ DropTransfer(q) \/ Timeout(q)
  <2>1. /\ Len(chan'[q]) \in Nat /\ Len(chan'[q]) <= Len(chan[q])
    <3>1. chan'[q] = chan[q] \/ chan'[q] = <<>>
      BY <1>0, <1>7 DEF Write, Reject, ReceiveClosed, DropTransfer, Timeout
    <3>2. Len(<<>>) = 0
      OBVIOUS
    <3> QED
      BY <1>2, <3>1, <3>2
  <2>2. \/ caller[q] = "inserted" /\ caller'[q] \in {"written"} \cup Done
        \/ caller[q] = "written" /\ caller'[q] \in Done
    BY <1>0, <1>7 DEF Write, Reject, ReceiveClosed, DropTransfer, Timeout, Waiting, Done
  <2>3. /\ CallStages(caller[q]) \in Nat /\ CallStages(caller'[q]) \in Nat
        /\ CallStages(caller'[q]) <= CallStages(caller[q]) - 1
    BY <1>1, <2>2
  <2>4. 2 * CallStages(caller'[q]) + Len(chan'[q]) + Len(requests')
          < 2 * CallStages(caller[q]) + Len(chan[q]) + Len(requests)
    <3> DEFINE a == CallStages(caller[q])
               b == Len(chan[q])
               c == Len(requests)
               x == CallStages(caller'[q])
               y == Len(chan'[q])
               z == Len(requests')
    <3>1. a \in Nat /\ x \in Nat /\ x <= a - 1 /\ y \in Nat /\ y <= b /\ b \in Nat /\ c \in Nat
      BY <1>2, <2>1, <2>3
    <3>2. z = c \/ z = c + 1
      BY <1>5
    <3> HIDE DEF a, b, c, x, y, z
    <3>3. 2 * x + y + z < 2 * a + b + c
      BY <3>1, <3>2
    <3> QED
      BY <3>3 DEF a, b, c, x, y, z
  <2> QED
    BY <1>0, <1>3, <1>4, <2>4, CallCounted
<1>8. CASE Receive(q)
  <2>1. /\ caller[q] = "written" /\ caller'[q] \in {"written"} \cup Done /\ requests' = requests
        /\ chan[q] # <<>> /\ chan'[q] = Tail(chan[q]) /\ chan[q] \in Seq(FrameType)
    BY <1>0, <1>8 DEF Receive, Done
  <2>2. Len(chan'[q]) = Len(chan[q]) - 1
    BY <2>1, QueueTypes
  <2>3. /\ CallStages(caller[q]) \in Nat /\ CallStages(caller'[q]) \in Nat
        /\ CallStages(caller'[q]) <= CallStages(caller[q])
    BY <1>1, <2>1
  <2>4. 2 * CallStages(caller'[q]) + Len(chan'[q]) + Len(requests')
          < 2 * CallStages(caller[q]) + Len(chan[q]) + Len(requests)
    BY <1>2, <2>1, <2>2, <2>3
  <2> QED
    BY <1>0, <1>3, <1>4, <2>4, CallCounted
<1> QED
  BY <1>6, <1>7, <1>8 DEF CallerStep

LEMMA ServeFewer ==
  ASSUME IsFiniteSet(Requests), Basic, HandlerInv, TypeOK', NEW q \in Requests, ServeStep(q)
  PROVE  StepsLeft \in Nat /\ StepsLeft' < StepsLeft
<1>0. /\ out \in Seq(FrameType) /\ sent \in [Requests -> 0 .. 3]
      /\ serve \in [Requests -> {"no", "inline", "spawned", "refused", "done"}] /\ TypeOK
      /\ handler \in [st : {"read", "busy", "ended"}, req : Requests \cup {Torn}]
      /\ Torn \notin Requests /\ sent[q] \in Nat
  <2>1. sent \in [Requests -> 0 .. 3]
    BY DEF Basic, TypeOK
  <2>2. sent[q] \in Nat
    BY <2>1
  <2> QED
    BY <2>2, Constants DEF Basic, TypeOK
<1>1. /\ ServeStages("done") = 0 /\ ServeStages("inline") = 1 /\ ServeStages("spawned") = 1
      /\ ServeStages("refused") = 1
  BY DEF ServeStages
<1>2. Len(requests) \in Nat /\ Len(out) \in Nat
  BY SizesType, <1>0 DEF AllSizes, Sizes
<1>3. UNCHANGED <<caller, chan, reader, up, silent, cancelled, wire, requests>>
  BY DEF ServeStep, EmitFrame, EmitError, SendFails, clientVars
<1>4. \A r \in Requests : r # q => serve'[r] = serve[r] /\ sent'[r] = sent[r]
  BY <1>0 DEF ServeStep, EmitFrame, EmitError, SendFails, Answered
<1>5. EndsAhead' <= EndsAhead
  <2>1. handler' = handler \/ (handler.req = q /\ handler'.st \in {"read", "ended"})
    BY DEF ServeStep, EmitFrame, EmitError, SendFails, Answered
  <2>2. handler' = handler \/ handler.st = "busy"
    BY <1>0, <2>1 DEF HandlerInv
  <2> QED
    BY <1>3, <2>2 DEF EndsAhead
<1>6. serve[q] \in {"inline", "spawned", "refused"}
  BY DEF ServeStep, EmitFrame, EmitError, SendFails, Serving
<1>7. CASE EmitFrame(q)
  <2>1. /\ sent'[q] = sent[q] + 1 /\ serve'[q] \in {serve[q], "done"}
    BY <1>0, <1>7 DEF EmitFrame, Answered
  <2>2. Len(out') = Len(out) + 1
    BY <1>0, <1>6, <1>7, QueueTypes, FramesTyped DEF EmitFrame
  <2>3. ServeStages(serve'[q]) \in Nat /\ ServeStages(serve[q]) \in Nat
        /\ ServeStages(serve'[q]) <= ServeStages(serve[q])
    BY <1>1, <1>6, <2>1
  <2>4. 6 * ServeStages(serve'[q]) - 6 * sent'[q] + 5 * Len(out') + Len(requests')
          < 6 * ServeStages(serve[q]) - 6 * sent[q] + 5 * Len(out) + Len(requests)
    <3> DEFINE a == ServeStages(serve[q])
               b == sent[q]
               c == Len(out)
               d == Len(requests)
               x == ServeStages(serve'[q])
               y == sent'[q]
               z == Len(out')
               t == Len(requests')
    <3>1. /\ a \in Nat /\ b \in Nat /\ c \in Nat /\ d \in Nat /\ x \in Nat /\ x <= a
          /\ y = b + 1 /\ z = c + 1 /\ t = d
      BY <1>0, <1>2, <1>3, <2>1, <2>2, <2>3
    <3> HIDE DEF a, b, c, d, x, y, z, t
    <3>2. 6 * x - 6 * y + 5 * z + t < 6 * a - 6 * b + 5 * c + d
      BY <3>1
    <3> QED
      BY <3>2 DEF a, b, c, d, x, y, z, t
  <2> QED
    BY <1>0, <1>3, <1>4, <1>5, <2>4, ServeCounted
<1>8. CASE EmitError(q) \/ SendFails(q)
  <2>1. sent'[q] = sent[q] /\ serve'[q] = "done"
    BY <1>0, <1>8 DEF EmitError, SendFails, Answered
  <2>2. Len(out') = Len(out) \/ Len(out') = Len(out) + 1
    BY <1>0, <1>8, QueueTypes, FramesTyped DEF EmitError, SendFails
  <2>3. ServeStages(serve'[q]) = 0 /\ ServeStages(serve[q]) = 1
    BY <1>1, <1>6, <2>1
  <2>4. 6 * ServeStages(serve'[q]) - 6 * sent'[q] + 5 * Len(out') + Len(requests')
          < 6 * ServeStages(serve[q]) - 6 * sent[q] + 5 * Len(out) + Len(requests)
    <3> DEFINE a == ServeStages(serve[q])
               b == sent[q]
               c == Len(out)
               d == Len(requests)
               x == ServeStages(serve'[q])
               y == sent'[q]
               z == Len(out')
               t == Len(requests')
    <3>1. /\ a = 1 /\ b \in Nat /\ c \in Nat /\ d \in Nat /\ x = 0
          /\ y = b /\ (z = c \/ z = c + 1) /\ t = d
      BY <1>0, <1>2, <1>3, <2>1, <2>2, <2>3
    <3> HIDE DEF a, b, c, d, x, y, z, t
    <3>2. 6 * x - 6 * y + 5 * z + t < 6 * a - 6 * b + 5 * c + d
      BY <3>1
    <3> QED
      BY <3>2 DEF a, b, c, d, x, y, z, t
  <2> QED
    BY <1>0, <1>3, <1>4, <1>5, <2>4, ServeCounted
<1> QED
  BY <1>7, <1>8 DEF ServeStep

LEMMA HandlerFewer ==
  ASSUME IsFiniteSet(Requests), Basic, TaskInv, TypeOK', HandlerStep
  PROVE  StepsLeft \in Nat /\ StepsLeft' < StepsLeft
<1>0. /\ requests \in Seq(Requests \cup {Torn}) /\ sent \in [Requests -> 0 .. 3]
      /\ serve \in [Requests -> {"no", "inline", "spawned", "refused", "done"}] /\ TypeOK
      /\ handler \in [st : {"read", "busy", "ended"}, req : Requests \cup {Torn}]
      /\ Torn \notin Requests /\ out \in Seq(FrameType)
  BY Constants DEF Basic, TypeOK
<1>1. UNCHANGED <<caller, chan, reader, up, silent, cancelled, wire, out, sent>>
  BY DEF HandlerStep, HandlerReads, HandlerEof, HandlerFails, clientVars
<1>2. EndsAhead' <= EndsAhead
  BY <1>0, <1>1 DEF HandlerStep, HandlerReads, HandlerEof, HandlerFails, EndsAhead
<1>3. /\ ServeStages("done") = 0 /\ ServeStages("no") = 2
      /\ \A s \in {"inline", "spawned", "refused"} : ServeStages(s) = 1
  BY DEF ServeStages
<1>4. Len(requests) \in Nat /\ Len(out) \in Nat /\ Len(wire) \in Nat
  <2>1. wire \in Seq(FrameType)
    BY DEF Basic, TypeOK
  <2> QED
    BY <1>0, <2>1, QueueTypes
<1>5. CASE HandlerReads /\ Head(requests) # Torn
  <2>0. PICK q \in Requests : q = Head(requests)
    BY <1>0, <1>5, QueueTypes DEF HandlerReads
  <2>1. /\ q \in Requests /\ Len(requests') = Len(requests) - 1 /\ q = requests[1] /\ Len(requests) >= 1
    BY <1>0, <1>5, <2>0, QueueTypes DEF HandlerReads
  <2>2. \E s \in {"spawned", "refused", "inline"} : serve' = [serve EXCEPT ![q] = s]
    BY <1>5, <2>0 DEF HandlerReads
  <2>3. serve[q] = "no"
    BY <1>4, <1>5, <2>1 DEF Basic, OnceInv
  <2>4. /\ ServeStages(serve'[q]) = 1 /\ ServeStages(serve[q]) = 2 /\ sent'[q] = sent[q]
        /\ sent[q] \in Nat /\ Len(out') = Len(out)
        /\ \A r \in Requests : r # q => serve'[r] = serve[r] /\ sent'[r] = sent[r]
    BY <1>0, <1>1, <1>3, <2>1, <2>2, <2>3
  <2>5. 6 * ServeStages(serve'[q]) - 6 * sent'[q] + 5 * Len(out') + Len(requests')
          < 6 * ServeStages(serve[q]) - 6 * sent[q] + 5 * Len(out) + Len(requests)
    <3> DEFINE a == ServeStages(serve[q])
               b == sent[q]
               c == Len(out)
               d == Len(requests)
               x == ServeStages(serve'[q])
               y == sent'[q]
               z == Len(out')
               t == Len(requests')
    <3>1. /\ a = 2 /\ b \in Nat /\ c \in Nat /\ d \in Nat /\ x = 1 /\ y = b /\ z = c /\ t = d - 1
      BY <1>4, <2>1, <2>4
    <3> HIDE DEF a, b, c, d, x, y, z, t
    <3>2. 6 * x - 6 * y + 5 * z + t < 6 * a - 6 * b + 5 * c + d
      BY <3>1
    <3> QED
      BY <3>2 DEF a, b, c, d, x, y, z, t
  <2> QED
    BY <1>0, <1>1, <1>2, <2>1, <2>4, <2>5, ServeCounted
<1>6. CASE HandlerFails
  <2>0. PICK q \in Requests : q = handler.req
    BY <1>6 DEF HandlerFails, TaskInv
  <2>1. q \in Requests /\ serve[q] = "inline" /\ serve' = [serve EXCEPT ![q] = "done"]
        /\ requests' = requests
    BY <1>6, <2>0 DEF HandlerFails
  <2>2. /\ ServeStages(serve'[q]) = 0 /\ ServeStages(serve[q]) = 1 /\ sent'[q] = sent[q]
        /\ sent[q] \in Nat /\ Len(out') = Len(out) /\ Len(requests') = Len(requests)
        /\ \A r \in Requests : r # q => serve'[r] = serve[r] /\ sent'[r] = sent[r]
    BY <1>0, <1>1, <1>3, <2>1
  <2>3. 6 * ServeStages(serve'[q]) - 6 * sent'[q] + 5 * Len(out') + Len(requests')
          < 6 * ServeStages(serve[q]) - 6 * sent[q] + 5 * Len(out) + Len(requests)
    <3> DEFINE a == ServeStages(serve[q])
               b == sent[q]
               c == Len(out)
               d == Len(requests)
               x == ServeStages(serve'[q])
               y == sent'[q]
               z == Len(out')
               t == Len(requests')
    <3>1. /\ a = 1 /\ b \in Nat /\ c \in Nat /\ d \in Nat /\ x = 0 /\ y = b /\ z = c /\ t = d
      BY <1>4, <2>2
    <3> HIDE DEF a, b, c, d, x, y, z, t
    <3>2. 6 * x - 6 * y + 5 * z + t < 6 * a - 6 * b + 5 * c + d
      BY <3>1
    <3> QED
      BY <3>2 DEF a, b, c, d, x, y, z, t
  <2> QED
    BY <1>0, <1>1, <1>2, <2>1, <2>2, <2>3, ServeCounted
<1>7. CASE (HandlerReads /\ Head(requests) = Torn) \/ HandlerEof
  <2>1. UNCHANGED serve /\ handler.st = "read" /\ handler'.st = "ended"
    BY <1>7 DEF HandlerReads, HandlerEof
  <2>2. Len(requests') \in Nat /\ Len(requests') <= Len(requests)
    <3>1. requests' = requests \/ (requests # <<>> /\ requests' = Tail(requests))
      BY <1>7 DEF HandlerReads, HandlerEof
    <3> QED
      BY <1>0, <1>4, <3>1, QueueTypes
  <2>3. EndsAhead \in Nat /\ EndsAhead' \in Nat /\ EndsAhead' < EndsAhead
    BY <1>1, <2>1 DEF EndsAhead
  <2>4. QueuesAhead \in Nat /\ QueuesAhead' \in Nat /\ QueuesAhead' <= QueuesAhead
    BY <1>1, <1>4, <2>2 DEF QueuesAhead
  <2>5. ReaderStages(reader.st) \in Nat /\ ReaderStages(reader.st)' = ReaderStages(reader.st)
    BY <1>1 DEF ReaderStages
  <2>6. SharedAhead' < SharedAhead
    BY <2>3, <2>4, <2>5 DEF SharedAhead
  <2> QED
    BY <1>0, <1>1, <2>1, <2>6, SharedCounted
<1> QED
  BY <1>5, <1>6, <1>7 DEF HandlerStep

LEMMA ReaderFewer ==
  ASSUME IsFiniteSet(Requests), Basic, TypeOK', ReaderStep
  PROVE  StepsLeft \in Nat /\ StepsLeft' < StepsLeft
<1>0. /\ wire \in Seq(FrameType) /\ chan \in [Requests -> Seq(FrameType)] /\ TypeOK
      /\ reader \in [st : {"read", "send", "remove", "ended"}, frame : FrameType]
  BY DEF Basic, TypeOK
<1>1. UNCHANGED <<caller, serve, sent, handler, up, silent, cancelled, out, requests>>
  BY DEF ReaderStep, ReadFrame, Deliver, RemoveFinished, ReaderEnds, serverVars
<1>2. /\ ReaderStages("send") = 4 /\ ReaderStages("remove") = 2 /\ ReaderStages("read") = 1
      /\ ReaderStages("ended") = 0
  BY DEF ReaderStages
<1>3. EndsAhead' = EndsAhead /\ EndsAhead \in Nat
  BY <1>1 DEF EndsAhead
<1> DEFINE k == Len(wire)
           l == Len(wire')
           m == ReaderStages(reader.st)
           n == ReaderStages(reader'.st)
           u == Len(requests) + 5 * Len(out) + EndsAhead
<1>4. k \in Nat /\ l \in Nat /\ u \in Nat /\ m \in Nat /\ n \in Nat
  <2>1. requests \in Seq(Requests \cup {Torn}) /\ out \in Seq(FrameType)
    BY DEF Basic, TypeOK
  <2>2. Len(requests) \in Nat /\ Len(out) \in Nat /\ Len(wire) \in Nat
    BY <1>0, <2>1, QueueTypes
  <2>3. wire' \in Seq(FrameType)
    BY DEF TypeOK
  <2>4. Len(wire') \in Nat
    BY <2>3, QueueTypes
  <2> QED
    BY <1>3, <2>2, <2>4 DEF ReaderStages
<1>5. SharedAhead = u + 4 * k + m /\ SharedAhead' = u + 4 * l + n
  <2>1. Len(requests) \in Nat /\ Len(out) \in Nat
    <3>1. requests \in Seq(Requests \cup {Torn}) /\ out \in Seq(FrameType)
      BY DEF Basic, TypeOK
    <3> QED
      BY <3>1, QueueTypes
  <2> QED
    BY <1>1, <1>3, <1>4, <2>1 DEF SharedAhead, QueuesAhead
<1>6. CASE ReadFrame
  <2>1. /\ wire # <<>> /\ wire' = Tail(wire) /\ reader.st = "read" /\ UNCHANGED chan
        /\ reader'.st \in {"read", "send"}
    BY <1>6 DEF ReadFrame
  <2>2. l = k - 1 /\ m = 1 /\ n <= 4
    BY <1>0, <1>2, <2>1, QueueTypes
  <2> HIDE DEF k, l, m, n, u
  <2>3. SharedAhead' < SharedAhead
    BY <1>4, <1>5, <2>2
  <2> QED
    BY <1>0, <1>1, <2>1, <2>3, SharedCounted
<1>7. CASE RemoveFinished \/ ReaderEnds
  <2>1. /\ UNCHANGED <<wire, chan>>
        /\ \/ reader.st = "remove" /\ reader'.st = "read"
           \/ reader.st = "read" /\ reader'.st = "ended"
    BY <1>7 DEF RemoveFinished, ReaderEnds
  <2>2. l = k /\ n < m
    BY <1>2, <2>1
  <2> HIDE DEF k, l, m, n, u
  <2>3. SharedAhead' < SharedAhead
    BY <1>4, <1>5, <2>2
  <2> QED
    BY <1>0, <1>1, <2>1, <2>3, SharedCounted
<1>8. CASE Deliver
  <2>1. /\ UNCHANGED wire /\ reader.st = "send" /\ reader'.st \in {"remove", "read"}
        /\ \/ UNCHANGED chan
           \/ \E q \in Requests : chan' = [chan EXCEPT ![q] = Append(chan[q], reader.frame)]
    <3>1. reader.frame.req \notin Requests =>
            [chan EXCEPT ![reader.frame.req] = Append(chan[reader.frame.req], reader.frame)] = chan
      BY <1>0
    <3> QED
      BY <1>0, <1>8, <3>1 DEF Deliver
  <2>2. l = k /\ m = 4 /\ n <= 2
    BY <1>2, <2>1
  <2>3. CASE UNCHANGED chan
    <3> HIDE DEF k, l, m, n, u
    <3>1. SharedAhead' < SharedAhead
      BY <1>4, <1>5, <2>2
    <3> QED
      BY <1>0, <1>1, <2>3, <3>1, SharedCounted
  <2>4. ASSUME NEW q \in Requests, chan' = [chan EXCEPT ![q] = Append(chan[q], reader.frame)]
        PROVE  StepsLeft \in Nat /\ StepsLeft' < StepsLeft
    <3>1. \A r \in Requests : r # q => RequestSteps(r)' = RequestSteps(r)
      BY <1>0, <1>1, <2>4 DEF RequestSteps
    <3>2. Len(chan'[q]) = Len(chan[q]) + 1
      BY <1>0, <2>4, QueueTypes
    <3> DEFINE c == CallStages(caller[q])
               s == ServeStages(serve[q])
               e == sent[q]
               b == Len(chan[q])
    <3>3. Sizes(q)
      BY <1>0, <2>4, SizesType DEF AllSizes
    <3> HIDE DEF k, l, m, n, u
    <3>4. c \in Nat /\ s \in Nat /\ e \in Nat /\ b \in Nat
      BY <3>3 DEF Sizes
    <3>5. /\ RequestSteps(q) = 2 * c + 6 * s + 6 * (3 - e) + b
          /\ RequestSteps(q)' = 2 * c + 6 * s + 6 * (3 - e) + (b + 1)
      BY <1>1, <3>2 DEF RequestSteps
    <3> HIDE DEF c, s, e, b
    <3>6. RequestSteps(q)' + SharedAhead' < RequestSteps(q) + SharedAhead
      BY <1>4, <1>5, <2>2, <3>4, <3>5
    <3> QED
      BY <1>0, <3>1, <3>6, RequestCounted
  <2> QED
    BY <2>1, <2>3, <2>4
<1> QED
  BY <1>6, <1>7, <1>8 DEF ReaderStep

LEMMA WireFewer ==
  ASSUME IsFiniteSet(Requests), Basic, TypeOK', WriteOut \/ ServerCloses \/ Break \/ Notice \/ CancelAll
  PROVE  StepsLeft \in Nat /\ StepsLeft' < StepsLeft
<1>0. /\ wire \in Seq(FrameType) /\ out \in Seq(FrameType) /\ requests \in Seq(Requests \cup {Torn})
      /\ TypeOK
  BY DEF Basic, TypeOK
<1>1. UNCHANGED <<caller, serve, sent, chan, reader, handler>>
  BY DEF WriteOut, ServerCloses, Break, Notice, CancelAll, clientVars, serverVars
<1>2. ReaderStages(reader.st) \in Nat /\ ReaderStages(reader.st)' = ReaderStages(reader.st)
  BY <1>1 DEF ReaderStages
<1>3. Len(requests) \in Nat /\ Len(out) \in Nat /\ Len(wire) \in Nat
  BY <1>0, QueueTypes
<1>4. EndsAhead \in Nat /\ EndsAhead' \in Nat /\ QueuesAhead \in Nat
  BY <1>3 DEF EndsAhead, QueuesAhead
<1>5. CASE WriteOut
  <2>1. UNCHANGED <<requests, up, silent, cancelled>> /\ out # <<>> /\ out' = Tail(out)
        /\ wire' = Append(wire, Head(out))
    BY <1>5 DEF WriteOut, clientVars
  <2>2. Len(out') = Len(out) - 1 /\ Len(wire') = Len(wire) + 1 /\ Len(requests') = Len(requests)
    BY <1>0, <2>1, QueueTypes
  <2>3. QueuesAhead' = QueuesAhead - 1
    BY <1>3, <2>2 DEF QueuesAhead
  <2>4. EndsAhead' = EndsAhead
    BY <1>1, <2>1 DEF EndsAhead
  <2>5. SharedAhead' < SharedAhead
    BY <1>2, <1>4, <2>3, <2>4 DEF SharedAhead
  <2> QED
    BY <1>0, <1>1, <2>5, SharedCounted
<1>6. CASE ServerCloses \/ Break \/ Notice \/ CancelAll
  <2>1. /\ out' = out
        /\ \/ requests' \in {requests, <<>>}
           \/ \E j \in 0 .. Len(requests) : requests' = SubSeq(requests, j + 1, Len(requests))
        /\ wire' = wire \/ \E k \in 0 .. Len(wire) : wire' = SubSeq(wire, 1, k)
    BY <1>6 DEF ServerCloses, Break, Notice, CancelAll, serverVars
  <2>2. /\ Len(requests') \in Nat /\ Len(requests') <= Len(requests) /\ Len(out') = Len(out)
        /\ Len(wire') \in Nat /\ Len(wire') <= Len(wire)
    <3>1. Len(wire') \in Nat /\ Len(wire') <= Len(wire)
      <4>1. ASSUME NEW k \in 0 .. Len(wire), wire' = SubSeq(wire, 1, k) PROVE Len(wire') = k
        BY <1>0, <4>1, QueueTypes
      <4> QED
        BY <1>3, <2>1, <4>1
    <3>2. Len(requests') \in Nat /\ Len(requests') <= Len(requests)
      <4>1. ASSUME NEW j \in 0 .. Len(requests), requests' = SubSeq(requests, j + 1, Len(requests))
            PROVE  Len(requests') = Len(requests) - j
        BY <1>0, <4>1, SuffixOf
      <4>2. Len(<<>>) = 0
        OBVIOUS
      <4> QED
        BY <1>3, <2>1, <4>1, <4>2
    <3> QED
      BY <2>1, <3>1, <3>2
  <2>3. QueuesAhead' \in Nat /\ QueuesAhead' <= QueuesAhead
    BY <1>3, <2>2 DEF QueuesAhead
  <2>4. \/ up /\ ~up' /\ ~silent /\ UNCHANGED cancelled
        \/ silent /\ ~silent' /\ UNCHANGED <<up, cancelled>>
        \/ ~cancelled /\ cancelled' /\ UNCHANGED <<up, silent>>
    <3>1. up => ~silent
      BY <1>0 DEF TypeOK
    <3>2. CASE ServerCloses \/ Break
      BY <3>1, <3>2 DEF ServerCloses, Break, clientVars
    <3>3. CASE Notice
      <4>1. silent /\ ~silent'
        BY <3>3 DEF Notice
      <4>2. up' = up /\ cancelled' = cancelled
        BY <3>3 DEF Notice, clientVars
      <4> QED
        BY <4>1, <4>2
    <3>4. CASE CancelAll
      BY <3>4 DEF CancelAll
    <3> QED
      BY <1>6, <3>2, <3>3, <3>4
  <2>5. EndsAhead' < EndsAhead
    BY <1>1, <2>4 DEF EndsAhead
  <2>6. SharedAhead' < SharedAhead
    BY <1>2, <1>4, <2>3, <2>5 DEF SharedAhead
  <2> QED
    BY <1>0, <1>1, <2>6, SharedCounted
<1> QED
  BY <1>5, <1>6

(* Every step of a connection, of callers, reader, handler, serving tasks and
   writer, of the network and of the token, brings it nearer to its end: a
   finite number of requests is answered or given up in a bounded number of
   steps.  With ConnectionIsNeverBlocked, a connection whose tasks are polled
   ends every call that has a time-out or whose peer did not die silently,
   and leaves no task behind once all calls have ended. *)
THEOREM ConnectionStepsEnd ==
  ASSUME IsFiniteSet(Requests)
  PROVE  Spec => [][StepsLeft' < StepsLeft /\ StepsLeft \in Nat]_vars
<1>1. Init => TaskInv
  BY DEF Init, TaskInv
<1>2. Basic /\ HandlerInv /\ TaskInv /\ [Next]_vars => [StepsLeft' < StepsLeft /\ StepsLeft \in Nat]_vars
  <2> SUFFICES ASSUME Basic, HandlerInv, TaskInv, Next
               PROVE  StepsLeft \in Nat /\ StepsLeft' < StepsLeft
    OBVIOUS
  <2>1. TypeOK'
    BY BasicStep DEF Basic
  <2> QED
    BY <2>1, CallFewer, ServeFewer, HandlerFewer, ReaderFewer, WireFewer DEF Next
<1> QED
  BY <1>1, <1>2, EntriesHold, TaskStep, PTL DEF Spec
=============================================================================
