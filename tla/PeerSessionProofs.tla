-------------------------- MODULE PeerSessionProofs --------------------------
(***************************************************************************)
(* Proofs, for any number of connects, logins, runs, restarts of the       *)
(* sharing side and changes of its shares, that a stored session is known  *)
(* as long as its process lives, that an attached data connection finds    *)
(* its snapshot, that a run gets the share it asked for and, in the second *)
(* part, that both ends of a control connection agree on its session.      *)
(***************************************************************************)
EXTENDS PeerSession, TLAPS

LoginPc == {"unused", "start", "challenge", "finish", "accepted", "ok", "failed", "timeout"}
RunPc == {"unused", "preparing", "manifest", "connect", "attaching", "attached", "done", "failed"}

Entry == [kind : {"start", "finish"}, by : Logins] \cup [kind : {"snapshot"}, by : Runs]
ControlRec == [st : {"none", "open", "closed"}, queue : Seq(Entry),
               pending : SUBSET Logins, active : Logins \cup {None}]
LoginRec == [pc : LoginPc, client : Clients \cup {None}, share : Shares \cup {NoShare},
             alone : BOOLEAN]
RunRec == [pc : RunPc, client : Clients \cup {None}, share : Shares \cup {NoShare},
           session : Logins \cup {None}]

(* A connection that is not open has nothing on it. *)
Bare(c) == c = [NoControl EXCEPT !.st = c.st]
ControlType == /\ control \in [Clients -> ControlRec]
               /\ \A k \in Clients : Open(k) \/ Bare(control[k])
ServerType == /\ up \in BOOLEAN /\ starts \in Nat
              /\ share \in [Shares -> {"enabled", "disabled", "deleted"}] /\ edits \in Nat
              /\ sessions \subseteq Logins /\ snapshots \subseteq Runs
              /\ born \in [Logins -> Nat] /\ made \in [Runs -> Shares \cup {NoShare}]
ClientType == /\ current \in Clients \cup {None}
              /\ auth \in [Clients -> Logins \cup {None}]
LoginType == login \in [Logins -> LoginRec]
RunType == run \in [Runs -> RunRec]

LEMMA TypeParts ==
  TypeOK <=> ServerType /\ ControlType /\ ClientType /\ LoginType /\ RunType
BY DEF TypeOK, ServerType, ControlType, ClientType, LoginType, RunType, ControlRec, Entry,
       LoginRec, RunRec, LoginPc, RunPc, Bare

LEMMA TypePartsNext ==
  ServerType' /\ ControlType' /\ ClientType' /\ LoginType' /\ RunType' => TypeOK'
BY DEF TypeOK, ServerType, ControlType, ClientType, LoginType, RunType, ControlRec, Entry,
       LoginRec, RunRec, LoginPc, RunPc, Bare

LEMMA Numbers ==
  /\ Clients \subseteq Nat /\ Logins \subseteq Nat /\ Runs \subseteq Nat
  /\ None \notin Clients /\ None \notin Logins /\ None \notin Runs
BY PeerSessionAssumption DEF Clients, Logins, Runs, None

-----------------------------------------------------------------------------
(* Types. *)

LEMMA EntryOf ==
  /\ \A l \in Logins : Request("start", l) \in Entry /\ Request("finish", l) \in Entry
  /\ \A r \in Runs : Request("snapshot", r) \in Entry
BY DEF Request, Entry

LEMMA EntryKind ==
  ASSUME NEW e \in Entry
  PROVE  /\ e.kind \in {"start", "finish", "snapshot"}
         /\ e.kind # "snapshot" => e.by \in Logins
         /\ e.kind = "snapshot" => e.by \in Runs
BY DEF Entry

(* The connection of a request that is handled, and what is left behind it. *)
LEMMA HandledType ==
  ASSUME ControlType, NEW k \in Clients, Open(k), control[k].queue # <<>>
  PROVE  /\ control[k] \in ControlRec /\ Asked(k) \in Entry
         /\ Handled(k) \in ControlRec /\ Handled(k).st = "open"
         /\ Handled(k).pending = control[k].pending /\ Handled(k).active = control[k].active
         /\ Handled(k).queue = Tail(control[k].queue)
<1>1. control[k] \in ControlRec
  BY DEF ControlType
<1>2. control[k].queue \in Seq(Entry)
  BY <1>1 DEF ControlRec
<1>3. Head(control[k].queue) \in Entry /\ Tail(control[k].queue) \in Seq(Entry)
  BY <1>2
<1> QED
  BY <1>1, <1>3 DEF ControlRec, Handled, Asked, Open

LEMMA OneControl ==
  ASSUME ControlType, NEW k \in Clients, NEW c \in ControlRec, c.st = "open" \/ Bare(c),
         control' = [control EXCEPT ![k] = c]
  PROVE  ControlType'
BY DEF ControlType, Open

LEMMA SendType ==
  ASSUME ControlType, NEW k \in Clients, NEW kind, NEW by, Request(kind, by) \in Entry,
         Send(k, kind, by)
  PROVE  ControlType'
<1>1. CASE Open(k)
  <2> DEFINE c == [control[k] EXCEPT !.queue = Append(@, Request(kind, by))]
  <2>1. control[k] \in ControlRec
    BY DEF ControlType
  <2>2. Append(control[k].queue, Request(kind, by)) \in Seq(Entry)
    BY <2>1 DEF ControlRec
  <2>3. c \in ControlRec /\ c.st = "open"
    BY <1>1, <2>1, <2>2 DEF ControlRec, Open
  <2>4. control' = [control EXCEPT ![k] = c]
    BY <1>1 DEF Send
  <2> HIDE DEF c
  <2> QED
    BY <2>3, <2>4, OneControl
<1>2. CASE ~Open(k)
  BY <1>2 DEF Send, ControlType, Open
<1> QED
  BY <1>1, <1>2

LEMMA BareControls ==
  /\ NoControl \in ControlRec /\ Bare(NoControl)
  /\ Closed \in ControlRec /\ Bare(Closed) /\ Closed.st = "closed" /\ Closed.queue = <<>>
<1>1. <<>> \in Seq(Entry) /\ {} \in SUBSET Logins
  OBVIOUS
<1>2. NoControl \in ControlRec /\ Closed \in ControlRec
  BY <1>1 DEF NoControl, Closed, ControlRec
<1>3. Bare(NoControl) /\ Bare(Closed)
  BY DEF NoControl, Closed, Bare
<1>4. Closed.st = "closed" /\ Closed.queue = <<>>
  BY DEF NoControl, Closed
<1> QED
  BY <1>2, <1>3, <1>4

LEMMA LoginToType ==
  ASSUME LoginType, NEW l \in Logins, NEW pc \in LoginPc, LoginTo(l, pc)
  PROVE  LoginType'
BY DEF LoginType, LoginTo, LoginRec

LEMMA RunToType ==
  ASSUME RunType, NEW r \in Runs, NEW pc \in RunPc, RunTo(r, pc)
  PROVE  RunType'
BY DEF RunType, RunTo, RunRec

LEMMA ServeType ==
  ASSUME TypeOK, NEW k \in Clients, ServeStep(k) PROVE TypeOK'
<1> USE DEF LoginPc, RunPc, serverVars
<1>0. ServerType /\ ControlType /\ ClientType /\ LoginType /\ RunType
  BY TypeParts
<1>1. /\ Open(k) /\ control[k] \in ControlRec /\ Asked(k) \in Entry
      /\ Handled(k) \in ControlRec /\ Handled(k).st = "open"
  BY <1>0, HandledType DEF ServeStep, ServeStart, ServeFinish, ServeSnapshot, Handles
<1>2. CASE ServeStart(k)
  <2> DEFINE l == Asked(k).by
             c == [Handled(k) EXCEPT !.pending = @ \cup {l}]
  <2>1. l \in Logins
    BY <1>1, <1>2, EntryKind DEF ServeStart, Handles
  <2>2. c \in ControlRec /\ c.st = "open"
    BY <1>1, <2>1 DEF ControlRec
  <2>3. \E d \in ControlRec : d.st = "open" /\ control' = [control EXCEPT ![k] = d]
    <3>1. control' = [control EXCEPT ![k] = c] \/ control' = [control EXCEPT ![k] = Handled(k)]
      BY <1>2 DEF ServeStart
    <3> HIDE DEF c
    <3> QED
      BY <1>1, <2>2, <3>1
  <2>4. ControlType'
    BY <1>0, <2>3, OneControl
  <2>5. \E pc \in LoginPc : LoginTo(l, pc)
    <3>1. login[l].pc \in LoginPc
      BY <1>0, <2>1 DEF LoginType, LoginRec
    <3> QED
      BY <1>2, <3>1 DEF ServeStart, AnswerLogin
  <2>6. LoginType'
    BY <1>0, <2>1, <2>5, LoginToType
  <2>7. ServerType' /\ ClientType' /\ RunType'
    BY <1>0, <1>2 DEF ServeStart, ServerType, ClientType, RunType
  <2> QED
    BY <2>4, <2>6, <2>7, TypePartsNext
<1>3. CASE ServeFinish(k)
  <2> DEFINE l == Asked(k).by
             c == [Handled(k) EXCEPT !.pending = @ \ {l}, !.active = l]
  <2>1. l \in Logins
    BY <1>1, <1>3, EntryKind DEF ServeFinish, Handles
  <2>2. c \in ControlRec /\ c.st = "open"
    BY <1>1, <2>1 DEF ControlRec
  <2>3. control' = [control EXCEPT ![k] = c]
    BY <1>3 DEF ServeFinish
  <2>4. ControlType'
    <3> HIDE DEF c
    <3> QED
      BY <1>0, <2>2, <2>3, OneControl
  <2>5. LoginType'
    <3>1. login[l].pc \in LoginPc
      BY <1>0, <2>1 DEF LoginType, LoginRec
    <3>2. \E pc \in LoginPc : LoginTo(l, pc)
      BY <1>3, <3>1 DEF ServeFinish, AnswerLogin
    <3> QED
      BY <1>0, <2>1, <3>2, LoginToType
  <2>6. sessions' \subseteq Logins /\ born' \in [Logins -> Nat]
    BY <1>0, <1>3, <2>1 DEF ServeFinish, ServerType
  <2>7. ServerType' /\ ClientType' /\ RunType'
    BY <1>0, <1>3, <2>6 DEF ServeFinish, ServerType, ClientType, RunType
  <2> QED
    BY <2>4, <2>5, <2>7, TypePartsNext
<1>4. CASE ServeSnapshot(k)
  <2> DEFINE r == Asked(k).by
             s == login[control[k].active].share
  <2>1. r \in Runs
    BY <1>1, <1>4, EntryKind DEF ServeSnapshot, Handles
  <2>2. control[k].active \in Logins
    BY <1>1, <1>4 DEF ServeSnapshot, SessionFor, ControlRec
  <2>3. s \in Shares \cup {NoShare}
    BY <1>0, <2>2 DEF LoginType, LoginRec
  <2>4. ControlType'
    BY <1>0, <1>1, <1>4, OneControl DEF ServeSnapshot
  <2>5. RunType'
    <3>1. run[r].pc \in RunPc
      BY <1>0, <2>1 DEF RunType, RunRec
    <3>2. \E pc \in RunPc : RunTo(r, pc)
      BY <1>4, <3>1 DEF ServeSnapshot, AnswerRun
    <3> QED
      BY <1>0, <2>1, <3>2, RunToType
  <2>6. snapshots' \subseteq Runs /\ made' \in [Runs -> Shares \cup {NoShare}]
    BY <1>0, <1>4, <2>1, <2>3 DEF ServeSnapshot, ServerType
  <2>7. ServerType' /\ ClientType' /\ LoginType'
    BY <1>0, <1>4, <2>6 DEF ServeSnapshot, ServerType, ClientType, LoginType
  <2> QED
    BY <2>4, <2>5, <2>7, TypePartsNext
<1> QED
  BY <1>2, <1>3, <1>4 DEF ServeStep

(* A run that has begun has its client. *)
Placed == \A r \in Runs : run[r].pc # "unused" => run[r].client # None

LEMMA TypeStep == ASSUME TypeOK, Placed, [Next]_vars PROVE TypeOK'
<1> USE Numbers DEF LoginPc, RunPc, serverVars
<1>0. ServerType /\ ControlType /\ ClientType /\ LoginType /\ RunType
  BY TypeParts
<1>1. ASSUME NEW k \in Clients, Connect(k) PROVE TypeOK'
  <2>1. control[k] \in ControlRec /\ [control[k] EXCEPT !.st = "open"] \in ControlRec
    BY <1>0 DEF ControlType, ControlRec
  <2>2. ControlType'
    <3> DEFINE c == [control[k] EXCEPT !.st = "open"]
    <3>1. c.st = "open" /\ control' = [control EXCEPT ![k] = c]
      BY <1>1, <2>1 DEF Connect, ControlRec
    <3> HIDE DEF c
    <3> QED
      BY <1>0, <2>1, <3>1, OneControl DEF c
  <2>3. ServerType' /\ ClientType' /\ LoginType' /\ RunType'
    BY <1>0, <1>1 DEF Connect, ServerType, ClientType, LoginType, RunType
  <2> QED
    BY <2>2, <2>3, TypePartsNext
<1>2. ASSUME NEW k \in Clients, ServeStep(k) PROVE TypeOK'
  BY <1>2, ServeType
<1>3. ASSUME NEW k \in Clients, ControlEnds(k) PROVE TypeOK'
  <2>1. ControlType'
    BY <1>0, <1>3, BareControls, OneControl DEF ControlEnds
  <2> QED
    BY <1>0, <1>3, <2>1, TypePartsNext DEF ControlEnds, ServerType, ClientType, LoginType, RunType
<1>4. ASSUME NEW l \in Logins, LoginStep(l) PROVE TypeOK'
  <2>1. LoginType'
    <3>1. \E pc \in LoginPc : LoginTo(l, pc)
      BY <1>4 DEF LoginStep, Challenged, StoreAuth, LoginFails, LoginTimesOut
    <3> QED
      BY <1>0, <3>1, LoginToType
  <2>2. ControlType'
    <3>1. CASE Challenged(l) /\ Send(login[l].client, "finish", l)
      <4>1. CASE login[l].client \in Clients
        BY <1>0, <3>1, <4>1, EntryOf, SendType
      <4>2. CASE login[l].client \notin Clients
        BY <1>0, <3>1, <4>2 DEF Send, ControlType, Open
      <4> QED
        BY <4>1, <4>2
    <3>2. CASE UNCHANGED control
      BY <1>0, <3>2 DEF ControlType, Open
    <3> QED
      BY <1>4, <3>1, <3>2 DEF LoginStep, Challenged, StoreAuth, LoginFails, LoginTimesOut
  <2>3. ClientType'
    BY <1>0, <1>4 DEF LoginStep, Challenged, StoreAuth, LoginFails, LoginTimesOut, ClientType
  <2>4. ServerType' /\ RunType'
    BY <1>0, <1>4
       DEF LoginStep, Challenged, StoreAuth, LoginFails, LoginTimesOut, ServerType, RunType
  <2> QED
    BY <2>1, <2>2, <2>3, <2>4, TypePartsNext
<1>5. ASSUME NEW l \in Logins, NEW s \in Shares, BeginLogin(l, s) PROVE TypeOK'
  <2>1. current \in Clients
    BY <1>0, <1>5 DEF BeginLogin, ClientType
  <2>2. ControlType'
    BY <1>0, <1>5, <2>1, EntryOf, SendType DEF BeginLogin
  <2>3. LoginType'
    <3>1. PICK others : login' = [j \in Logins |->
                    IF j = l THEN [pc |-> "start", client |-> current, share |-> s,
                                   alone |-> others = {}]
                    ELSE [login[j] EXCEPT !.alone = @ /\ j \notin others]]
      BY <1>5 DEF BeginLogin
    <3>2. [pc |-> "start", client |-> current, share |-> s, alone |-> others = {}] \in LoginRec
      BY <2>1 DEF LoginRec
    <3>3. ASSUME NEW j \in Logins
          PROVE  [login[j] EXCEPT !.alone = @ /\ j \notin others] \in LoginRec
      <4>1. login[j] \in LoginRec
        BY <1>0 DEF LoginType
      <4>2. (login[j].alone /\ j \notin others) \in BOOLEAN
        OBVIOUS
      <4> QED
        BY <4>1, <4>2 DEF LoginRec
    <3> QED
      BY <3>1, <3>2, <3>3 DEF LoginType
  <2> QED
    BY <1>0, <1>5, <2>2, <2>3, TypePartsNext DEF BeginLogin, ServerType, ClientType, RunType
<1>6. ASSUME NEW r \in Runs, RunStep(r) \/ DataBreaks(r) PROVE TypeOK'
  <2>1. RunType'
    <3>1. CASE OpenData(r)
      <4>1. run[r] \in RunRec /\ run[r].client \in Clients
        BY <1>0, <3>1 DEF OpenData, Placed, RunType, RunRec
      <4>2. auth[run[r].client] \in Logins \cup {None}
        BY <1>0, <4>1 DEF ClientType
      <4>3. PICK pc \in RunPc : run' = [run EXCEPT ![r].pc = pc,
                                                  ![r].session = auth[run[r].client]]
        BY <3>1 DEF OpenData
      <4>4. run' = [run EXCEPT ![r] = [run[r] EXCEPT !.pc = pc, !.session = auth[run[r].client]]]
        BY <1>0, <4>1, <4>3 DEF RunType
      <4>5. [run[r] EXCEPT !.pc = pc, !.session = auth[run[r].client]] \in RunRec
        BY <4>1, <4>2 DEF RunRec
      <4> QED
        BY <1>0, <4>4, <4>5 DEF RunType
    <3>2. CASE ~OpenData(r)
      <4>1. \E pc \in RunPc : RunTo(r, pc)
        BY <1>6, <3>2
           DEF RunStep, PrepareFails, PrepareTimesOut, Start, ServeAttach, ServeChunk, DataBreaks
      <4> QED
        BY <1>0, <4>1, RunToType
    <3> QED
      BY <3>1, <3>2
  <2>2. UNCHANGED <<serverVars, control, current, auth, login, born, made>>
    BY <1>6 DEF RunStep, PrepareFails, PrepareTimesOut, Start, OpenData, ServeAttach,
                ServeChunk, DataBreaks
  <2> QED
    BY <1>0, <2>1, <2>2, TypePartsNext DEF ServerType, ControlType, Open, ClientType, LoginType
<1>7. ASSUME NEW r \in Runs, NEW s \in Shares, Prepare(r, s) PROVE TypeOK'
  <2>1. current \in Clients
    BY <1>0, <1>7 DEF Prepare, ClientType
  <2>2. ControlType'
    BY <1>0, <1>7, <2>1, EntryOf, SendType DEF Prepare
  <2>3. RunType'
    BY <1>0, <1>7, <2>1 DEF Prepare, RunType, RunRec
  <2> QED
    BY <1>0, <1>7, <2>2, <2>3, TypePartsNext DEF Prepare, ServerType, ClientType, LoginType
<1>8. CASE Stop
  <2>1. ControlType'
    BY <1>0, <1>8, BareControls DEF Stop, ControlType, Open
  <2>2. RunType'
    BY <1>0, <1>8 DEF Stop, RunType, RunRec
  <2> QED
    BY <1>0, <1>8, <2>1, <2>2, TypePartsNext DEF Stop, ServerType, ClientType, LoginType
<1>9. CASE StartAgain
  BY <1>0, <1>9, TypePartsNext
     DEF StartAgain, ServerType, ControlType, Open, ClientType, LoginType, RunType
<1>10. ASSUME NEW s \in Shares, EditShare(s) PROVE TypeOK'
  BY <1>0, <1>10, TypePartsNext
     DEF EditShare, ServerType, ControlType, Open, ClientType, LoginType, RunType
<1>11. CASE UNCHANGED vars
  BY <1>0, <1>11, TypePartsNext
     DEF vars, ServerType, ControlType, Open, ClientType, LoginType, RunType
<1> QED
  BY <1>1, <1>2, <1>3, <1>4, <1>5, <1>6, <1>7, <1>8, <1>9, <1>10, <1>11 DEF Next

-----------------------------------------------------------------------------
(* What ties the two sides together.  Requests, stored sessions and sessions
   on the other side belong to the client whose login they are; a run beyond
   its manifest has its snapshot as long as anything of its client, the control
   connection or a session, is left on the other side. *)
Known(k) == Open(k) \/ \E l \in sessions : login[l].client = k

QueueOwned ==
  \A k \in Clients : \A i \in 1 .. Len(control[k].queue) :
    control[k].queue[i].kind # "snapshot" => login[control[k].queue[i].by].client = k
Connected ==
  /\ current # None => control[current].st # "none"
  /\ \A r \in Runs : run[r].client # None => control[run[r].client].st # "none"
LoginOwned ==
  \A l \in Logins : /\ login[l].pc = "unused" => login[l].client = None
                    /\ l \in sessions => login[l].client # None
AuthOwned == \A k \in Clients : auth[k] # None => login[auth[k]].client = k
SessionOwned ==
  \A r \in Runs :
    run[r].pc \in {"attaching", "attached"} =>
      /\ run[r].session \in Logins /\ login[run[r].session].client = run[r].client
      /\ run[r].pc = "attached" => run[r].session \in sessions
HasSnapshot ==
  \A r \in Runs : /\ run[r].pc \in {"manifest", "connect", "attaching", "attached"}
                  /\ Known(run[r].client)
                  => r \in snapshots
BornKnown ==
  \A l \in Logins : born[l] <= starts /\ (up /\ born[l] = starts => l \in sessions)
Started == starts > 0

Owned == /\ QueueOwned /\ Connected /\ LoginOwned /\ AuthOwned
IInv == /\ TypeOK /\ Placed /\ Owned /\ SessionOwned /\ HasSnapshot
        /\ BornKnown /\ Started /\ ManifestOfShare

(* The steps that leave the runs alone, with what they have in common: logins
   keep their clients, or one begins. *)
LEMMA LoginToClients ==
  ASSUME LoginType, NEW l \in Logins, NEW pc, LoginTo(l, pc)
  PROVE  \A j \in Logins : /\ login'[j].client = login[j].client
                           /\ login'[j].share = login[j].share
                           /\ j # l => login'[j].pc = login[j].pc
                           /\ login'[l].pc = pc
BY DEF LoginType, LoginTo, LoginRec

LEMMA RunToRuns ==
  ASSUME RunType, NEW r \in Runs, NEW pc, RunTo(r, pc)
  PROVE  \A q \in Runs : /\ run'[q].client = run[q].client
                         /\ run'[q].share = run[q].share
                         /\ run'[q].session = run[q].session
                         /\ q # r => run'[q].pc = run[q].pc
                         /\ run'[r].pc = pc
BY DEF RunType, RunTo, RunRec

(* A sent request is the last one of its queue, and only on an open one. *)
LEMMA SendQueue ==
  ASSUME ControlType, NEW k \in Clients, NEW kind, NEW by, Send(k, kind, by)
  PROVE  /\ \A j \in Clients : j # k => control'[j] = control[j]
         /\ control'[k].st = control[k].st
         /\ \A j \in Clients : \A i \in 1 .. Len(control'[j].queue) :
              \/ i \in 1 .. Len(control[j].queue) /\ control'[j].queue[i] = control[j].queue[i]
              \/ j = k /\ control'[j].queue[i] = Request(kind, by)
<1>1. CASE Open(k)
  <2>1. control[k] \in ControlRec /\ control[k].queue \in Seq(Entry)
    BY DEF ControlType, ControlRec
  <2>2. /\ \A j \in Clients : j # k => control'[j] = control[j]
        /\ control'[k] = [control[k] EXCEPT !.queue = Append(@, Request(kind, by))]
    BY <1>1 DEF Send, ControlType
  <2>3. /\ control'[k].st = control[k].st
        /\ control'[k].queue = Append(control[k].queue, Request(kind, by))
    BY <2>1, <2>2 DEF ControlRec
  <2>4. \A i \in 1 .. Len(control'[k].queue) :
          \/ i \in 1 .. Len(control[k].queue) /\ control'[k].queue[i] = control[k].queue[i]
          \/ control'[k].queue[i] = Request(kind, by)
    <3> DEFINE q == control[k].queue
               e == Request(kind, by)
    <3>1. ASSUME NEW i \in 1 .. Len(Append(q, e))
          PROVE  (i \in 1 .. Len(q) /\ Append(q, e)[i] = q[i]) \/ Append(q, e)[i] = e
      <4> q \in Seq(Entry)
        BY <2>1
      <4> HIDE DEF q, e
      <4> QED
        OBVIOUS
    <3> QED
      BY <2>3, <3>1
  <2> QED
    BY <2>2, <2>3, <2>4
<1>2. CASE ~Open(k)
  BY <1>2 DEF Send
<1> QED
  BY <1>1, <1>2

(* A handled request leaves the rest of its queue. *)
LEMMA HandledQueue ==
  ASSUME ControlType, NEW k \in Clients, Open(k), control[k].queue # <<>>
  PROVE  /\ Asked(k) = control[k].queue[1] /\ 1 \in 1 .. Len(control[k].queue)
         /\ \A i \in 1 .. Len(Handled(k).queue) :
              i + 1 \in 1 .. Len(control[k].queue) /\ Handled(k).queue[i] = control[k].queue[i + 1]
<1>1. control[k].queue \in Seq(Entry) /\ Handled(k).queue = Tail(control[k].queue)
  BY HandledType DEF ControlRec
<1> DEFINE q == control[k].queue
<1>2. /\ Head(q) = q[1] /\ 1 \in 1 .. Len(q)
      /\ \A i \in 1 .. Len(Tail(q)) : i + 1 \in 1 .. Len(q) /\ Tail(q)[i] = q[i + 1]
  <2> q \in Seq(Entry) /\ q # <<>>
    BY <1>1
  <2> HIDE DEF q
  <2> QED
    OBVIOUS
<1> QED
  BY <1>1, <1>2 DEF Asked

(* Ownership after a step in which queues grow by owned requests only. *)
LEMMA QueueOwnedStep ==
  ASSUME TypeOK, QueueOwned,
         \A j \in Clients : \A i \in 1 .. Len(control'[j].queue) :
           LET e == control'[j].queue[i]
           IN \/ \E m \in 1 .. Len(control[j].queue) : e = control[j].queue[m]
              \/ e.kind = "snapshot"
              \/ login'[e.by].client = j,
         \A l \in Logins : login[l].client # None => login'[l].client = login[l].client
  PROVE  QueueOwned'
<1> SUFFICES ASSUME NEW j \in Clients, NEW i \in 1 .. Len(control'[j].queue),
                    control'[j].queue[i].kind # "snapshot"
             PROVE  login'[control'[j].queue[i].by].client = j
  BY DEF QueueOwned
<1>1. CASE \E m \in 1 .. Len(control[j].queue) : control'[j].queue[i] = control[j].queue[m]
  <2>1. PICK m \in 1 .. Len(control[j].queue) : control'[j].queue[i] = control[j].queue[m]
    BY <1>1
  <2>2. control[j].queue[m] \in Entry
    BY TypeParts DEF ControlType, ControlRec
  <2>3. control[j].queue[m].by \in Logins /\ login[control[j].queue[m].by].client = j
    BY <2>1, <2>2, EntryKind DEF QueueOwned
  <2> QED
    BY <2>1, <2>3, Numbers
<1> QED
  BY <1>1

LEMMA OwnedLogin ==
  ASSUME TypeOK, TypeOK', Owned, NEW l \in Logins, LoginStep(l) PROVE Owned'
<1> USE Numbers DEF Owned, serverVars
<1>0. ServerType /\ ControlType /\ ClientType /\ LoginType
  BY TypeParts
<1>1. PICK pc \in LoginPc \ {"unused"} : LoginTo(l, pc)
  BY <1>0 DEF LoginStep, Challenged, StoreAuth, LoginFails, LoginTimesOut, LoginPc
<1>2. /\ \A j \in Logins : login'[j].client = login[j].client
      /\ \A j \in Logins : login'[j].pc = "unused" => login[j].pc = "unused"
  BY <1>0, <1>1, LoginToClients
<1>3. UNCHANGED <<serverVars, current, run>>
  BY DEF LoginStep, Challenged, StoreAuth, LoginFails, LoginTimesOut
<1>4. login[l].pc # "unused"
  BY DEF LoginStep, Challenged, StoreAuth, LoginFails, LoginTimesOut, InFlight
<1>5. \/ UNCHANGED control
      \/ login[l].client \in Clients /\ Send(login[l].client, "finish", l)
  <2>1. login[l].client \in Clients \/ UNCHANGED control \/ Challenged(l)
    BY DEF LoginStep, StoreAuth, LoginFails, LoginTimesOut
  <2>2. CASE Challenged(l) /\ login[l].client \notin Clients
    BY <1>0, <2>2 DEF Challenged, Send, ControlType
  <2> QED
    BY <2>1, <2>2 DEF LoginStep, Challenged, StoreAuth, LoginFails, LoginTimesOut
<1>6. \A k \in Clients : control'[k].st = control[k].st
  BY <1>0, <1>5, SendQueue
<1>7. QueueOwned'
  <2>1. ASSUME NEW j \in Clients, NEW i \in 1 .. Len(control'[j].queue)
        PROVE  \/ \E m \in 1 .. Len(control[j].queue) : control'[j].queue[i] = control[j].queue[m]
               \/ control'[j].queue[i].kind = "snapshot"
               \/ login'[control'[j].queue[i].by].client = j
    <3>1. CASE UNCHANGED control
      BY <3>1
    <3>2. CASE login[l].client \in Clients /\ Send(login[l].client, "finish", l)
      <4> DEFINE c == login[l].client
      <4>0. c \in Clients /\ Send(c, "finish", l)
        BY <3>2
      <4> HIDE DEF c
      <4>3. \A m \in Clients : \A n \in 1 .. Len(control'[m].queue) :
              \/ n \in 1 .. Len(control[m].queue) /\ control'[m].queue[n] = control[m].queue[n]
              \/ m = c /\ control'[m].queue[n] = Request("finish", l)
        BY <1>0, <4>0, SendQueue
      <4>1. \/ i \in 1 .. Len(control[j].queue) /\ control'[j].queue[i] = control[j].queue[i]
            \/ j = login[l].client /\ control'[j].queue[i] = Request("finish", l)
        BY <4>3 DEF c
      <4>2. Request("finish", l).by = l
        BY DEF Request
      <4> QED
        BY <1>2, <4>1, <4>2
    <3> QED
      BY <1>5, <3>1, <3>2
  <2> QED
    BY <1>2, <2>1, QueueOwnedStep
<1>8. Connected'
  <2>1. \A r \in Runs : run[r].client \in Clients \cup {None}
    BY TypeParts DEF RunType, RunRec
  <2> QED
    BY <1>0, <1>3, <1>6, <2>1 DEF Connected, ClientType
<1>9. LoginOwned'
  <2>1. sessions' = sessions
    BY <1>3
  <2>2. ASSUME NEW j \in Logins
        PROVE  /\ login'[j].pc = "unused" => login'[j].client = None
               /\ j \in sessions' => login'[j].client # None
    <3>1. /\ login[j].pc = "unused" => login[j].client = None
          /\ j \in sessions => login[j].client # None
      BY DEF LoginOwned
    <3>2. /\ login'[j].client = login[j].client
          /\ login'[j].pc = "unused" => login[j].pc = "unused"
      BY <1>2
    <3> QED
      BY <2>1, <3>1, <3>2
  <2> QED
    BY <2>2 DEF LoginOwned
<1>10. AuthOwned'
  <2>1. UNCHANGED auth \/ auth' = [auth EXCEPT ![login[l].client] = l]
    BY DEF LoginStep, Challenged, StoreAuth, LoginFails, LoginTimesOut
  <2>2. \A k \in Clients : auth[k] \in Logins \cup {None}
    BY <1>0 DEF ClientType
  <2>3. ASSUME NEW k \in Clients, auth'[k] # None PROVE login'[auth'[k]].client = k
    <3>1. auth'[k] = auth[k] \/ (login[l].client = k /\ auth'[k] = l)
      BY <1>0, <2>1 DEF ClientType
    <3> QED
      BY <1>2, <2>2, <2>3, <3>1 DEF AuthOwned
  <2> QED
    BY <2>3 DEF AuthOwned
<1> QED
  BY <1>7, <1>8, <1>9, <1>10

LEMMA OwnedServe ==
  ASSUME TypeOK, TypeOK', Owned, NEW k \in Clients, ServeStep(k)
  PROVE  /\ Owned'
         /\ \A j \in Logins : /\ login'[j].client = login[j].client
                              /\ login'[j].share = login[j].share
         /\ Open(k) /\ \A j \in Clients : control'[j].st = control[j].st
         /\ \A l \in sessions' \ sessions : login[l].client = k
<1> USE Numbers DEF Owned, serverVars
<1>0. ServerType /\ ControlType /\ ClientType /\ LoginType /\ RunType
  BY TypeParts
<1>1. /\ Open(k) /\ control[k].queue # <<>> /\ Asked(k) \in Entry
      /\ Handled(k).st = "open" /\ Handled(k) \in ControlRec
  BY <1>0, HandledType DEF ServeStep, ServeStart, ServeFinish, ServeSnapshot, Handles
<1>2. CASE ServeStart(k) \/ ServeFinish(k)
  <2> DEFINE l == Asked(k).by
  <2>1. l \in Logins /\ login[l].client = k
    <3>1. Asked(k).kind # "snapshot"
      BY <1>2 DEF ServeStart, ServeFinish, Handles
    <3>2. Asked(k) = control[k].queue[1] /\ 1 \in 1 .. Len(control[k].queue)
      BY <1>0, <1>1, HandledQueue
    <3> QED
      BY <1>1, <3>1, <3>2, EntryKind DEF QueueOwned
  <2>2. login[l].pc # "unused" /\ login[l].pc \in LoginPc
    BY <1>0, <2>1 DEF LoginOwned, LoginType, LoginRec
  <2>3. \E pc \in LoginPc \ {"unused"} : LoginTo(l, pc)
    BY <1>2, <2>2 DEF ServeStart, ServeFinish, AnswerLogin, LoginPc
  <2>4. \A j \in Logins : /\ login'[j].client = login[j].client
                          /\ login'[j].share = login[j].share
                          /\ login'[j].pc = "unused" => login[j].pc = "unused"
    <3>1. PICK pc \in LoginPc \ {"unused"} : LoginTo(l, pc)
      BY <2>3
    <3>2. \A j \in Logins : /\ login'[j].client = login[j].client
                            /\ login'[j].share = login[j].share
                            /\ j # l => login'[j].pc = login[j].pc
                            /\ login'[l].pc = pc
      BY <1>0, <2>1, <3>1, LoginToClients
    <3> QED
      BY <2>1, <2>2, <3>1, <3>2
  <2>5. PICK c \in ControlRec : /\ c.st = "open" /\ c.queue = Handled(k).queue
                                /\ control' = [control EXCEPT ![k] = c]
    <3>1. CASE control' = [control EXCEPT ![k] = Handled(k)]
      BY <1>1, <3>1
    <3>2. CASE control' = [control EXCEPT ![k] = [Handled(k) EXCEPT !.pending = @ \cup {l}]]
      <4> DEFINE c == [Handled(k) EXCEPT !.pending = @ \cup {l}]
      <4>1. c \in ControlRec /\ c.st = "open" /\ c.queue = Handled(k).queue
        BY <1>1, <2>1 DEF ControlRec
      <4> HIDE DEF c
      <4> QED
        BY <3>2, <4>1 DEF c
    <3>3. CASE control' = [control EXCEPT ![k] = [Handled(k) EXCEPT !.pending = @ \ {l},
                                                                    !.active = l]]
      <4> DEFINE c == [Handled(k) EXCEPT !.pending = @ \ {l}, !.active = l]
      <4>1. c \in ControlRec /\ c.st = "open" /\ c.queue = Handled(k).queue
        BY <1>1, <2>1 DEF ControlRec
      <4> HIDE DEF c
      <4> QED
        BY <3>3, <4>1 DEF c
    <3> QED
      BY <1>2, <3>1, <3>2, <3>3 DEF ServeStart, ServeFinish
  <2>6. /\ \A j \in Clients : control'[j].st = control[j].st
        /\ control'[k].queue = Handled(k).queue
        /\ \A j \in Clients : j # k => control'[j] = control[j]
    BY <1>0, <1>1, <2>5 DEF ControlType, Open
  <2>7. /\ UNCHANGED <<current, auth, run>>
        /\ sessions' = sessions \/ sessions' = sessions \cup {l}
    BY <1>2 DEF ServeStart, ServeFinish
  <2>8. QueueOwned'
    BY <1>0, <1>1, <2>4, <2>6, HandledQueue, QueueOwnedStep
  <2>9. Connected'
    <3>1. \A r \in Runs : run[r].client \in Clients \cup {None}
      BY <1>0 DEF RunType, RunRec
    <3>2. current' = current /\ run' = run /\ current \in Clients \cup {None}
      BY <1>0, <2>7 DEF ClientType
    <3> QED
      BY <2>6, <3>1, <3>2 DEF Connected
  <2>10. LoginOwned'
    <3>1. ASSUME NEW j \in Logins
          PROVE  /\ login'[j].pc = "unused" => login'[j].client = None
                 /\ j \in sessions' => login'[j].client # None
      <4>1. /\ login[j].pc = "unused" => login[j].client = None
            /\ j \in sessions => login[j].client # None
        BY DEF LoginOwned
      <4>2. j \in sessions' => j \in sessions \/ j = l
        BY <2>7
      <4> QED
        BY <2>1, <2>4, <4>1, <4>2
    <3> QED
      BY <3>1 DEF LoginOwned
  <2>11. AuthOwned'
    BY <1>0, <2>4, <2>7 DEF AuthOwned, ClientType
  <2> QED
    BY <1>1, <2>1, <2>4, <2>6, <2>7, <2>8, <2>9, <2>10, <2>11
<1>3. CASE ServeSnapshot(k)
  <2> DEFINE r == Asked(k).by
  <2>1. r \in Runs
    BY <1>1, <1>3, EntryKind DEF ServeSnapshot, Handles
  <2>2. /\ control' = [control EXCEPT ![k] = Handled(k)]
        /\ UNCHANGED <<sessions, current, auth, login>>
        /\ \E pc : RunTo(r, pc)
    BY <1>3 DEF ServeSnapshot, AnswerRun
  <2>3. /\ \A j \in Clients : control'[j].st = control[j].st
        /\ control'[k].queue = Handled(k).queue
        /\ \A j \in Clients : j # k => control'[j] = control[j]
    BY <1>0, <1>1, <2>2 DEF ControlType, Open
  <2>4. QueueOwned'
    BY <1>0, <1>1, <2>2, <2>3, HandledQueue, QueueOwnedStep
  <2>5. Connected'
    <3>1. \A q \in Runs : run[q].client \in Clients \cup {None} /\ run'[q].client = run[q].client
      BY <1>0, <2>1, <2>2, RunToRuns DEF RunType, RunRec
    <3> QED
      BY <1>0, <2>2, <2>3, <3>1 DEF Connected, ClientType
  <2>6. LoginOwned' /\ AuthOwned'
    BY <2>2 DEF LoginOwned, AuthOwned
  <2> QED
    BY <1>1, <2>2, <2>3, <2>4, <2>5, <2>6
<1> QED
  BY <1>2, <1>3 DEF ServeStep

LEMMA OwnedConnection ==
  ASSUME TypeOK, Owned, NEW k \in Clients, Connect(k) \/ ControlEnds(k) PROVE Owned'
<1> USE Numbers DEF Owned, serverVars
<1>0. ControlType /\ ClientType /\ RunType
  BY TypeParts
<1>1. PICK c \in ControlRec : /\ c.st \in {"open", "closed"}
                              /\ c.queue = control[k].queue \/ c.queue = <<>>
                              /\ control' = [control EXCEPT ![k] = c]
  <2>1. CASE Connect(k)
    <3> DEFINE c == [control[k] EXCEPT !.st = "open"]
    <3>1. control[k] \in ControlRec
      BY <1>0 DEF ControlType
    <3>2. c \in ControlRec /\ c.st = "open" /\ c.queue = control[k].queue
      BY <3>1 DEF ControlRec
    <3>3. control' = [control EXCEPT ![k] = c]
      BY <2>1 DEF Connect
    <3> HIDE DEF c
    <3> QED
      BY <3>2, <3>3
  <2>2. CASE ControlEnds(k)
    BY <2>2, BareControls DEF ControlEnds
  <2> QED
    BY <2>1, <2>2
<1>2. /\ control'[k].st # "none"
      /\ control'[k].queue = control[k].queue \/ control'[k].queue = <<>>
      /\ \A j \in Clients : j # k => control'[j] = control[j]
  BY <1>0, <1>1 DEF ControlType
<1>3. UNCHANGED <<sessions, auth, login, run>> /\ current' \in {current, k}
  BY DEF Connect, ControlEnds
<1>4. QueueOwned'
  BY <1>2, <1>3, QueueOwnedStep
<1>5. Connected'
  <2>1. current \in Clients \cup {None} /\ \A r \in Runs : run[r].client \in Clients \cup {None}
    BY <1>0 DEF ClientType, RunType, RunRec
  <2>2. current' # None => control'[current'].st # "none"
    BY <1>2, <1>3, <2>1 DEF Connected
  <2>3. ASSUME NEW r \in Runs, run[r].client # None PROVE control'[run[r].client].st # "none"
    BY <1>2, <2>1, <2>3 DEF Connected
  <2> QED
    BY <1>3, <2>2, <2>3 DEF Connected
<1>6. LoginOwned' /\ AuthOwned'
  BY <1>3 DEF LoginOwned, AuthOwned
<1> QED
  BY <1>4, <1>5, <1>6

LEMMA OwnedBegin ==
  ASSUME TypeOK, Owned, NEW l \in Logins, NEW s \in Shares, BeginLogin(l, s)
  PROVE  /\ Owned'
         /\ \A j \in Logins : login[j].client # None => login'[j].client = login[j].client
         /\ \A j \in Logins : j \in sessions => login'[j].client = login[j].client
<1> USE Numbers DEF Owned, serverVars
<1>0. ServerType /\ ControlType /\ ClientType /\ LoginType /\ RunType
  BY TypeParts
<1>1. /\ current \in Clients /\ Send(current, "start", l) /\ login[l].pc = "unused"
      /\ UNCHANGED <<sessions, current, auth, run>>
  BY <1>0 DEF BeginLogin, ClientType
<1>2. /\ login'[l].pc = "start" /\ login'[l].client = current
      /\ \A j \in Logins : j # l => /\ login'[j].pc = login[j].pc
                                    /\ login'[j].client = login[j].client
  <2>1. PICK others : login' = [j \in Logins |->
                  IF j = l THEN [pc |-> "start", client |-> current, share |-> s,
                                 alone |-> others = {}]
                  ELSE [login[j] EXCEPT !.alone = @ /\ j \notin others]]
    BY DEF BeginLogin
  <2>2. \A j \in Logins : login[j] \in LoginRec
    BY <1>0 DEF LoginType
  <2> QED
    BY <2>1, <2>2 DEF LoginRec
<1>3. login[l].client = None /\ l \notin sessions
  BY <1>1 DEF LoginOwned
<1>4. /\ \A j \in Clients : control'[j].st = control[j].st
      /\ \A j \in Clients : \A i \in 1 .. Len(control'[j].queue) :
           \/ i \in 1 .. Len(control[j].queue) /\ control'[j].queue[i] = control[j].queue[i]
           \/ j = current /\ control'[j].queue[i] = Request("start", l)
  BY <1>0, <1>1, SendQueue
<1>5. QueueOwned'
  <2>1. Request("start", l).by = l
    BY DEF Request
  <2> QED
    BY <1>2, <1>3, <1>4, <2>1, QueueOwnedStep
<1>6. Connected'
  <2>1. \A r \in Runs : run[r].client \in Clients \cup {None}
    BY <1>0 DEF RunType, RunRec
  <2> QED
    BY <1>1, <1>4, <2>1 DEF Connected
<1>7. LoginOwned'
  <2>1. ASSUME NEW j \in Logins
        PROVE  /\ login'[j].pc = "unused" => login'[j].client = None
               /\ j \in sessions => login'[j].client # None
    BY <1>1, <1>2, <1>3 DEF LoginOwned
  <2> QED
    BY <1>1, <2>1 DEF LoginOwned
<1>8. AuthOwned'
  <2>1. ASSUME NEW k \in Clients, auth[k] # None PROVE login'[auth[k]].client = k
    <3>1. auth[k] \in Logins /\ login[auth[k]].client = k
      BY <1>0, <2>1 DEF ClientType, AuthOwned
    <3> QED
      BY <1>2, <1>3, <3>1
  <2> QED
    BY <1>1, <2>1 DEF AuthOwned
<1> QED
  BY <1>2, <1>3, <1>5, <1>6, <1>7, <1>8

LEMMA OwnedRuns ==
  ASSUME TypeOK, Owned, NEW r \in Runs,
         RunStep(r) \/ DataBreaks(r) \/ \E s \in Shares : Prepare(r, s)
  PROVE  Owned'
<1> USE Numbers DEF Owned, serverVars
<1>0. ServerType /\ ControlType /\ ClientType /\ RunType
  BY TypeParts
<1>1. CASE RunStep(r) \/ DataBreaks(r)
  <2>1. UNCHANGED <<serverVars, control, current, auth, login>>
    BY <1>1 DEF RunStep, PrepareFails, PrepareTimesOut, Start, OpenData, ServeAttach,
                ServeChunk, DataBreaks
  <2>2. \A q \in Runs : run'[q].client = run[q].client
    <3>1. CASE OpenData(r)
      <4>1. \A q \in Runs : run[q] \in RunRec
        BY <1>0 DEF RunType
      <4> QED
        BY <1>0, <3>1, <4>1 DEF OpenData, RunType, RunRec
    <3>2. CASE ~OpenData(r)
      <4>1. \E pc : RunTo(r, pc)
        BY <1>1, <3>2
           DEF RunStep, PrepareFails, PrepareTimesOut, Start, ServeAttach, ServeChunk, DataBreaks
      <4> QED
        BY <1>0, <4>1, RunToRuns
    <3> QED
      BY <3>1, <3>2
  <2> QED
    BY <2>1, <2>2 DEF QueueOwned, Connected, LoginOwned, AuthOwned
<1>2. ASSUME NEW s \in Shares, Prepare(r, s) PROVE Owned'
  <2>1. /\ current \in Clients /\ Send(current, "snapshot", r)
        /\ UNCHANGED <<sessions, current, auth, login>>
    BY <1>0, <1>2 DEF Prepare, ClientType
  <2>2. /\ run'[r].client = current
        /\ \A q \in Runs : q # r => run'[q] = run[q]
    BY <1>0, <1>2 DEF Prepare, RunType
  <2>3. /\ \A j \in Clients : control'[j].st = control[j].st
        /\ \A j \in Clients : \A i \in 1 .. Len(control'[j].queue) :
             \/ i \in 1 .. Len(control[j].queue) /\ control'[j].queue[i] = control[j].queue[i]
             \/ j = current /\ control'[j].queue[i] = Request("snapshot", r)
    BY <1>0, <2>1, SendQueue
  <2>4. QueueOwned'
    <3>1. Request("snapshot", r).kind = "snapshot"
      BY DEF Request
    <3> QED
      BY <2>1, <2>3, <3>1, QueueOwnedStep
  <2>5. Connected'
    <3>1. \A q \in Runs : run[q].client \in Clients \cup {None}
      BY <1>0 DEF RunType, RunRec
    <3>2. ASSUME NEW q \in Runs, run'[q].client # None
          PROVE  control'[run'[q].client].st # "none"
      BY <2>1, <2>2, <2>3, <3>1, <3>2 DEF Connected
    <3> QED
      BY <2>1, <2>3, <3>2 DEF Connected
  <2>6. LoginOwned' /\ AuthOwned'
    BY <2>1 DEF LoginOwned, AuthOwned
  <2> QED
    BY <2>4, <2>5, <2>6
<1> QED
  BY <1>1, <1>2

LEMMA OwnedServer ==
  ASSUME TypeOK, Owned,
         Stop \/ StartAgain \/ (\E s \in Shares : EditShare(s)) \/ UNCHANGED vars
  PROVE  Owned'
<1> USE Numbers DEF Owned, serverVars
<1>0. ControlType /\ ClientType /\ RunType
  BY TypeParts
<1>1. CASE Stop
  <2>1. /\ UNCHANGED <<current, auth, login>> /\ sessions' = {}
        /\ \A k \in Clients : control'[k] = IF Open(k) THEN Closed ELSE control[k]
        /\ \A r \in Runs : run'[r].client = run[r].client
    <3>1. \A r \in Runs : run[r] \in RunRec
      BY <1>0 DEF RunType
    <3> QED
      BY <1>1, <3>1 DEF Stop, RunRec
  <2>2. QueueOwned'
    BY <2>1, BareControls, QueueOwnedStep
  <2>3. Connected'
    <3>1. current \in Clients \cup {None} /\ \A r \in Runs : run[r].client \in Clients \cup {None}
      BY <1>0 DEF ClientType, RunType, RunRec
    <3> QED
      BY <2>1, <3>1, BareControls DEF Connected
  <2>4. LoginOwned' /\ AuthOwned'
    BY <2>1 DEF LoginOwned, AuthOwned
  <2> QED
    BY <2>2, <2>3, <2>4
<1>2. CASE ~Stop
  <2>1. UNCHANGED <<sessions, control, current, auth, login, run>>
    BY <1>2 DEF StartAgain, EditShare, vars
  <2> QED
    BY <2>1 DEF QueueOwned, Connected, LoginOwned, AuthOwned
<1> QED
  BY <1>1, <1>2

-----------------------------------------------------------------------------
(* The runs. *)
RunInv == Placed /\ SessionOwned /\ HasSnapshot /\ ManifestOfShare

(* A step that changes neither runs nor snapshots, and makes no client known
   to the other side that was not. *)
LEMMA RunsKept ==
  ASSUME TypeOK, RunInv, UNCHANGED <<run, made, snapshots>>, sessions \subseteq sessions',
         \A l \in Logins : login[l].client # None => login'[l].client = login[l].client,
         \A r \in Runs : run[r].client # None /\ Known(run[r].client)' => Known(run[r].client)
  PROVE  RunInv'
<1> USE DEF RunInv
<1>1. Placed' /\ ManifestOfShare'
  BY DEF Placed, ManifestOfShare
<1>2. SessionOwned'
  <2>1. ASSUME NEW r \in Runs, run[r].pc \in {"attaching", "attached"}
        PROVE  /\ run[r].session \in Logins /\ login'[run[r].session].client = run[r].client
               /\ run[r].pc = "attached" => run[r].session \in sessions'
    BY <2>1 DEF SessionOwned, Placed
  <2> QED
    BY <2>1 DEF SessionOwned
<1>3. HasSnapshot'
  <2>1. ASSUME NEW r \in Runs, Known(run[r].client)',
               run[r].pc \in {"manifest", "connect", "attaching", "attached"}
        PROVE  r \in snapshots
    BY <2>1 DEF Placed, HasSnapshot
  <2> QED
    BY <2>1 DEF HasSnapshot
<1> QED
  BY <1>1, <1>2, <1>3

LEMMA RunsConnection ==
  ASSUME TypeOK, Owned, RunInv, NEW k \in Clients, Connect(k) \/ ControlEnds(k) PROVE RunInv'
<1> USE Numbers DEF serverVars
<1>0. ControlType
  BY TypeParts
<1>1. UNCHANGED <<run, made, snapshots, sessions, login>>
  BY DEF Connect, ControlEnds
<1>2. ASSUME NEW r \in Runs, run[r].client # None, Known(run[r].client)'
      PROVE  Known(run[r].client)
  <2>1. control[run[r].client].st # "none" /\ run[r].client \in Clients
    BY <1>2, TypeParts DEF Owned, Connected, RunType, RunRec
  <2>2. CASE Connect(k)
    <3>1. run[r].client # k /\ control'[run[r].client] = control[run[r].client]
      BY <1>0, <2>1, <2>2 DEF Connect, ControlType
    <3> QED
      BY <1>1, <1>2, <3>1 DEF Known, Open
  <2>3. CASE ControlEnds(k)
    <3>1. Open(run[r].client)' => Open(run[r].client)
      BY <1>0, <1>1, <2>1, <2>3, BareControls DEF ControlEnds, ControlType, Open
    <3> QED
      BY <1>1, <1>2, <3>1 DEF Known
  <2> QED
    BY <2>2, <2>3
<1> QED
  BY <1>1, <1>2, RunsKept

LEMMA RunsLogin ==
  ASSUME TypeOK, Owned, RunInv, NEW l \in Logins,
         LoginStep(l) \/ \E s \in Shares : BeginLogin(l, s)
  PROVE  RunInv'
<1> USE Numbers DEF serverVars
<1>0. ServerType /\ ControlType /\ ClientType /\ LoginType /\ RunType
  BY TypeParts
<1>1. UNCHANGED <<run, made, snapshots, sessions>>
  BY DEF LoginStep, Challenged, StoreAuth, LoginFails, LoginTimesOut, BeginLogin
<1>2. /\ \A j \in Logins : login[j].client # None => login'[j].client = login[j].client
      /\ \A j \in sessions : login'[j].client = login[j].client
  <2>1. CASE LoginStep(l)
    <3>1. \E pc : LoginTo(l, pc)
      BY <2>1 DEF LoginStep, Challenged, StoreAuth, LoginFails, LoginTimesOut
    <3>2. \A j \in Logins : login'[j].client = login[j].client
      BY <1>0, <3>1, LoginToClients
    <3> QED
      BY <1>0, <3>2 DEF ServerType
  <2>2. ASSUME NEW s \in Shares, BeginLogin(l, s)
        PROVE  /\ \A j \in Logins : login[j].client # None => login'[j].client = login[j].client
               /\ \A j \in sessions : login'[j].client = login[j].client
    BY <1>0, <2>2, OwnedBegin DEF ServerType
  <2> QED
    BY <2>1, <2>2
<1>3. \A k \in Clients : control'[k].st = control[k].st
  <2>1. CASE UNCHANGED control
    BY <2>1
  <2>2. ASSUME NEW k \in Clients, NEW kind, NEW by, Send(k, kind, by)
        PROVE  \A j \in Clients : control'[j].st = control[j].st
    BY <1>0, <2>2, SendQueue
  <2>3. ASSUME Challenged(l), login[l].client \notin Clients PROVE UNCHANGED control
    BY <1>0, <2>3 DEF Challenged, Send, ControlType
  <2>4. (\E s \in Shares : BeginLogin(l, s)) =>
          \E k \in Clients : \E kind, by : Send(k, kind, by)
    BY <1>0 DEF BeginLogin, ClientType
  <2>5. LoginStep(l) => UNCHANGED control \/ \E k \in Clients : \E kind, by : Send(k, kind, by)
    BY <2>3 DEF LoginStep, Challenged, StoreAuth, LoginFails, LoginTimesOut
  <2> QED
    BY <2>1, <2>2, <2>4, <2>5
<1>4. ASSUME NEW r \in Runs, run[r].client # None, Known(run[r].client)'
      PROVE  Known(run[r].client)
  <2>1. run[r].client \in Clients
    BY <1>0, <1>4 DEF RunType, RunRec
  <2> QED
    BY <1>1, <1>2, <1>3, <1>4, <2>1 DEF Known, Open
<1> QED
  BY <1>1, <1>2, <1>4, RunsKept

LEMMA RunsServe ==
  ASSUME TypeOK, TypeOK', Owned, RunInv, NEW k \in Clients, ServeStep(k) PROVE RunInv'
<1> USE Numbers DEF serverVars
<1>0. ServerType /\ ControlType /\ ClientType /\ LoginType /\ RunType
  BY TypeParts
<1>1. /\ \A j \in Logins : login'[j].client = login[j].client
      /\ Open(k) /\ \A j \in Clients : control'[j].st = control[j].st
      /\ \A l \in sessions' \ sessions : login[l].client = k
  BY OwnedServe
<1>2. sessions \subseteq sessions' /\ sessions' \subseteq Logins /\ sessions \subseteq Logins
  <2>1. sessions' \subseteq Logins
    BY DEF TypeOK
  <2> QED
    BY <1>0, <2>1 DEF ServeStep, ServeStart, ServeFinish, ServeSnapshot, ServerType
<1>3. ASSUME NEW r \in Runs, run[r].client # None, NEW c, c = run[r].client, Known(c)'
      PROVE  Known(c)
  <2>1. c \in Clients
    BY <1>0, <1>3 DEF RunType, RunRec
  <2>2. CASE Open(c)'
    BY <1>1, <2>1, <2>2 DEF Open, Known
  <2>3. ASSUME NEW l \in sessions', login'[l].client = c PROVE Known(c)
    BY <1>1, <1>2, <2>3 DEF Known
  <2> QED
    BY <1>3, <2>2, <2>3 DEF Known
<1>4. CASE ServeStart(k) \/ ServeFinish(k)
  <2>1. UNCHANGED <<run, made, snapshots>>
    BY <1>4 DEF ServeStart, ServeFinish
  <2>2. \A r \in Runs : run[r].client # None /\ Known(run[r].client)' => Known(run[r].client)
    BY <1>3, <2>1 DEF Known, Open
  <2> QED
    BY <1>1, <1>2, <2>1, <2>2, RunsKept
<1>5. CASE ServeSnapshot(k)
  <2> USE DEF RunInv
  <2> DEFINE r == Asked(k).by
  <2>1. r \in Runs
    BY <1>0, <1>5, HandledType, EntryKind DEF ServeSnapshot, Handles
  <2>2. /\ UNCHANGED <<sessions, login>>
        /\ \/ UNCHANGED <<snapshots, made>> /\ AnswerRun(r, "failed")
           \/ /\ snapshots' = snapshots \cup {r} /\ AnswerRun(r, "manifest")
              /\ made' = [made EXCEPT ![r] = run[r].share]
    BY <1>5 DEF ServeSnapshot, SessionFor
  <2>3. /\ \A q \in Runs : /\ run'[q].client = run[q].client
                           /\ run'[q].share = run[q].share
                           /\ run'[q].session = run[q].session
                           /\ q # r => run'[q].pc = run[q].pc
        /\ \/ run'[r].pc = run[r].pc
           \/ run[r].pc = "preparing" /\ run'[r].pc = "failed"
           \/ run[r].pc = "preparing" /\ run'[r].pc = "manifest" /\ r \in snapshots'
    <3>1. PICK pc : /\ RunTo(r, pc)
                    /\ \/ pc = run[r].pc
                       \/ run[r].pc = "preparing" /\ pc = "failed"
                       \/ run[r].pc = "preparing" /\ pc = "manifest" /\ r \in snapshots'
      BY <2>2 DEF AnswerRun
    <3>2. \A q \in Runs : /\ run'[q].client = run[q].client
                          /\ run'[q].share = run[q].share
                          /\ run'[q].session = run[q].session
                          /\ q # r => run'[q].pc = run[q].pc
                          /\ run'[r].pc = pc
      BY <1>0, <2>1, <3>1, RunToRuns
    <3> QED
      BY <2>1, <3>1, <3>2
  <2>4. Placed'
    <3>1. ASSUME NEW q \in Runs, run'[q].pc # "unused" PROVE run'[q].client # None
      <4>1. run[q].pc # "unused"
        BY <2>3, <3>1
      <4> QED
        BY <2>3, <4>1 DEF Placed
    <3> QED
      BY <3>1 DEF Placed
  <2>5. SessionOwned'
    <3>1. ASSUME NEW q \in Runs, run'[q].pc \in {"attaching", "attached"}
          PROVE  run'[q].pc = run[q].pc
      BY <2>3, <3>1
    <3> QED
      BY <2>2, <2>3, <3>1 DEF SessionOwned
  <2>6. HasSnapshot'
    <3>1. ASSUME NEW q \in Runs, Known(run[q].client)',
                 run'[q].pc \in {"manifest", "connect", "attaching", "attached"}
          PROVE  q \in snapshots'
      <4>1. run'[q].client = run[q].client
        BY <2>3
      <4>2. run'[q].pc = run[q].pc \/ q \in snapshots'
        BY <2>3, <3>1
      <4>3. CASE run'[q].pc = run[q].pc
        <5>1. run[q].client # None
          BY <3>1, <4>3 DEF Placed
        <5>2. PICK c : c = run[q].client
          OBVIOUS
        <5>3. Known(c)'
          BY <3>1, <4>1, <5>2 DEF Known, Open
        <5>4. Known(run[q].client)
          BY <1>3, <5>1, <5>2, <5>3
        <5>5. q \in snapshots
          BY <3>1, <4>3, <5>4 DEF HasSnapshot
        <5> QED
          BY <2>2, <5>5
      <4> QED
        BY <4>2, <4>3
    <3> QED
      BY <3>1 DEF HasSnapshot
  <2>7. ManifestOfShare'
    <3>1. ASSUME NEW q \in Runs,
                 run'[q].pc \in {"manifest", "connect", "attaching", "attached", "done"}
          PROVE  made'[q] = run'[q].share
      <4>1. made'[q] = made[q] \/ (q = r /\ made'[q] = run[r].share)
        BY <1>0, <2>1, <2>2 DEF ServerType
      <4>2. CASE run'[q].pc = run[q].pc
        BY <2>3, <3>1, <4>1, <4>2 DEF ManifestOfShare
      <4>3. CASE run'[q].pc # run[q].pc
        <5>1. q = r /\ run'[r].pc = "manifest"
          BY <2>3, <3>1, <4>3
        <5>2. made' = [made EXCEPT ![r] = run[r].share]
          <6>1. ~AnswerRun(r, "failed")
            <7>1. ASSUME AnswerRun(r, "failed") PROVE FALSE
              <8>1. PICK pc : RunTo(r, pc) /\ pc \in {"failed", run[r].pc}
                BY <7>1 DEF AnswerRun
              <8>2. run'[r].pc = pc
                BY <1>0, <2>1, <8>1, RunToRuns
              <8> QED
                BY <4>3, <5>1, <8>1, <8>2
            <7> QED
              BY <7>1
          <6> QED
            BY <2>2, <6>1
        <5> QED
          BY <1>0, <2>1, <2>3, <5>1, <5>2 DEF ServerType
      <4> QED
        BY <4>2, <4>3
    <3> QED
      BY <3>1 DEF ManifestOfShare
  <2> QED
    BY <2>4, <2>5, <2>6, <2>7
<1> QED
  BY <1>4, <1>5 DEF ServeStep

(* A run moves on: where to, for each of the places the invariants speak of. *)
LEMMA RunsMove ==
  ASSUME TypeOK, Owned, RunInv, NEW r \in Runs, RunStep(r) \/ DataBreaks(r) PROVE RunInv'
<1> USE Numbers DEF RunInv, serverVars
<1>0. ClientType /\ RunType
  BY TypeParts
<1>1. UNCHANGED <<serverVars, control, login, made>>
  BY DEF RunStep, PrepareFails, PrepareTimesOut, Start, OpenData, ServeAttach,
         ServeChunk, DataBreaks
<1>2. /\ \A q \in Runs : /\ run'[q].client = run[q].client
                         /\ run'[q].share = run[q].share
                         /\ q # r => run'[q] = run[q]
      /\ run[r].pc \notin {"unused", "done"}
      /\ run'[r].pc \in {"failed", "connect", "attaching", "attached", "done"}
      /\ run'[r].pc \in {"connect", "attaching", "attached", "done"}
           => run[r].pc \in {"manifest", "connect", "attaching", "attached"}
      /\ run'[r].pc \in {"attaching", "attached"} =>
           \/ run'[r].session = auth[run[r].client] /\ auth[run[r].client] # None
              /\ run'[r].pc = "attaching"
           \/ run'[r].session = run[r].session /\ run[r].pc = "attaching"
              /\ run[r].session \in sessions
  <2>1. CASE OpenData(r)
    <3>1. \A q \in Runs : run[q] \in RunRec
      BY <1>0 DEF RunType
    <3> QED
      BY <1>0, <2>1, <3>1 DEF OpenData, RunType, RunRec
  <2>2. CASE ~OpenData(r)
    <3>1. PICK pc \in {"failed", "connect", "attached", "done"} :
            /\ RunTo(r, pc) /\ run[r].pc \notin {"unused", "done"}
            /\ pc # "failed" => run[r].pc \in {"manifest", "connect", "attaching", "attached"}
            /\ pc = "attached" => run[r].pc = "attaching" /\ run[r].session \in sessions
      BY <2>2
         DEF RunStep, PrepareFails, PrepareTimesOut, Start, ServeAttach, ServeChunk, DataBreaks
    <3>2. run' = [run EXCEPT ![r].pc = pc] /\ \A q \in Runs : run[q] \in RunRec
      BY <1>0, <3>1 DEF RunTo, RunType
    <3>3. /\ \A q \in Runs : q # r => run'[q] = run[q]
          /\ run'[r] = [run[r] EXCEPT !.pc = pc]
      BY <1>0, <3>2 DEF RunType
    <3>4. /\ run'[r].pc = pc /\ run'[r].client = run[r].client
          /\ run'[r].share = run[r].share /\ run'[r].session = run[r].session
      BY <3>2, <3>3 DEF RunRec
    <3> QED
      BY <3>1, <3>3, <3>4
  <2> QED
    BY <2>1, <2>2
<1>3. Placed'
  BY <1>2 DEF Placed
<1>4. SessionOwned'
  <2>1. ASSUME run'[r].pc \in {"attaching", "attached"}
        PROVE  /\ run'[r].session \in Logins /\ login[run'[r].session].client = run'[r].client
               /\ run'[r].pc = "attached" => run'[r].session \in sessions
    <3>1. run[r].client \in Clients
      BY <1>0, <1>2 DEF Placed, RunType, RunRec
    <3>2. CASE /\ run'[r].session = auth[run[r].client] /\ auth[run[r].client] # None
               /\ run'[r].pc = "attaching"
      BY <1>0, <1>2, <3>1, <3>2 DEF Owned, AuthOwned, ClientType
    <3>3. CASE /\ run'[r].session = run[r].session /\ run[r].pc = "attaching"
               /\ run[r].session \in sessions
      BY <1>2, <3>3 DEF SessionOwned
    <3> QED
      BY <1>2, <2>1, <3>2, <3>3
  <2>2. sessions' = sessions /\ login' = login
    BY <1>1
  <2> QED
    BY <1>2, <2>1, <2>2 DEF SessionOwned
<1>5. HasSnapshot'
  <2>1. ASSUME NEW q \in Runs, Known(run[q].client)',
               run'[q].pc \in {"manifest", "connect", "attaching", "attached"}
        PROVE  q \in snapshots'
    <3>1. /\ run[q].pc \in {"manifest", "connect", "attaching", "attached"}
          /\ run'[q].client = run[q].client /\ snapshots' = snapshots
      BY <1>1, <1>2, <2>1
    <3>2. Known(run[q].client)
      BY <1>1, <2>1, <3>1 DEF Known, Open
    <3> QED
      BY <3>1, <3>2 DEF HasSnapshot
  <2> QED
    BY <2>1 DEF HasSnapshot
<1>6. ManifestOfShare'
  <2>1. ASSUME NEW q \in Runs,
               run'[q].pc \in {"manifest", "connect", "attaching", "attached", "done"}
        PROVE  made'[q] = run'[q].share
    <3>1. run[q].pc \in {"manifest", "connect", "attaching", "attached", "done"}
      BY <1>2, <2>1
    <3> QED
      BY <1>1, <1>2, <3>1 DEF ManifestOfShare
  <2> QED
    BY <2>1 DEF ManifestOfShare
<1> QED
  BY <1>3, <1>4, <1>5, <1>6

LEMMA RunsBegin ==
  ASSUME TypeOK, Owned, RunInv, NEW r \in Runs, NEW s \in Shares, Prepare(r, s) PROVE RunInv'
<1> USE Numbers DEF RunInv, serverVars
<1>0. ControlType /\ ClientType /\ RunType
  BY TypeParts
<1>1. /\ UNCHANGED <<sessions, snapshots, login, made>>
      /\ current \in Clients /\ Send(current, "snapshot", r)
  BY <1>0 DEF Prepare, ClientType
<1>2. /\ run'[r].pc = "preparing" /\ run'[r].client = current
      /\ \A q \in Runs : q # r => run'[q] = run[q]
  BY <1>0 DEF Prepare, RunType
<1>3. \A k \in Clients : control'[k].st = control[k].st
  BY <1>0, <1>1, SendQueue
<1>4. Placed'
  BY <1>1, <1>2 DEF Placed
<1>5. SessionOwned'
  <2>1. ASSUME NEW q \in Runs, run'[q].pc \in {"attaching", "attached"} PROVE run'[q] = run[q]
    BY <1>2, <2>1
  <2> QED
    BY <1>1, <2>1 DEF SessionOwned
<1>6. HasSnapshot'
  <2>1. ASSUME NEW q \in Runs, Known(run[q].client)',
               run'[q].pc \in {"manifest", "connect", "attaching", "attached"}
        PROVE  q \in snapshots'
    <3>1. run'[q] = run[q] /\ run[q].client \in Clients
      <4>1. run'[q] = run[q]
        BY <1>2, <2>1
      <4>2. run[q].client # None
        BY <2>1, <4>1 DEF Placed
      <4> QED
        BY <1>0, <4>1, <4>2 DEF RunType, RunRec
    <3>2. Known(run[q].client)
      BY <1>1, <1>3, <2>1, <3>1 DEF Known, Open
    <3> QED
      BY <1>1, <2>1, <3>1, <3>2 DEF HasSnapshot
  <2> QED
    BY <2>1 DEF HasSnapshot
<1>7. ManifestOfShare'
  <2>1. ASSUME NEW q \in Runs,
               run'[q].pc \in {"manifest", "connect", "attaching", "attached", "done"}
        PROVE  run'[q] = run[q]
    BY <1>2, <2>1
  <2> QED
    BY <1>1, <2>1 DEF ManifestOfShare
<1> QED
  BY <1>4, <1>5, <1>6, <1>7

LEMMA RunsServer ==
  ASSUME TypeOK, Owned, RunInv,
         Stop \/ StartAgain \/ (\E s \in Shares : EditShare(s)) \/ UNCHANGED vars
  PROVE  RunInv'
<1> USE Numbers DEF serverVars
<1>0. ControlType /\ RunType
  BY TypeParts
<1>1. CASE Stop
  <2> USE DEF RunInv
  <2>1. /\ UNCHANGED <<login, made>> /\ sessions' = {}
        /\ \A k \in Clients : control'[k].st # "open"
    BY <1>0, <1>1, BareControls DEF Stop, ControlType, Open
  <2>2. \A q \in Runs : /\ run'[q].client = run[q].client /\ run'[q].share = run[q].share
                        /\ \/ run'[q].pc = run[q].pc /\ run[q].pc \notin {"attaching", "attached"}
                           \/ run[q].pc = "attaching" /\ run'[q].pc = "failed"
                           \/ run[q].pc = "attached" /\ run'[q].pc = "connect"
    <3>1. \A q \in Runs : run[q] \in RunRec
      BY <1>0 DEF RunType
    <3> QED
      BY <1>1, <3>1 DEF Stop, RunRec
  <2>3. Placed'
    BY <2>2 DEF Placed
  <2>4. SessionOwned'
    BY <2>2 DEF SessionOwned
  <2>5. HasSnapshot'
    <3>1. ASSUME NEW q \in Runs, Known(run[q].client)', run'[q].pc # "unused" PROVE FALSE
      <4>1. run'[q].client \in Clients
        BY <1>0, <2>2, <3>1 DEF Placed, RunType, RunRec
      <4> QED
        BY <2>1, <3>1, <4>1 DEF Known, Open
    <3> QED
      BY <3>1 DEF HasSnapshot
  <2>6. ManifestOfShare'
    <3>1. ASSUME NEW q \in Runs,
                 run'[q].pc \in {"manifest", "connect", "attaching", "attached", "done"}
          PROVE  made'[q] = run'[q].share
      <4>1. run[q].pc \in {"manifest", "connect", "attaching", "attached", "done"}
        BY <2>2, <3>1
      <4> QED
        BY <2>1, <2>2, <4>1 DEF ManifestOfShare
    <3> QED
      BY <3>1 DEF ManifestOfShare
  <2> QED
    BY <2>3, <2>4, <2>5, <2>6
<1>2. CASE ~Stop
  <2>1. UNCHANGED <<run, made, snapshots, sessions, login, control>>
    BY <1>2 DEF StartAgain, EditShare, vars
  <2> QED
    BY <2>1, RunsKept DEF Known, Open
<1> QED
  BY <1>1, <1>2

-----------------------------------------------------------------------------
(* Sessions live as long as the process. *)
LEMMA BornStep ==
  ASSUME TypeOK, BornKnown, Started, [Next]_vars PROVE BornKnown' /\ Started'
<1> USE Numbers DEF serverVars
<1>0. ServerType /\ ControlType
  BY TypeParts
<1>1. ASSUME NEW k \in Clients, ServeStep(k) PROVE BornKnown' /\ Started'
  <2>1. CASE ServeFinish(k)
    <3> DEFINE l == Asked(k).by
    <3>1. l \in Logins
      BY <1>0, <2>1, HandledType, EntryKind DEF ServeFinish, Handles
    <3> QED
      BY <1>0, <2>1, <3>1 DEF ServeFinish, ServerType, BornKnown, Started
  <2>2. CASE ServeStart(k) \/ ServeSnapshot(k)
    BY <2>2 DEF ServeStart, ServeSnapshot, BornKnown, Started
  <2> QED
    BY <1>1, <2>1, <2>2 DEF ServeStep
<1>2. CASE Stop
  BY <1>2 DEF Stop, BornKnown, Started
<1>3. CASE StartAgain
  BY <1>0, <1>3 DEF StartAgain, ServerType, BornKnown, Started
<1>4. CASE UNCHANGED <<up, starts, sessions, born>>
  BY <1>4 DEF BornKnown, Started
<1>5. ASSUME NEW k \in Clients, Connect(k) \/ ControlEnds(k)
      PROVE UNCHANGED <<up, starts, sessions, born>>
  BY <1>5 DEF Connect, ControlEnds
<1>6. ASSUME NEW l \in Logins, LoginStep(l) \/ \E s \in Shares : BeginLogin(l, s)
      PROVE UNCHANGED <<up, starts, sessions, born>>
  BY <1>6 DEF LoginStep, Challenged, StoreAuth, LoginFails, LoginTimesOut, BeginLogin
<1>7. ASSUME NEW r \in Runs, RunStep(r) \/ DataBreaks(r) \/ \E s \in Shares : Prepare(r, s)
      PROVE UNCHANGED <<up, starts, sessions, born>>
  BY <1>7 DEF RunStep, PrepareFails, PrepareTimesOut, Start, OpenData, ServeAttach,
              ServeChunk, DataBreaks, Prepare
<1>8. ASSUME (\E s \in Shares : EditShare(s)) \/ UNCHANGED vars
      PROVE UNCHANGED <<up, starts, sessions, born>>
  BY <1>8 DEF EditShare, vars
<1> QED
  BY <1>1, <1>2, <1>3, <1>4, <1>5, <1>6, <1>7, <1>8 DEF Next

-----------------------------------------------------------------------------
LEMMA Initially == Init => IInv
<1> SUFFICES ASSUME Init PROVE IInv
  OBVIOUS
<1> USE Numbers DEF Init
<1>1. TypeOK
  <2>1. ControlType
    BY BareControls DEF ControlType
  <2>2. LoginType /\ RunType
    <3>1. [pc |-> "unused", client |-> None, share |-> NoShare, alone |-> TRUE] \in LoginRec
      BY DEF LoginRec, LoginPc
    <3>2. [pc |-> "unused", client |-> None, share |-> NoShare, session |-> None] \in RunRec
      BY DEF RunRec, RunPc
    <3> QED
      BY <3>1, <3>2 DEF LoginType, RunType
  <2>3. ServerType /\ ClientType
    BY DEF ServerType, ClientType
  <2> QED
    BY <2>1, <2>2, <2>3, TypeParts
<1>2. Owned
  BY DEF Owned, QueueOwned, Connected, LoginOwned, AuthOwned, NoControl
<1>3. Placed /\ SessionOwned /\ HasSnapshot /\ ManifestOfShare
  BY DEF Placed, SessionOwned, HasSnapshot, ManifestOfShare
<1>4. BornKnown /\ Started
  BY DEF BornKnown, Started
<1> QED
  BY <1>1, <1>2, <1>3, <1>4 DEF IInv

LEMMA IInvStep == IInv /\ [Next]_vars => IInv'
<1> SUFFICES ASSUME IInv, [Next]_vars PROVE IInv'
  OBVIOUS
<1>1. TypeOK /\ Owned /\ RunInv
  BY DEF IInv, RunInv
<1>2. TypeOK'
  BY TypeStep DEF IInv
<1>3. Owned' /\ RunInv'
  <2>1. ASSUME NEW k \in Clients, Connect(k) \/ ControlEnds(k) PROVE Owned' /\ RunInv'
    BY <1>1, <2>1, OwnedConnection, RunsConnection
  <2>2. ASSUME NEW k \in Clients, ServeStep(k) PROVE Owned' /\ RunInv'
    BY <1>1, <1>2, <2>2, OwnedServe, RunsServe
  <2>3. ASSUME NEW l \in Logins, LoginStep(l) PROVE Owned' /\ RunInv'
    BY <1>1, <1>2, <2>3, OwnedLogin, RunsLogin
  <2>4. ASSUME NEW l \in Logins, NEW s \in Shares, BeginLogin(l, s) PROVE Owned' /\ RunInv'
    BY <1>1, <2>4, OwnedBegin, RunsLogin
  <2>5. ASSUME NEW r \in Runs, RunStep(r) \/ DataBreaks(r) PROVE Owned' /\ RunInv'
    BY <1>1, <2>5, OwnedRuns, RunsMove
  <2>6. ASSUME NEW r \in Runs, NEW s \in Shares, Prepare(r, s) PROVE Owned' /\ RunInv'
    BY <1>1, <2>6, OwnedRuns, RunsBegin
  <2>7. ASSUME Stop \/ StartAgain \/ (\E s \in Shares : EditShare(s)) \/ UNCHANGED vars
        PROVE  Owned' /\ RunInv'
    BY <1>1, <2>7, OwnedServer, RunsServer
  <2> QED
    BY <2>1, <2>2, <2>3, <2>4, <2>5, <2>6, <2>7 DEF Next
<1>4. BornKnown' /\ Started'
  BY <1>1, BornStep DEF IInv
<1> QED
  BY <1>2, <1>3, <1>4 DEF IInv, RunInv

LEMMA IInvHolds == Spec => []IInv
BY Initially, IInvStep, PTL DEF Spec

(* Type correctness. *)
THEOREM SessionTypeCorrect == Spec => []TypeOK
<1>1. IInv => TypeOK
  BY DEF IInv
<1> QED
  BY <1>1, IInvHolds, PTL

(* What a client has stored is known to the other side until that side is
   started again, whatever becomes of connections, challenges and logins. *)
THEOREM StoredSessionsKnown == Spec => []SessionsKnown
<1>1. IInv => SessionsKnown
  BY TypeParts DEF IInv, SessionsKnown, BornKnown, ClientType
<1> QED
  BY <1>1, IInvHolds, PTL

(* A data connection that was accepted finds the snapshot of its run, however
   often the sharing side is restarted and the user logs in again. *)
THEOREM AttachedAreServed == Spec => []AttachedIsServed
<1>1. IInv => AttachedIsServed
  BY DEF IInv, AttachedIsServed, SessionOwned, HasSnapshot, Known
<1> QED
  BY <1>1, IInvHolds, PTL

(* A run gets the files of the share it asked for. *)
THEOREM ManifestsOfShare == Spec => []ManifestOfShare
<1>1. IInv => ManifestOfShare
  BY DEF IInv
<1> QED
  BY <1>1, IInvHolds, PTL

-----------------------------------------------------------------------------
(* Both ends of a control connection agree on its session, unless a login has
   timed out on it, two have overlapped or one is under way, for any number of
   clients, logins, runs, restarts and edits. *)

(* No login on the connection was given up or overlapped with another. *)
Quiet(k) == \A l \in LoginsOn(k) : login[l].alone /\ login[l].pc # "timeout"

LoginPlaced ==
  \A l \in Logins : login[l].pc # "unused" =>
    login[l].client \in Clients /\ control[login[l].client].st # "none"

(* A login that met no other is the only one under way on its connection. *)
OneInFlight ==
  \A l, j \in Logins :
    InFlight(l) /\ InFlight(j) /\ login[l].client = login[j].client /\ login[l].alone => l = j

(* On a quiet connection at most one request of a login waits, and its caller
   waits for the answer. *)
LoginEntry(k, i) == i \in 1 .. Len(control[k].queue) /\ control[k].queue[i].kind # "snapshot"
Answered ==
  \A k \in Clients : Quiet(k) =>
    \A i \in Nat : LoginEntry(k, i) =>
      /\ login[control[k].queue[i].by].pc = control[k].queue[i].kind
      /\ \A j \in Nat : LoginEntry(k, j) => j = i

(* The active session is that of the login whose proof is on its way back, if
   there is one, and the one the client has stored otherwise. *)
Agree ==
  \A k \in Clients : Open(k) /\ Quiet(k) =>
    /\ \A l \in LoginsOn(k) : login[l].pc = "accepted" => control[k].active = l
    /\ (\A l \in LoginsOn(k) : login[l].pc # "accepted") => auth[k] = control[k].active

AInv == LoginPlaced /\ OneInFlight /\ Answered /\ Agree

-----------------------------------------------------------------------------
LEMMA EntryAt ==
  ASSUME TypeOK, Owned, NEW k \in Clients, NEW i, LoginEntry(k, i)
  PROVE  /\ control[k].queue[i].by \in Logins
         /\ login[control[k].queue[i].by].client = k
         /\ control[k].queue[i].kind \in {"start", "finish"}
<1>1. control[k].queue \in Seq(Entry)
  BY TypeParts DEF ControlType, ControlRec
<1>2. control[k].queue[i] \in Entry
  BY <1>1 DEF LoginEntry
<1> QED
  BY <1>2, EntryKind DEF LoginEntry, Owned, QueueOwned

(* What waits on a quiet connection, seen from a login under way on it. *)
LEMMA EntryOfLogin ==
  ASSUME TypeOK, Owned, AInv, NEW k \in Clients, Quiet(k), NEW i \in Nat, LoginEntry(k, i),
         NEW l \in Logins, InFlight(l), login[l].client = k
  PROVE  control[k].queue[i].by = l /\ login[l].pc \in {"start", "finish"}
<1> DEFINE m == control[k].queue[i].by
<1>1. /\ m \in Logins /\ login[m].client = k
      /\ login[m].pc \in {"start", "finish"}
  BY EntryAt DEF AInv, Answered
<1>2. InFlight(m)
  BY <1>1 DEF InFlight
<1>3. login[l].alone
  BY DEF Quiet, LoginsOn
<1>4. l = m
  BY <1>1, <1>2, <1>3 DEF AInv, OneInFlight
<1> QED
  BY <1>1, <1>4

LEMMA SendLast ==
  ASSUME ControlType, NEW k \in Clients, NEW kind, NEW by, Send(k, kind, by)
  PROVE  /\ \A j \in Clients : j # k => control'[j] = control[j]
         /\ control'[k].st = control[k].st /\ control'[k].active = control[k].active
         /\ \A i \in 1 .. Len(control'[k].queue) :
              \/ i \in 1 .. Len(control[k].queue) /\ control'[k].queue[i] = control[k].queue[i]
              \/ i = Len(control[k].queue) + 1 /\ control'[k].queue[i] = Request(kind, by)
<1>1. CASE Open(k)
  <2>1. control[k] \in ControlRec /\ control[k].queue \in Seq(Entry)
    BY DEF ControlType, ControlRec
  <2>2. /\ \A j \in Clients : j # k => control'[j] = control[j]
        /\ control'[k] = [control[k] EXCEPT !.queue = Append(@, Request(kind, by))]
    BY <1>1 DEF Send, ControlType
  <2>3. /\ control'[k].st = control[k].st /\ control'[k].active = control[k].active
        /\ control'[k].queue = Append(control[k].queue, Request(kind, by))
    BY <2>1, <2>2 DEF ControlRec
  <2>4. ASSUME NEW q \in Seq(Entry), NEW e, NEW i \in 1 .. Len(Append(q, e))
        PROVE  \/ i \in 1 .. Len(q) /\ Append(q, e)[i] = q[i]
               \/ i = Len(q) + 1 /\ Append(q, e)[i] = e
    OBVIOUS
  <2> QED
    BY <2>1, <2>2, <2>3, <2>4
<1>2. CASE ~Open(k)
  BY <1>2 DEF Send
<1> QED
  BY <1>1, <1>2

-----------------------------------------------------------------------------
(* Steps that no login takes part in: connections open and close, requests for
   snapshots join and leave their queues. *)
LEMMA AgreeOtherwise ==
  ASSUME TypeOK, Owned, AInv, UNCHANGED <<login, auth>>,
         \A k \in Clients : control[k].st # "none" => control'[k].st # "none",
         \A k \in Clients : control'[k].st = "open" =>
           \/ control[k].st = "open" /\ control'[k].active = control[k].active
           \/ control[k].st = "none" /\ control'[k].active = None,
         \A k \in Clients : \E d \in {0, 1} : \A i \in 1 .. Len(control'[k].queue) :
           control'[k].queue[i].kind # "snapshot" =>
             /\ i + d \in 1 .. Len(control[k].queue)
             /\ control'[k].queue[i] = control[k].queue[i + d]
  PROVE  AInv'
<1> USE Numbers
<1>1. LoginPlaced' /\ OneInFlight'
  BY DEF AInv, LoginPlaced, OneInFlight, InFlight
<1>2. \A k \in Clients : Quiet(k)' <=> Quiet(k)
  BY DEF Quiet, LoginsOn
<1>3. Answered'
  <2> SUFFICES ASSUME NEW k \in Clients, Quiet(k), NEW i \in Nat, LoginEntry(k, i)'
               PROVE  /\ login[control'[k].queue[i].by].pc = control'[k].queue[i].kind
                      /\ \A j \in Nat : LoginEntry(k, j)' => j = i
    BY <1>2 DEF Answered
  <2>1. PICK d \in {0, 1} : \A j \in 1 .. Len(control'[k].queue) :
          control'[k].queue[j].kind # "snapshot" =>
            /\ j + d \in 1 .. Len(control[k].queue)
            /\ control'[k].queue[j] = control[k].queue[j + d]
    OBVIOUS
  <2>2. \A j \in Nat : LoginEntry(k, j)' =>
          LoginEntry(k, j + d) /\ control'[k].queue[j] = control[k].queue[j + d]
    BY <2>1 DEF LoginEntry
  <2> QED
    BY <2>2 DEF AInv, Answered
<1>4. Agree'
  <2> SUFFICES ASSUME NEW k \in Clients, control'[k].st = "open", Quiet(k)
               PROVE  /\ \A l \in LoginsOn(k) : login[l].pc = "accepted" => control'[k].active = l
                      /\ (\A l \in LoginsOn(k) : login[l].pc # "accepted")
                           => auth[k] = control'[k].active
    BY <1>2 DEF Agree, LoginsOn, Open
  <2>1. CASE control[k].st = "open" /\ control'[k].active = control[k].active
    BY <2>1 DEF AInv, Agree, Open
  <2>2. CASE control[k].st = "none" /\ control'[k].active = None
    <3>1. \A l \in Logins : login[l].client = k => login[l].pc = "unused"
      BY <2>2 DEF AInv, LoginPlaced
    <3>2. LoginsOn(k) = {}
      BY <3>1 DEF LoginsOn, Owned, LoginOwned
    <3>3. auth[k] \in Logins \cup {None}
      BY TypeParts DEF ClientType
    <3>4. auth[k] = None
      BY <3>2, <3>3 DEF Owned, AuthOwned, LoginsOn
    <3> QED
      BY <2>2, <3>2, <3>4
  <2> QED
    BY <2>1, <2>2
<1> QED
  BY <1>1, <1>3, <1>4 DEF AInv

(* The connections of a step that sends nothing and hears nothing of a login. *)
LEMMA AgreeConnection ==
  ASSUME TypeOK, Owned, AInv, NEW k \in Clients, Connect(k) \/ ControlEnds(k)
  PROVE  AInv'
<1> USE DEF serverVars
<1>0. ControlType
  BY TypeParts
<1>1. UNCHANGED <<login, auth>>
  BY DEF Connect, ControlEnds
<1>2. \A j \in Clients : j # k => control'[j] = control[j]
  BY <1>0 DEF Connect, ControlEnds, ControlType
<1>3. /\ control'[k].st # "none"
      /\ control'[k].st = "open" => control[k].st = "none" /\ control'[k].active = None
      /\ control'[k].queue = <<>>
  <2>1. CASE Connect(k)
    <3>1. control[k] = [NoControl EXCEPT !.st = control[k].st] /\ control[k].st = "none"
      BY <1>0, <2>1 DEF Connect, ControlType, Bare, Open
    <3>2. control'[k] = [control[k] EXCEPT !.st = "open"]
      BY <1>0, <2>1 DEF Connect, ControlType
    <3> QED
      BY <3>1, <3>2 DEF NoControl
  <2>2. CASE ControlEnds(k)
    <3>1. control'[k] = Closed
      BY <1>0, <2>2 DEF ControlEnds, ControlType
    <3> QED
      BY <3>1, BareControls
  <2> QED
    BY <2>1, <2>2
<1>4. ASSUME NEW j \in Clients
      PROVE  \E d \in {0, 1} : \A i \in 1 .. Len(control'[j].queue) :
               control'[j].queue[i].kind # "snapshot" =>
                 /\ i + d \in 1 .. Len(control[j].queue)
                 /\ control'[j].queue[i] = control[j].queue[i + d]
  <2>1. CASE j = k
    BY <1>3, <2>1
  <2>2. CASE j # k
    BY <1>2, <2>2
  <2> QED
    BY <2>1, <2>2
<1> QED
  BY <1>1, <1>2, <1>3, <1>4, AgreeOtherwise

LEMMA AgreeSnapshot ==
  ASSUME TypeOK, Owned, AInv, NEW k \in Clients, ServeSnapshot(k)
  PROVE  AInv'
<1>0. ControlType
  BY TypeParts
<1>1. UNCHANGED <<login, auth>>
  BY DEF ServeSnapshot
<1>2. Open(k) /\ control[k].queue # <<>> /\ control' = [control EXCEPT ![k] = Handled(k)]
  BY DEF ServeSnapshot, Handles
<1>3. /\ \A j \in Clients : j # k => control'[j] = control[j]
      /\ control'[k] = Handled(k)
  BY <1>0, <1>2 DEF ControlType
<1>4. Handled(k).st = "open" /\ Handled(k).active = control[k].active
  BY <1>0, <1>2, HandledType
<1>5. ASSUME NEW j \in Clients
      PROVE  \E d \in {0, 1} : \A i \in 1 .. Len(control'[j].queue) :
               control'[j].queue[i].kind # "snapshot" =>
                 /\ i + d \in 1 .. Len(control[j].queue)
                 /\ control'[j].queue[i] = control[j].queue[i + d]
  <2>1. CASE j = k
    BY <1>0, <1>2, <1>3, <2>1, HandledQueue
  <2>2. CASE j # k
    BY <1>3, <2>2
  <2> QED
    BY <2>1, <2>2
<1> QED
  BY <1>1, <1>2, <1>3, <1>4, <1>5, AgreeOtherwise DEF Open

LEMMA AgreeRuns ==
  ASSUME TypeOK, Owned, AInv, NEW r \in Runs,
         RunStep(r) \/ DataBreaks(r) \/ \E s \in Shares : Prepare(r, s)
  PROVE  AInv'
<1> USE Numbers
<1>0. ControlType /\ ClientType
  BY TypeParts
<1>1. CASE RunStep(r) \/ DataBreaks(r)
  <2>1. UNCHANGED <<control, login, auth>>
    BY <1>1 DEF RunStep, PrepareFails, PrepareTimesOut, Start, OpenData, ServeAttach,
                ServeChunk, DataBreaks, serverVars
  <2> QED
    BY <2>1, AgreeOtherwise
<1>2. ASSUME NEW s \in Shares, Prepare(r, s) PROVE AInv'
  <2>1. current \in Clients /\ Send(current, "snapshot", r) /\ UNCHANGED <<login, auth>>
    BY <1>0, <1>2 DEF Prepare, ClientType
  <2>2. /\ \A j \in Clients : j # current => control'[j] = control[j]
        /\ control'[current].st = control[current].st
        /\ control'[current].active = control[current].active
        /\ \A i \in 1 .. Len(control'[current].queue) :
             \/ /\ i \in 1 .. Len(control[current].queue)
                /\ control'[current].queue[i] = control[current].queue[i]
             \/ control'[current].queue[i].kind = "snapshot"
    <3>1. Request("snapshot", r).kind = "snapshot"
      BY DEF Request
    <3>2. PICK k \in Clients : k = current
      BY <2>1
    <3>3. Send(k, "snapshot", r)
      BY <2>1, <3>2
    <3>4. /\ \A j \in Clients : j # k => control'[j] = control[j]
          /\ control'[k].st = control[k].st /\ control'[k].active = control[k].active
          /\ \A i \in 1 .. Len(control'[k].queue) :
               \/ i \in 1 .. Len(control[k].queue) /\ control'[k].queue[i] = control[k].queue[i]
               \/ i = Len(control[k].queue) + 1 /\ control'[k].queue[i] = Request("snapshot", r)
      BY <1>0, <3>3, SendLast
    <3> QED
      BY <3>1, <3>2, <3>4
  <2>3. \A j \in Clients : control'[j].st = control[j].st /\ control'[j].active = control[j].active
    BY <2>2
  <2>4. ASSUME NEW j \in Clients, NEW i \in 1 .. Len(control'[j].queue),
               control'[j].queue[i].kind # "snapshot"
        PROVE  /\ i + 0 \in 1 .. Len(control[j].queue)
               /\ control'[j].queue[i] = control[j].queue[i + 0]
    BY <2>2, <2>4
  <2> QED
    BY <2>1, <2>3, <2>4, AgreeOtherwise
<1> QED
  BY <1>1, <1>2

LEMMA AgreeServer ==
  ASSUME TypeOK, Owned, AInv,
         Stop \/ StartAgain \/ (\E s \in Shares : EditShare(s)) \/ UNCHANGED vars
  PROVE  AInv'
<1>0. ControlType
  BY TypeParts
<1>1. CASE Stop
  <2>1. /\ UNCHANGED <<login, auth>>
        /\ \A k \in Clients : control'[k] = IF Open(k) THEN Closed ELSE control[k]
    BY <1>1 DEF Stop
  <2>2. \A k \in Clients : /\ control'[k].st # "open"
                           /\ control[k].st # "none" => control'[k].st # "none"
    BY <2>1, BareControls DEF Open
  <2>3. ASSUME NEW k \in Clients, NEW i \in 1 .. Len(control'[k].queue)
        PROVE  i + 0 \in 1 .. Len(control[k].queue)
               /\ control'[k].queue[i] = control[k].queue[i + 0]
    BY <2>1, BareControls
  <2> QED
    BY <2>1, <2>2, <2>3, AgreeOtherwise
<1>2. CASE ~Stop
  <2>1. UNCHANGED <<control, login, auth>>
    BY <1>2 DEF StartAgain, EditShare, vars
  <2> QED
    BY <2>1, AgreeOtherwise
<1> QED
  BY <1>1, <1>2
-----------------------------------------------------------------------------
(* The handler answers the login l on connection k, whose caller may have given
   up: all but Agree, and what Agree needs. *)
(* The first request of a connection is taken, and no other login moves. *)
HeadTaken(k) ==
  /\ \A j \in Clients : j # k => control'[j] = control[j]
  /\ control'[k].st = "open"
  /\ \A i \in 1 .. Len(control'[k].queue) :
       /\ i + 1 \in 1 .. Len(control[k].queue)
       /\ control'[k].queue[i] = control[k].queue[i + 1]
OnlyMoves(l) ==
  \A j \in Logins : /\ login'[j].client = login[j].client
                    /\ login'[j].alone = login[j].alone
                    /\ j # l => login'[j].pc = login[j].pc

LEMMA Answering ==
  ASSUME TypeOK, Owned, AInv, NEW k \in Clients, NEW l \in Logins, LoginEntry(k, 1),
         control[k].queue[1].by = l, HeadTaken(k), OnlyMoves(l),
         login[l].pc # control[k].queue[1].kind => login'[l].pc = login[l].pc
  PROVE  /\ LoginPlaced' /\ OneInFlight' /\ Answered'
         /\ \A j \in Clients : Quiet(j)' => Quiet(j)
         /\ Quiet(k) => login[l].pc = control[k].queue[1].kind
         /\ login[l].client = k /\ control[k].queue[1].kind \in {"start", "finish"}
<1> SUFFICES ASSUME \A j \in Clients : j # k => control'[j] = control[j],
                    control'[k].st = "open",
                    \A i \in 1 .. Len(control'[k].queue) :
                      /\ i + 1 \in 1 .. Len(control[k].queue)
                      /\ control'[k].queue[i] = control[k].queue[i + 1],
                    \A j \in Logins : /\ login'[j].client = login[j].client
                                      /\ login'[j].alone = login[j].alone
                                      /\ j # l => login'[j].pc = login[j].pc
           PROVE  /\ LoginPlaced' /\ OneInFlight' /\ Answered'
                  /\ \A j \in Clients : Quiet(j)' => Quiet(j)
                  /\ Quiet(k) => login[l].pc = control[k].queue[1].kind
                  /\ login[l].client = k /\ control[k].queue[1].kind \in {"start", "finish"}
  BY DEF HeadTaken, OnlyMoves
<1>1. login[l].client = k /\ control[k].queue[1].kind \in {"start", "finish"}
  BY EntryAt
<1>2. LoginPlaced'
  <2> SUFFICES ASSUME NEW j \in Logins, login'[j].pc # "unused"
               PROVE  login'[j].client \in Clients /\ control'[login'[j].client].st # "none"
    BY DEF LoginPlaced
  <2>1. CASE j = l
    BY <1>1, <2>1
  <2>2. CASE j # l
    <3>1. login[j].client \in Clients /\ control[login[j].client].st # "none"
      BY <2>2 DEF AInv, LoginPlaced
    <3> QED
      BY <3>1
  <2> QED
    BY <2>1, <2>2
<1>3. \A j \in Logins : InFlight(j)' => InFlight(j)
  BY <1>1 DEF InFlight
<1>4. OneInFlight'
  BY <1>3 DEF OneInFlight, AInv
<1>5. \A j \in Clients : Quiet(j)' => Quiet(j)
  <2> SUFFICES ASSUME NEW j \in Clients, Quiet(j)', NEW m \in Logins, login[m].client = j
               PROVE  login[m].alone /\ login[m].pc # "timeout"
    BY DEF Quiet, LoginsOn
  <2>1. login'[m].alone /\ login'[m].pc # "timeout"
    BY DEF Quiet, LoginsOn
  <2> QED
    BY <1>1, <2>1
<1>6. Quiet(k) => login[l].pc = control[k].queue[1].kind
  BY DEF AInv, Answered
<1>7. Answered'
  <2> SUFFICES ASSUME NEW j \in Clients, Quiet(j), NEW i \in Nat, LoginEntry(j, i)'
               PROVE  /\ login'[control'[j].queue[i].by].pc = control'[j].queue[i].kind
                      /\ \A m \in Nat : LoginEntry(j, m)' => m = i
    BY <1>5 DEF Answered
  <2>1. CASE j = k
    <3>1. LoginEntry(k, i + 1)
      BY <2>1 DEF LoginEntry
    <3>2. i + 1 = 1
      BY <2>1, <3>1 DEF AInv, Answered
    <3>3. i > 0
      BY DEF LoginEntry
    <3> QED
      BY <3>2, <3>3
  <2>2. CASE j # k
    <3>1. control'[j] = control[j] /\ \A m \in Nat : LoginEntry(j, m)' <=> LoginEntry(j, m)
      BY <2>2 DEF LoginEntry
    <3>2. LoginEntry(j, i)
      BY <3>1
    <3>3. /\ control[j].queue[i].by \in Logins
          /\ login[control[j].queue[i].by].client = j
      BY <3>2, EntryAt
    <3>4. control[j].queue[i].by # l
      BY <1>1, <2>2, <3>3
    <3> QED
      BY <3>1, <3>2, <3>3, <3>4 DEF AInv, Answered
  <2> QED
    BY <2>1, <2>2
<1> QED
  BY <1>1, <1>2, <1>4, <1>5, <1>6, <1>7

(* Agree for the other connections, on which no login has changed. *)
LEMMA AgreeElsewhere ==
  ASSUME AInv, NEW k \in Clients, NEW j \in Clients, j # k,
         control'[j].st = control[j].st, control'[j].active = control[j].active,
         auth'[j] = auth[j], Quiet(j)' => Quiet(j),
         \A m \in Logins : /\ login[m].client = j \/ login'[m].client = j =>
                                login'[m].client = login[m].client
                           /\ login[m].client # k /\ login'[m].client # k =>
                                login'[m].pc = login[m].pc,
         Open(j)', Quiet(j)'
  PROVE  /\ \A l \in LoginsOn(j)' : login'[l].pc = "accepted" => control'[j].active = l
         /\ (\A l \in LoginsOn(j)' : login'[l].pc # "accepted") => auth'[j] = control'[j].active
<1>1. \A l \in Logins : login'[l].client = j <=> login[l].client = j
  OBVIOUS
<1>2. \A l \in Logins : login[l].client = j => login'[l].pc = login[l].pc
  BY <1>1
<1>3. Open(j) /\ Quiet(j)
  BY DEF Open
<1> QED
  BY <1>1, <1>2, <1>3 DEF AInv, Agree, LoginsOn

LEMMA AgreeStart ==
  ASSUME TypeOK, Owned, AInv, NEW k \in Clients, ServeStart(k) PROVE AInv'
<1> USE Numbers
<1>0. ControlType /\ LoginType
  BY TypeParts
<1>1. Open(k) /\ control[k].queue # <<>> /\ Asked(k).kind = "start" /\ UNCHANGED auth
  BY DEF ServeStart, Handles
<1>2. /\ Asked(k) = control[k].queue[1] /\ LoginEntry(k, 1)
      /\ \A i \in 1 .. Len(Handled(k).queue) :
           /\ i + 1 \in 1 .. Len(control[k].queue)
           /\ Handled(k).queue[i] = control[k].queue[i + 1]
  BY <1>0, <1>1, HandledQueue DEF LoginEntry
<1>3. PICK l \in Logins : l = Asked(k).by
  <2>1. control[k].queue[1].by \in Logins
    BY <1>2, EntryAt
  <2> QED
    BY <1>2, <2>1
<1>4. PICK pc \in LoginPc : /\ LoginTo(l, pc)
                            /\ login[l].pc # "start" => pc = login[l].pc
                            /\ login[l].pc = "start" => pc \in {"challenge", "failed"}
  <2>1. login[l].pc \in LoginPc
    BY <1>0, <1>3 DEF LoginType, LoginRec
  <2> QED
    BY <1>3, <2>1 DEF ServeStart, AnswerLogin, LoginPc
<1>5. /\ \A j \in Logins : /\ login'[j].client = login[j].client
                           /\ login'[j].alone = login[j].alone
                           /\ j # l => login'[j].pc = login[j].pc
      /\ login'[l].pc = pc
  BY <1>0, <1>3, <1>4 DEF LoginTo, LoginType, LoginRec
<1>6. /\ \A j \in Clients : j # k => control'[j] = control[j]
      /\ control'[k].st = "open" /\ control'[k].active = control[k].active
      /\ control'[k].queue = Handled(k).queue
  <2>1. /\ Handled(k) \in ControlRec /\ Handled(k).st = "open"
        /\ Handled(k).active = control[k].active
    BY <1>0, <1>1, HandledType
  <2> DEFINE c == [Handled(k) EXCEPT !.pending = @ \cup {l}]
  <2>2. c.st = "open" /\ c.queue = Handled(k).queue /\ c.active = control[k].active
    BY <2>1 DEF ControlRec
  <2>3. control' = [control EXCEPT ![k] = c] \/ control' = [control EXCEPT ![k] = Handled(k)]
    BY <1>3 DEF ServeStart
  <2> HIDE DEF c
  <2> QED
    BY <1>0, <2>1, <2>2, <2>3 DEF ControlType
<1>7. /\ LoginPlaced' /\ OneInFlight' /\ Answered'
      /\ \A j \in Clients : Quiet(j)' => Quiet(j)
      /\ Quiet(k) => login[l].pc = "start"
      /\ login[l].client = k
  <2>1. control[k].queue[1].by = l /\ control[k].queue[1].kind = "start"
    BY <1>1, <1>2, <1>3
  <2>2. HeadTaken(k)
    BY <1>2, <1>6 DEF HeadTaken
  <2>3. login[l].pc # control[k].queue[1].kind => login'[l].pc = login[l].pc
    BY <1>4, <1>5, <2>1
  <2>4. LoginEntry(k, 1) /\ l \in Logins
    BY <1>2, <1>3
  <2>5. OnlyMoves(l)
    BY <1>5 DEF OnlyMoves
  <2>7. /\ LoginPlaced' /\ OneInFlight' /\ Answered'
        /\ \A j \in Clients : Quiet(j)' => Quiet(j)
        /\ Quiet(k) => login[l].pc = control[k].queue[1].kind
        /\ login[l].client = k
    BY <2>1, <2>2, <2>3, <2>4, <2>5, Answering
  <2> QED
    BY <2>1, <2>7
<1>8. Agree'
  <2> SUFFICES ASSUME NEW j \in Clients, Open(j)', Quiet(j)'
               PROVE  /\ \A m \in LoginsOn(j)' : login'[m].pc = "accepted" => control'[j].active = m
                      /\ (\A m \in LoginsOn(j)' : login'[m].pc # "accepted")
                           => auth'[j] = control'[j].active
    BY DEF Agree
  <2>1. CASE j = k
    <3>1. login[l].pc = "start" /\ login'[l].pc \in {"challenge", "failed"}
      BY <1>4, <1>5, <1>7, <2>1
    <3>2. \A m \in Logins : /\ login'[m].client = login[m].client
                            /\ login'[m].pc = "accepted" <=> login[m].pc = "accepted"
      BY <1>5, <3>1
    <3> QED
      BY <1>1, <1>6, <1>7, <2>1, <3>2 DEF AInv, Agree, LoginsOn
  <2>2. CASE j # k
    BY <1>1, <1>5, <1>6, <1>7, <2>2, AgreeElsewhere
  <2> QED
    BY <2>1, <2>2
<1> QED
  BY <1>7, <1>8 DEF AInv

LEMMA AgreeFinish ==
  ASSUME TypeOK, Owned, AInv, NEW k \in Clients, ServeFinish(k) PROVE AInv'
<1> USE Numbers
<1>0. ControlType /\ LoginType
  BY TypeParts
<1>1. Open(k) /\ control[k].queue # <<>> /\ Asked(k).kind = "finish" /\ UNCHANGED auth
  BY DEF ServeFinish, Handles
<1>2. /\ Asked(k) = control[k].queue[1] /\ LoginEntry(k, 1)
      /\ \A i \in 1 .. Len(Handled(k).queue) :
           /\ i + 1 \in 1 .. Len(control[k].queue)
           /\ Handled(k).queue[i] = control[k].queue[i + 1]
  BY <1>0, <1>1, HandledQueue DEF LoginEntry
<1>3. PICK l \in Logins : l = Asked(k).by
  <2>1. control[k].queue[1].by \in Logins
    BY <1>2, EntryAt
  <2> QED
    BY <1>2, <2>1
<1>4. PICK pc \in LoginPc : /\ LoginTo(l, pc)
                            /\ login[l].pc # "finish" => pc = login[l].pc
                            /\ login[l].pc = "finish" => pc = "accepted"
  <2>1. login[l].pc \in LoginPc
    BY <1>0, <1>3 DEF LoginType, LoginRec
  <2> QED
    BY <1>3, <2>1 DEF ServeFinish, AnswerLogin, LoginPc
<1>5. /\ \A j \in Logins : /\ login'[j].client = login[j].client
                           /\ login'[j].alone = login[j].alone
                           /\ j # l => login'[j].pc = login[j].pc
      /\ login'[l].pc = pc
  BY <1>0, <1>3, <1>4 DEF LoginTo, LoginType, LoginRec
<1>6. /\ \A j \in Clients : j # k => control'[j] = control[j]
      /\ control'[k].st = "open" /\ control'[k].active = l
      /\ control'[k].queue = Handled(k).queue
  <2>1. Handled(k) \in ControlRec /\ Handled(k).st = "open"
    BY <1>0, <1>1, HandledType
  <2> DEFINE c == [Handled(k) EXCEPT !.pending = @ \ {l}, !.active = l]
  <2>2. c.st = "open" /\ c.queue = Handled(k).queue /\ c.active = l
    BY <2>1 DEF ControlRec
  <2>3. control' = [control EXCEPT ![k] = c]
    BY <1>3 DEF ServeFinish
  <2> HIDE DEF c
  <2> QED
    BY <1>0, <2>2, <2>3 DEF ControlType
<1>7. /\ LoginPlaced' /\ OneInFlight' /\ Answered'
      /\ \A j \in Clients : Quiet(j)' => Quiet(j)
      /\ Quiet(k) => login[l].pc = "finish"
      /\ login[l].client = k
  <2>1. control[k].queue[1].by = l /\ control[k].queue[1].kind = "finish"
    BY <1>1, <1>2, <1>3
  <2>2. HeadTaken(k)
    BY <1>2, <1>6 DEF HeadTaken
  <2>3. login[l].pc # control[k].queue[1].kind => login'[l].pc = login[l].pc
    BY <1>4, <1>5, <2>1
  <2>4. LoginEntry(k, 1) /\ l \in Logins
    BY <1>2, <1>3
  <2>5. OnlyMoves(l)
    BY <1>5 DEF OnlyMoves
  <2>7. /\ LoginPlaced' /\ OneInFlight' /\ Answered'
        /\ \A j \in Clients : Quiet(j)' => Quiet(j)
        /\ Quiet(k) => login[l].pc = control[k].queue[1].kind
        /\ login[l].client = k
    BY <2>1, <2>2, <2>3, <2>4, <2>5, Answering
  <2> QED
    BY <2>1, <2>7
<1>8. Agree'
  <2> SUFFICES ASSUME NEW j \in Clients, Open(j)', Quiet(j)'
               PROVE  /\ \A m \in LoginsOn(j)' : login'[m].pc = "accepted" => control'[j].active = m
                      /\ (\A m \in LoginsOn(j)' : login'[m].pc # "accepted")
                           => auth'[j] = control'[j].active
    BY DEF Agree
  <2>1. CASE j = k
    <3>1. login[l].pc = "finish" /\ login'[l].pc = "accepted" /\ l \in LoginsOn(k)'
      BY <1>3, <1>4, <1>5, <1>7, <2>1 DEF LoginsOn
    <3>2. ASSUME NEW m \in LoginsOn(j)', login'[m].pc = "accepted" PROVE m = l
      <4>1. m \in Logins /\ login'[m].client = k
        BY <2>1 DEF LoginsOn
      <4>2. CASE m # l
        <5>1. login[m].client = k /\ login[m].pc = "accepted"
          BY <1>5, <3>2, <4>1, <4>2
        <5>2. InFlight(m) /\ InFlight(l)
          BY <3>1, <5>1 DEF InFlight
        <5>3. login[l].alone
          BY <1>3, <1>7, <2>1 DEF Quiet, LoginsOn
        <5> QED
          BY <1>3, <1>7, <4>1, <5>1, <5>2, <5>3 DEF AInv, OneInFlight
      <4> QED
        BY <4>2
    <3> QED
      BY <1>6, <2>1, <3>1, <3>2
  <2>2. CASE j # k
    BY <1>1, <1>5, <1>6, <1>7, <2>2, AgreeElsewhere
  <2> QED
    BY <2>1, <2>2
<1> QED
  BY <1>7, <1>8 DEF AInv

-----------------------------------------------------------------------------
(* A login goes on, fails or is given up. *)
LEMMA AgreeLogin ==
  ASSUME TypeOK, Owned, AInv, NEW l \in Logins, LoginStep(l) PROVE AInv'
<1> USE Numbers DEF serverVars
<1>0. ControlType /\ LoginType /\ ClientType
  BY TypeParts
<1>1. InFlight(l)
  BY DEF LoginStep, Challenged, StoreAuth, LoginFails, LoginTimesOut, InFlight
<1>2. PICK k \in Clients : k = login[l].client /\ control[k].st # "none"
  BY <1>1 DEF AInv, LoginPlaced, InFlight
<1>3. PICK pc \in {"finish", "ok", "failed", "timeout"} :
        /\ LoginTo(l, pc)
        /\ \/ /\ pc = "finish" /\ login[l].pc = "challenge" /\ Send(k, "finish", l)
              /\ UNCHANGED auth
           \/ /\ pc = "ok" /\ login[l].pc = "accepted" /\ UNCHANGED control
              /\ auth' = [auth EXCEPT ![k] = l]
           \/ /\ pc = "failed" /\ login[l].pc = "challenge" /\ UNCHANGED <<control, auth>>
           \/ /\ pc = "failed" /\ ~Open(k) /\ UNCHANGED <<control, auth>>
           \/ /\ pc = "timeout" /\ UNCHANGED <<control, auth>>
  BY <1>2 DEF LoginStep, Challenged, StoreAuth, LoginFails, LoginTimesOut
<1>4. /\ \A j \in Logins : /\ login'[j].client = login[j].client
                           /\ login'[j].alone = login[j].alone
                           /\ j # l => login'[j].pc = login[j].pc
      /\ login'[l].pc = pc
  BY <1>0, <1>3 DEF LoginTo, LoginType, LoginRec
<1>5. \A j \in Clients : control'[j].st = control[j].st /\ control'[j].active = control[j].active
  BY <1>0, <1>2, <1>3, SendLast
<1>6. \A j \in Clients : j # k => control'[j] = control[j] /\ auth'[j] = auth[j]
  BY <1>0, <1>2, <1>3, SendLast DEF ClientType
<1>7. LoginPlaced'
  <2> SUFFICES ASSUME NEW j \in Logins, login'[j].pc # "unused"
               PROVE  login'[j].client \in Clients /\ control'[login'[j].client].st # "none"
    BY DEF LoginPlaced
  <2>1. login[j].pc # "unused"
    BY <1>1, <1>4 DEF InFlight
  <2> QED
    BY <1>4, <1>5, <2>1 DEF AInv, LoginPlaced
<1>8. OneInFlight'
  <2>1. \A j \in Logins : InFlight(j)' => InFlight(j)
    BY <1>1, <1>4 DEF InFlight
  <2> QED
    BY <1>4, <2>1 DEF OneInFlight, AInv
<1>9. \A j \in Clients : Quiet(j)' => Quiet(j)
  <2> SUFFICES ASSUME NEW j \in Clients, Quiet(j)', NEW m \in Logins, login[m].client = j
               PROVE  login[m].alone /\ login[m].pc # "timeout"
    BY DEF Quiet, LoginsOn
  <2>1. login'[m].alone /\ login'[m].pc # "timeout"
    BY <1>4 DEF Quiet, LoginsOn
  <2> QED
    BY <1>1, <1>4, <2>1 DEF InFlight
<1>10. Quiet(k)' => pc # "timeout"
  BY <1>2, <1>4 DEF Quiet, LoginsOn
<1>11. ASSUME Quiet(k), login[l].pc \notin {"start", "finish"}, NEW i \in Nat
       PROVE  ~LoginEntry(k, i)
  BY <1>1, <1>2, <1>11, EntryOfLogin
<1>12. Answered'
  <2> SUFFICES ASSUME NEW j \in Clients, Quiet(j), Quiet(j)', NEW i \in Nat, LoginEntry(j, i)'
               PROVE  /\ login'[control'[j].queue[i].by].pc = control'[j].queue[i].kind
                      /\ \A m \in Nat : LoginEntry(j, m)' => m = i
    BY <1>9 DEF Answered
  <2>1. CASE j # k
    <3>1. control'[j] = control[j] /\ \A m \in Nat : LoginEntry(j, m)' <=> LoginEntry(j, m)
      BY <1>6, <2>1 DEF LoginEntry
    <3>2. LoginEntry(j, i)
      BY <3>1
    <3>3. control[j].queue[i].by \in Logins /\ login[control[j].queue[i].by].client = j
      BY <3>2, EntryAt
    <3>4. control[j].queue[i].by # l
      BY <1>2, <2>1, <3>3
    <3>5. /\ login[control[j].queue[i].by].pc = control[j].queue[i].kind
          /\ \A m \in Nat : LoginEntry(j, m) => m = i
      BY <3>2 DEF AInv, Answered
    <3> QED
      BY <1>4, <3>1, <3>3, <3>4, <3>5
  <2>2. CASE j = k /\ pc = "finish"
    <3>1. login[l].pc = "challenge" /\ Send(k, "finish", l)
      BY <1>3, <2>2
    <3>2. \A m \in Nat : ~LoginEntry(k, m)
      BY <1>11, <2>2, <3>1
    <3>3. \A m \in 1 .. Len(control'[k].queue) :
            \/ m \in 1 .. Len(control[k].queue) /\ control'[k].queue[m] = control[k].queue[m]
            \/ m = Len(control[k].queue) + 1 /\ control'[k].queue[m] = Request("finish", l)
      BY <1>0, <1>2, <3>1, SendLast, SMTT(20)
    <3>4. ASSUME NEW m \in Nat, LoginEntry(k, m)'
          PROVE  m = Len(control[k].queue) + 1 /\ control'[k].queue[m] = Request("finish", l)
      <4>1. m \in 1 .. Len(control'[k].queue) /\ control'[k].queue[m].kind # "snapshot"
        BY <3>4 DEF LoginEntry
      <4>2. ~(m \in 1 .. Len(control[k].queue) /\ control'[k].queue[m] = control[k].queue[m])
        BY <3>2, <4>1 DEF LoginEntry
      <4> QED
        BY <3>3, <4>1, <4>2
    <3>5. Request("finish", l).kind = "finish" /\ Request("finish", l).by = l
      BY DEF Request
    <3> QED
      BY <1>4, <2>2, <3>4, <3>5
  <2>3. CASE j = k /\ login[l].pc \notin {"start", "finish"} /\ UNCHANGED control
    <3>1. ~LoginEntry(k, i)
      BY <1>11, <2>3
    <3> QED
      BY <2>3, <3>1 DEF LoginEntry
  <2>4. CASE j = k /\ ~Open(k) /\ UNCHANGED control
    <3>1. control[k].queue = <<>>
      BY <1>0, <1>2, <2>4 DEF ControlType, Bare, NoControl
    <3> QED
      BY <2>4, <3>1 DEF LoginEntry
  <2> QED
    BY <1>3, <1>10, <2>1, <2>2, <2>3, <2>4
<1>13. Agree'
  <2> SUFFICES ASSUME NEW j \in Clients, Open(j)', Quiet(j)'
               PROVE  /\ \A m \in LoginsOn(j)' : login'[m].pc = "accepted" => control'[j].active = m
                      /\ (\A m \in LoginsOn(j)' : login'[m].pc # "accepted")
                           => auth'[j] = control'[j].active
    BY DEF Agree
  <2>0. Open(j) /\ Quiet(j) /\ control'[j].active = control[j].active
    BY <1>5, <1>9 DEF Open
  <2>1. CASE j # k
    <3>1. \A m \in Logins : login[m].client # k => login'[m].pc = login[m].pc
      BY <1>2, <1>4
    <3> QED
      BY <1>2, <1>4, <1>5, <1>6, <1>9, <2>1, <3>1, AgreeElsewhere
  <2>2. CASE j = k /\ login[l].pc = "challenge"
    <3>1. UNCHANGED auth /\ login'[l].pc # "accepted"
      BY <1>3, <1>4, <1>10, <2>2
    <3>2. \A m \in Logins : /\ login'[m].client = login[m].client
                            /\ login'[m].pc = "accepted" <=> login[m].pc = "accepted"
      BY <1>4, <2>2, <3>1
    <3>3. /\ \A m \in Logins : login[m].client = j /\ login[m].pc = "accepted"
                                => control[j].active = m
          /\ (\A m \in Logins : login[m].client = j => login[m].pc # "accepted")
               => auth[j] = control[j].active
      BY <2>0 DEF AInv, Agree, LoginsOn
    <3> QED
      BY <2>0, <3>1, <3>2, <3>3 DEF LoginsOn
  <2>3. CASE j = k /\ pc = "ok"
    <3>1. login[l].pc = "accepted" /\ auth'[k] = l
      BY <1>0, <1>2, <1>3, <2>3 DEF ClientType
    <3>2. control[k].active = l
      BY <1>2, <2>0, <2>3, <3>1 DEF AInv, Agree, LoginsOn
    <3>3. ASSUME NEW m \in Logins, login'[m].client = k PROVE login'[m].pc # "accepted"
      <4>1. CASE m = l
        BY <1>4, <2>3, <4>1
      <4>2. CASE m # l
        <5>1. login[l].alone
          BY <1>2, <2>0, <2>3 DEF Quiet, LoginsOn
        <5>2. ~InFlight(m)
          BY <1>1, <1>2, <1>4, <3>3, <4>2, <5>1 DEF AInv, OneInFlight
        <5> QED
          BY <1>4, <4>2, <5>2 DEF InFlight
      <4> QED
        BY <4>1, <4>2
    <3> QED
      BY <2>0, <2>3, <3>1, <3>2, <3>3 DEF LoginsOn
  <2> QED
    BY <1>3, <1>10, <2>0, <2>1, <2>2, <2>3
<1> QED
  BY <1>7, <1>8, <1>12, <1>13 DEF AInv

(* A login begins. *)
LEMMA AgreeBegin ==
  ASSUME TypeOK, Owned, AInv, NEW l \in Logins, NEW s \in Shares, BeginLogin(l, s)
  PROVE  AInv'
<1> USE Numbers
<1> DEFINE others == {j \in LoginsOn(current) : InFlight(j)}
<1>0. ControlType /\ LoginType /\ ClientType
  BY TypeParts
<1>1. /\ login[l].pc = "unused" /\ login[l].client = None /\ UNCHANGED auth
      /\ \E k \in Clients : k = current /\ control[k].st # "none" /\ Send(k, "start", l)
  BY <1>0 DEF BeginLogin, ClientType, Owned, Connected, LoginOwned, serverVars
<1>2. login' = [j \in Logins |->
                  IF j = l THEN [pc |-> "start", client |-> current, share |-> s,
                                 alone |-> others = {}]
                  ELSE [login[j] EXCEPT !.alone = @ /\ j \notin others]]
  BY DEF BeginLogin
<1>3. PICK k \in Clients : k = current /\ control[k].st # "none" /\ Send(k, "start", l)
  BY <1>1
<1>4. /\ login'[l].pc = "start" /\ login'[l].client = k
      /\ login'[l].alone <=> others = {}
  BY <1>2, <1>3
<1>5. ASSUME NEW j \in Logins, j # l
      PROVE  /\ login'[j].pc = login[j].pc /\ login'[j].client = login[j].client
             /\ login'[j].alone <=> login[j].alone /\ j \notin others
  <2>1. login[j] \in LoginRec
    BY <1>0 DEF LoginType
  <2>2. login'[j] = [login[j] EXCEPT !.alone = @ /\ j \notin others]
    BY <1>2, <1>5
  <2> HIDE DEF others
  <2> QED
    BY <2>1, <2>2 DEF LoginRec
<1>6. \A j \in Logins : j \in others <=> login[j].client = k /\ InFlight(j)
  BY <1>3 DEF LoginsOn
<1> HIDE DEF others
<1>7. ~InFlight(l) /\ l \notin others
  BY <1>1, <1>6 DEF InFlight
<1>8. \A j \in Clients : control'[j].st = control[j].st /\ control'[j].active = control[j].active
  BY <1>0, <1>3, SendLast
<1>9. LoginPlaced'
  <2> SUFFICES ASSUME NEW j \in Logins, login'[j].pc # "unused"
               PROVE  login'[j].client \in Clients /\ control'[login'[j].client].st # "none"
    BY DEF LoginPlaced
  <2>1. CASE j = l
    BY <1>4, <1>8, <1>3, <2>1
  <2>2. CASE j # l
    BY <1>5, <1>8, <2>2 DEF AInv, LoginPlaced
  <2> QED
    BY <2>1, <2>2
<1>10. OneInFlight'
  <2> SUFFICES ASSUME NEW i \in Logins, NEW j \in Logins, InFlight(i)', InFlight(j)',
                      login'[i].client = login'[j].client, login'[i].alone
               PROVE  i = j
    BY DEF OneInFlight
  <2>1. \A m \in Logins : m # l => (InFlight(m)' <=> InFlight(m))
    BY <1>5 DEF InFlight
  <2>2. CASE i # l /\ j # l
    BY <1>5, <2>1, <2>2 DEF AInv, OneInFlight
  <2>3. CASE i = l /\ j # l
    <3>1. j \in others
      BY <1>4, <1>5, <1>6, <2>1, <2>3
    <3> QED
      BY <1>4, <2>3, <3>1
  <2>4. CASE i # l /\ j = l
    <3>1. i \in others
      BY <1>4, <1>5, <1>6, <2>1, <2>4
    <3> QED
      BY <1>5, <2>4, <3>1
  <2> QED
    BY <2>2, <2>3, <2>4
<1>11. \A j \in Clients : Quiet(j)' => Quiet(j)
  <2> SUFFICES ASSUME NEW j \in Clients, Quiet(j)', NEW m \in Logins, login[m].client = j
               PROVE  login[m].alone /\ login[m].pc # "timeout"
    BY DEF Quiet, LoginsOn
  <2>1. m # l
    BY <1>1
  <2>2. login'[m].client = login[m].client
    BY <1>5, <2>1
  <2>3. login'[m].alone /\ login'[m].pc # "timeout"
    BY <2>2 DEF Quiet, LoginsOn
  <2> QED
    BY <1>5, <2>1, <2>3
<1>12. Quiet(k)' => others = {}
  BY <1>4 DEF Quiet, LoginsOn
<1>13. Answered'
  <2> SUFFICES ASSUME NEW j \in Clients, Quiet(j), Quiet(j)', NEW i \in Nat, LoginEntry(j, i)'
               PROVE  /\ login'[control'[j].queue[i].by].pc = control'[j].queue[i].kind
                      /\ \A m \in Nat : LoginEntry(j, m)' => m = i
    BY <1>11 DEF Answered
  <2>1. CASE j # k
    <3>1. control'[j] = control[j] /\ \A m \in Nat : LoginEntry(j, m)' <=> LoginEntry(j, m)
      BY <1>0, <1>3, <2>1, SendLast DEF LoginEntry
    <3>2. LoginEntry(j, i)
      BY <3>1
    <3>3. control[j].queue[i].by \in Logins /\ login[control[j].queue[i].by].client = j
      BY <3>2, EntryAt
    <3>4. control[j].queue[i].by # l
      BY <1>1, <3>3
    <3>5. /\ login[control[j].queue[i].by].pc = control[j].queue[i].kind
          /\ \A m \in Nat : LoginEntry(j, m) => m = i
      BY <3>2 DEF AInv, Answered
    <3> QED
      BY <1>5, <3>1, <3>3, <3>4, <3>5
  <2>2. CASE j = k
    <3>1. ASSUME NEW m \in Nat, LoginEntry(j, m) PROVE FALSE
      <4>1. /\ control[j].queue[m].by \in Logins /\ login[control[j].queue[m].by].client = j
            /\ control[j].queue[m].kind \in {"start", "finish"}
        BY <3>1, EntryAt
      <4>2. login[control[j].queue[m].by].pc = control[j].queue[m].kind
        BY <3>1 DEF AInv, Answered
      <4>3. control[j].queue[m].by \in others
        BY <1>6, <2>2, <4>1, <4>2 DEF InFlight
      <4> QED
        BY <1>12, <2>2, <4>3
    <3>2. \A m \in 1 .. Len(control'[j].queue) :
            \/ m \in 1 .. Len(control[j].queue) /\ control'[j].queue[m] = control[j].queue[m]
            \/ m = Len(control[j].queue) + 1 /\ control'[j].queue[m] = Request("start", l)
      BY <1>0, <1>3, <2>2, SendLast
    <3>3. \A m \in Nat : LoginEntry(j, m)' => /\ m = Len(control[j].queue) + 1
                                              /\ control'[j].queue[m] = Request("start", l)
      BY <3>1, <3>2 DEF LoginEntry
    <3> QED
      BY <1>4, <3>3 DEF Request
  <2> QED
    BY <2>1, <2>2
<1>14. Agree'
  <2> SUFFICES ASSUME NEW j \in Clients, Open(j)', Quiet(j)'
               PROVE  /\ \A m \in LoginsOn(j)' : login'[m].pc = "accepted" => control'[j].active = m
                      /\ (\A m \in LoginsOn(j)' : login'[m].pc # "accepted")
                           => auth'[j] = control'[j].active
    BY DEF Agree
  <2>1. Open(j) /\ Quiet(j) /\ control'[j].active = control[j].active
    BY <1>8, <1>11 DEF Open
  <2>2. \A m \in Logins : /\ login'[m].pc = "accepted" <=> login[m].pc = "accepted"
                          /\ login[m].pc = "accepted" => login'[m].client = login[m].client
                          /\ login[m].client = j => login'[m].client = j
    BY <1>1, <1>4, <1>5
  <2>3. /\ \A m \in Logins : login[m].client = j /\ login[m].pc = "accepted"
                              => control[j].active = m
        /\ (\A m \in Logins : login[m].client = j => login[m].pc # "accepted")
             => auth[j] = control[j].active
    BY <2>1 DEF AInv, Agree, LoginsOn
  <2> QED
    BY <1>1, <2>1, <2>2, <2>3 DEF LoginsOn
<1> QED
  BY <1>9, <1>10, <1>13, <1>14 DEF AInv

-----------------------------------------------------------------------------
LEMMA AInitially == Init => AInv
<1> SUFFICES ASSUME Init PROVE AInv
  OBVIOUS
<1>1. LoginPlaced /\ OneInFlight
  BY DEF Init, LoginPlaced, OneInFlight, InFlight
<1>2. Answered /\ Agree
  BY DEF Init, Answered, Agree, LoginEntry, Open, NoControl
<1> QED
  BY <1>1, <1>2 DEF AInv

LEMMA AInvStep == IInv /\ AInv /\ [Next]_vars => AInv'
<1> SUFFICES ASSUME IInv, AInv, [Next]_vars PROVE AInv'
  OBVIOUS
<1>0. TypeOK /\ Owned
  BY DEF IInv
<1>1. ASSUME NEW k \in Clients, Connect(k) \/ ServeStep(k) \/ ControlEnds(k) PROVE AInv'
  BY <1>0, <1>1, AgreeConnection, AgreeStart, AgreeFinish, AgreeSnapshot DEF ServeStep
<1>2. ASSUME NEW l \in Logins, LoginStep(l) \/ \E s \in Shares : BeginLogin(l, s) PROVE AInv'
  BY <1>0, <1>2, AgreeLogin, AgreeBegin
<1>3. ASSUME NEW r \in Runs, RunStep(r) \/ DataBreaks(r) \/ \E s \in Shares : Prepare(r, s)
      PROVE  AInv'
  BY <1>0, <1>3, AgreeRuns
<1>4. ASSUME Stop \/ StartAgain \/ (\E s \in Shares : EditShare(s)) \/ UNCHANGED vars
      PROVE  AInv'
  BY <1>0, <1>4, AgreeServer
<1> QED
  BY <1>1, <1>2, <1>3, <1>4 DEF Next

(* Both ends of an open control connection agree on its session, unless a login
   has timed out on it, two have overlapped or one is under way. *)
THEOREM ControlEndsAgree == Spec => []ControlAgrees
<1>1. AInv => ControlAgrees
  BY DEF AInv, Agree, ControlAgrees, Quiet, InFlight
<1> QED
  BY <1>1, AInitially, AInvStep, IInvHolds, PTL DEF Spec
=============================================================================
