----------------------------- MODULE PeerSession -----------------------------
(***************************************************************************)
(* Logging in to a peer and working under the login: PeerClient with its   *)
(* control connection and its credentials (client.rs), the map of clients  *)
(* that every connect overwrites (commands.rs), and the sessions and       *)
(* snapshots that the other side keeps in memory (server.rs).              *)
(*                                                                         *)
(* A client is one call of connect_peer, a login one call of authenticate, *)
(* a run one call of create_download_task or resume_task with the transfer *)
(* that follows.  Each is used once; the session a login opens and the     *)
(* snapshot a run is given bear its number.  A run has one data connection *)
(* here.  How frames travel is in MuxConnection, what a status says in     *)
(* TaskLifecycle.                                                          *)
(***************************************************************************)
EXTENDS Integers, Sequences, FiniteSets

CONSTANTS
  Shares,
  NoShare,
  MaxClients,  \* bound: calls of connect_peer
  MaxLogins,   \* bound: calls of authenticate
  MaxRuns,     \* bound: runs
  MaxStarts,   \* bound: starts of the sharing side; the last one does not end
  MaxEdits     \* bound: changes the owner makes to shares

ASSUME PeerSessionAssumption ==
  /\ NoShare \notin Shares
  /\ {MaxClients, MaxLogins, MaxRuns, MaxStarts, MaxEdits} \subseteq Nat

Clients == 1 .. MaxClients
Logins  == 1 .. MaxLogins
Runs    == 1 .. MaxRuns
None    == 0    \* no client, or no session

VARIABLES
  up,         \* the sharing side runs
  starts,     \* how often it was started
  share,      \* the rows of its table of shares
  edits,
  sessions,   \* its sessions, by the login that opened them
  snapshots,  \* its snapshots, by the run they were made for
  control,    \* per client: the control connection, its requests that are not
              \* handled yet, its pending logins and its active session
  current,    \* the client in the map of the core
  auth,       \* the session each client stored
  login,      \* the calls of authenticate
  run,        \* the runs
  born,       \* observed: the start in which the session of a login was opened
  made        \* observed: the share the snapshot of a run was made of

serverVars == <<up, starts, share, edits, sessions, snapshots>>
vars == <<serverVars, control, current, auth, login, run, born, made>>

NoControl == [st |-> "none", queue |-> <<>>, pending |-> {}, active |-> None]
Closed    == [NoControl EXCEPT !.st = "closed"]
Request(kind, by) == [kind |-> kind, by |-> by]

Init ==
  /\ up = TRUE /\ starts = 1
  /\ share = [s \in Shares |-> "enabled"] /\ edits = 0
  /\ sessions = {} /\ snapshots = {}
  /\ control = [k \in Clients |-> NoControl]
  /\ current = None
  /\ auth = [k \in Clients |-> None]
  /\ login = [l \in Logins |-> [pc |-> "unused", client |-> None, share |-> NoShare,
                               alone |-> TRUE]]
  /\ run = [r \in Runs |-> [pc |-> "unused", client |-> None, share |-> NoShare,
                           session |-> None]]
  /\ made = [r \in Runs |-> NoShare]
  /\ born = [l \in Logins |-> 0]

Open(k) == control[k].st = "open"
LoginTo(l, pc) == login' = [login EXCEPT ![l].pc = pc]
RunTo(r, pc)   == run' = [run EXCEPT ![r].pc = pc]

-----------------------------------------------------------------------------
(* connect_peer: the Hello exchange on a new control connection.  The new
   client takes the place of the old one in the map; runs keep the old one. *)
Connect(k) ==
  /\ up /\ control[k].st = "none" /\ \A j \in Clients : j < k => control[j].st # "none"
  /\ control' = [control EXCEPT ![k].st = "open"]
  /\ current' = k
  /\ UNCHANGED <<serverVars, auth, login, run, born, made>>

(* The request enters the connection; on one that is closed the write fails or
   it succeeds, and nobody will ever answer. *)
Send(k, kind, by) ==
  control' = IF Open(k) THEN [control EXCEPT ![k].queue = Append(@, Request(kind, by))]
                        ELSE control

InFlight(l) == login[l].pc \in {"start", "challenge", "finish", "accepted"}
LoginsOn(k) == {l \in Logins : login[l].client = k}

(* authenticate on the client in the map.  Two of them may be under way: the
   buttons are enabled again by whatever command ends first. *)
BeginLogin(l, s) ==
  /\ login[l].pc = "unused" /\ \A j \in Logins : j < l => login[j].pc # "unused"
  /\ current # None
  /\ LET others == {j \in LoginsOn(current) : InFlight(j)}
     IN login' = [j \in Logins |->
                    IF j = l THEN [pc |-> "start", client |-> current, share |-> s,
                                   alone |-> others = {}]
                    ELSE [login[j] EXCEPT !.alone = @ /\ j \notin others]]
  /\ Send(current, "start", l)
  /\ UNCHANGED <<serverVars, current, auth, run, born, made>>

(* The challenge has come.  A wrong password is noticed here: the answer of
   the server does not open under it, and AuthFinish is not sent. *)
Challenged(l) ==
  /\ login[l].pc = "challenge"
  /\ \/ LoginTo(l, "finish") /\ Send(login[l].client, "finish", l)
     \/ LoginTo(l, "failed") /\ UNCHANGED control
  /\ UNCHANGED <<serverVars, current, auth, run, born, made>>

(* Mutation of the next: a session without a valid proof is stored, too. *)
StoreAnyAuth(l) ==
  /\ login[l].pc \in {"finish", "accepted"}
  /\ auth' = [auth EXCEPT ![login[l].client] = l]
  /\ LoginTo(l, "ok")
  /\ UNCHANGED <<serverVars, control, current, run, born, made>>

(* The proof of the server is in order: the client stores the session. *)
StoreAuth(l) ==
  /\ login[l].pc = "accepted"
  /\ auth' = [auth EXCEPT ![login[l].client] = l]
  /\ LoginTo(l, "ok")
  /\ UNCHANGED <<serverVars, control, current, run, born, made>>

(* The connection ends under a call, or the write fails. *)
LoginFails(l) ==
  /\ InFlight(l) /\ ~Open(login[l].client)
  /\ LoginTo(l, "failed")
  /\ UNCHANGED <<serverVars, control, current, auth, run, born, made>>

(* unary gives up after 30 s; the request stays where it is. *)
LoginTimesOut(l) ==
  /\ InFlight(l)
  /\ LoginTo(l, "timeout")
  /\ UNCHANGED <<serverVars, control, current, auth, run, born, made>>

-----------------------------------------------------------------------------
(* handle_connection, one request after the other. *)
Asked(k) == Head(control[k].queue)
Handles(k, kind) == Open(k) /\ control[k].queue # <<>> /\ Asked(k).kind = kind
Handled(k) == [control[k] EXCEPT !.queue = Tail(@)]

(* An answer reaches a caller only if it still waits for it. *)
AnswerLogin(l, from, pc) == LoginTo(l, IF login[l].pc = from THEN pc ELSE login[l].pc)
AnswerRun(r, pc) == RunTo(r, IF run[r].pc = "preparing" THEN pc ELSE run[r].pc)

(* AuthStart: an error for a share that is gone or disabled, a challenge
   otherwise. *)
ServeStart(k) ==
  /\ Handles(k, "start")
  /\ LET l == Asked(k).by
     IN IF share[login[l].share] = "enabled"
        THEN /\ control' = [control EXCEPT ![k] = [Handled(k) EXCEPT !.pending = @ \cup {l}]]
             /\ AnswerLogin(l, "start", "challenge")
        ELSE /\ control' = [control EXCEPT ![k] = Handled(k)]
             /\ AnswerLogin(l, "start", "failed")
  /\ UNCHANGED <<serverVars, current, auth, run, born, made>>

(* AuthFinish: the challenge is used up.  The session exists, and is that of
   the connection, before the answer is sent, whether or not somebody still
   waits for it.  Whether the share is still enabled is not looked at. *)
ServeFinish(k) ==
  /\ Handles(k, "finish")
  /\ LET l == Asked(k).by
     IN /\ l \in control[k].pending
        /\ sessions' = sessions \cup {l}
        /\ control' = [control EXCEPT ![k] = [Handled(k) EXCEPT !.pending = @ \ {l},
                                                                !.active = l]]
        /\ born' = [born EXCEPT ![l] = starts]
        /\ AnswerLogin(l, "finish", "accepted")
  /\ UNCHANGED <<up, starts, share, edits, snapshots, current, auth, run, made>>

(* Mutation of the next: the share of the session is not compared. *)
AnySession(k, s) == control[k].active # None

(* require_session: the active session of the connection, for this share. *)
SessionFor(k, s) == control[k].active # None /\ login[control[k].active].share = s

(* CreateSnapshotRequest.  A share that is gone is answered with an error;
   otherwise the snapshot is made of the share of the session. *)
ServeSnapshot(k) ==
  /\ Handles(k, "snapshot")
  /\ LET r == Asked(k).by
         s == login[control[k].active].share
     IN /\ SessionFor(k, run[r].share)
        /\ IF share[s] = "deleted"
           THEN AnswerRun(r, "failed") /\ UNCHANGED <<snapshots, made>>
           ELSE /\ snapshots' = snapshots \cup {r}
                /\ made' = [made EXCEPT ![r] = s]
                /\ AnswerRun(r, "manifest")
  /\ control' = [control EXCEPT ![k] = Handled(k)]
  /\ UNCHANGED <<up, starts, share, edits, sessions, current, auth, login, born>>

(* Mutation: the session goes with its control connection. *)
ControlEndsWithSession(k) ==
  /\ Open(k)
  /\ control' = [control EXCEPT ![k] = Closed]
  /\ sessions' = sessions \ {control[k].active}
  /\ UNCHANGED <<up, starts, share, edits, snapshots, current, auth, login, run, born, made>>

(* Mutation: the challenges of a connection outlive it. *)
ControlEndsWithChallenges(k) ==
  /\ Open(k)
  /\ control' = [control EXCEPT ![k] = [Closed EXCEPT !.pending = control[k].pending]]
  /\ UNCHANGED <<serverVars, current, auth, login, run, born, made>>

(* handle_connection returns, without an answer to what it was asked and with
   whatever else waits on the connection: at a request for a share that is not
   that of the session (a snapshot, a listing), at a snapshot that cannot be
   built; or the network breaks the connection.  Sessions and snapshots stay. *)
ControlEnds(k) ==
  /\ Open(k)
  /\ control' = [control EXCEPT ![k] = Closed]
  /\ UNCHANGED <<serverVars, current, auth, login, run, born, made>>

-----------------------------------------------------------------------------
(* create_download_task, or resume_task, which needs no login before it: both
   ask the client in the map for a snapshot and keep that client. *)
Prepare(r, s) ==
  /\ run[r].pc = "unused" /\ \A j \in Runs : j < r => run[j].pc # "unused"
  /\ current # None
  /\ run' = [run EXCEPT ![r] = [pc |-> "preparing", client |-> current, share |-> s,
                                session |-> None]]
  /\ Send(current, "snapshot", r)
  /\ UNCHANGED <<serverVars, current, auth, login, born, made>>

(* The connection ends before the last page of the manifest. *)
PrepareFails(r) ==
  /\ run[r].pc \in {"preparing", "manifest"} /\ ~Open(run[r].client)
  /\ RunTo(r, "failed")
  /\ UNCHANGED <<serverVars, control, current, auth, login, born, made>>

(* No progress for five minutes. *)
PrepareTimesOut(r) ==
  /\ run[r].pc = "preparing"
  /\ RunTo(r, "failed")
  /\ UNCHANGED <<serverVars, control, current, auth, login, born, made>>

Start(r) ==
  /\ run[r].pc = "manifest"
  /\ RunTo(r, "connect")
  /\ UNCHANGED <<serverVars, control, current, auth, login, born, made>>

(* Mutation: the client in the map is taken, not the one of the run. *)
OpenDataOfCurrent(r) ==
  /\ run[r].pc = "connect"
  /\ LET l == auth[current]
     IN run' = [run EXCEPT ![r].pc = IF l # None /\ up THEN "attaching" ELSE "failed",
                           ![r].session = l]
  /\ UNCHANGED <<serverVars, control, current, auth, login, born, made>>

(* data_connection: the session the client has stored by now, and a new TCP
   connection.  Any failure here, also in a retry, ends the run. *)
OpenData(r) ==
  /\ run[r].pc = "connect"
  /\ LET l == auth[run[r].client]
     IN run' = [run EXCEPT ![r].pc = IF l # None /\ up THEN "attaching" ELSE "failed",
                           ![r].session = l]
  /\ UNCHANGED <<serverVars, control, current, auth, login, born, made>>

(* SessionAttach. *)
ServeAttach(r) ==
  /\ run[r].pc = "attaching" /\ up
  /\ RunTo(r, IF run[r].session \in sessions THEN "attached" ELSE "failed")
  /\ UNCHANGED <<serverVars, control, current, auth, login, born, made>>

(* The last ChunkRequest, or a SmallFileBatchRequest: served if the snapshot
   is there; an error otherwise, after which the run tries once more. *)
ServeChunk(r) ==
  /\ run[r].pc = "attached" /\ up
  /\ RunTo(r, IF r \in snapshots THEN "done" ELSE "connect")
  /\ UNCHANGED <<serverVars, control, current, auth, login, born, made>>

(* The data connection breaks; the next attempt opens another one, if there
   is one left. *)
DataBreaks(r) ==
  /\ run[r].pc \in {"attaching", "attached"}
  /\ RunTo(r, "failed") \/ (run[r].pc = "attached" /\ RunTo(r, "connect"))
  /\ UNCHANGED <<serverVars, control, current, auth, login, born, made>>

-----------------------------------------------------------------------------
(* The process of the sharing side ends, and with it every connection, session
   and snapshot; the shares are in the database. *)
Stop ==
  /\ up /\ starts < MaxStarts
  /\ up' = FALSE /\ sessions' = {} /\ snapshots' = {}
  /\ control' = [k \in Clients |-> IF Open(k) THEN Closed ELSE control[k]]
  /\ run' = [r \in Runs |-> CASE run[r].pc = "attaching" -> [run[r] EXCEPT !.pc = "failed"]
                              [] run[r].pc = "attached" -> [run[r] EXCEPT !.pc = "connect"]
                              [] OTHER -> run[r]]
  /\ UNCHANGED <<starts, share, edits, current, auth, login, born, made>>

StartAgain ==
  /\ ~up
  /\ up' = TRUE /\ starts' = starts + 1
  /\ UNCHANGED <<share, edits, sessions, snapshots, control, current, auth, login, run, born, made>>

(* set_share_enabled and delete_share: rows only. *)
EditShare(s) ==
  /\ edits < MaxEdits /\ share[s] # "deleted"
  /\ \E st \in {"enabled", "disabled", "deleted"} : share' = [share EXCEPT ![s] = st]
  /\ edits' = edits + 1
  /\ UNCHANGED <<up, starts, sessions, snapshots, control, current, auth, login, run, born, made>>

-----------------------------------------------------------------------------
LoginStep(l) == Challenged(l) \/ StoreAuth(l) \/ LoginFails(l) \/ LoginTimesOut(l)
RunStep(r) == \/ PrepareFails(r) \/ PrepareTimesOut(r) \/ Start(r) \/ OpenData(r)
              \/ ServeAttach(r) \/ ServeChunk(r)
ServeStep(k) == ServeStart(k) \/ ServeFinish(k) \/ ServeSnapshot(k)

Next == \/ \E k \in Clients : Connect(k) \/ ServeStep(k) \/ ControlEnds(k)
        \/ \E l \in Logins : LoginStep(l) \/ \E s \in Shares : BeginLogin(l, s)
        \/ \E r \in Runs : RunStep(r) \/ DataBreaks(r) \/ \E s \in Shares : Prepare(r, s)
        \/ Stop \/ StartAgain \/ \E s \in Shares : EditShare(s)

Spec == Init /\ [][Next]_vars

-----------------------------------------------------------------------------
(* Type invariant. *)
TypeOK ==
  /\ up \in BOOLEAN /\ starts \in Nat
  /\ share \in [Shares -> {"enabled", "disabled", "deleted"}] /\ edits \in Nat
  /\ sessions \subseteq Logins /\ snapshots \subseteq Runs
  /\ control \in [Clients -> [st : {"none", "open", "closed"},
                              queue : Seq([kind : {"start", "finish"}, by : Logins]
                                          \cup [kind : {"snapshot"}, by : Runs]),
                              pending : SUBSET Logins,
                              active : Logins \cup {None}]]
  /\ \A k \in Clients : Open(k) \/ control[k] = [NoControl EXCEPT !.st = control[k].st]
  /\ current \in Clients \cup {None}
  /\ auth \in [Clients -> Logins \cup {None}]
  /\ login \in [Logins -> [pc : {"unused", "start", "challenge", "finish", "accepted",
                                 "ok", "failed", "timeout"},
                           client : Clients \cup {None}, share : Shares \cup {NoShare},
                           alone : BOOLEAN]]
  /\ run \in [Runs -> [pc : {"unused", "preparing", "manifest", "connect", "attaching",
                             "attached", "done", "failed"},
                       client : Clients \cup {None}, share : Shares \cup {NoShare},
                       session : Logins \cup {None}]]
  /\ born \in [Logins -> Nat] /\ made \in [Runs -> Shares \cup {NoShare}]

(* What a client has stored is known to the other side as long as that side has
   not been started again: whatever becomes of the control connection and of
   later logins, its transfers can open new data connections. *)
SessionsKnown ==
  \A k \in Clients : up /\ auth[k] # None /\ born[auth[k]] = starts => auth[k] \in sessions

(* A data connection that was accepted finds the snapshot of its run: "snapshot
   is gone" is never the answer.  A restart that loses the snapshot has lost
   the session that the attach needs, too, although the user may have connected
   and logged in again meanwhile. *)
AttachedIsServed == \A r \in Runs : up /\ run[r].pc = "attached" => r \in snapshots

(* A run never gets the files of another share than it asked for, in whatever
   order logins and snapshots reach the connection they share. *)
ManifestOfShare ==
  \A r \in Runs : run[r].pc \in {"manifest", "connect", "attaching", "attached", "done"}
                  => made[r] = run[r].share

(* Both ends of an open control connection agree on its session, unless a
   login has timed out on it, two have overlapped or one is under way.  With
   such a difference the next snapshot is refused for the share the user is
   logged in to, and the connection closes. *)
ControlAgrees ==
  \A k \in Clients :
    /\ Open(k)
    /\ \A l \in LoginsOn(k) : login[l].alone /\ ~InFlight(l) /\ login[l].pc # "timeout"
    => auth[k] = control[k].active
=============================================================================
