---------------------------- MODULE TaskLifecycle ----------------------------
(***************************************************************************)
(* The life of one download task: the commands create_download_task,       *)
(* resume_task, pause_task and cancel_task (src-tauri/src/commands.rs), the *)
(* TaskEngine with its map of active tasks (tasks.rs, 60-415) and the       *)
(* status column of the task's row.  Every await of a command or of the    *)
(* spawned runner separates two steps, so that the commands, the runners   *)
(* of earlier resumes and a crash interleave between any two of them.      *)
(*                                                                         *)
(* A run is one call of create_download_task or resume_task, with the      *)
(* runner it spawns.  The map entry of the task is the run whose token it  *)
(* holds.                                                                  *)
(***************************************************************************)
EXTENDS Integers, FiniteSets

CONSTANTS
  MaxRuns,     \* bound: runs of the task
  MaxCrashes,  \* bound: crashes of the process
  NoRun        \* the task has no entry in the map of active tasks

ASSUME TaskLifecycleAssumption ==
  MaxRuns \in Nat /\ MaxCrashes \in Nat /\ NoRun \notin Nat

Runs == 1 .. MaxRuns
Commands == {"pause", "cancel"}  \* pause_all is pause_task for every entry

VARIABLES
  pc,       \* where each run is
  token,    \* the run's CancellationToken is cancelled
  active,   \* the entry of the task in TaskEngine::active
  status,   \* the status column of the task
  command,  \* "issued": sent, or listed by pause_all; "write": the entry is
            \* removed, the status is not written yet
  crashes,
  patient,  \* the user waits for a resume to return before the next one, and a
            \* cancelled runner has ended before the next is registered;
            \* nothing in the code ensures either
  dbErrors  \* a call to SQLite or to the file system may fail

fixed == <<patient, dbErrors>>
vars == <<pc, token, active, status, command, crashes, fixed>>

InCommand == {"snapshot", "check", "prepare", "insert"}
InRunner  == {"begin", "download", "completed", "error", "failing", "exit"}

Live(r) == pc[r] \in InCommand \cup InRunner
Running(r) == pc[r] \in InRunner

Init ==
  /\ pc = [r \in Runs |-> "unused"]
  /\ token = [r \in Runs |-> FALSE]
  /\ active = NoRun
  /\ status = "none"
  /\ command = [c \in Commands |-> "idle"]
  /\ crashes = 0
  /\ patient \in BOOLEAN /\ dbErrors \in BOOLEAN

Goto(r, l) == pc' = [pc EXCEPT ![r] = l]
At(r, l) == pc[r] = l

-----------------------------------------------------------------------------
(* create_download_task inserts the row as "preparing"; resume_task leaves
   its status; both then wait for the peer's snapshot.  The user interface
   (App.tsx) offers resume for paused and failed tasks. *)
Begin(r) ==
  /\ At(r, "unused") /\ \A q \in Runs : q < r => ~At(q, "unused")
  /\ patient => \A q \in Runs : pc[q] \notin InCommand
  /\ \/ r = 1 /\ status' = "preparing"
     \/ status \in {"paused", "failed"} /\ UNCHANGED status
  /\ Goto(r, "snapshot")
  /\ UNCHANGED <<token, active, command, crashes, fixed>>

SnapshotReady(r) ==
  /\ At(r, "snapshot")
  /\ \/ Goto(r, "check")
     \/ dbErrors /\ Goto(r, "gone")       \* the row cannot be read or updated
  /\ UNCHANGED <<token, active, status, command, crashes, fixed>>

SnapshotFails(r) ==
  /\ At(r, "snapshot")
  /\ status' = "failed" \/ (dbErrors /\ UNCHANGED status)
  /\ Goto(r, "gone")
  /\ UNCHANGED <<token, active, command, crashes, fixed>>

(* Mutation: the map is not looked at. *)
StartCheckBlindly(r) ==
  /\ At(r, "check")
  /\ Goto(r, "prepare")
  /\ UNCHANGED <<token, active, status, command, crashes, fixed>>

(* start: refused while the task has an entry ("already running"); the lock
   is released before the manifest is stored. *)
StartCheck(r) ==
  /\ At(r, "check")
  /\ Goto(r, IF active = NoRun THEN "prepare" ELSE "gone")
  /\ UNCHANGED <<token, active, status, command, crashes, fixed>>

StoreManifest(r) ==
  /\ At(r, "prepare")
  /\ \/ Goto(r, "insert")
     \/ dbErrors /\ Goto(r, "gone")       \* start returns the error
  /\ UNCHANGED <<token, active, status, command, crashes, fixed>>

InsertActive(r) ==
  /\ At(r, "insert")
  /\ patient => \A q \in Runs : ~(Running(q) /\ token[q])
  /\ active' = r
  /\ Goto(r, "begin")
  /\ UNCHANGED <<token, status, command, crashes, fixed>>

-----------------------------------------------------------------------------
(* run_task: the token is not looked at before the status is written. *)
RunBegins(r) ==
  /\ At(r, "begin")
  /\ \/ status' = "downloading" /\ Goto(r, "download")
     \/ dbErrors /\ UNCHANGED status /\ Goto(r, "error")
  /\ UNCHANGED <<token, active, command, crashes, fixed>>

(* The progress tick writes the status again, token or not. *)
Tick(r) ==
  /\ At(r, "download")
  /\ status' = "downloading"
  /\ UNCHANGED <<pc, token, active, command, crashes, fixed>>

(* Mutation: "completed" is written before the loop has ended. *)
WriteCompletedEarly(r) ==
  /\ At(r, "download")
  /\ status' = "completed"
  /\ UNCHANGED <<pc, token, active, command, crashes, fixed>>

(* All files are downloaded: "completed" is written, then written again by
   emit_progress, then the partial directory goes. *)
WriteCompleted(r) ==
  /\ At(r, "download")
  /\ status' = "completed"
  /\ Goto(r, "completed")
  /\ UNCHANGED <<token, active, command, crashes, fixed>>

EmitCompleted(r) ==
  /\ At(r, "completed")
  /\ status' = "completed"
  /\ Goto(r, "exit")
  /\ UNCHANGED <<token, active, command, crashes, fixed>>

(* A transfer, the cancelled token or a write of the progress ends the run. *)
RunErrs(r) ==
  /\ At(r, "download") \/ (dbErrors /\ At(r, "completed"))
  /\ Goto(r, "error")
  /\ UNCHANGED <<token, active, status, command, crashes, fixed>>

(* Mutation: only a cancelled run reports a failure. *)
CheckCancelledInverted(r) ==
  /\ At(r, "error")
  /\ Goto(r, IF token[r] THEN "failing" ELSE "exit")
  /\ UNCHANGED <<token, active, status, command, crashes, fixed>>

(* Only a run whose token is not cancelled reports a failure; the token is
   looked at before the write. *)
CheckCancelled(r) ==
  /\ At(r, "error")
  /\ Goto(r, IF token[r] THEN "exit" ELSE "failing")
  /\ UNCHANGED <<token, active, status, command, crashes, fixed>>

WriteFailed(r) ==
  /\ At(r, "failing")
  /\ \/ status' = "failed"
     \/ dbErrors /\ UNCHANGED status      \* the error of this write is ignored
  /\ Goto(r, "exit")
  /\ UNCHANGED <<token, active, command, crashes, fixed>>

(* Mutation: the entry is left behind. *)
ExitKeepingEntry(r) ==
  /\ At(r, "exit")
  /\ Goto(r, "gone")
  /\ UNCHANGED <<token, active, status, command, crashes, fixed>>

(* The runner removes the entry of the task, whoever inserted it. *)
Exit(r) ==
  /\ At(r, "exit")
  /\ active' = NoRun
  /\ Goto(r, "gone")
  /\ UNCHANGED <<token, status, command, crashes, fixed>>

-----------------------------------------------------------------------------
(* The user interface offers pause for downloading tasks and cancel for any
   that is not completed or cancelled; pause_all lists the active tasks.  The
   command acts later, on the state of then. *)
Issue(c) ==
  /\ command[c] = "idle"
  /\ \/ c = "pause" /\ (status = "downloading" \/ active # NoRun)
     \/ c = "cancel" /\ status \notin {"none", "completed", "cancelled"}
  /\ command' = [command EXCEPT ![c] = "issued"]
  /\ UNCHANGED <<pc, token, active, status, crashes, fixed>>

(* Mutation: the token is not cancelled. *)
RemoveActiveOnly(c) ==
  /\ command[c] = "issued"
  /\ active' = NoRun
  /\ command' = [command EXCEPT ![c] = "write"]
  /\ UNCHANGED <<pc, token, status, crashes, fixed>>

(* pause and cancel: the entry is removed and its token cancelled under the
   lock; the status is written afterwards, entry or not. *)
RemoveActive(c) ==
  /\ command[c] = "issued"
  /\ token' = [r \in Runs |-> token[r] \/ r = active]
  /\ active' = NoRun
  /\ command' = [command EXCEPT ![c] = "write"]
  /\ UNCHANGED <<pc, status, crashes, fixed>>

(* Mutation: a status the user interface does not know. *)
WriteStatusMisspelt(c) ==
  /\ command[c] = "write"
  /\ status' = IF c = "pause" THEN "paused" ELSE "canceled"
  /\ command' = [command EXCEPT ![c] = "idle"]
  /\ UNCHANGED <<pc, token, active, crashes, fixed>>

WriteStatus(c) ==
  /\ command[c] = "write"
  /\ status' = IF c = "pause" THEN "paused" ELSE "cancelled"
  /\ command' = [command EXCEPT ![c] = "idle"]
  /\ UNCHANGED <<pc, token, active, crashes, fixed>>

(* cancel could not delete the partial directory, or the status could not be
   written: the command returns the error, after it removed the entry. *)
CommandFails(c) ==
  /\ command[c] = "write" /\ dbErrors
  /\ command' = [command EXCEPT ![c] = "idle"]
  /\ UNCHANGED <<pc, token, active, status, crashes, fixed>>

(* The process dies: runners, commands and the map go, the row stays. *)
Crash ==
  /\ crashes < MaxCrashes
  /\ crashes' = crashes + 1
  /\ pc' = [r \in Runs |-> IF Live(r) THEN "gone" ELSE pc[r]]
  /\ active' = NoRun
  /\ command' = [c \in Commands |-> "idle"]
  /\ UNCHANGED <<token, status, fixed>>

-----------------------------------------------------------------------------
CommandStep(r) == \/ SnapshotReady(r) \/ SnapshotFails(r) \/ StartCheck(r)
                  \/ StoreManifest(r) \/ InsertActive(r)
RunnerStep(r) == \/ RunBegins(r) \/ Tick(r) \/ WriteCompleted(r) \/ EmitCompleted(r)
                 \/ RunErrs(r) \/ CheckCancelled(r) \/ WriteFailed(r) \/ Exit(r)
Next == \/ \E r \in Runs : Begin(r) \/ CommandStep(r) \/ RunnerStep(r)
        \/ \E c \in Commands : \/ Issue(c) \/ RemoveActive(c)
                               \/ WriteStatus(c) \/ CommandFails(c)
        \/ Crash

Spec == Init /\ [][Next]_vars

-----------------------------------------------------------------------------
(* Type invariant. *)
TypeOK ==
  /\ pc \in [Runs -> {"unused", "gone"} \cup InCommand \cup InRunner]
  /\ token \in [Runs -> BOOLEAN]
  /\ active \in Runs \cup {NoRun}
  /\ status \in {"none", "preparing", "downloading", "paused", "failed",
                 "cancelled", "completed"}
  /\ command \in [Commands -> {"idle", "issued", "write"}]
  /\ crashes \in 0 .. MaxCrashes
  /\ patient \in BOOLEAN /\ dbErrors \in BOOLEAN

(* The entry in the map of active tasks always belongs to a runner that has
   not ended and whose token is not cancelled: pause and cancel never act on
   the token of a run that is over. *)
ActiveIsLive == active # NoRun => Running(active) /\ ~token[active]

(* start refuses a task that is running ("already running"): two runners that
   nobody has told to stop never download the same task. *)
StartRefusesRunning ==
  \A r, q \in Runs : /\ Running(r) /\ ~token[r]
                     /\ Running(q) /\ ~token[q]
                     => r = q

(* With a patient user the task has at most one runner, cancelled or not: no
   two runners write the same .part files. *)
AtMostOneRunner ==
  patient => \A r, q \in Runs : Running(r) /\ Running(q) => r = q

(* With a patient user every runner that has not been told to stop can be told
   to: the map holds its token.  No runner of an earlier resume takes the
   entry of a later one with it when it ends, and no command drops an entry
   without cancelling its token. *)
Controllable == patient => \A r \in Runs : Running(r) /\ ~token[r] => active = r

(* With a patient user the status "completed" is never shown while a runner
   still transfers. *)
CompletedIsQuiet ==
  patient /\ status = "completed" => \A r \in Runs : ~At(r, "download")

(* A run that nobody cancelled does not end silently: when nothing runs any
   more, no call failed and the user was patient, the status says how the last run ended. *)
NoSilentEnd ==
  /\ \A r \in Runs : ~Live(r) /\ ~token[r]
  /\ crashes = 0 /\ patient /\ ~dbErrors
  => status \notin {"preparing", "downloading"}
=============================================================================
