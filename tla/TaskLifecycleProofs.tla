------------------------- MODULE TaskLifecycleProofs -------------------------
(***************************************************************************)
(* Proofs, for any number of runs and crashes, that the map of active tasks *)
(* never names a run that is over or cancelled, and that with a patient    *)
(* user (see TaskLifecycle) a task has at most one runner, every runner    *)
(* can be stopped, "completed" is shown only when nothing transfers, and a *)
(* run that nobody stopped leaves a status that says how it ended.         *)
(***************************************************************************)
EXTENDS TaskLifecycle, TLAPS

USE TaskLifecycleAssumption DEF Runs, Commands, fixed

(* Type correctness of every step of the commands, the runners and a crash. *)
THEOREM TypeCorrect == Spec => []TypeOK
<1>1. Init => TypeOK
  BY DEF Init, TypeOK
<1>2. TypeOK /\ [Next]_vars => TypeOK'
  <2> SUFFICES ASSUME TypeOK, [Next]_vars PROVE TypeOK'
    OBVIOUS
  <2> USE DEF TypeOK, Goto, At, InCommand, InRunner
  <2>1. ASSUME NEW r \in Runs, Begin(r) PROVE TypeOK'
    BY <2>1 DEF Begin
  <2>2. ASSUME NEW r \in Runs, CommandStep(r) PROVE TypeOK'
    BY <2>2 DEF CommandStep, SnapshotReady, SnapshotFails, StartCheck,
                StoreManifest, InsertActive
  <2>3. ASSUME NEW r \in Runs, RunnerStep(r) PROVE TypeOK'
    BY <2>3 DEF RunnerStep, RunBegins, Tick, WriteCompleted, EmitCompleted,
                RunErrs, CheckCancelled, WriteFailed, Exit
  <2>4. ASSUME NEW c \in Commands,
             Issue(c) \/ RemoveActive(c) \/ WriteStatus(c)
        PROVE TypeOK'
    BY <2>4, ZenonT(30) DEF Issue, RemoveActive, WriteStatus
  <2>5. ASSUME NEW c \in Commands, CommandFails(c) PROVE TypeOK'
    BY <2>5 DEF CommandFails
  <2>6. CASE Crash
    BY <2>6 DEF Crash
  <2>7. CASE UNCHANGED vars
    BY <2>7 DEF vars
  <2> QED
    BY <2>1, <2>2, <2>3, <2>4, <2>5, <2>6, <2>7 DEF Next
<1> QED
  BY <1>1, <1>2, PTL DEF Spec

-----------------------------------------------------------------------------
(* A token is cancelled through the map only, so never before its run is
   registered. *)
FreshToken == \A r \in Runs : pc[r] \in {"unused"} \cup InCommand => ~token[r]

ActiveInv == TypeOK /\ ActiveIsLive /\ FreshToken

LEMMA ActiveInvStep == ActiveInv /\ TypeOK' /\ [Next]_vars => ActiveInv'
<1> SUFFICES ASSUME ActiveInv, TypeOK', [Next]_vars PROVE ActiveInv'
  OBVIOUS
<1> USE DEF ActiveInv, TypeOK, ActiveIsLive, FreshToken, Running, Goto, At,
            InCommand, InRunner
<1>1. ASSUME NEW r \in Runs, Begin(r) PROVE ActiveInv'
  BY <1>1 DEF Begin
<1>2. ASSUME NEW r \in Runs, CommandStep(r) PROVE ActiveInv'
  <2>1. CASE InsertActive(r)
    BY <2>1 DEF InsertActive
  <2>2. CASE SnapshotReady(r) \/ SnapshotFails(r) \/ StartCheck(r) \/ StoreManifest(r)
    BY <2>2 DEF SnapshotReady, SnapshotFails, StartCheck, StoreManifest
  <2> QED
    BY <1>2, <2>1, <2>2 DEF CommandStep
<1>3. ASSUME NEW r \in Runs, RunnerStep(r) PROVE ActiveInv'
  <2>1. CASE Exit(r)
    BY <2>1 DEF Exit
  <2>2. CASE RunBegins(r) \/ Tick(r) \/ WriteCompleted(r) \/ EmitCompleted(r)
    BY <2>2 DEF RunBegins, Tick, WriteCompleted, EmitCompleted
  <2>3. CASE RunErrs(r) \/ CheckCancelled(r) \/ WriteFailed(r)
    BY <2>3 DEF RunErrs, CheckCancelled, WriteFailed
  <2> QED
    BY <1>3, <2>1, <2>2, <2>3 DEF RunnerStep
<1>4. ASSUME NEW c \in Commands,
             Issue(c) \/ RemoveActive(c) \/ WriteStatus(c)
      PROVE ActiveInv'
  BY <1>4 DEF Issue, RemoveActive, WriteStatus
<1>5. ASSUME NEW c \in Commands, CommandFails(c) PROVE ActiveInv'
  BY <1>5 DEF CommandFails
<1>6. CASE Crash
  BY <1>6 DEF Crash
<1>7. CASE UNCHANGED vars
  BY <1>7 DEF vars
<1> QED
  BY <1>1, <1>2, <1>3, <1>4, <1>5, <1>6, <1>7 DEF Next

LEMMA ActiveInvHolds == Spec => []ActiveInv
<1>1. Init => ActiveInv
  BY DEF Init, ActiveInv, TypeOK, ActiveIsLive, FreshToken, InCommand
<1>2. TypeOK' /\ ActiveInv /\ [Next]_vars => ActiveInv'
  BY ActiveInvStep
<1> QED
  BY <1>1, <1>2, TypeCorrect, PTL DEF Spec

(* Whatever the interleaving of resumes, pauses, ends of older runners and
   crashes, the entry in TaskEngine::active is the token of a runner that
   still runs and has not been cancelled. *)
THEOREM ActiveIsAlwaysLive == Spec => []ActiveIsLive
<1>1. ActiveInv => ActiveIsLive
  BY DEF ActiveInv
<1> QED
  BY <1>1, ActiveInvHolds, PTL

-----------------------------------------------------------------------------
(* One command is between its start and its registration, and once it has
   passed the check of the map every runner left is a cancelled one. *)
OneCommand == \A r, q \in Runs : pc[r] \in InCommand /\ pc[q] \in InCommand => r = q
CheckHolds == \A r, q \in Runs :
                pc[r] \in {"prepare", "insert"} /\ Running(q) => token[q]

PatientInv == /\ OneCommand /\ CheckHolds
              /\ AtMostOneRunner /\ Controllable

LEMMA PatientInvStep ==
  ASSUME patient, patient', ActiveInv, ActiveInv', PatientInv, [Next]_vars
  PROVE  PatientInv'
<1> USE DEF PatientInv, ActiveInv, TypeOK, ActiveIsLive, OneCommand, CheckHolds,
            AtMostOneRunner, Controllable, Running, Goto, At, InCommand, InRunner
<1>1. ASSUME NEW r \in Runs, Begin(r) PROVE PatientInv'
  BY <1>1 DEF Begin
<1>2. ASSUME NEW r \in Runs, CommandStep(r) PROVE PatientInv'
  <2>1. CASE StartCheck(r)
    BY <2>1 DEF StartCheck
  <2>2. CASE InsertActive(r)
    BY <2>2 DEF InsertActive
  <2>3. CASE SnapshotReady(r)
    BY <2>3, SMTT(20) DEF SnapshotReady
  <2>4. CASE SnapshotFails(r)
    BY <2>4 DEF SnapshotFails
  <2>5. CASE StoreManifest(r)
    <3>1. At(r, "prepare") /\ (Goto(r, "insert") \/ Goto(r, "gone"))
      BY <2>5 DEF StoreManifest
    <3> QED
      BY <2>5, <3>1, SMTT(20) DEF StoreManifest
  <2> QED
    BY <1>2, <2>1, <2>2, <2>3, <2>4, <2>5 DEF CommandStep
<1>3. ASSUME NEW r \in Runs, RunnerStep(r) PROVE PatientInv'
  <2>1. CASE Exit(r)
    BY <2>1 DEF Exit
  <2>2. CASE RunBegins(r) \/ Tick(r) \/ WriteCompleted(r) \/ EmitCompleted(r)
    BY <2>2, SMTT(20) DEF RunBegins, Tick, WriteCompleted, EmitCompleted
  <2>3. CASE RunErrs(r)
    BY <2>3 DEF RunErrs
  <2>4. CASE CheckCancelled(r)
    BY <2>4 DEF CheckCancelled
  <2>5. CASE WriteFailed(r)
    BY <2>5 DEF WriteFailed
  <2> QED
    BY <1>3, <2>1, <2>2, <2>3, <2>4, <2>5 DEF RunnerStep
<1>4. ASSUME NEW c \in Commands,
             Issue(c) \/ RemoveActive(c) \/ WriteStatus(c)
      PROVE PatientInv'
  BY <1>4 DEF Issue, RemoveActive, WriteStatus
<1>5. ASSUME NEW c \in Commands, CommandFails(c) PROVE PatientInv'
  BY <1>5 DEF CommandFails
<1>6. CASE Crash
  BY <1>6 DEF Crash, Live
<1>7. CASE UNCHANGED vars
  BY <1>7 DEF vars
<1> QED
  BY <1>1, <1>2, <1>3, <1>4, <1>5, <1>6, <1>7 DEF Next

(* No step changes whether the user is patient and calls may fail. *)
LEMMA FixedStays == ASSUME [Next]_vars PROVE patient' = patient /\ dbErrors' = dbErrors
<1> USE DEF fixed
<1>1. ASSUME NEW r \in Runs, Begin(r) \/ CommandStep(r) \/ RunnerStep(r)
      PROVE  UNCHANGED fixed
  BY <1>1 DEF Begin, CommandStep, SnapshotReady, SnapshotFails, StartCheck, StoreManifest,
              InsertActive, RunnerStep, RunBegins, Tick, WriteCompleted, EmitCompleted,
              RunErrs, CheckCancelled, WriteFailed, Exit
<1>2. ASSUME NEW c \in Commands,
             Issue(c) \/ RemoveActive(c) \/ WriteStatus(c) \/ CommandFails(c)
      PROVE  UNCHANGED fixed
  BY <1>2 DEF Issue, RemoveActive, WriteStatus, CommandFails
<1>3. CASE Crash \/ UNCHANGED vars
  BY <1>3 DEF Crash, vars
<1> QED
  BY <1>1, <1>2, <1>3 DEF Next

LEMMA PatientInvHolds == Spec => [](patient => PatientInv)
<1> DEFINE Inv == patient => PatientInv
<1>1. Init => Inv
  BY DEF Init, PatientInv, OneCommand, CheckHolds, AtMostOneRunner, Controllable,
         Running, InCommand, InRunner
<1>2. Inv /\ ActiveInv /\ ActiveInv' /\ [Next]_vars => Inv'
  BY FixedStays, PatientInvStep
<1> QED
  BY <1>1, <1>2, ActiveInvHolds, PTL DEF Spec

(* With a patient user no two runners ever write the .part files of the task,
   and every runner that was not told to stop can be told to. *)
THEOREM PatientOneRunner == Spec => [](AtMostOneRunner /\ Controllable)
<1>1. (patient => PatientInv) => AtMostOneRunner /\ Controllable
  BY DEF PatientInv, AtMostOneRunner, Controllable
<1> QED
  BY <1>1, PatientInvHolds, PTL

-----------------------------------------------------------------------------
(* "completed" is written by the only runner there is, when it has stopped to
   transfer; the runner that transfers next says so first. *)
LEMMA CompletedIsQuietStep ==
  ASSUME TypeOK, patient => PatientInv, CompletedIsQuiet, [Next]_vars
  PROVE  CompletedIsQuiet'
<1>0. CASE ~patient
  BY <1>0, FixedStays DEF CompletedIsQuiet
<1> SUFFICES ASSUME patient PROVE CompletedIsQuiet'
  BY <1>0
<1> USE DEF CompletedIsQuiet, TypeOK, Goto, At
<1>1. ASSUME NEW r \in Runs, Begin(r) PROVE CompletedIsQuiet'
  BY <1>1 DEF Begin
<1>2. ASSUME NEW r \in Runs, CommandStep(r) PROVE CompletedIsQuiet'
  BY <1>2 DEF CommandStep, SnapshotReady, SnapshotFails, StartCheck, StoreManifest, InsertActive
<1>3. ASSUME NEW r \in Runs, RunnerStep(r) PROVE CompletedIsQuiet'
  <2>1. CASE WriteCompleted(r) \/ EmitCompleted(r)
    <3>1. \A q \in Runs : At(q, "download") => q = r
      BY <2>1 DEF WriteCompleted, EmitCompleted, PatientInv, AtMostOneRunner, Running, InRunner
    <3> QED
      BY <2>1, <3>1 DEF WriteCompleted, EmitCompleted
  <2>2. CASE RunBegins(r) \/ Tick(r) \/ RunErrs(r)
    BY <2>2 DEF RunBegins, Tick, RunErrs
  <2>3. CASE CheckCancelled(r) \/ WriteFailed(r) \/ Exit(r)
    BY <2>3 DEF CheckCancelled, WriteFailed, Exit
  <2> QED
    BY <1>3, <2>1, <2>2, <2>3 DEF RunnerStep
<1>4. ASSUME NEW c \in Commands,
             Issue(c) \/ RemoveActive(c) \/ WriteStatus(c) \/ CommandFails(c)
      PROVE  CompletedIsQuiet'
  BY <1>4 DEF Issue, RemoveActive, WriteStatus, CommandFails
<1>5. CASE Crash \/ UNCHANGED vars
  BY <1>5 DEF Crash, vars
<1> QED
  BY <1>1, <1>2, <1>3, <1>4, <1>5 DEF Next

(* With a patient user the status "completed", which emit_progress writes a
   second time, is never shown while a runner still transfers. *)
THEOREM CompletedMeansQuiet == Spec => []CompletedIsQuiet
<1>1. Init => CompletedIsQuiet
  BY DEF Init, CompletedIsQuiet
<1>2. TypeOK /\ (patient => PatientInv) /\ CompletedIsQuiet /\ [Next]_vars => CompletedIsQuiet'
  BY CompletedIsQuietStep
<1> QED
  BY <1>1, <1>2, TypeCorrect, PatientInvHolds, PTL DEF Spec

-----------------------------------------------------------------------------
(* Nothing failed, nobody crashed and no run was stopped. *)
Undisturbed == patient /\ ~dbErrors /\ crashes = 0 /\ \A r \in Runs : ~token[r]

(* Then a status that promises more to come has a run behind it, and a runner
   that is about to go has written how it ended.  The first run is begun
   first, so that "preparing" is not written beside another run. *)
SilentInv ==
  /\ \A r \in Runs : pc[r] # "unused" => 1 \in Runs /\ pc[1] # "unused"
  /\ Undisturbed =>
       /\ status \in {"preparing", "downloading"} => \E r \in Runs : Live(r)
       /\ \A r \in Runs : At(r, "exit") => status \notin {"preparing", "downloading"}

(* Tokens stay cancelled and crashes are not undone. *)
LEMMA UndisturbedBefore ==
  ASSUME TypeOK, [Next]_vars, Undisturbed' PROVE Undisturbed
<1>1. \A r \in Runs : token[r] => token'[r]
  <2>1. ASSUME NEW r \in Runs, Begin(r) \/ CommandStep(r) \/ RunnerStep(r)
        PROVE  UNCHANGED token
    BY <2>1 DEF Begin, CommandStep, SnapshotReady, SnapshotFails, StartCheck, StoreManifest,
                InsertActive, RunnerStep, RunBegins, Tick, WriteCompleted, EmitCompleted,
                RunErrs, CheckCancelled, WriteFailed, Exit
  <2>2. ASSUME NEW c \in Commands, RemoveActive(c) PROVE \A r \in Runs : token[r] => token'[r]
    BY <2>2 DEF RemoveActive
  <2>3. ASSUME NEW c \in Commands, Issue(c) \/ WriteStatus(c) \/ CommandFails(c)
        PROVE  UNCHANGED token
    BY <2>3 DEF Issue, WriteStatus, CommandFails
  <2>4. CASE Crash \/ UNCHANGED vars
    BY <2>4 DEF Crash, vars
  <2> QED
    BY <2>1, <2>2, <2>3, <2>4 DEF Next
<1>2. crashes' = 0 => crashes = 0
  <2>1. ASSUME NEW r \in Runs, Begin(r) \/ CommandStep(r) \/ RunnerStep(r)
        PROVE  UNCHANGED crashes
    BY <2>1 DEF Begin, CommandStep, SnapshotReady, SnapshotFails, StartCheck, StoreManifest,
                InsertActive, RunnerStep, RunBegins, Tick, WriteCompleted, EmitCompleted,
                RunErrs, CheckCancelled, WriteFailed, Exit
  <2>2. ASSUME NEW c \in Commands,
               Issue(c) \/ RemoveActive(c) \/ WriteStatus(c) \/ CommandFails(c)
        PROVE  UNCHANGED crashes
    BY <2>2 DEF Issue, RemoveActive, WriteStatus, CommandFails
  <2>3. CASE Crash
    BY <2>3 DEF Crash, TypeOK
  <2>4. CASE UNCHANGED vars
    BY <2>4 DEF vars
  <2> QED
    BY <2>1, <2>2, <2>3, <2>4 DEF Next
<1>3. (patient' => patient) /\ (dbErrors => dbErrors')
  BY FixedStays
<1> QED
  BY <1>1, <1>2, <1>3 DEF Undisturbed

LEMMA SilentInvStep ==
  ASSUME ActiveInv, patient => PatientInv, SilentInv, [Next]_vars
  PROVE  SilentInv'
<1>0. TypeOK /\ (Undisturbed' => Undisturbed)
  BY UndisturbedBefore DEF ActiveInv
<1> USE DEF SilentInv, TypeOK, Goto, At, Live, InCommand, InRunner
<1>1. ASSUME NEW r \in Runs, Begin(r) PROVE SilentInv'
  <2>1. 1 \in Runs
    BY <1>0
  <2>2. pc'[r] = "snapshot" /\ \A q \in Runs : q # r => pc'[q] = pc[q]
    BY <1>0, <1>1 DEF Begin
  <2>3. pc'[1] # "unused"
    BY <1>0, <1>1, <2>1, <2>2 DEF Begin
  <2>4. r = 1 => \A q \in Runs : ~At(q, "exit")
    BY <1>1 DEF Begin
  <2> QED
    BY <1>0, <1>1, <2>1, <2>2, <2>3, <2>4 DEF Begin
<1>2. ASSUME NEW r \in Runs, CommandStep(r) PROVE SilentInv'
  <2>0. Undisturbed => patient /\ ~dbErrors
    BY DEF Undisturbed
  <2>1. CASE SnapshotReady(r)
    BY <1>0, <2>0, <2>1 DEF SnapshotReady
  <2>2. CASE SnapshotFails(r)
    BY <1>0, <2>0, <2>2 DEF SnapshotFails
  <2>3. CASE StartCheck(r)
    <3>1. CASE active = NoRun
      BY <1>0, <2>3, <3>1 DEF StartCheck
    <3>2. CASE active # NoRun
      <4>1. active \in Runs /\ pc[active] \in InRunner
        BY <1>0, <3>2 DEF ActiveInv, ActiveIsLive, Running
      <4>2. active # r /\ pc'[active] = pc[active]
        BY <1>0, <2>3, <4>1 DEF StartCheck
      <4> QED
        BY <1>0, <2>3, <4>1, <4>2 DEF StartCheck
    <3> QED
      BY <3>1, <3>2
  <2>4. CASE StoreManifest(r) \/ InsertActive(r)
    BY <1>0, <2>0, <2>4 DEF StoreManifest, InsertActive
  <2> QED
    BY <1>2, <2>1, <2>2, <2>3, <2>4 DEF CommandStep
<1>3. ASSUME NEW r \in Runs, RunnerStep(r) PROVE SilentInv'
  <2>0. /\ Undisturbed => ~dbErrors /\ ~token[r]
        /\ Undisturbed /\ pc[r] \in InRunner =>
             \A q \in Runs : pc[q] \in InRunner => q = r
    BY DEF Undisturbed, PatientInv, AtMostOneRunner, Running
  <2>1. CASE RunBegins(r) \/ Tick(r)
    BY <1>0, <2>0, <2>1 DEF RunBegins, Tick
  <2>2. CASE WriteCompleted(r) \/ EmitCompleted(r)
    BY <1>0, <2>0, <2>2 DEF WriteCompleted, EmitCompleted
  <2>3. CASE RunErrs(r) \/ CheckCancelled(r)
    BY <1>0, <2>0, <2>3 DEF RunErrs, CheckCancelled
  <2>4. CASE WriteFailed(r)
    BY <1>0, <2>0, <2>4 DEF WriteFailed
  <2>5. CASE Exit(r)
    BY <1>0, <2>0, <2>5 DEF Exit
  <2> QED
    BY <1>3, <2>1, <2>2, <2>3, <2>4, <2>5 DEF RunnerStep
<1>4. ASSUME NEW c \in Commands,
             Issue(c) \/ RemoveActive(c) \/ WriteStatus(c) \/ CommandFails(c)
      PROVE  SilentInv'
  BY <1>0, <1>4 DEF Issue, RemoveActive, WriteStatus, CommandFails
<1>5. CASE Crash
  <2>1. crashes' # 0
    BY <1>0, <1>5 DEF Crash
  <2> QED
    BY <1>0, <1>5, <2>1 DEF Crash, Undisturbed
<1>6. CASE UNCHANGED vars
  BY <1>0, <1>6 DEF vars
<1> QED
  BY <1>1, <1>2, <1>3, <1>4, <1>5, <1>6 DEF Next

(* When nothing runs any more, no call failed, nothing crashed and nobody
   stopped the run, the status says how it ended. *)
THEOREM RunsEndWithStatus == Spec => []NoSilentEnd
<1>1. Init => SilentInv
  BY DEF Init, SilentInv, At
<1>2. ActiveInv /\ (patient => PatientInv) /\ SilentInv /\ [Next]_vars => SilentInv'
  BY SilentInvStep
<1>3. SilentInv => NoSilentEnd
  BY DEF SilentInv, NoSilentEnd, Undisturbed
<1> QED
  BY <1>1, <1>2, <1>3, ActiveInvHolds, PatientInvHolds, PTL DEF Spec
=============================================================================
