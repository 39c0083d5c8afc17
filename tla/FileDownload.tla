---------------------------- MODULE FileDownload ----------------------------
(***************************************************************************)
(* One multi-frame file of one download task, from the snapshot taken by   *)
(* resume_task / create_download_task to the rename of its .part file      *)
(* (tasks.rs, download_file), with the SQLite row that remembers its       *)
(* confirmed chunks (db.rs, task_files), over any number of runs: pauses,  *)
(* failures, process crashes and power losses end a run, and the user      *)
(* resumes the task.                                                       *)
(*                                                                         *)
(* A file is a sequence of units; one data frame carries one unit and a    *)
(* chunk is k units (k is the chunk size of the settings when the snapshot *)
(* is taken).  A BLAKE3 hash is the hashed sequence itself.                *)
(*                                                                         *)
(* tokio::fs::File hands a write to a blocking pool and reports success    *)
(* before it lands; download_chunk never flushes, so the last write of a   *)
(* chunk is still in "inflight" when the chunk counts as received.         *)
(***************************************************************************)
EXTENDS Integers, Sequences, FiniteSets

CONSTANTS
  Contents,     \* contents the shared file may have on the serving peer
  UserFiles,    \* contents the user may put under a destination name
  InitLocal,    \* contents (or NoFile) of the target and of the first copy
                \* name before the task
  Zero,         \* what set_len and lost pages read as
  NoFile,       \* the name does not exist
  Policy,       \* ConflictPolicy: "overwrite", "skip" or "keep_both"
  ChunkSizes,   \* chunk sizes, in units, the settings may hold at a snapshot
  Attempts,     \* attempts per chunk (3 in the code)
  StreamLimit,  \* data_connections * streams_per_connection
  HashBudget,   \* ordered_hash_buffer_budget, in units
  MaxRuns, MaxFaults, MaxDisk, MaxCrashes, MaxEdits, MaxUser, MaxDetaches,  \* bounds of the model
  UserNames,    \* bound: names under which the user may put a file meanwhile
  MaxCopies     \* bound on keep_both_path's "(LanFlow n)" names

RangeOf(c) == {c[p] : p \in DOMAIN c}
Units == {Zero} \cup UNION {RangeOf(c) : c \in Contents \cup UserFiles
                                             \cup (InitLocal \ {NoFile})}

ASSUME FileDownloadAssumption ==
  /\ Contents \subseteq Seq(Units) /\ UserFiles \subseteq Seq(Units)
  /\ InitLocal \subseteq Seq(Units) \cup {NoFile} /\ NoFile \notin Seq(Units)
  /\ \A b \in {MaxRuns, MaxFaults, MaxDisk, MaxCrashes, MaxEdits, MaxUser, MaxDetaches,
                 MaxCopies} : b \in Nat
  /\ Policy \in {"overwrite", "skip", "keep_both"}
  /\ ChunkSizes \subseteq Nat \ {0}
  /\ Attempts \in Nat \ {0} /\ StreamLimit \in Nat \ {0} /\ HashBudget \in Nat
  /\ MaxCopies > MaxRuns + MaxUser /\ UserNames \subseteq 1 .. MaxCopies + 1

(***************************************************************************)
(* Names: the .part file, the target, and the copies "(LanFlow n)".        *)
(***************************************************************************)
Part   == 0
Target == 1
Copies == 2 .. (MaxCopies + 1)
Finals == {Target} \cup Copies
Names  == {Part} \cup Finals
Gone   == -1                  \* an open file that has lost its name

VARIABLES
  source,     \* content of the shared file now
  fs,         \* local files: name -> content or NoFile
  inflight,   \* writes handed to the blocking pool that have not landed
  dirty,      \* <<name, position>> written and not synced: lost by a power loss
  db,         \* the task_files row: full_hash and completed_bitmap
  run,        \* the local variables of the run (one run at a time here)
  detached,   \* chunk transfers that outlived the run that spawned them
  count,      \* the bounded counters of the actions
  \* observation only, read by no guard:
  acked,      \* <<k, i>> confirmed for the content of the last manifest
  installed,  \* name -> the manifest content the program renamed there
  damaged,    \* <<name, position, why>>: its last write was "lost" or came "late"
  sinceLook   \* names the user wrote since the run last looked which exist

vars == <<source, fs, inflight, dirty, db, run, detached, count, acked, installed,
          damaged, sinceLook>>

(***************************************************************************)
(* Chunks of a content c cut at k units (fileops.rs, hash_file).           *)
(***************************************************************************)
NumChunks(c, k)  == (Len(c) + k - 1) \div k
ChunkEnd(c, k, i) == IF i * k <= Len(c) THEN i * k ELSE Len(c)
ChunkAt(c, k, i) == SubSeq(c, (i - 1) * k + 1, ChunkEnd(c, k, i))
Chunks(c, k)     == 1 .. NumChunks(c, k)

Exists(n)  == fs[n] # NoFile

(* Mutation: the file is compared by its length only. *)
PresentByLength(n, c) == Exists(n) /\ Len(fs[n]) = Len(c)

(* file_hash_matches *)
Present(n, c) == Exists(n) /\ fs[n] = c

(* Mutation: the first copy name, whether it exists or not. *)
KeepBothPathUnchecked == CHOOSE n \in Copies : \A m \in Copies : n <= m

(* keep_both_path: the first "(LanFlow n)" name that does not exist. *)
KeepBothPath == CHOOSE n \in Copies : /\ ~Exists(n)
                                      /\ \A m \in Copies : m < n => Exists(m)

(* set_len: cut, or extend with zeros. *)
Resize(c, len) == [p \in 1 .. len |-> IF c # NoFile /\ p \in DOMAIN c
                                      THEN c[p] ELSE Zero]

(* A positioned write; one past the end extends the file. *)
WriteUnit(c, at, unit) ==
  [Resize(c, IF at > Len(c) THEN at ELSE Len(c)) EXCEPT ![at] = unit]

(* validate_completed_chunks: the bits of chunks whose data on disk no
   longer has the hash of the manifest are cleared; others are kept, those
   beyond the last chunk included. *)
ValidateCompletedChunks(bits, c, k) ==
  {i \in bits : i \in Chunks(c, k) =>
                  ChunkAt(fs[Part], k, i) = ChunkAt(c, k, i)}

Idle == [pc |-> "idle", man |-> <<>>, k |-> 1, bits |-> {}, final |-> Target,
         capture |-> FALSE, tr |-> <<>>]

Init ==
  /\ source \in Contents
  /\ \E t, t2 \in InitLocal :
       fs = [n \in Names |-> IF n = Target THEN t ELSE IF n = 2 THEN t2 ELSE NoFile]
  /\ inflight = {} /\ dirty = {} /\ damaged = {} /\ detached = {} /\ sinceLook = {}
  /\ db = [hash |-> NoFile, bits |-> {}]
  /\ run = Idle
  /\ count = [runs |-> 0, faults |-> 0, disk |-> 0, crashes |-> 0, edits |-> 0, user |-> 0,
              detaches |-> 0]
  /\ installed = [n \in Names |-> NoFile] /\ acked = {}

Ended == run.pc \in {"idle", "done", "failed", "stopped"}
Goto(pc) == run' = [run EXCEPT !.pc = pc]
Missing == {i \in DOMAIN run.tr : run.tr[i].st # "have"}
Having(st) == {i \in DOMAIN run.tr : run.tr[i].st = st}
OnlyRun == UNCHANGED <<source, fs, inflight, dirty, db, detached, count, acked, installed,
                       damaged, sinceLook>>

-----------------------------------------------------------------------------
(* Mutation: the row is replaced, with its bitmap. *)
InsertTaskFileReplacing(c) == db' = [hash |-> c, bits |-> {}]

(* insert_task_files: upsert of the row; the bitmap survives exactly when
   the whole-file hash is the same, whatever the new chunk size is. *)
InsertTaskFile(c) ==
  db' = [hash |-> c, bits |-> IF db.hash = c THEN db.bits ELSE {}]

(* resume_task / create_download_task: a snapshot of the file as it is now,
   with the chunk size of the settings, then TaskEngine::start. *)
Start(k) ==
  /\ Ended /\ count.runs < MaxRuns
  /\ InsertTaskFile(source)
  /\ run' = [Idle EXCEPT !.pc = "check", !.man = source, !.k = k]
  /\ count' = [count EXCEPT !.runs = @ + 1]
  /\ acked' = IF source = run.man THEN acked ELSE {}
  /\ UNCHANGED <<source, fs, inflight, dirty, detached, installed, damaged, sinceLook>>

(* Mutation: under Overwrite the existing target is removed at once. *)
CheckTargetRemoving ==
  /\ run.pc = "check"
  /\ IF Present(Target, run.man)
     THEN Goto("done") /\ UNCHANGED fs
     ELSE /\ run' = [run EXCEPT !.pc = "open"]
          /\ fs' = [fs EXCEPT ![Target] = NoFile]
  /\ sinceLook' = {}
  /\ UNCHANGED <<source, inflight, dirty, db, detached, count, acked, installed, damaged>>

(* Head of download_file: the target already has the content, or the policy
   skips it, or the name to install under is chosen. *)
CheckTarget ==
  /\ run.pc = "check"
  /\ \/ /\ Present(Target, run.man) \/ (Exists(Target) /\ Policy = "skip")
        /\ Goto("done")
     \/ /\ ~Present(Target, run.man) /\ ~(Exists(Target) /\ Policy = "skip")
        /\ run' = [run EXCEPT !.pc = "open",
                     !.final = IF Exists(Target) /\ Policy = "keep_both"
                               THEN KeepBothPath ELSE Target]
  /\ sinceLook' = {}
  /\ UNCHANGED <<source, fs, inflight, dirty, db, detached, count, acked, installed, damaged>>

(* capture_full_hash: a transfer of the whole multi-chunk file whose chunks in
   flight fit the budget is hashed as it arrives. *)
CaptureFullHash(c, k, bits) ==
  /\ NumChunks(c, k) > 1 /\ bits = {}
  /\ ChunkEnd(c, k, 1) * StreamLimit <= HashBudget

(* The .part file is checked against the bitmap, opened and sized; every
   chunk whose bit is not set will be transferred. *)
OpenPartial ==
  /\ run.pc = "open"
  /\ LET c == run.man
         k == run.k
         resumeUsable == Exists(Part) /\ Len(fs[Part]) = Len(c)
         bits == IF resumeUsable THEN ValidateCompletedChunks(db.bits, c, k)
                                 ELSE {}
         kept == {i \in bits : i \in Chunks(c, k)}
     IN /\ fs' = [fs EXCEPT ![Part] = Resize(@, Len(c))]
        /\ run' = [run EXCEPT
             !.pc = "transfer",
             !.bits = bits,
             !.capture = CaptureFullHash(c, k, bits),
             !.tr = [i \in Chunks(c, k) |->
                       [st    |-> IF i \in kept THEN "have" ELSE "run",
                        tries |-> 0, data |-> <<>>]]]
        /\ damaged' = {d \in damaged : d[1] = Part =>
             /\ d[2] <= Len(c)
             /\ \A i \in kept : d[2] \notin ((i - 1) * k + 1) .. ChunkEnd(c, k, i)}
        /\ dirty' = {d \in dirty : d[1] = Part => d[2] <= Len(c)}
  /\ UNCHANGED <<source, inflight, db, detached, count, acked, installed, sinceLook>>

-----------------------------------------------------------------------------
(* The handle of the current attempt at chunk i. *)
Handle(i) == <<count.runs, i, run.tr[i].tries>>
Full(i) == Len(run.tr[i].data) = Len(ChunkAt(run.man, run.k, i))
Transferring(i) == run.pc = "transfer" /\ i \in Having("run")

(* serve_chunk sends the next frame of chunk i as the file is now, unless it
   has become too short; download_chunk hands the write to the pool.  A
   handle has one write in flight: the next one waits for it. *)
ReceiveFrame(i) ==
  /\ Transferring(i) /\ ~Full(i)
  /\ ~ \E w \in inflight : w.by = Handle(i)
  /\ LET got == run.tr[i].data
         at  == (i - 1) * run.k + Len(got) + 1
     IN /\ Len(source) >= (IF got = <<>> THEN ChunkEnd(run.man, run.k, i) ELSE at)
        /\ run' = [run EXCEPT !.tr[i].data = Append(got, source[at])]
        /\ inflight' = inflight \cup
             {[name |-> Part, at |-> at, unit |-> source[at], by |-> Handle(i)]}
  /\ UNCHANGED <<source, fs, dirty, db, detached, count, acked, installed, damaged, sinceLook>>

(* Mutations: one attempt too many; attempts are not counted. *)
RetriedOnceMore(t) == IF t.tries < Attempts
                      THEN [st |-> "run", tries |-> t.tries + 1, data |-> <<>>]
                      ELSE [st |-> "err", tries |-> t.tries, data |-> <<>>]
RetriedForever(t) == [st |-> "run", tries |-> t.tries, data |-> <<>>]

(* One attempt fails: the next one starts over on a new data connection,
   until the attempts are used up. *)
Retried(t) == IF t.tries + 1 < Attempts
              THEN [st |-> "run", tries |-> t.tries + 1, data |-> <<>>]
              ELSE [st |-> "err", tries |-> t.tries, data |-> <<>>]

(* Mutation: the hash of the received data is not checked. *)
ChunkCompleteUnchecked(i) ==
  /\ Transferring(i) /\ Full(i)
  /\ run' = [run EXCEPT !.tr[i] = [@ EXCEPT !.st = "ok", !.data = <<>>]]
  /\ OnlyRun

(* ChunkComplete: the data received has the hash of the manifest, or the
   attempt failed because the source is no longer what was hashed. *)
ChunkComplete(i) ==
  /\ Transferring(i) /\ Full(i)
  /\ run' = [run EXCEPT !.tr[i] =
       IF @.data = ChunkAt(run.man, run.k, i)
       THEN [st |-> "ok", tries |-> @.tries, data |-> <<>>] ELSE Retried(@)]
  /\ OnlyRun

(* The source became too short to serve the rest of the chunk. *)
SourceShort(i) ==
  /\ Transferring(i) /\ ~Full(i)
  /\ LET got == run.tr[i].data
     IN Len(source) < (IF got = <<>> THEN ChunkEnd(run.man, run.k, i)
                       ELSE (i - 1) * run.k + Len(got) + 1)
  /\ run' = [run EXCEPT !.tr[i] = Retried(@)]
  /\ OnlyRun

(* A connection fails in the middle of a chunk; when no new data connection
   can be made the chunk fails at once. *)
ConnectionFault(i) ==
  /\ Transferring(i) /\ count.faults < MaxFaults
  /\ \/ run' = [run EXCEPT !.tr[i] = Retried(@)]
     \/ run' = [run EXCEPT !.tr[i].st = "err", !.tr[i].data = <<>>]
  /\ count' = [count EXCEPT !.faults = @ + 1]
  /\ UNCHANGED <<source, fs, inflight, dirty, db, detached, acked, installed, damaged, sinceLook>>

(* Pause and cancel, seen by the transfers: each of them returns Cancelled,
   and download_file goes on to collect and checkpoint what had arrived. *)
GivenUp == [i \in DOMAIN run.tr |->
              IF run.tr[i].st = "run" THEN [st |-> "err", tries |-> 0, data |-> <<>>]
                                      ELSE run.tr[i]]

CancelTransfers ==
  /\ run.pc = "transfer" /\ Having("run") # {}
  /\ run' = [run EXCEPT !.tr = GivenUp]
  /\ OnlyRun

-----------------------------------------------------------------------------
(* All transfers are joined: received chunks of a multi-chunk file are
   checkpointed even when another chunk failed. *)
Collect ==
  /\ run.pc = "transfer" /\ Having("run") = {}
  /\ Goto(IF Cardinality(DOMAIN run.tr) > 1 /\ Having("ok") # {} THEN "sync"
          ELSE IF Having("err") # {} THEN "failed" ELSE "verify")
  /\ OnlyRun

(* sync_data: what has landed in the .part file is durable. *)
SyncData ==
  /\ run.pc = "sync"
  /\ dirty' = {d \in dirty : d[1] # Part}
  /\ Goto("mark")
  /\ UNCHANGED <<source, fs, inflight, db, detached, count, acked, installed, damaged, sinceLook>>

MarkChunksComplete ==
  /\ run.pc = "mark"
  /\ db' = [db EXCEPT !.bits = @ \cup Having("ok")]
  /\ acked' = acked \cup {<<run.k, i>> : i \in Having("ok")}
  /\ Goto(IF Having("err") # {} THEN "failed" ELSE "verify")
  /\ UNCHANGED <<source, fs, inflight, dirty, detached, count, installed, damaged, sinceLook>>

(* The hash of the file is known from the transfer itself (ordered capture,
   or the only chunk was received), or the .part file is read back. *)
VerifiedDuringTransfer == run.capture /\ Having("ok") = DOMAIN run.tr
VerifiedBySingleChunk  == Cardinality(DOMAIN run.tr) = 1 /\ Cardinality(Missing) = 1

VerifyFile ==
  /\ run.pc = "verify"
  /\ LET readBack == ~VerifiedDuringTransfer /\ ~VerifiedBySingleChunk
     IN /\ Goto(IF readBack /\ ~Present(Part, run.man) THEN "failed" ELSE "replace")
        /\ damaged' = IF readBack THEN {d \in damaged : d[1] # Part} ELSE damaged
  /\ UNCHANGED <<source, fs, inflight, dirty, db, detached, count, acked, installed, sinceLook>>

(* The handles of detached transfers follow an open file: to its new name, or
   out of the directory when the name is given to another file or removed. *)
Unlinked(n) == {[d EXCEPT !.name = IF @ = n THEN Gone ELSE @] : d \in detached}
Renamed(n) == {[d EXCEPT !.name = IF @ = Part THEN n ELSE IF @ = n THEN Gone ELSE @] :
                 d \in detached}

Relabel(set) == {[d EXCEPT ![1] = IF @ = Part THEN run.final ELSE @] :
                   d \in {e \in set : e[1] # run.final}}

(* Under Overwrite the existing file is removed before the rename. *)
RemoveExisting ==
  /\ run.pc = "replace"
  /\ Goto("rename")
  /\ IF Exists(run.final) /\ Policy = "overwrite"
     THEN /\ fs' = [fs EXCEPT ![run.final] = NoFile]
          /\ inflight' = {w \in inflight : w.name # run.final}
          /\ dirty' = {d \in dirty : d[1] # run.final}
          /\ damaged' = {d \in damaged : d[1] # run.final}
          /\ installed' = [installed EXCEPT ![run.final] = NoFile]
          /\ detached' = Unlinked(run.final)
     ELSE UNCHANGED <<fs, inflight, dirty, damaged, installed, detached>>
  /\ UNCHANGED <<source, db, count, acked, sinceLook>>

(* rename: writes still in flight follow the file to its new name. *)
RenamePartial ==
  /\ run.pc = "rename"
  /\ fs' = [fs EXCEPT ![run.final] = fs[Part], ![Part] = NoFile]
  /\ inflight' = {[w EXCEPT !.name = IF @ = Part THEN run.final ELSE @] :
                    w \in {v \in inflight : v.name # run.final}}
  /\ dirty' = Relabel(dirty)
  /\ damaged' = Relabel(damaged)
  /\ installed' = [installed EXCEPT ![run.final] = run.man]
  /\ detached' = Renamed(run.final)
  /\ Goto("done")
  /\ UNCHANGED <<source, db, count, acked, sinceLook>>

-----------------------------------------------------------------------------
(* The blocking pool carries out a write.  It is late when the handle that
   issued it is gone: another run, or another attempt at the chunk; behind the
   end of a file that has become shorter it extends the file. *)
Current(w) == /\ w.by[2] \in Having("run") \cup Having("ok")
              /\ w.by = Handle(w.by[2])

WriteLands(w) ==
  /\ w \in inflight
  /\ inflight' = inflight \ {w}
  /\ LET pos == <<w.name, w.at>>
         old == fs[w.name]
         late == {p \in 1 .. w.at : p > Len(old) \/ (p = w.at /\ old[p] # w.unit)}
     IN /\ fs' = [fs EXCEPT ![w.name] = WriteUnit(@, w.at, w.unit)]
        /\ dirty' = dirty \cup {pos}
        /\ damaged' = IF Current(w) THEN {d \in damaged : <<d[1], d[2]>> # pos}
                      ELSE damaged \cup {<<w.name, p, "late">> : p \in late}
  /\ UNCHANGED <<source, db, run, detached, count, acked, installed, sinceLook>>

(* A detached transfer's next frame, as for those of the run; and its next
   attempt, which opens the .part file there is then, if there is one. *)
DetachedFull(d)  == Len(d.data) = Len(ChunkAt(d.man, d.k, d.by[2]))
DetachedAt(d)    == (d.by[2] - 1) * d.k + Len(d.data) + 1
DetachedShort(d) == Len(source) < (IF d.data = <<>> THEN ChunkEnd(d.man, d.k, d.by[2])
                                   ELSE DetachedAt(d))
Reopened(d) == {e \in {[d EXCEPT !.by[3] = @ + 1, !.name = Part, !.data = <<>>]} :
                  d.by[3] + 1 < Attempts /\ Exists(Part)}

(* The write fails (disk full, I/O error).  The next write of the handle
   reports it; nobody hears of it when it was the last one of the chunk. *)
WriteFails(w) ==
  /\ w \in inflight /\ count.disk < MaxDisk
  /\ inflight' = inflight \ {w}
  /\ damaged' = damaged \cup {<<w.name, w.at, "lost">>}
  /\ count' = [count EXCEPT !.disk = @ + 1]
  /\ run' = IF Current(w) /\ Transferring(w.by[2]) /\ ~Full(w.by[2])
            THEN [run EXCEPT !.tr[w.by[2]] = Retried(@)] ELSE run
  /\ detached' = UNION {IF d.by = w.by /\ ~DetachedFull(d) THEN Reopened(d) ELSE {d} :
                           d \in detached}
  /\ UNCHANGED <<source, fs, dirty, db, acked, installed, sinceLook>>

(* The future of the run is dropped at an await point and its transfers see the
   cancelled token: another file failed first, or the cancelled run_task
   returned with another file's error; or a call of download_file itself fails,
   outside the transfers. *)
Abandon ==
  /\ ~Ended
  /\ Goto("stopped")
  /\ OnlyRun

(* The run fails at the database, in run_task's loop: nothing cancels the token,
   so that the transfers spawned so far, with those that have begun among them,
   go on without it. *)
Detach ==
  /\ run.pc = "transfer" /\ count.detaches < MaxDetaches
  /\ run' = [run EXCEPT !.pc = "failed", !.tr = GivenUp]
  /\ \E spawned \in SUBSET Having("run") :
       /\ \A i \in Having("run") \ spawned : run.tr[i].tries = 0 /\ run.tr[i].data = <<>>
       /\ detached' = detached \cup
            {[by |-> Handle(i), name |-> Part, man |-> run.man, k |-> run.k,
              data |-> run.tr[i].data] : i \in spawned}
  /\ count' = [count EXCEPT !.detaches = @ + 1]
  /\ UNCHANGED <<source, fs, inflight, dirty, db, acked, installed, damaged, sinceLook>>

(* As ReceiveFrame; what is written to a file without a name is not followed. *)
DetachedReceives(d) ==
  /\ ~DetachedFull(d) /\ ~DetachedShort(d) /\ ~ \E w \in inflight : w.by = d.by
  /\ detached' = (detached \ {d}) \cup {[d EXCEPT !.data = Append(@, source[DetachedAt(d)])]}
  /\ inflight' = inflight \cup
       {w \in {[name |-> d.name, at |-> DetachedAt(d), unit |-> source[DetachedAt(d)],
                 by |-> d.by]} : d.name # Gone}
  /\ UNCHANGED <<source, fs, dirty, db, run, count, acked, installed, damaged, sinceLook>>

(* The attempt fails: what it received has the wrong hash, the source became too
   short, or its connection broke. *)
DetachedRetries(d) ==
  /\ \/ /\ DetachedFull(d) /\ d.data # ChunkAt(d.man, d.k, d.by[2])
        /\ UNCHANGED count
     \/ /\ ~DetachedFull(d) /\ DetachedShort(d)
        /\ UNCHANGED count
     \/ /\ count.faults < MaxFaults
        /\ count' = [count EXCEPT !.faults = @ + 1]
  /\ detached' = (detached \ {d}) \cup Reopened(d)
  /\ UNCHANGED <<source, fs, inflight, dirty, db, run, acked, installed, damaged, sinceLook>>

(* The chunk is complete, and nobody collects it, or no new connection can be
   made. *)
DetachedEnds(d) ==
  /\ \/ /\ DetachedFull(d) /\ d.data = ChunkAt(d.man, d.k, d.by[2])
        /\ UNCHANGED count
     \/ /\ count.faults < MaxFaults
        /\ count' = [count EXCEPT !.faults = @ + 1]
  /\ detached' = detached \ {d}
  /\ UNCHANGED <<source, fs, inflight, dirty, db, run, acked, installed, damaged, sinceLook>>

(* The process dies; after a power loss any unsynced unit may read as zero. *)
Crash(lost) ==
  /\ count.crashes < MaxCrashes
  /\ count' = [count EXCEPT !.crashes = @ + 1]
  /\ lost \subseteq dirty
  /\ inflight' = {} /\ dirty' = dirty \ lost /\ detached' = {}
  /\ fs' = [n \in Names |-> IF fs[n] = NoFile THEN NoFile ELSE
              [p \in DOMAIN fs[n] |-> IF <<n, p>> \in lost THEN Zero ELSE fs[n][p]]]
  /\ damaged' = damaged \cup {<<d[1], d[2], "lost">> : d \in lost}
                       \cup {<<w.name, w.at, "lost">> : w \in inflight}
  /\ run' = IF Ended THEN run ELSE [run EXCEPT !.pc = "stopped"]
  /\ UNCHANGED <<source, db, acked, installed, sinceLook>>

(* Environment: the shared file is edited; the user creates or replaces a
   file under one of the destination names. *)
EditSource(c) ==
  /\ count.edits < MaxEdits /\ c # source
  /\ source' = c
  /\ count' = [count EXCEPT !.edits = @ + 1]
  /\ UNCHANGED <<fs, inflight, dirty, db, run, detached, acked, installed, damaged, sinceLook>>

UserWrites(n, c) ==
  /\ count.user < MaxUser
  /\ fs' = [fs EXCEPT ![n] = c]
  /\ inflight' = {w \in inflight : w.name # n}
  /\ dirty' = {d \in dirty : d[1] # n}
  /\ damaged' = {d \in damaged : d[1] # n}
  /\ installed' = [installed EXCEPT ![n] = NoFile]
  /\ detached' = Unlinked(n)
  /\ sinceLook' = sinceLook \cup {n}
  /\ count' = [count EXCEPT !.user = @ + 1]
  /\ UNCHANGED <<source, db, run, acked>>

-----------------------------------------------------------------------------
(* Steps of the run that it takes by itself, and those for which it needs an
   answer of its peer, or a stream permit that another file holds. *)
LocalStep ==
  \/ CheckTarget \/ OpenPartial
  \/ Collect \/ SyncData \/ MarkChunksComplete
  \/ VerifyFile \/ RemoveExisting \/ RenamePartial
Answered(i) == ReceiveFrame(i) \/ ChunkComplete(i) \/ SourceShort(i)

Next ==
  \/ LocalStep
  \/ \E k \in ChunkSizes : Start(k)
  \/ \E i \in DOMAIN run.tr : Answered(i) \/ ConnectionFault(i)
  \/ CancelTransfers \/ Abandon \/ Detach
  \/ \E d \in detached : DetachedReceives(d) \/ DetachedRetries(d) \/ DetachedEnds(d)
  \/ \E w \in inflight : WriteLands(w) \/ WriteFails(w)
  \/ \E lost \in SUBSET dirty : Crash(lost)
  \/ \E c \in Contents : EditSource(c)
  \/ \E n \in UserNames, c \in UserFiles : UserWrites(n, c)

Spec == Init /\ [][Next]_vars

(* The runtime polls the futures of the run and the pool carries out writes.
   Nothing is assumed of the peer. *)
PoolStep == \E w \in inflight : WriteLands(w)
FairSpec == Spec /\ WF_vars(LocalStep) /\ WF_vars(PoolStep)

-----------------------------------------------------------------------------
Places == Nat \ {0}
Write == [name : Names, at : Places, unit : Units, by : Nat \X Places \X Nat]
Transfer == [st : {"have", "run", "ok", "err"}, tries : 0 .. Attempts - 1, data : Seq(Units)]
Stages == {"idle", "check", "open", "transfer", "sync", "mark", "verify",
           "replace", "rename", "done", "failed", "stopped"}
Run == [pc : Stages,
        man : Contents \cup {<<>>}, k : ChunkSizes \cup {1}, bits : SUBSET Places,
        final : Finals, capture : BOOLEAN, tr : Seq(Transfer)]
Count == [runs : 0 .. MaxRuns, faults : 0 .. MaxFaults, disk : 0 .. MaxDisk,
          crashes : 0 .. MaxCrashes, edits : 0 .. MaxEdits, user : 0 .. MaxUser,
          detaches : 0 .. MaxDetaches]
Detached == [by : Nat \X Places \X (0 .. Attempts - 1), name : Names \cup {Gone},
             man : Contents, k : ChunkSizes \cup {1}, data : Seq(Units)]

FileTypes ==
  /\ source \in Contents /\ fs \in [Names -> Seq(Units) \cup {NoFile}]
  /\ inflight \subseteq Write /\ \A w \in inflight : Exists(w.name)
  /\ dirty \subseteq Names \X Places /\ damaged \subseteq Names \X Places \X {"lost", "late"}
  /\ db \in [hash : Contents \cup {NoFile}, bits : SUBSET Places]
  /\ run \in Run /\ count \in Count
  /\ acked \subseteq Places \X Places /\ installed \in [Names -> Contents \cup {NoFile}]

(* A detached transfer has a file open, and handles of its own: it never shares
   one with the run that works now. *)
DetachedTypes ==
  /\ sinceLook \subseteq UserNames /\ detached \subseteq Detached
  /\ \A d \in detached : /\ d.name # Gone => Exists(d.name)
                         /\ d.by[1] < count.runs \/ Ended

(* Type invariant. *)
TypeOK == FileTypes /\ DetachedTypes

(* A position whose content is accounted for by a write that has not landed,
   that was lost, or that came late from an older handle. *)
Excused(n, p) == \/ \E why \in {"lost", "late"} : <<n, p, why>> \in damaged
                 \/ \E w \in inflight : w.name = n /\ w.at = p

Holds(n, c) == \A p \in DOMAIN c \cup DOMAIN fs[n] :
                 \/ p \in DOMAIN c /\ p \in DOMAIN fs[n] /\ fs[n][p] = c[p]
                 \/ Excused(n, p)

(* Whatever sequence of pauses, crashes, edits of the shared file, changes of
   the chunk size and resumptions led to it, a file that download_file has
   renamed to its final name differs from the manifest at most where a
   write of the blocking pool is outstanding, was lost or came late: bits of
   task_files that no longer describe the .part file are never trusted. *)
InstalledFaithful ==
  \A n \in Finals : installed[n] # NoFile /\ Exists(n) => Holds(n, installed[n])

(* A chunk confirmed by an earlier run of the same content and chunk size, still
   intact in a .part file of the right length, that is to be requested. *)
RequestsConfirmed ==
  \E i \in DOMAIN run'.tr :
    /\ run.pc = "open" /\ run'.pc = "transfer"
    /\ <<run.k, i>> \in acked
    /\ Exists(Part) /\ Len(fs[Part]) = Len(run.man)
    /\ ChunkAt(fs[Part], run.k, i) = ChunkAt(run.man, run.k, i)
    /\ run'.tr[i].st # "have"

(* Content that an earlier run installed under the target name, that is still
   intact there and gets a .part file again. *)
RequestsInstalled ==
  /\ run.pc = "check" /\ run'.pc = "open"
  /\ installed[Target] = run.man /\ fs[Target] = run.man

(* What earlier runs have stored is not requested again, whatever ended them
   (README: only unconfirmed or damaged chunks are requested again). *)
NothingRequestedAgain == [][~RequestsConfirmed /\ ~RequestsInstalled]_vars

(* Under keep_both and skip, no step but the user's own changes or removes a
   file the program did not install, unless the user put it there after the run
   had looked which names exist: the rename replaces that one. *)
KeepsForeignFiles ==
  [][Policy # "overwrite" /\ count'.user = count.user
       => \A n \in Finals \ sinceLook : Exists(n) /\ installed[n] = NoFile
                                          => fs'[n] = fs[n]]_vars

(* Under overwrite the existing target is given up only when the .part file
   that replaces it has every position of the manifest but those whose write is
   outstanding, was lost or came late.  These are not durable yet: a crash
   between the removal and the rename can leave neither the old file nor a
   whole new one, and what they lack is transferred again. *)
ReplacementReady ==
  [][Exists(Target) /\ fs'[Target] = NoFile
       => Exists(Part) /\ Holds(Part, run.man)]_vars

(* When a run reports the file as downloaded and no write is outstanding, the
   content of the manifest is under some name of the destination, but for
   writes that came late, or the user's own file was skipped: after a crash
   the torn file is found and transferred again. *)
DoneMeansStored ==
  [][run.pc # "done" /\ run'.pc = "done" /\ inflight = {} /\ inflight' = {}
       => \E n \in Finals :
            \/ /\ fs'[n] # NoFile
               /\ \A p \in DOMAIN run.man \cup DOMAIN fs'[n] :
                    \/ p \in DOMAIN run.man /\ p \in DOMAIN fs'[n] /\ fs'[n][p] = run.man[p]
                    \/ <<n, p, "late">> \in damaged'
            \/ Policy = "skip" /\ Exists(n) /\ installed[n] = NoFile]_vars

(* The peer owes the transfer of chunk i an answer. *)
AwaitsPeer(i) ==
  /\ Transferring(i)
  /\ Full(i) \/ ~ \E w \in inflight : w.by = Handle(i)

(* A run that does not end has a transfer to which its peer owes an answer for
   good: no failure of chunks, disk or pool and no change of the source keeps it
   going.  Nothing in the code gives up on such a peer: neither a transfer nor
   the connection below it has a time-out. *)
RunEnds ==
  <>[]~Ended => \E i \in UNION {Chunks(c, k) : c \in Contents, k \in ChunkSizes} :
                  <>[](i \in DOMAIN run.tr /\ AwaitsPeer(i))
=============================================================================
