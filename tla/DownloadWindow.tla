--------------------------- MODULE DownloadWindow ---------------------------
(***************************************************************************)
(* One run of a task over its whole manifest (tasks.rs, run_task): the     *)
(* split of the manifest into small-file batches and single files, the     *)
(* window of work items that run at once, the stream and file-I/O          *)
(* semaphores they share, and where each file ends up in the destination.  *)
(*                                                                         *)
(* The chunks of a single file are in FileDownload and ChunkPipeline; here *)
(* the file is fetched in one step.  Attempts are folded: a fetch succeeds *)
(* or has failed for the third time.                                       *)
(***************************************************************************)
EXTENDS Integers, Sequences, FiniteSets, SequencesExt

CONSTANTS
  Manifest,        \* the files of the manifest, in its order
  Sizes,           \* sizes a file may have
  Resumable,       \* files that may have confirmed chunks of an earlier run
  Name,            \* Name[f]: safe_destination_path of the file
  Copies,          \* Copies[n]: the candidates of keep_both_path for n, the
                   \* last one the name with a random part
  Policies,        \* conflict policies a task may have: "overwrite", "skip", "keep_both"
  StreamLimit,     \* data connections times streams
  Memory,          \* memory_buffer_mib, in bytes
  BatchCount,      \* MAX_SMALL_FILE_BATCH_COUNT
  SmallFile,       \* MEMORY_BUFFERED_FILE_SIZE
  BatchBytes,      \* MEMORY_BUFFER_BATCH_BYTES
  MaxSmallFile,    \* MAX_SMALL_FILE_SIZE, the limit of the protocol for a file
  MaxBatchBytes,   \* MAX_SMALL_FILE_BATCH_BYTES, and for a batch
  LimitLow, LimitHigh,   \* the clamp of file_limit: 4 and 64
  None, Foreign    \* no file, and a file that is not of the manifest

Clamp(n, low, high) == IF n < low THEN low ELSE IF n > high THEN high ELSE n

FileLimit == Clamp(2 * StreamLimit, LimitLow, LimitHigh)
SmallFileBudget == Memory \div 2
BatchTarget == IF SmallFileBudget = 0 THEN 0
               ELSE Clamp(SmallFileBudget \div FileLimit, SmallFile, BatchBytes)

Files == {Manifest[i] : i \in 1 .. Len(Manifest)}
Targets == {Name[f] : f \in Files}
Names == Targets \cup UNION {ToSet(Copies[n]) : n \in Targets}
Numbered == UNION {ToSet(Front(Copies[n])) : n \in Targets}

(* With 1 MiB or more of buffer, 64 or fewer items and files of 4 KiB every
   item's share holds a file. *)
ASSUME DownloadWindowAssumption ==
  /\ Manifest \in Seq(Files) /\ IsInjective(Manifest)
  /\ \A n \in Targets : Copies[n] \in Seq(Names) \ {<<>>}
  /\ StreamLimit \in Nat \ {0} /\ Memory \in Nat /\ BatchCount \in Nat \ {0}
  /\ SmallFile \in Nat \ {0} /\ BatchBytes \in Nat /\ SmallFile <= BatchBytes
  /\ MaxSmallFile \in Nat /\ MaxBatchBytes \in Nat /\ BatchBytes <= MaxBatchBytes
  /\ LimitLow \in Nat \ {0} /\ LimitHigh \in Nat /\ LimitLow <= LimitHigh
  /\ Memory > 0 => SmallFile * LimitHigh <= Memory \div 2
  /\ Sizes \subseteq Nat /\ Resumable \subseteq Files
  /\ Policies \subseteq {"overwrite", "skip", "keep_both"}
  /\ None \notin Files \cup Names /\ Foreign \notin Files \cup Names

VARIABLES
  policy,     \* the conflict policy of the task
  size,       \* size of each file
  work,       \* the items: "batch" or "file", with their files
  item,       \* progress of each item
  todo,       \* files the item has still to look up in the destination
  target,     \* final_target of each file that has to be fetched
  write,      \* progress of each file to its place
  part,       \* files whose .part is complete
  disk,       \* the destination: name -> file
  streams,    \* free permits of the stream semaphore
  fileIo,     \* free permits of the file-I/O semaphore
  completed,  \* completed_files of run_task
  result,     \* "running", "completed" or "failed"
  cancelled   \* the token of the run

fixed == <<policy, size, work>>
vars == <<fixed, item, todo, target, write, part, disk, streams, fileIo,
          completed, result, cancelled>>

-----------------------------------------------------------------------------
Batched(f, sz, started) ==
  BatchTarget > 0 /\ sz[f] <= SmallFile /\ sz[f] <= MaxSmallFile /\ f \notin started

(* Mutation: a batch is closed one file late. *)
FullLate(acc, bytes) == Len(acc.batch) > BatchCount \/ acc.bytes + bytes > BatchTarget

(* Mutation: the file that is about to join is not counted. *)
FullUncounted(acc, bytes) == Len(acc.batch) >= BatchCount \/ acc.bytes > BatchTarget

(* No room is left in the open batch for a file of so many bytes. *)
Full(acc, bytes) == Len(acc.batch) >= BatchCount \/ acc.bytes + bytes > BatchTarget

SingleFile(f) == [kind |-> "file", files |-> <<f>>]
SmallBatch(files) == [kind |-> "batch", files |-> files]

(* Small files without confirmed chunks gather in a batch until it is full;
   the others go on their own at once. *)
AddFile(acc, f, sz, started) ==
  CASE ~Batched(f, sz, started) -> [acc EXCEPT !.work = Append(@, SingleFile(f))]
    [] Batched(f, sz, started) /\ Full(acc, sz[f]) ->
         [work |-> Append(acc.work, SmallBatch(acc.batch)), batch |-> <<f>>, bytes |-> sz[f]]
    [] OTHER -> [acc EXCEPT !.batch = Append(@, f), !.bytes = @ + sz[f]]

(* build_download_work: split[n] is what the first n files have become. *)
BuildDownloadWork(sz, started) ==
  LET split[n \in 0 .. Len(Manifest)] ==
        IF n = 0 THEN [work |-> <<>>, batch |-> <<>>, bytes |-> 0]
        ELSE AddFile(split[n - 1], Manifest[n], sz, started)
      all == split[Len(Manifest)]
  IN IF all.batch = <<>> THEN all.work ELSE Append(all.work, SmallBatch(all.batch))

Items == DOMAIN work
FilesOf(i) == ToSet(work[i].files)
ItemOf(f) == CHOOSE i \in Items : f \in FilesOf(i)
Prepared(i) == {f \in FilesOf(i) : target[f] # None}
Active == {i \in Items : item[i] \notin {"new", "done"}}
Exists(n) == disk[n] # None

(* A file that is there may be of an earlier run, and so may numbered copies. *)
Init ==
  /\ policy \in Policies
  /\ size \in [Files -> Sizes]
  /\ \E started \in SUBSET {f \in Resumable : size[f] > 0} :
       work = BuildDownloadWork(size, started)
  /\ item = [i \in Items |-> "new"]
  /\ todo = [i \in Items |-> work[i].files]
  /\ target = [f \in Files |-> None] /\ write = [f \in Files |-> "no"] /\ part = {}
  /\ \E there \in [Files -> {None, Foreign, "own"}], copied \in SUBSET Numbered :
       disk = [n \in Names |->
                 IF n \in Targets
                 THEN LET f == CHOOSE f \in Files : Name[f] = n
                      IN IF there[f] = "own" THEN f ELSE there[f]
                 ELSE IF n \in copied THEN Foreign ELSE None]
  /\ streams = StreamLimit /\ fileIo = FileLimit
  /\ completed = 0 /\ result = "running" /\ cancelled = FALSE

-----------------------------------------------------------------------------
Running == result = "running"

(* buffer_unordered takes the next item while the window has room.  A single
   file needs a file-I/O permit for as long as it lasts. *)
StartItem(i) ==
  /\ Running /\ item[i] = "new" /\ \A j \in 1 .. i - 1 : item[j] # "new"
  /\ Cardinality(Active) < FileLimit
  /\ item' = [item EXCEPT ![i] = IF work[i].kind = "file" THEN "file_io" ELSE "prepare"]
  /\ UNCHANGED <<fixed, todo, target, write, part, disk, streams, fileIo, completed,
                 result, cancelled>>

AcquireFileIo(i) ==
  /\ Running /\ item[i] = "file_io" /\ fileIo > 0
  /\ fileIo' = fileIo - 1
  /\ item' = [item EXCEPT ![i] = "prepare"]
  /\ UNCHANGED <<fixed, todo, target, write, part, disk, streams, completed, result, cancelled>>

(* keep_both_path: the first candidate that does not exist; the last one is
   taken without a look. *)
KeepBothPath(n) ==
  LET free == {k \in DOMAIN Copies[n] : ~Exists(Copies[n][k])} \cup {Len(Copies[n])}
  IN Copies[n][CHOOSE k \in free : \A j \in free : k <= j]

(* Mutation: what is there is taken for the file itself. *)
PrepareFileBlindly(i) ==
  /\ Running /\ item[i] = "prepare" /\ todo[i] # <<>>
  /\ work[i].kind = "batch" => ~cancelled
  /\ LET f == Head(todo[i])
     IN target' = IF Exists(Name[f]) THEN target ELSE [target EXCEPT ![f] = Name[f]]
  /\ todo' = [todo EXCEPT ![i] = Tail(@)]
  /\ UNCHANGED <<fixed, item, write, part, disk, streams, fileIo, completed, result, cancelled>>

(* A file that is there already, or that the policy skips, is not fetched;
   for the others the place is chosen now.  A batch looks at the token before
   each of its files. *)
PrepareFile(i) ==
  /\ Running /\ item[i] = "prepare" /\ todo[i] # <<>>
  /\ work[i].kind = "batch" => ~cancelled
  /\ LET f == Head(todo[i])
         n == Name[f]
     IN target' = IF disk[n] = f \/ (Exists(n) /\ policy = "skip") THEN target
                  ELSE [target EXCEPT ![f] = IF Exists(n) /\ policy = "keep_both"
                                             THEN KeepBothPath(n) ELSE n]
  /\ todo' = [todo EXCEPT ![i] = Tail(@)]
  /\ UNCHANGED <<fixed, item, write, part, disk, streams, fileIo, completed, result, cancelled>>

(* An empty file has no chunk to ask for ... *)
HasChunks(i) == work[i].kind = "batch" \/ \E f \in Prepared(i) : size[f] > 0

AcquireStream(i) ==
  /\ Running /\ item[i] = "prepare" /\ todo[i] = <<>> /\ Prepared(i) # {}
  /\ HasChunks(i) /\ streams > 0
  /\ streams' = streams - 1
  /\ item' = [item EXCEPT ![i] = "fetch"]
  /\ UNCHANGED <<fixed, todo, target, write, part, disk, fileIo, completed, result, cancelled>>

(* What follows for a file whose .part is complete. *)
Place(f) == IF Exists(target[f]) /\ policy = "overwrite" THEN "remove" ELSE "rename"

(* ... and earlier runs may have confirmed every chunk of a file: no permit is
   taken. *)
HasAllChunks(i) ==
  work[i].kind = "file" /\ \A f \in Prepared(i) : size[f] = 0 \/ f \in Resumable

SkipFetch(i) ==
  /\ Running /\ item[i] = "prepare" /\ todo[i] = <<>> /\ Prepared(i) # {}
  /\ HasAllChunks(i)
  /\ item' = [item EXCEPT ![i] = "write"]
  /\ write' = [f \in Files |-> IF f \in Prepared(i) THEN Place(f) ELSE write[f]]
  /\ part' = part \cup Prepared(i)
  /\ UNCHANGED <<fixed, todo, target, disk, streams, fileIo, completed, result, cancelled>>

FetchTo(i, free) ==
  /\ Running /\ item[i] = "fetch"
  /\ streams' = free
  /\ item' = [item EXCEPT ![i] = "write"]
  /\ IF work[i].kind = "batch"
     THEN /\ write' = [f \in Files |-> IF f \in Prepared(i) THEN "file_io" ELSE write[f]]
          /\ UNCHANGED part
     ELSE /\ write' = [f \in Files |-> IF f \in Prepared(i) THEN Place(f) ELSE write[f]]
          /\ part' = part \cup Prepared(i)
  /\ UNCHANGED <<fixed, todo, target, disk, fileIo, completed, result, cancelled>>

(* Mutation: the permit is not given back. *)
FetchKeeping(i) == FetchTo(i, streams)

(* The data of a batch is complete and verified in memory; a file is complete
   and verified in its .part.  The stream permit is dropped before any write. *)
Fetch(i) == FetchTo(i, streams + 1)

(* A file of a batch waits for a permit, is written to its .part ... *)
StartWrite(f) ==
  /\ Running /\ write[f] = "file_io" /\ fileIo > 0
  /\ fileIo' = fileIo - 1
  /\ write' = [write EXCEPT ![f] = "write"]
  /\ UNCHANGED <<fixed, item, todo, target, part, disk, streams, completed, result, cancelled>>

WritePart(f) ==
  /\ Running /\ write[f] = "write"
  /\ part' = part \cup {f}
  /\ write' = [write EXCEPT ![f] = Place(f)]
  /\ UNCHANGED <<fixed, item, todo, target, disk, streams, fileIo, completed, result, cancelled>>

(* ... takes the place of the old one, which is removed first when it is to
   be overwritten. *)
RemoveExisting(f) ==
  /\ Running /\ write[f] = "remove"
  /\ disk' = [disk EXCEPT ![target[f]] = None]
  /\ write' = [write EXCEPT ![f] = "rename"]
  /\ UNCHANGED <<fixed, item, todo, target, part, streams, fileIo, completed, result, cancelled>>

RenamePartial(f) ==
  /\ Running /\ write[f] = "rename"
  /\ disk' = [disk EXCEPT ![target[f]] = f] /\ part' = part \ {f}
  /\ write' = [write EXCEPT ![f] = "done"]
  /\ fileIo' = IF work[ItemOf(f)].kind = "batch" THEN fileIo + 1 ELSE fileIo
  /\ UNCHANGED <<fixed, item, todo, target, streams, completed, result, cancelled>>

Finished(i) == \/ item[i] = "prepare" /\ todo[i] = <<>> /\ Prepared(i) = {}
               \/ item[i] = "write" /\ \A f \in Prepared(i) : write[f] = "done"

(* Mutation: the permit of the file is given back for every item. *)
FinishItemReleasing(i) ==
  /\ Running /\ Finished(i)
  /\ item' = [item EXCEPT ![i] = "done"]
  /\ completed' = completed + Len(work[i].files)
  /\ fileIo' = fileIo + 1
  /\ UNCHANGED <<fixed, todo, target, write, part, disk, streams, result, cancelled>>

(* The result of the item reaches run_task, which counts its files. *)
FinishItem(i) ==
  /\ Running /\ Finished(i)
  /\ item' = [item EXCEPT ![i] = "done"]
  /\ completed' = completed + Len(work[i].files)
  /\ fileIo' = IF work[i].kind = "file" THEN fileIo + 1 ELSE fileIo
  /\ UNCHANGED <<fixed, todo, target, write, part, disk, streams, result, cancelled>>

Complete ==
  /\ Running /\ \A i \in Items : item[i] = "done"
  /\ result' = "completed"
  /\ UNCHANGED <<fixed, item, todo, target, write, part, disk, streams, fileIo,
                 completed, cancelled>>

Cancel ==
  /\ Running /\ ~cancelled
  /\ cancelled' = TRUE
  /\ UNCHANGED <<fixed, item, todo, target, write, part, disk, streams, fileIo,
                 completed, result>>

(* An item fails: it finds the run cancelled, a lookup or a file operation
   fails, or the fetch has failed for good.  run_task returns and drops the
   other items where they stand. *)
ItemFails(i) ==
  /\ Running
  /\ \/ item[i] \in {"prepare", "fetch"}
     \/ item[i] = "file_io" /\ cancelled
     \/ \E f \in Prepared(i) : \/ write[f] \in {"write", "remove", "rename"}
                               \/ write[f] = "file_io" /\ cancelled
  /\ result' = "failed"
  /\ UNCHANGED <<fixed, item, todo, target, write, part, disk, streams, fileIo,
                 completed, cancelled>>

(* run_task itself returns: the task database refuses the progress or the
   files that are complete. *)
RunFails ==
  /\ Running
  /\ result' = "failed"
  /\ UNCHANGED <<fixed, item, todo, target, write, part, disk, streams, fileIo,
                 completed, cancelled>>

(* A file operation that had been handed to the blocking pool is carried out
   though nobody waits for it any more. *)
LateOperation(f) ==
  /\ result = "failed"
  /\ CASE write[f] = "write"  -> part' = part \cup {f} /\ UNCHANGED disk
       [] write[f] = "remove" -> disk' = [disk EXCEPT ![target[f]] = None] /\ UNCHANGED part
       [] write[f] = "rename" -> disk' = [disk EXCEPT ![target[f]] = f] /\ part' = part \ {f}
       [] OTHER -> FALSE
  /\ write' = [write EXCEPT ![f] = "no"]
  /\ UNCHANGED <<fixed, item, todo, target, streams, fileIo, completed, result, cancelled>>

-----------------------------------------------------------------------------
ItemStep(i) == StartItem(i) \/ AcquireFileIo(i) \/ PrepareFile(i) \/ AcquireStream(i)
               \/ SkipFetch(i) \/ Fetch(i) \/ FinishItem(i)
FileStep(f) == StartWrite(f) \/ WritePart(f) \/ RemoveExisting(f) \/ RenamePartial(f)
RunStep == Complete \/ (\E i \in Items : ItemStep(i)) \/ (\E f \in Files : FileStep(f))
Next == RunStep \/ Cancel \/ RunFails \/ (\E i \in Items : ItemFails(i))
        \/ (\E f \in Files : LateOperation(f))

Spec == Init /\ [][Next]_vars

(* The runtime polls the items of the window, fetches and file operations
   return, and an item notices that the run is cancelled. *)
FairSpec == Spec /\ WF_vars(RunStep)
                 /\ WF_vars(cancelled /\ \E i \in Items : ItemFails(i))

-----------------------------------------------------------------------------
(* Type invariant; no semaphore holds more permits than it was made with. *)
TypeOK ==
  /\ item \in [Items -> {"new", "file_io", "prepare", "fetch", "write", "done"}]
  /\ target \in [Files -> Names \cup {None}]
  /\ write \in [Files -> {"no", "file_io", "write", "remove", "rename", "done"}]
  /\ part \subseteq Files /\ disk \in [Names -> Files \cup {None, Foreign}]
  /\ streams \in 0 .. StreamLimit /\ fileIo \in 0 .. FileLimit
  /\ completed \in 0 .. Len(Manifest) /\ result \in {"running", "completed", "failed"}
  /\ cancelled \in BOOLEAN

(* v[1] + ... + v[n] *)
Total(v, n) == LET sum[k \in 0 .. n] == IF k = 0 THEN 0 ELSE sum[k - 1] + v[k] IN sum[n]

(* What the sharing side sends for the item. *)
Bytes(i) == Total([k \in DOMAIN work[i].files |->
                     IF work[i].files[k] \in Prepared(i) THEN size[work[i].files[k]] ELSE 0],
                  Len(work[i].files))
InMemory == {i \in Items : work[i].kind = "batch" /\ item[i] \in {"fetch", "write"}}

(* The batches of all items together never hold more than their half of the
   memory buffer, though a batch gives its stream permit back before its data
   is written and the next one is fetched meanwhile. *)
BufferWithinBudget ==
  Total([i \in Items |-> IF i \in InMemory THEN Bytes(i) ELSE 0], Len(work)) <= SmallFileBudget

(* prepare_small_file_batch on the sharing side. *)
AcceptsBatch(i) ==
  /\ Prepared(i) # {} /\ Cardinality(Prepared(i)) <= BatchCount
  /\ \A f \in Prepared(i) : size[f] <= MaxSmallFile
  /\ Bytes(i) <= MaxBatchBytes

(* The sharing side, which counts for itself, refuses no batch this side asks
   for: a refusal would fail the whole run, at every resume again. *)
BatchesAccepted ==
  \A i \in Items : work[i].kind = "batch" /\ item[i] = "fetch" => AcceptsBatch(i)

(* A completed run has counted every file of the manifest once, and each is in
   the destination, or the policy left the one that was there. *)
CompletedMeansStored ==
  result = "completed" =>
    /\ completed = Len(Manifest)
    /\ \A f \in Files : \/ \E n \in Names : disk[n] = f
                        \/ policy = "skip" /\ disk[Name[f]] = Foreign

(* Every run ends: items, files and batches that hold one permit and wait for
   another do not block each other. *)
RunEnds == <>(result # "running")
=============================================================================
