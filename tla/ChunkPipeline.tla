---------------------------- MODULE ChunkPipeline ----------------------------
(***************************************************************************)
(* The chunk transfers of one run_task: the files in its download window   *)
(* share one semaphore of stream permits; download_file spawns one tokio   *)
(* task per missing chunk, joins them in completion order and, when the    *)
(* whole file is transferred, feeds the chunks to the whole-file hash in   *)
(* index order through an out-of-order buffer (tasks.rs, 688-816).  The    *)
(* first file to fail, a database error or the pause token end the run;    *)
(* the spawned tasks are then detached and end on their own.               *)
(*                                                                         *)
(* The three attempts of a transfer are one transfer here: it succeeds or  *)
(* fails.  FileDownload has the attempts, the disk and the database.       *)
(***************************************************************************)
EXTENDS Integers, Sequences, FiniteSets

CONSTANTS
  Files,        \* files being downloaded together
  Chunks,       \* Chunks[f]: number of chunks of f to transfer
  Capture,      \* files transferred with capture_full_hash
  StreamLimit,  \* permits of the semaphore
  DbErrors      \* whether a write of the progress to SQLite may fail

ASSUME ChunkPipelineAssumption ==
  /\ Chunks \in [Files -> Nat]
  /\ Capture \subseteq Files
  /\ StreamLimit \in Nat \ {0}
  /\ DbErrors \in BOOLEAN

VARIABLES
  pc,         \* where download_file is, per file
  st,         \* state of the transfer of every chunk <<f, i>>
  permits,    \* free permits of the semaphore
  buffered,   \* buffered_chunks: received, not yet hashed
  next,       \* next_hash_index, counted from 1
  hashed,     \* what the ordered_hasher was fed, in order
  error,      \* first_error is set
  cancelled,  \* transfer_cancel
  ended       \* run_task: "no", "completed" or "failed"

vars == <<pc, st, permits, buffered, next, hashed, error, cancelled, ended>>

Pairs == UNION {{f} \X (1 .. Chunks[f]) : f \in Files}
ChunksOf(f) == {p \in Pairs : p[1] = f}

Init ==
  /\ pc = [f \in Files |-> "spawn"]
  /\ st = [p \in Pairs |-> "new"]
  /\ permits = StreamLimit
  /\ buffered = [f \in Files |-> {}]
  /\ next = [f \in Files |-> 1]
  /\ hashed = [f \in Files |-> <<>>]
  /\ error = [f \in Files |-> FALSE]
  /\ cancelled = FALSE
  /\ ended = "no"

Live(f) == pc[f] \in {"spawn", "collect", "drain", "verify"}
HashState == <<buffered, next, hashed>>
RunState == <<cancelled, ended>>

-----------------------------------------------------------------------------
Unspawned(p) == st[p] = "new" /\ \A q \in ChunksOf(p[1]) : q[2] < p[2] => st[q] # "new"

(* Mutation: the loop acquires the permit also with capture. *)
SpawnQueuedPreacquired(p) ==
  /\ pc[p[1]] = "spawn" /\ Unspawned(p) /\ p[1] \in Capture
  /\ permits > 0
  /\ permits' = permits - 1
  /\ st' = [st EXCEPT ![p] = "running"]
  /\ UNCHANGED <<pc, HashState, error, RunState>>

(* The spawn loop: chunks in index order.  With capture the spawned task
   acquires its permit itself, so that the loop never waits; otherwise the
   loop acquires the permit before it spawns. *)
SpawnQueued(p) ==
  /\ pc[p[1]] = "spawn" /\ Unspawned(p) /\ p[1] \in Capture
  /\ st' = [st EXCEPT ![p] = "queued"]
  /\ UNCHANGED <<pc, permits, HashState, error, RunState>>

SpawnPreacquired(p) ==
  /\ pc[p[1]] = "spawn" /\ Unspawned(p) /\ p[1] \notin Capture
  /\ permits > 0
  /\ permits' = permits - 1
  /\ st' = [st EXCEPT ![p] = "running"]
  /\ UNCHANGED <<pc, HashState, error, RunState>>

(* Waiting for a permit in the loop, the token is seen: the file fails and
   its spawned tasks are detached. *)
SpawnCancelled(f) ==
  /\ pc[f] = "spawn" /\ cancelled /\ f \notin Capture
  /\ \E p \in ChunksOf(f) : Unspawned(p)
  /\ pc' = [pc EXCEPT ![f] = "failed"]
  /\ UNCHANGED <<st, permits, HashState, error, RunState>>

SpawnDone(f) ==
  /\ pc[f] = "spawn" /\ \A p \in ChunksOf(f) : st[p] # "new"
  /\ pc' = [pc EXCEPT ![f] = "collect"]
  /\ UNCHANGED <<st, permits, HashState, error, RunState>>

-----------------------------------------------------------------------------
(* Mutation: try_acquire, whose failure is ignored. *)
AcquirePermitAnyway(p) ==
  /\ st[p] = "queued"
  /\ permits' = permits - 1
  /\ st' = [st EXCEPT ![p] = "running"]
  /\ UNCHANGED <<pc, HashState, error, RunState>>

(* The spawned task of one chunk. *)
AcquirePermit(p) ==
  /\ st[p] = "queued" /\ permits > 0
  /\ permits' = permits - 1
  /\ st' = [st EXCEPT ![p] = "running"]
  /\ UNCHANGED <<pc, HashState, error, RunState>>

(* Mutation: the permit is released although the result holds it. *)
TransferOkReleasing(p) ==
  /\ st[p] = "running"
  /\ st' = [st EXCEPT ![p] = IF Live(p[1]) THEN "ready" ELSE "discarded"]
  /\ permits' = permits + 1
  /\ UNCHANGED <<pc, HashState, error, RunState>>

(* The chunk is received and its hash is right.  With capture the permit
   travels with the data in the result, until the result is joined; the
   result of a detached task is dropped at once, with its permit. *)
TransferOk(p) ==
  /\ st[p] = "running"
  /\ st' = [st EXCEPT ![p] = IF Live(p[1]) THEN "ready" ELSE "discarded"]
  /\ permits' = IF Live(p[1]) /\ p[1] \in Capture THEN permits ELSE permits + 1
  /\ UNCHANGED <<pc, HashState, error, RunState>>

(* The three attempts failed, or the token was seen. *)
TransferFails(p) ==
  /\ st[p] = "running"
  /\ st' = [st EXCEPT ![p] = IF Live(p[1]) THEN "failed" ELSE "discarded"]
  /\ permits' = permits + 1
  /\ UNCHANGED <<pc, HashState, error, RunState>>

QueuedCancelled(p) ==
  /\ st[p] = "queued" /\ cancelled
  /\ st' = [st EXCEPT ![p] = IF Live(p[1]) THEN "failed" ELSE "discarded"]
  /\ UNCHANGED <<pc, permits, HashState, error, RunState>>

-----------------------------------------------------------------------------
(* The collect loop: a result with captured data goes to the buffer, which is
   then drained as far as it is contiguous; the permit is dropped last. *)
Join(p) ==
  /\ pc[p[1]] = "collect" /\ st[p] = "ready"
  /\ st' = [st EXCEPT ![p] = "joined"]
  /\ IF p[1] \in Capture
     THEN /\ buffered' = [buffered EXCEPT ![p[1]] = @ \cup {p[2]}]
          /\ pc' = [pc EXCEPT ![p[1]] = "drain"]
     ELSE UNCHANGED <<buffered, pc>>
  /\ UNCHANGED <<permits, next, hashed, error, RunState>>

JoinFailed(p) ==
  /\ pc[p[1]] = "collect" /\ st[p] = "failed"
  /\ st' = [st EXCEPT ![p] = "discarded"]
  /\ error' = [error EXCEPT ![p[1]] = TRUE]
  /\ UNCHANGED <<pc, permits, HashState, RunState>>

(* Mutation: any buffered chunk is hashed. *)
DrainAny(f) ==
  /\ pc[f] = "drain"
  /\ \E i \in buffered[f] :
       /\ buffered' = [buffered EXCEPT ![f] = @ \ {i}]
       /\ hashed' = [hashed EXCEPT ![f] = Append(@, i)]
       /\ next' = [next EXCEPT ![f] = @ + 1]
  /\ UNCHANGED <<pc, st, permits, error, RunState>>

DrainNext(f) ==
  /\ pc[f] = "drain" /\ next[f] \in buffered[f]
  /\ buffered' = [buffered EXCEPT ![f] = @ \ {next[f]}]
  /\ hashed' = [hashed EXCEPT ![f] = Append(@, next[f])]
  /\ next' = [next EXCEPT ![f] = @ + 1]
  /\ UNCHANGED <<pc, st, permits, error, RunState>>

DrainDone(f) ==
  /\ pc[f] = "drain" /\ next[f] \notin buffered[f]
  /\ pc' = [pc EXCEPT ![f] = "collect"]
  /\ permits' = permits + 1
  /\ UNCHANGED <<st, HashState, error, RunState>>

CollectDone(f) ==
  /\ pc[f] = "collect" /\ \A p \in ChunksOf(f) : st[p] \in {"joined", "discarded"}
  /\ pc' = [pc EXCEPT ![f] = IF error[f] THEN "failed" ELSE "verify"]
  /\ UNCHANGED <<st, permits, HashState, error, RunState>>

(* verified_during_transfer: the hasher saw every chunk and nothing is left
   in the buffer. *)
HashComplete(f) == f \in Capture /\ next[f] = Chunks[f] + 1 /\ buffered[f] = {}

(* Checkpoint, verification and rename. *)
VerifyDone(f) ==
  /\ pc[f] = "verify"
  /\ pc' = [pc EXCEPT ![f] = "ok"]
  /\ UNCHANGED <<st, permits, HashState, error, RunState>>

(* One of them fails: the sync, the row, the hash of the file, the rename. *)
VerifyFails(f) ==
  /\ pc[f] = "verify"
  /\ pc' = [pc EXCEPT ![f] = "failed"]
  /\ UNCHANGED <<st, permits, HashState, error, RunState>>

-----------------------------------------------------------------------------
(* Mutation: the permits in results not joined are forgotten. *)
DropDownloadsLeaking ==
  /\ \A f \in Files : pc[f] # "drain"
  /\ ended' = "failed"
  /\ pc' = [f \in Files |-> IF Live(f) THEN "dropped" ELSE pc[f]]
  /\ st' = [p \in Pairs |-> IF st[p] \in {"ready", "failed"} THEN "discarded" ELSE st[p]]
  /\ UNCHANGED <<permits, HashState, error>>

(* run_task returns with an error while it polls the downloads: their futures
   are dropped at an await point, results not joined are dropped with the
   permits they hold. *)
DropDownloads ==
  /\ \A f \in Files : pc[f] # "drain"
  /\ ended' = "failed"
  /\ pc' = [f \in Files |-> IF Live(f) THEN "dropped" ELSE pc[f]]
  /\ st' = [p \in Pairs |-> IF st[p] \in {"ready", "failed"} THEN "discarded" ELSE st[p]]
  /\ permits' = permits + Cardinality({p \in Pairs : st[p] = "ready" /\ p[1] \in Capture})
  /\ UNCHANGED <<HashState, error>>

(* The first file error cancels the other transfers. *)
FileError ==
  /\ ended = "no" /\ \E f \in Files : pc[f] = "failed"
  /\ DropDownloads
  /\ cancelled' = TRUE

(* A progress write fails: nothing cancels the transfers. *)
DbError ==
  /\ DbErrors /\ ended = "no"
  /\ DropDownloads
  /\ UNCHANGED cancelled

AllOk ==
  /\ ended = "no" /\ \A f \in Files : pc[f] = "ok"
  /\ ended' = "completed"
  /\ UNCHANGED <<pc, st, permits, HashState, error, cancelled>>

(* pause and cancel. *)
Cancel ==
  /\ ~cancelled /\ ended = "no"
  /\ cancelled' = TRUE
  /\ UNCHANGED <<pc, st, permits, HashState, error, ended>>

-----------------------------------------------------------------------------
FileStep(f) == \/ \E p \in ChunksOf(f) : \/ SpawnQueued(p) \/ SpawnPreacquired(p)
                                         \/ Join(p) \/ JoinFailed(p)
               \/ SpawnCancelled(f) \/ SpawnDone(f) \/ DrainNext(f) \/ DrainDone(f)
               \/ CollectDone(f) \/ VerifyDone(f) \/ VerifyFails(f)
TransferStep(p) == AcquirePermit(p) \/ QueuedCancelled(p) \/ TransferOk(p) \/ TransferFails(p)
Next == \/ \E f \in Files : FileStep(f)
        \/ \E p \in Pairs : TransferStep(p)
        \/ FileError \/ DbError \/ AllOk \/ Cancel

Spec == Init /\ [][Next]_vars

(* The runtime polls every task, and a transfer that holds a stream is
   answered or its connection breaks. *)
FairSpec == /\ Spec
            /\ \A f \in Files : WF_vars(FileStep(f))
            /\ \A p \in Pairs : WF_vars(TransferStep(p))
            /\ WF_vars(FileError \/ AllOk)

-----------------------------------------------------------------------------
(* Type invariant. *)
TypeOK ==
  /\ pc \in [Files -> {"spawn", "collect", "drain", "verify", "ok", "failed", "dropped"}]
  /\ st \in [Pairs -> {"new", "queued", "running", "ready", "failed", "joined", "discarded"}]
  /\ permits \in Nat
  /\ buffered \in [Files -> SUBSET (Nat \ {0})]
  /\ next \in [Files -> Nat \ {0}]
  /\ hashed \in [Files -> Seq(Nat \ {0})]
  /\ error \in [Files -> BOOLEAN]
  /\ cancelled \in BOOLEAN
  /\ ended \in {"no", "completed", "failed"}

(* What holds a permit: a running transfer, a captured result that is not
   joined, and the loop that is draining the buffer. *)
Holders == {p \in Pairs : \/ st[p] = "running"
                          \/ st[p] = "ready" /\ p[1] \in Capture}
           \cup {<<f, 0>> : f \in {g \in Files : pc[g] = "drain"}}

(* No permit is lost or duplicated, however the run ends: the concurrency of
   the downloads stays the configured one. *)
PermitsConserved == permits + Cardinality(Holders) = StreamLimit

(* The whole-file hasher is fed the chunks 1, 2, 3, ... in index order, each
   once, whatever the order in which the transfers finish. *)
HashedInOrder ==
  \A f \in Files : /\ Len(hashed[f]) = next[f] - 1
                   /\ \A i \in 1 .. Len(hashed[f]) : hashed[f][i] = i

(* The buffer holds exactly the joined chunks that are not hashed yet. *)
BufferExact ==
  \A f \in Capture : buffered[f] =
    {i \in 1 .. Chunks[f] : st[<<f, i>>] = "joined" /\ i >= next[f]}

(* A captured file that reaches verification without error has been hashed
   completely: it is never read back, and a partial hash is never compared. *)
CaptureSuffices ==
  \A f \in Capture : pc[f] \in {"verify", "ok"} => HashComplete(f)

(* The transfers, however many run at once and in whatever order they end, do
   to the hash of each file what a sequential reader does, and no file is
   accepted after a partial one. *)
Verdict(f) == CASE pc[f] = "ok" -> "accepted"
                [] pc[f] \in {"failed", "dropped"} -> "given_up"
                [] OTHER -> "none"
Sequential == INSTANCE SequentialHash
                WITH fed <- hashed, verdict <- [f \in Files |-> Verdict(f)], result <- ended
HashesSequentially == Sequential!Spec

(* Captured chunks held in memory, for the budget of the ordered hash. *)
InMemory == {p \in Pairs : /\ p[1] \in Capture
                           /\ \/ st[p] \in {"running", "ready"}
                              \/ st[p] = "joined" /\ p[2] \in buffered[p[1]]}

(* capture_full_hash is chosen when one chunk per stream fits the budget: the
   buffer is bounded by what the streams can hold. *)
BufferBounded == Cardinality(InMemory) <= StreamLimit

(* The run ends: spawn loops, permits and collect loops never wait for each
   other in a circle. *)
RunEnds == <>(ended # "no")

(* After the run has ended, however it did, every detached transfer ends and
   the permits come back. *)
PermitsReturn == [](ended # "no" => <>(permits = StreamLimit))
=============================================================================
