# A TLA+ model of LanFlow

LanFlow shares directories between peers of a local network. The Rust crates
under `src/src-tauri` do the work: one side shares directories and serves
chunks of files, the other side takes a snapshot of what it wants, downloads
it over several connections, verifies it and resumes it after pauses, failures
and restarts. The modules here model that core, TLC checks them on small
instances, and TLAPS proves their safety properties for all instances.

Line numbers refer to `src/src-tauri/crates/lanflow-core/src/` unless a path is
given. `PROJECT.json` maps every definition to the lines it stands for.

## 1. Inventory

| component | code | state | operations | what makes it correct |
|---|---|---|---|---|
| Task lifecycle | `tasks.rs` 60-415, `commands.rs` 242-456 | map of active tasks with their tokens; status column | create, resume, pause, pause_all, cancel; start; runner with progress tick and end | one runner per task; every runner can be stopped; the status says how a run ended |
| File download | `tasks.rs` 618-914, `client.rs` 176-240 | `.part` file, bitmap row in SQLite, local variables of the run | target check, bitmap validation, attempts at chunks, sync, checkpoint, verification, removal, rename | an installed file is the file of the manifest; confirmed chunks are not requested again; nothing of the user is lost |
| Chunk pipeline | `tasks.rs` 689-831 | stream permits, spawned transfers, out-of-order buffer, ordered hasher | spawn, acquire, transfer, join, drain, cancel, detach | no permit is lost; the hasher is fed in order; the buffer is bounded; the run ends |
| Download window | `tasks.rs` 201-381, 420-615 | work items, window, two semaphores, batches in memory, destination names | split into batches and files, prepare, fetch, write, replace, count | memory within the budget; every file counted and stored; no circular wait |
| Multiplexed connection | `client.rs` 45-336, 481-551, `server.rs` 101-177, 412-508, 553-782 | pending map, channels, reader task; handler, outgoing channel, writer task | request, frames of answers, errors, timeouts, dropped transfers, break, teardown | each caller gets its answer, in order; every request ends; no leaked entry or task |
| Snapshot and hash cache | `fileops.rs` 293-584, `db.rs` 146-241, `server.rs` 343-411 | snapshot under construction, table `hash_cache` | metadata, hash or cached entry, second look, store, publish | a manifest describes one version; the cache is never wrong; unchanged files are not hashed again |
| Task rows | `db.rs` 351-671 | status, bitmap, counters | upsert, status and progress writes, checkpoints | read with the components above |
| Sessions and authentication | `server.rs` 101-411, `client.rs` 158-174, 405-480, `commands.rs` 100-241 | map of clients, the session each stored; pending logins and the active session of a connection, sessions and snapshots in memory, rows of shares | connect, login, CreateSnapshot, attach, chunk requests, restart, enable, disable, delete | both sides agree on the session; a stored session is known; an attached run finds its snapshot, and it is of the share it asked for |
| Path mapping | `fileops.rs` 126-358, 586-616 | the shared directory, the selection in the task row | listing, walk, protocol paths, rebase, destination names, resume | one place per file, the same one on every resume, below the destination |
| Frame codec, discovery, settings, user interface, shell | `lanflow-protocol`, `discovery.rs`, `db.rs`, `App.tsx`, `core.rs` | | | not modelled, see section 8 |

**Interaction.** The user connects, which puts a client with a control
connection into the map of the core, and logs in to one of the shares; creating
or resuming a task asks that client for a snapshot. Then the command calls
`TaskEngine`, which spawns one runner per start. The runner builds work items and polls them in a
window (`buffer_unordered`). A single file spawns a tokio task per chunk; these
tasks and the batches share the stream semaphore, and each of them calls
`download_chunk` or `download_small_file_batch` on one of a few `MuxConnection`s.
The reader task of a connection passes frames from the wire to the channel of
each request. On the other side `handle_connection` answers small requests and
snapshots itself and spawns a task per chunk and batch; all of them write into
one bounded channel that the writer task drains. Tokens flow from the task to
the transfers; results flow back through joined tasks. SQLite and the file
system are what is left after a crash.

**What is hard.** Commands, runners of earlier resumes and the progress tick
interleave between any two awaits. A cancelled future is dropped where it
stands while spawned tasks and file operations go on. Writes to files are
carried out later by a pool, may fail unheard and are lost by a power loss.
Bits of the bitmap outlive the snapshot and the chunk size they were made for.
Bounded channels couple the requests of one connection. Shared files change
while they are hashed and while they are sent, directories while they are
walked. One control connection carries the logins of several shares and the
snapshots of several tasks; it may end, or the sharing side may restart, while
runs that began on it go on under its session. `PROJECT.json` lists these
hazards at their lines with the properties that cover them.

## 2. Modules

Each component has a module with its constants, one action per step of the
code between two awaits, its specification and its properties; an `MC` module
gives the constants concrete values; a `Proofs` module holds the theorems.
Definitions whose comment begins with "Mutation" are plausible bugs; the
specifications do not use them. Each is named in `PROJECT.json` with the
property that notices it.

| module | models | state and the code it stands for |
|---|---|---|
| `TaskLifecycle` | commands and runners of one task | `active` the entry of the map, `token` the token of each run, `status` the column, `pc` the await each run is at |
| `FileDownload` | one multi-frame file over many runs | `fs` the local files, `inflight` writes in the blocking pool, `dirty` unsynced pages, `db` the row, `run` the local variables of `download_file`, `detached` transfers that go on after their run |
| `ChunkPipeline` | the chunks of several files in one run | `st` each spawned transfer, `permits`, `buffered`, `next`, `hashed` |
| `DownloadWindow` | one run over its manifest | `work` and `item` the window, `write` each file on its way to its place, `streams`, `fileIo`, `disk`, `completed` the counter `completed_files` |
| `MuxConnection` | both ends of one connection | `pending`, `chan`, `reader` on the client; `handler`, `serve`, `out` on the server; `requests`, `wire` between, `up` the connection and `silent` that its break has not been noticed |
| `SnapshotCache` | snapshots under preparation and their cache | `file` the shared files, `build` and `work` per connection, `cache` the table, `snapshots` what was handed out |
| `PeerSession` | clients, logins, runs and the sharing side | `control` both ends of each control connection with its requests, challenges and active session; `auth` and `current` of the client side, `sessions`, `snapshots`, `share` of the other, `login` and `run` the calls |
| `SelectionPaths` | the names of a task's files from the shared directory to the destination | `tree` the shared directory, `leads` the targets of its links, `selected` the column `remote_paths`, `todo` and `found` the walk, `manifest`, `placed` the places of all runs |
| `SequentialHash` | abstract: hashing one file after the other chunk by chunk | refined by `ChunkPipeline` |
| `RequestStreams` | abstract: a stream of its own for each request | refined by `MuxConnection` |

They describe the same program at different grain and share no variables. What
one folds another unfolds: a chunk in `ChunkPipeline` succeeds or fails, its
attempts are in `FileDownload`; a file in `DownloadWindow` is fetched in one
step, its chunks are in the other two; what a frame carries is in
`FileDownload`, how frames travel in `MuxConnection`. A run of
`PeerSession` is the outline of a run of `TaskLifecycle`, reduced to what it
needs of the peer, and its requests wait on a connection of which
`MuxConnection` has the frames. `SelectionPaths` says which names there are
before `SnapshotCache` hashes what is behind them and `DownloadWindow` stores it.
That a cancelled run ends is a question for `ChunkPipeline` and `DownloadWindow`, which
have the waits of a run; in `TaskLifecycle` it may take any time.

**Observation only.** `installed`, `damaged`, `acked`, `sinceLook` (`FileDownload`), `got`
(`MuxConnection`), `history`, `snapshots` and the `chunkSize` of a cache entry
(`SnapshotCache`), `born`, `made` and the `alone` of a login (`PeerSession`),
`placed`, `refused`, `strayed` and `calm` (`SelectionPaths`) decide nothing; properties
refer to them. The program
has no `chunkSize` column; `cache_matches` does not look at it in the model
either.

**Abstractions.**
- A file is a sequence of units and a frame carries one; a BLAKE3 hash is the
  hashed sequence, so that equal hashes mean equal data.
- `FileDownload` has one run at a time. Two at once are the subject of
  `TaskLifecycle`, which shows when they cannot be.
- Renames, removals and SQLite commits are atomic, durable and in order; only
  file data may be lost by a power loss.
- An edit of a shared file gives it a new modification time
  (`SnapshotCache`). Two edits within a millisecond are not distinguished by
  the program; the receiver would find the difference when it verifies.
- `PeerSession`: the OPAQUE exchange is external. A proof is valid, or the client
  notices a wrong password when the server's answer does not open under it. The
  saved password, the check of the Hello version and listings change no state
  the properties speak of; a refused listing is a case of `ControlEnds`. A run
  has one data connection, and a peer that comes back has its old address.
- `SelectionPaths`: one selected path is walked in one step, and edits fall
  between two of them. Links on the way to a selected path are followed, each
  to a path from the root of what is shared and at most `MaxLinks` of them, as
  `resolve_shared_path` has the system do; what a link at the path itself
  leads to is never looked at. What an entry of a listing is reached through are
  directories when it is ticked; any of them may be a link at the next snapshot.
  Of a name only a prefix "~lf-", backslashes and dots are
  seen; hexadecimal digits stay as they are, since their encoding is one-to-one.
  The identity of a file, the hash of its protocol path, is that path. The client
  reads paths as on a system whose only separator is "/"; on Windows a selected
  name with a backslash would be two names, and one that begins like a drive refused.
- Apart from `SelectionPaths` directories are left out, and so are progress messages, speeds, counters of bytes and the
  modification time set after a rename.
- In `MuxConnection` a break ends both directions. The sharing side notices it, by
  its keepalive if nothing else (server.rs 92-98), and the client at once or not
  until its kernel gives up on what it sends. What the kernels hold for the
  sharing side is the bound `ReqCap` of `requests`: with no room left, a caller
  waits in `write_frame`, and those behind it for the lock of the writer.
- In `MuxConnection` a snapshot has one intermediate frame where the code sends
  any number, and a peer answers the protocol version in which snapshots come
  in pages. Frames of unknown type, which the reader skips, are left out.

## 3. Runs

Passing runs. Every bound is a constant in the configuration.

| run | shows | bounds and why they are enough |
|---|---|---|
| `FileDownload_resume` | `TypeOK`, `InstalledFaithful`, `ReplacementReady`, `DoneMeansStored`, `NothingRequestedAgain` | policy "overwrite"; a file of the user under the target, two versions that share a unit and an empty one, behind whose end late writes fall, chunk sizes 1 and 2, two runs, a crash that loses any unsynced data, an edit, and a run that fails at the database (`MaxDetaches`) and leaves any of its transfers behind: a bit set under one chunk size and version is read under another, and transfers of one run write beside the next |
| `FileDownload_keep_both` | `KeepsForeignFiles`, `RunEnds` | the target and the first copy name may be taken, so that a second candidate is needed; the user writes the first copy name at any moment, before or after the run looks (`MaxUser`); versions shorter and longer than the manifest, a fault, a failed write, a crash, transfers left behind by a failed run |
| `ChunkPipeline_run` | `TypeOK`, `PermitsConserved`, `HashesSequentially`, `RunEnds`, `PermitsReturn` | a captured and an ordinary file on two permits: results out of order fill the buffer while the other file waits, and both ways to acquire permits occur |
| `TaskLifecycle_commands` | `TypeOK`, `ActiveIsLive`, `AtMostOneRunner`, `Controllable`, `CompletedIsQuiet`, `NoSilentEnd` | three runs, so that an old one, a current and a next one exist; a crash; users and databases of both kinds |
| `MuxConnection_requests` | `TypeOK`, `NoOrphanEntry`, `StreamsOfTheirOwn`, `RequestsEnd`, `Teardown` | a snapshot with a call behind it, and a chunk beside a batch; the channels of answers, and the requests on their way, hold one frame each, so that every possible wait happens; timeouts and a break at any moment, noticed at once, late or never |
| `DownloadWindow_run` | `TypeOK`, `BufferWithinBudget`, `BatchesAccepted`, `CompletedMeansStored`, `RunEnds` | three files of 0, 1 or 2 bytes, every policy, any of their names and of the numbered copies taken, one stream, a window of two items; a batch takes one byte of a budget of two, so that a batch that overruns by a file exceeds the budget. The first file has a numbered copy and the name with a random part, the others the latter only; no copy name is a name of the manifest. The constraint `CopiesMatter` leaves out copies that are there under the other two policies, which never look at them |
| `SnapshotCache_shared` | `TypeOK`, `ManifestOfOneVersion`, `CacheSound`, `UnchangedNotHashed` | two connections, one file of up to three units, two edits, two chunk sizes: one connection stores under the other, between any two reads of it |
| `PeerSession_run` | `TypeOK`, `SessionsKnown`, `AttachedIsServed`, `ManifestOfShare`, `ControlAgrees` | two shares (symmetric), so that a login can replace the session of another; two connects, so that a run can outlive its client's place in the map; two logins, that may overlap, time out or fall on both sides of a restart; one edit of a share. One run suffices: what another run could do to it is to close the control connection, which `ControlEnds` does at any time |
| `SelectionPaths_run` | `OnePlacePerFile`, `ManifestAccepted`, `ManifestComplete` | seven paths: a directory with a reserved name and a name that looks like the encoding of it, two names beside it whose backslashes make them collide with one of its files, one in the protocol path, one only in the place, and a second directory with a file; each is a file, directory, link or absent at the start; either directory may be a link to the other and the first one to the outside; any two paths ticked, two edits of the first directory or a file in it, one resume: a selected file may come to lie behind a link that leads out of the selection, into it or out of the share |

Deadlock is not checked: every component may really stop, when the task is
done, the connection closed or a bound of the model used up. The bounds are
named `Max...` and stand in the guards of what they bound. What must not get
stuck is stated as liveness instead.

### Fairness

- `FileDownload`: weak fairness of the steps a run takes by itself (`LocalStep`) and
  of the blocking pool. The tokio runtime polls futures that are ready, and the
  operating system carries out writes. Nothing is assumed of the peer, of
  faults, cancellation or edits: `RunEnds` says that a run which does not end
  has a transfer to which the peer owes an answer for good. The client sets no
  keepalive and no timeout for transfers (client.rs 55-92, 126), so that such a
  run is a behaviour of the code.
- `ChunkPipeline`: weak fairness of every `download_file` and of every
  transfer. Here it is an assumption that a transfer which holds a permit is
  answered or its connection breaks; `RunEnds` and `PermitsReturn` depend on it
  and say that nothing else keeps a run or a permit. What the code does not
  guarantee of it is in section 4: a request made on a connection that is over,
  and a peer that died silently.
- `DownloadWindow`: the run as a whole is polled, and a cancelled one notices.
  A single condition suffices for the former, since every step makes progress
  and the semaphores never lose a permit. That a fetch returns is the same
  assumption as above.
- `MuxConnection`: callers, tasks, timers and the kernel of a connection that
  is up. The reader of a connection whose peer has died silently waits; the
  client's kernel gives up on the peer when it has sent something that nobody
  acknowledges, a request or the end of its side (`Unacknowledged`), and not
  otherwise. Nothing else is assumed of breaks; `Teardown` starts from the
  moment in which every caller is done.
- `TaskLifecycle`, `PeerSession`, `SelectionPaths` and `SnapshotCache` have safety
  properties only; users and owners are under no obligation.

### Refinements

- `ChunkPipeline` implements `SequentialHash` (`HashesSequentially`): whatever the
  order in which transfers end, each captured file is hashed as by a program
  that reads it from the first chunk to the last, and accepted after its last
  chunk only. What the hasher was fed is mapped to itself; every step of a
  transfer that feeds nothing is a stutter. Model-checked and proved.
- `MuxConnection` implements `RequestStreams` (`StreamsOfTheirOwn`): the caller of a
  request cannot tell the shared connection from one of its own. It receives its
  answer frame by frame, and succeeds with the whole of it only; a call is
  closed unheard only when the reader has ended. Model-checked and proved.

`FileDownload` has no abstract specification of its own: what a resumable
download promises is full of conditions (the conflict policy, the version, what
a power loss took), and its action properties state the promise with them.

## 4. Disagreements between the code and what is said of it

Each is a run in which TLC finds a behaviour of the code that contradicts a
comment, a message, the README or the user interface.

| run | what happens |
|---|---|
| `TaskLifecycle_two_runners` | `start` checks the map and inserts into it under two locks (86, 97); two resumes both pass the check |
| `FileDownload_torn_skip` | a file renamed without a sync and torn by a power loss is skipped under "skip" for ever (657, 835) |
| `ChunkPipeline_memory` | chunks in the out-of-order buffer hold no permit, so the buffer is bounded by the file and not by the configured memory (777) |

Observed without a run of its own; the properties are worded around these:
- Under "keep_both" the place of a file is chosen when its transfer begins (664)
  and renamed to at its end (835): a file the user creates there meanwhile is
  replaced. `KeepsForeignFiles` excepts names written since the run looked
  (`sinceLook`); the user writes in its run, and without the exception TLC finds
  it violated.
- Under "overwrite" the old file is removed (833) and the new one renamed (835)
  when all its chunks have been received, but nobody waits for the last write of
  a captured or single-chunk file. A power loss between both can leave neither
  file whole; the next run transfers what is missing. `ReplacementReady` and
  `InstalledFaithful` except writes outstanding, lost or late.
- When the database fails a run (317, 330, 347) nothing cancels its token: the
  chunk transfers it has spawned (727) go on, ask for frames, try again and
  write into the `.part` file, beside those of the next run if the user resumes
  (`Detach`). The handles they hold follow the file to its final name. What they
  write where the next run has been counts as late, which the properties except.
- The settings page says that the login start begins "分享与未完成任务", shares and
  unfinished tasks, in the background (`src/src/App.tsx` 460). Nothing resumes a
  task when the program starts.
- Under "keep_both" a further run looks for the content at the target only, and
  installs another copy of a file that is already there under a copy name.
  `NothingRequestedAgain` speaks of the target.
- A write of an ended run that comes after the next one has made the `.part` file
  shorter, because the shared file has become shorter, extends it again, with
  zeros in the gap (687, client.rs 200). `InstalledFaithful` and `DoneMeansStored`
  except what came late.
- The last write of a chunk is not flushed (client.rs 200): when it fails, nobody hears of
  it. A captured file, or one of a single chunk, is not read back and is
  reported as downloaded. `DoneMeansStored` is checked and proved with
  `MaxDisk = 0`; `InstalledFaithful` with failed writes, too, counts them as lost.
- A cache entry of one chunk is used whatever chunk size is asked for
  (fileops.rs 567): a file that fits into one chunk of both sizes is not hashed again.
- After a crash the status stays "downloading" or "preparing" and nothing resets
  it at the start of the program. The user can pause and then resume a task
  that is "downloading"; one that is "preparing" can only be cancelled.
  `NoSilentEnd` speaks of executions without a crash.
- `keep_both_path` (511, 916) looks at the disk, not at the other files of the
  manifest: a file renamed to a copy name and a file of the manifest with that
  very name replace one another, and both count. `CompletedMeansStored` is
  checked with copy names that are no names of the manifest, and proved under
  the hypothesis that no two files may end up under one name (`NamesApart`); with
  a copy of one file that is the name of another TLC finds it violated.
- A chunk requested after the reader task has cleared the map and ended is
  registered and never answered (client.rs 111, 126). Transfers have no
  timeout. So it is with a chunk requested of a peer that died without a word:
  the client has neither a keepalive nor a read timeout (client.rs 55-92), only
  the sharing side has (server.rs 80, 92-98). Once its request is acknowledged,
  `download_chunk` waits until the user pauses or cancels. `RequestsEnd` excepts
  both (`Forsaken`), `RunEnds` of `FileDownload` the latter.
- After a login that timed out while its AuthFinish was served, or after two
  logins that overlapped on one connection, client and connection may hold
  sessions of different shares. The next snapshot or listing is refused and the
  connection closes; the user connects again. `ControlAgrees` excepts both.
- On a system whose names may have a backslash, such a name is written with a
  separator: selecting it makes the client refuse the manifest, and inside a
  selected directory it may take the place of another file: `a\b` and `a/b` have one
  protocol path, `a\\b` and `a/b` two that `Path::components` reads alike, so that
  two files of one manifest have one place. A name with `\..\` in it has the
  manifest refused. `ManifestAccepted` and `ManifestComplete` except such names;
  `OnePlacePerFile` compares what the paths name.
- `resolve_shared_path` (fileops.rs 216-231) refuses a link at the selected path, but
  follows links above it that stay inside the share. When a parent of a selected
  directory has become such a link, what is walked is named from where it is
  (319), which `rebase_snapshot_manifest` finds outside the selection: the client
  refuses the whole manifest, and the task can no longer be resumed.
  `ManifestAccepted` excepts directories reached in this way (`strayed`); a
  selected file keeps its name (343).
- A listing is cut after 500 entries: the user interface asks for no more and
  the client drops `has_more`. Selecting the directory transfers all of it.

## 5. Assumptions

- `patient` (`TaskLifecycle`), chosen at the start: the user waits for a resume
  to return before the next one, and a cancelled runner has ended before the
  next is registered. Nothing in the code ensures it; `AtMostOneRunner`,
  `Controllable`, `CompletedIsQuiet` and `NoSilentEnd` say what
  holds then, and `TaskLifecycle_two_runners` what happens otherwise.
- `dbErrors`, chosen at the start, makes calls to SQLite fail at will; only
  `NoSilentEnd` needs it off.
- `UserNames` (`FileDownload`) bounds the names a user writes to; `MaxUser`, how
  often.
- `DownloadWindowAssumption`: with a buffer at all, the share of every item
  holds a small file. The code has 4 KiB files, at most 64 items and at least
  1 MiB of buffer, of which half is 512 KiB. A batch of the client is no larger
  than the protocol allows. A manifest lists a file once, and `keep_both_path`
  always has a candidate: after 9999 numbers a name with a random part, taken
  without a look (`KeepBothPath`). `Resumable`, the files that may have confirmed
  chunks and therefore go alone, is any set of them; the run has one.
- `SelectionPathsAssumption`: paths are sequences of names and names sequences of
  strings; with a path the directories above it are paths; no file is called "",
  "." or "..". `Targets` gives each place the paths a link there may lead to; one
  that is no place is outside.
- `MuxConnectionAssumption`: the frame cut off by a break, `Torn`, is no request.
  `FileDownloadAssumption`: contents are sequences of units and "no file" is none
  of them; there are more copy names than runs and files of the user, as
  `keep_both_path` tries them without end.
- The remaining `ASSUME`s give the constants their types.

## 6. Proofs

TLAPS checks the following for all values of the constants that satisfy the
assumptions. `HashedInOrder`, `BufferExact` and `CaptureSuffices` are proved and in no
run: `HashesSequentially` shows there what they are for.

`TaskLifecycleProofs`
- `TypeCorrect`: type correctness, one step per group of actions.
- `ActiveIsAlwaysLive`: `ActiveIsLive` alone is not inductive, since a run could
  be registered with a token cancelled before; `ActiveInv` adds `FreshToken`, a
  token is cancelled through the map only.
- `PatientOneRunner`: `Spec => [](AtMostOneRunner /\ Controllable)`; both
  properties have the premise `patient`.
  `PatientInv` adds that at most one command is between its snapshot and its
  registration (`OneCommand`) and that the check of `start` still holds when
  the entry is inserted (`CheckHolds`). The old runner that removes the entry
  of a newer one is excluded because there is only one.

- `CompletedMeansQuiet`: the status "completed" is written by the only runner there
  is, by `PatientInv`, when it has stopped to transfer.
- `RunsEndWithStatus`: `SilentInv` adds to `NoSilentEnd` that a status which
  promises more to come has a live run behind it, and that a runner about to go
  has written how it ended. It has to say that the first run is begun first: it
  alone writes "preparing", and it would not do beside another one.

`FileDownloadProofs`
- `DownloadTypeCorrect`: `Basic` is the type invariant, that a run at work has a
  `.part` file (`PartThere`) and a manifest (`ManGiven`), and a counting argument
  (`RoomInv`): a run takes one copy name at most, so there is always a free one
  and the `CHOOSE` of `keep_both_path` means something. `DetachedInv`: transfers that
  outlived their run have handles of their own, of an earlier run or of none at
  work, so that what they write counts as late for the run at work.
- `InstalledIsFaithful`: the bitmap, the chunks under transfer, the writes in
  flight and the installed files are tied together by `FaithInv`.
  `TransferInv`: what each transfer has received or kept is `Good` in the `.part`
  file, that is, reads right, is in flight with the right unit, or is known to
  be damaged; and the file is as long as the manifest. `HandleInv`: handles are never
  used twice, so a write of an older run or attempt is known as late.
  `WriteInv`: a write of a handle in use goes where its chunk is, with the last
  unit received. `StageInv`: which transfers there can be at which stage.
  `InstalledInv`: the same for the files renamed, whose outstanding writes follow
  them. The arithmetic of chunks (`SpansDisjoint`, `SpansCover`) says that each
  position belongs to one chunk. Then the bits of the database are trusted
  because they are validated when the file is opened, and only because of that:
  no part of the invariant speaks of the bitmap.
- `TargetGivenUpForReplacement`: a target goes in `RemoveExisting` only (`TargetGoes`),
  where by `FaithInv` the `.part` file holds every position but those with a write
  outstanding, lost or late. It is not a theorem about durability (section 4).
- `StoredIsNotRequested`: by `RowInv`, the row is that of the last manifest and a
  confirmed chunk of it has its bit.
- `ForeignFilesAreKept`, whatever the user writes: `ForeignInv`, the name to install
  under does not exist while the run is at work unless it was written since the
  run looked, and what is in flight, unsynced or open in a detached transfer
  outside the `.part` file belongs to an installed file. The exception is in the
  property, for the window of section 4.
- `DownloadedIsStored`, for `MaxDisk = 0` and policies other than "skip":
  `LostInv`, a lost position of the `.part` file is written again before its chunk
  counts as received. Section 4 says what happens without the hypotheses.

`ChunkPipelineProofs`
- `PipelineTypeCorrect`, `PermitsAreConserved`: `PermitInv` is the type invariant, the
  finiteness of the holders and the sum. The lemmas `OneMore`, `OneLess` and
  `SameHolders` turn every action into the change of one holder; when the
  downloads are dropped the permits in results not joined come back together.
- `HashFedInOrder`, `CaptureIsComplete`: `HashInv` relates the buffer, the
  next index and what is joined, and adds that between two joins the buffer is
  drained (`Drained`), that only a failed chunk of a live file is discarded
  without an error (`DiscardedErred`), that chunks before the next index are
  joined (`HashedJoined`), and that only captured files drain
  (`DrainsCapture`). When every chunk is joined a drained buffer must be empty.
- `RefinesSequentialHash`: every step maps to a step of `SequentialHash` or a
  stutter. Under `HashInv`, draining a chunk is `Feed`, since the chunk drained is
  the next one; the end of a file after verification is `Accept`, since by
  `CaptureIsComplete`'s argument nothing is missing; failures are `GiveUp`, and the
  ends of the run are `Complete` and `Fail`.
- `PipelineIsNeverBlocked`: a file waits for transfers of its own only, a transfer for
  a permit, and a permit is held by a transfer that can go on or by a result the
  run will join. `Standing` says how far the transfers of a file are, by where the
  file is, so that a file which waits has one to wait for. After the run, a permit
  not returned belongs to a transfer that runs.
- `PipelineStepsEnd`: `StepsLeft` counts the stages before transfers and files, the
  chunks to hash, the turns of the drain loop, the end and the cancellation. To
  join a captured chunk gives the drain loop a turn, which is why a chunk not
  joined counts as one. That `Files` is finite is assumed: a manifest is.

`MuxConnectionProofs`
- `ConnectionTypeCorrect`: the type includes the capacities of all channels. It
  needs that a request is written once and served once (`OnceInv`) and that
  serving ends with the last frame of the answer (`SentInv`).
- `NoEntryIsOrphaned`: `EntriesInv`, while the connection works an entry has a
  caller that has still to send, or was dropped, or the end of its answer is to
  come: it is served, or its request is on the way, or a closing frame is in the
  wire, in the outgoing channel or with the reader.
- `ConnectionIsNeverBlocked`: when no task can step, the reader is not at a full
  channel, since its caller would receive; so nothing is in the wire, in the
  outgoing channel or being served (`IdleConnection`). A call that waits would have
  its answer to come by `EntriesInv`, and nothing is left that could be it. So a call
  that still waits then is on a broken connection, and has a timer or is
  `Forsaken`: while the connection works no call needs its time-out to end.
  `TaskInv` says what a broken connection has lost and what the tasks are at, the
  reader that has not been told of the break among them.
- `ConnectionStepsEnd`: `StepsLeft` weighs what is before the calls and their
  answers, the frames by how far they have come, and the ends of the tasks, so
  that a step weighs more than what it hands on. All but the queues belongs to
  one request (`RequestMoves`). That `Requests` is finite is assumed: their ids are
  numbers of 64 bits.
- `RequestsDoNotMix`: the refinement. By `StreamInv` the frames of a live request in
  its channel, with the reader, in the wire and in the server's channel carry
  consecutive numbers (`Line`), whatever frames of others lie between them;
  nothing follows a frame that closes an answer, and the entry is removed behind
  such a frame only (`ClosedLast`). A frame that reaches its caller is then
  `RequestStreams`' next one; a channel that closes unheard has lost its reader;
  every other step is a stutter for every request.

`SnapshotCacheProofs`
- `SnapshotTypeCorrect`; that what is asked for is clamped (`ChunkSizeClamped`) and
  the arithmetic of chunks are its lemmas.
- `ManifestsOfOneVersion`, `CacheIsSound`, `NothingHashedTwice` rest on
  `SnapshotInv`. The time of an edit identifies the version it made
  (`HistoryInv`); an entry of the cache (`CacheInv`) and of a transaction not yet
  committed (`BuildInv`) is the hash of a version that had this size and time; and a
  file that is being read was, up to where it has been read, the version whose
  metadata was taken, or has another time by now (`WorkInv`), which the second
  look finds. A manifest is stored when every file has been looked at
  (`StoredInv`).

`DownloadWindowProofs`, for any manifest, sizes, buffer and number of streams:
- `BatchesFitBudget`: batches of the target size, as many as the window has
  items, fit into the budget whatever the settings are, in spite of the clamp
  from below.
- What `build_download_work` makes (`BuildDownloadWorkIsGood`): every file of the
  manifest is in exactly one item and in one place of it (`Apart`, `Covers`), the items count as
  many files as the manifest, and every batch keeps the limits of its own side and
  of the other (`GoodItem`). `split` is a recursive function. That it exists and is
  what its equation says (`Iterated`), and that each file keeps the split good
  (`SplitStep`), goes from one number to the next by `UpTo`, which comes from the
  well-founded order on subsets of a finite set: the induction theorems of the library take an
  operator, `WFMin` does not.
- `IInv`, the inductive invariant. `Still`: the work is good, and a file is
  only as far as its item. `Counts`: a stream permit is free or held by an
  item that fetches; a file-I/O permit is free, held by a single file from its
  lookup to its end, or by a file of a batch that is being written; at most
  `FileLimit` items are active; `completed` is the sum of the files of the items
  that are done. `Asked`: what is fetched is not nothing. Neither `TypeOK` nor
  `BufferWithinBudget` is inductive: that `fileIo + 1` stays within the limit is
  known only when all holders are, and the bytes in memory are bounded by the
  window and the split together.
- `WindowTypeCorrect`, `BufferIsWithinBudget` and `BatchesAreAccepted` follow from
  `IInv`.
- `CompletedIsStored`, where `NamesApart`: `Placed`, a file changes the destination
  under its own names only (`OwnPlaces`), and one that was looked up has a place
  or is there already, or was skipped (`LookedUp`). Late operations of
  a failed run are included: they complete or remove, but no file that is done.
- `RunIsNeverBlocked`: if the first item not begun waits for the window, an item is
  active; who waits for a permit waits for one who holds it, and every holder can
  step: a single file holds its file-I/O permit through its transfer, but those
  who hold a stream permit wait for nothing. `Underway`: the files of a batch that
  was fetched are on their way. A cancelled batch stops between two lookups and
  has to fail (`MustFail`).
- `StepsBringTheEnd`: `StepsLeft` counts the stages before items and files, the
  names to look up, the cancellation and the end.

`PeerSessionProofs`, for any number of clients, logins, runs, restarts and edits;
the inductive invariant is `IInv`, which TLC has found to hold, too:
- `SessionTypeCorrect`: one step per action. That a connection that is not open is
  bare is part of the type; `Placed`, a run that has begun has a client, is needed
  where `OpenData` reads the session of that client.
- `StoredSessionsKnown`: `SessionsKnown` is not inductive. `BornKnown` says of every
  login, stored or not, that its session lives as long as the process in which
  it was opened.
- `AttachedAreServed`: the session is what attaching needs, the snapshot what it
  is for, and nothing in the code relates the two. The invariant does: a client
  is `Known` while its connection is open or a session of its own is left, and
  for a `Known` client the sharing side has the snapshots of its runs that got as
  far as a manifest (`HasSnapshot`). A restart ends both at once; a new login is made on
  a new client, so that the old one never becomes known again. `SessionOwned` and
  `Owned` (requests, logins and stored sessions belong to the client of their
  connection) make this inductive.
- `ManifestsOfShare`: the share of the session is compared when the snapshot is
  made, and the snapshot of a run is made once.

- `ControlEndsAgree`: the invariant `AInv`, checked with TLC before, speaks of
  connections that are `Quiet`, on which no login timed out and no two overlapped.
  There a login is the only one under way (`OneInFlight`); at most one request of
  a login waits, and its caller waits for just that answer (`Answered`); and the
  active session of the server is that of the login whose proof is on its way
  back, or the one the client has stored (`Agree`). A time-out makes the
  connection unquiet for good, which is why the property excepts it.

`SelectionPathsProofs`, for any shared directory, reserved names, selection, edits and
snapshots; the inductive invariant `IInv` has been checked with TLC on the run, too:
- `PlacesUnique`: `Stored` says that what was ever placed belongs to the selection
  and is where its path and the selection put it; the selection does not change
  after the first snapshot (`Fixed`), and the base depends on nothing else, so
  what an earlier run stored stays where it would be stored now. The rest is a
  lemma about the conversions (`PlacesApart`): the base leads everything
  that belongs to the selection (`BaseLeads`; that a longest common prefix
  exists is shown from `LeastOf`), so cutting it off loses nothing; and names are
  encoded apart (`NamesApart`), because what looks encoded is encoded again.
- `ManifestsAccepted`: by `Walked` every offered path is that of a file below a
  selected one, whatever was edited since, unless the walk has `strayed`. A link
  on the way to a selected path is followed (`Located`) to a place which is below
  the selection or not; `Rooted` says that what exists is in directories, so that a
  walk meets no link but at its end; `Named`, that what is offered has the name of
  a place, and of one below the selection unless the walk has strayed. A selected path without backslashes
  leads the components of what is below it (`PlainSelectionKept`): `SplitName` leaves
  its names alone, and of a concatenation the beginning is known from the
  beginning of its parts (`FlattenStart`), however the rest was split.
- `ManifestsComplete`: where no link is on the way a selected path is where it says
  (`LocatedDirect`), and below a directory that is walked there are directories
  all the way (`OrdinaryDirect`); by `Swept` the map holds what is below the paths scanned so
  far; a scan puts what is below its path over it, which may be there already.
- `SplitName` and `FlattenSeq` are recursive functions; what they compute goes from one
  position to the next by `Iterated` and `UpTo`, as in `DownloadWindowProofs`.

Only model-checked: the liveness properties, `RunEnds` of three modules, `PermitsReturn`,
`RequestsEnd` and `Teardown`, since fairness and ENABLED are outside the
prover. Every other property of a passing run is proved. For the three modules
where tasks wait for each other, `DownloadWindow`, `ChunkPipeline` and `MuxConnection`,
what the liveness needs besides fairness is proved for all constants, too: until
the end somebody can step, or the peer is silent (`...NeverBlocked`), and every step makes a natural number
smaller (`...End`). "Can step" is spelled out there as the guards of the actions,
`CanStep`; that these are ENABLED of the actions that `FairSpec` is fair to, TLC has confirmed in
every state of the modules' runs.

## 7. Plan

Done: the eight modules above, in the order `FileDownload`, `ChunkPipeline`,
`TaskLifecycle`, `MuxConnection`, `DownloadWindow`, `SnapshotCache`, `PeerSession`,
`SelectionPaths`; the two abstract specifications and that they are implemented; the
proofs of all safety properties that the passing runs check; and, for the three
modules with permits, channels and queues, that nobody is blocked and that steps
run out.

Next proofs: the same for `FileDownload`, whose runs end by a bounded number of
attempts, and for `TaskLifecycle`.

A composition of `TaskLifecycle` with the transfers of two overlapping runs on one
`.part` file would say what happens after `TaskLifecycle_two_runners`; what the
code promises there is that it does not occur.

## 8. Not modelled

- The OPAQUE exchange: a library, and only its verdict matters here.
- The byte layout of frames and messages: encoding without state. The limits
  appear as bounds, the half-written frame as `Torn`.
- Discovery: mDNS in a library, and a list for the user interface.
- Settings, saved peers and saved passwords: single-row reads and writes. Shares
  are rows of `PeerSession`.
- Task rows: progress counters, speeds, errors shown to the user and file lists.
- A destination that ignores case: two names of a manifest that differ in case
  are one file there.
- The user interface: only which buttons it offers, as guards of `Begin` and
  `Issue`.
- The number of hash workers and progress reports: files are hashed in any
  order and at the same time in the model.
