---------------------------- MODULE SnapshotCache ----------------------------
(***************************************************************************)
(* How the sharing side prepares a snapshot (fileops.rs, create_snapshot)  *)
(* while the shared files are edited and other connections prepare theirs, *)
(* and the hash cache they have in common (db.rs).                         *)
(*                                                                         *)
(* A file is a sequence of units; a BLAKE3 hash is the sequence it was     *)
(* computed from.  An edit changes one unit, the length, or the existence  *)
(* of a file; replacing a file is an edit like any other, so a reader may  *)
(* see more mixtures here than it can on a file system.                    *)
(***************************************************************************)
EXTENDS Integers, Sequences, FiniteSets

CONSTANTS
  Files,       \* the selected files
  Handlers,    \* connections that ask for snapshots
  Rounds,      \* snapshots each of them asks for
  MaxLen,      \* longest file, in units
  MaxEdits,    \* edits of the files
  Asked,       \* chunk sizes a peer may ask for, 0 for the default
  DefaultChunk, MinChunk, MaxChunk   \* 8 MiB, 1 MiB and 64 MiB

ASSUME SnapshotCacheAssumption ==
  /\ Rounds \in Nat /\ MaxLen \in Nat /\ MaxEdits \in Nat /\ Asked \subseteq Nat
  /\ MinChunk \in Nat \ {0} /\ DefaultChunk \in Nat /\ MaxChunk \in Nat
  /\ MinChunk <= DefaultChunk /\ DefaultChunk <= MaxChunk

VARIABLES
  file,       \* what is on the disk of the sharing side
  history,    \* every version each file has had
  edits,      \* number of edits, which also dates them
  cache,      \* the table hash_cache
  build,      \* the snapshot each handler is preparing
  work,       \* the progress of each file in it
  snapshots,  \* manifests handed to the peers, with the chunk size in force
  rounds      \* snapshots each handler has asked for

vars == <<file, history, edits, cache, build, work, snapshots, rounds>>

Missing == [data |-> <<>>, mtime |-> -1]
NoEntry == [size |-> 0, mtime |-> -1, full |-> <<>>, chunks |-> <<>>, chunkSize |-> 0]
NoWork == [st |-> "todo", size |-> 0, mtime |-> 0, entry |-> NoEntry]
Idle == [st |-> "idle", chunkSize |-> MinChunk, cache |-> [f \in Files |-> NoEntry]]

Lesser(m, n) == IF m <= n THEN m ELSE n

(* hash_file: the hashes of consecutive chunks, each with its offset. *)
Chunks(data, k) ==
  [i \in 1 .. (Len(data) + k - 1) \div k |->
     [offset |-> (i - 1) * k, data |-> SubSeq(data, (i - 1) * k + 1, Lesser(i * k, Len(data)))]]

(* Where the i-th chunk ends. *)
End(chunks, i) == IF i = 0 THEN 0 ELSE chunks[i].offset + Len(chunks[i].data)

(* Mutation: the last chunk has to be a whole one too. *)
CacheMatchesWhole(entry, size, mtime, k) ==
  /\ entry.size = size /\ entry.mtime = mtime
  /\ \A i \in DOMAIN entry.chunks : Len(entry.chunks[i].data) = k
  /\ End(entry.chunks, Len(entry.chunks)) = size

(* cache_matches: an entry of the same size and time whose chunks follow one
   another, have the asked size, the last of them excepted, and cover the
   file. *)
CacheMatches(entry, size, mtime, k) ==
  /\ entry.size = size /\ entry.mtime = mtime
  /\ \A i \in DOMAIN entry.chunks :
       /\ entry.chunks[i].offset = End(entry.chunks, i - 1)
       /\ entry.chunks[i].data # <<>>
       /\ End(entry.chunks, i) < size => Len(entry.chunks[i].data) = k
  /\ End(entry.chunks, Len(entry.chunks)) = size
  /\ size = 0 \/ entry.chunks # <<>>

(* Mutation: a size of zero is not replaced by the default. *)
ChunkSizeUnclamped(asked) == Lesser(asked, MaxChunk)

ChunkSize(asked) ==
  LET k == IF asked = 0 THEN DefaultChunk ELSE asked
  IN IF k < MinChunk THEN MinChunk ELSE Lesser(k, MaxChunk)

Init ==
  /\ file \in [Files -> {[data |-> [i \in 1 .. n |-> 0], mtime |-> 0] : n \in 0 .. MaxLen}]
  /\ history = [f \in Files |-> {file[f]}]
  /\ edits = 0
  /\ cache = [f \in Files |-> NoEntry]
  /\ build = [h \in Handlers |-> Idle]
  /\ work = [h \in Handlers |-> [f \in Files |-> NoWork]]
  /\ snapshots = {} /\ rounds = [h \in Handlers |-> 0]

-----------------------------------------------------------------------------
(* A user or a program edits a shared file; the edit gives it a new time. *)
Edit(f, data) ==
  /\ edits < MaxEdits
  /\ edits' = edits + 1
  /\ file' = [file EXCEPT ![f] = [data |-> data, mtime |-> edits + 1]]
  /\ history' = [history EXCEPT ![f] = @ \cup {file'[f]}]
  /\ UNCHANGED <<cache, build, work, snapshots, rounds>>

WriteUnit(f) == \E i \in DOMAIN file[f].data : Edit(f, [file[f].data EXCEPT ![i] = edits + 1])
Extend(f) == Len(file[f].data) < MaxLen /\ Edit(f, Append(file[f].data, edits + 1))
Shorten(f) == file[f].data # <<>> /\ Edit(f, SubSeq(file[f].data, 1, Len(file[f].data) - 1))

Delete(f) ==
  /\ edits < MaxEdits /\ file[f] # Missing
  /\ edits' = edits + 1
  /\ file' = [file EXCEPT ![f] = Missing]
  /\ UNCHANGED <<history, cache, build, work, snapshots, rounds>>

-----------------------------------------------------------------------------
(* CreateSnapshotRequest: the whole cache is read before anything else. *)
Request(h, asked) ==
  /\ build[h].st = "idle" /\ rounds[h] < Rounds
  /\ build' = [build EXCEPT ![h] = [st |-> "stat", chunkSize |-> ChunkSize(asked),
                                    cache |-> cache]]
  /\ work' = [work EXCEPT ![h] = [f \in Files |-> NoWork]]
  /\ rounds' = [rounds EXCEPT ![h] = @ + 1]
  /\ UNCHANGED <<file, history, edits, cache, snapshots>>

(* The metadata of every file is taken before the first one is hashed. *)
Stat(h, f) ==
  /\ build[h].st = "stat" /\ work[h][f].st = "todo" /\ file[f] # Missing
  /\ work' = [work EXCEPT ![h][f] = [NoWork EXCEPT !.st = "stated", !.size = Len(file[f].data),
                                                   !.mtime = file[f].mtime]]
  /\ UNCHANGED <<file, history, edits, cache, build, snapshots, rounds>>

AllStated(h) ==
  /\ build[h].st = "stat" /\ \A f \in Files : work[h][f].st = "stated"
  /\ build' = [build EXCEPT ![h].st = "hash"]
  /\ UNCHANGED <<file, history, edits, cache, work, snapshots, rounds>>

Cached(h, f) ==
  CacheMatches(build[h].cache[f], work[h][f].size, work[h][f].mtime, build[h].chunkSize)

UseCached(h, f) ==
  /\ build[h].st = "hash" /\ work[h][f].st = "stated" /\ Cached(h, f)
  /\ work' = [work EXCEPT ![h][f].st = "cached", ![h][f].entry = build[h].cache[f]]
  /\ UNCHANGED <<file, history, edits, cache, build, snapshots, rounds>>

OpenFile(h, f) ==
  /\ build[h].st = "hash" /\ work[h][f].st = "stated" /\ ~Cached(h, f) /\ file[f] # Missing
  /\ work' = [work EXCEPT ![h][f].st = "hashing"]
  /\ UNCHANGED <<file, history, edits, cache, build, snapshots, rounds>>

(* hash_file reads on until it finds the end; the file may change under it. *)
Read(h, f) == work[h][f].entry.full
ReadOn(h, f) ==
  /\ build[h].st = "hash" /\ work[h][f].st = "hashing"
  /\ Len(Read(h, f)) < Len(file[f].data)
  /\ work' = [work EXCEPT ![h][f].entry.full = Append(@, file[f].data[Len(@) + 1])]
  /\ UNCHANGED <<file, history, edits, cache, build, snapshots, rounds>>

EndOfFile(h, f) == /\ build[h].st = "hash" /\ work[h][f].st = "hashing"
                   /\ Len(Read(h, f)) >= Len(file[f].data)

Entry(h, f, mtime) ==
  [size |-> work[h][f].size, mtime |-> mtime, full |-> Read(h, f),
   chunks |-> Chunks(Read(h, f), build[h].chunkSize), chunkSize |-> build[h].chunkSize]

Finish(h, f, same, mtime) ==
  /\ EndOfFile(h, f)
  /\ IF same
     THEN /\ work' = [work EXCEPT ![h][f].st = "hashed", ![h][f].entry = Entry(h, f, mtime)]
          /\ UNCHANGED build
     ELSE build' = [build EXCEPT ![h] = Idle] /\ UNCHANGED work
  /\ UNCHANGED <<file, history, edits, cache, snapshots, rounds>>

(* Mutations: the file is not looked at again, or only for its time now. *)
HashedUnchecked(h, f) == Finish(h, f, file[f] # Missing, work[h][f].mtime)
HashedRestamped(h, f) == Finish(h, f, Len(file[f].data) = work[h][f].size, file[f].mtime)

(* At the end the file must still have the size and the time it had; its entry
   is made then, and otherwise the whole request fails. *)
Hashed(h, f) == Finish(h, f, /\ Len(file[f].data) = work[h][f].size
                             /\ file[f].mtime = work[h][f].mtime, work[h][f].mtime)

(* A file has gone: the request fails, the other files' hashes are lost. *)
BuildFails(h, f) ==
  /\ file[f] = Missing
  /\ \/ build[h].st = "stat" /\ work[h][f].st = "todo"
     \/ build[h].st = "hash" /\ work[h][f].st = "stated" /\ ~Cached(h, f)
  /\ build' = [build EXCEPT ![h] = Idle]
  /\ UNCHANGED <<file, history, edits, cache, work, snapshots, rounds>>

(* store_hash_cache: one transaction replaces the entries that were computed. *)
StoreCache(h) ==
  /\ build[h].st = "hash" /\ \A f \in Files : work[h][f].st \in {"cached", "hashed"}
  /\ cache' = [f \in Files |-> IF work[h][f].st = "hashed" THEN work[h][f].entry ELSE cache[f]]
  /\ build' = [build EXCEPT ![h].st = "stored"]
  /\ UNCHANGED <<file, history, edits, work, snapshots, rounds>>

(* The manifest takes size and time from the metadata, the hashes from the
   entry. *)
Publish(h) ==
  /\ build[h].st = "stored"
  /\ snapshots' = snapshots \cup
       {[file |-> f, size |-> work[h][f].size, mtime |-> work[h][f].mtime,
         full |-> work[h][f].entry.full, chunks |-> work[h][f].entry.chunks,
         chunkSize |-> build[h].chunkSize] : f \in Files}
  /\ build' = [build EXCEPT ![h] = Idle]
  /\ UNCHANGED <<file, history, edits, cache, work, rounds>>

Next ==
  \/ \E f \in Files : WriteUnit(f) \/ Extend(f) \/ Shorten(f) \/ Delete(f)
  \/ \E h \in Handlers : \/ \E asked \in Asked : Request(h, asked)
                         \/ AllStated(h) \/ StoreCache(h) \/ Publish(h)
                         \/ \E f \in Files : \/ Stat(h, f) \/ UseCached(h, f) \/ OpenFile(h, f)
                                             \/ ReadOn(h, f) \/ Hashed(h, f) \/ BuildFails(h, f)

Spec == Init /\ [][Next]_vars

-----------------------------------------------------------------------------
Units == 0 .. MaxEdits
Times == {-1} \cup Units
Data == {d \in Seq(Units) : Len(d) <= MaxLen}
ChunkSizes == MinChunk .. MaxChunk
File == [data : Data, mtime : Times]
ChunkHash == [offset : Nat, data : Data]
CacheEntry == [size : 0 .. MaxLen, mtime : Times, full : Data, chunks : Seq(ChunkHash),
               chunkSize : {0} \cup ChunkSizes]

(* Type invariant. *)
TypeOK ==
  /\ file \in [Files -> File] /\ history \in [Files -> SUBSET File]
  /\ edits \in 0 .. MaxEdits
  /\ cache \in [Files -> CacheEntry]
  /\ build \in [Handlers -> [st : {"idle", "stat", "hash", "stored"}, chunkSize : ChunkSizes,
                             cache : [Files -> CacheEntry]]]
  /\ work \in [Handlers -> [Files -> [st : {"todo", "stated", "cached", "hashing", "hashed"},
                                      size : 0 .. MaxLen, mtime : Times, entry : CacheEntry]]]
  /\ snapshots \subseteq [file : Files, size : 0 .. MaxLen, mtime : Times, full : Data,
                          chunks : Seq(ChunkHash), chunkSize : ChunkSizes]
  /\ rounds \in [Handlers -> 0 .. Rounds]

(* The size, the time and the hashes are those of one version of the file. *)
Described(m, f) ==
  \E v \in history[f] :
    /\ m.full = v.data /\ m.size = Len(v.data) /\ m.mtime = v.mtime
    /\ \A i \in DOMAIN m.chunks :
         /\ m.chunks[i].offset = End(m.chunks, i - 1)
         /\ m.chunks[i].data = SubSeq(v.data, m.chunks[i].offset + 1, End(m.chunks, i))
    /\ End(m.chunks, Len(m.chunks)) = Len(v.data)

(* A manifest describes one version that the file really had, its size, time,
   whole hash and chunk hashes together: never a mixture of two, whether it
   was read under an edit or taken from the cache. *)
ManifestOfOneVersion == \A m \in snapshots : Described(m, m.file)

(* An entry of the cache that would be taken for the file as it is now holds
   the hashes of the file as it is now, whoever stored it and however late. *)
CacheSound ==
  \A f \in Files :
    /\ cache[f] # NoEntry /\ file[f] # Missing
    /\ cache[f].size = Len(file[f].data) /\ cache[f].mtime = file[f].mtime
    => cache[f].full = file[f].data

(* A file that has not changed since it was hashed with the same chunk size is
   not hashed again. *)
UnchangedNotHashed ==
  \A h \in Handlers, f \in Files :
    work[h][f].st = "hashing" =>
      LET entry == build[h].cache[f]
      IN ~ /\ entry # NoEntry /\ entry.chunkSize = build[h].chunkSize
           /\ entry.size = work[h][f].size /\ entry.mtime = work[h][f].mtime

=============================================================================
