------------------------- MODULE SnapshotCacheProofs -------------------------
(***************************************************************************)
(* Proofs, for any number of files, connections and edits, that a manifest *)
(* describes one version of each file, that the cache is never wrong about *)
(* the file it is consulted for, and that a file that has not changed is   *)
(* not hashed again.                                                       *)
(***************************************************************************)
EXTENDS SnapshotCache, TLAPS

LEMMA Sizes ==
  /\ MinChunk \in Nat \ {0} /\ DefaultChunk \in Nat /\ MaxChunk \in Nat
  /\ MinChunk <= DefaultChunk /\ DefaultChunk <= MaxChunk
  /\ MaxLen \in Nat /\ MaxEdits \in Nat /\ Rounds \in Nat /\ Asked \subseteq Nat
  BY SnapshotCacheAssumption

(* Whatever chunk size a peer asks for, the one in force is within the limits. *)
LEMMA ChunkSizeClamped == ASSUME NEW asked \in Asked PROVE ChunkSize(asked) \in ChunkSizes
  BY Sizes DEF ChunkSize, ChunkSizes, Lesser

-----------------------------------------------------------------------------
(* Arithmetic of chunks: n chunks of k units reach to the end of a file of
   len units, n - 1 do not. *)
LEMMA ChunkCount ==
  ASSUME NEW len \in Nat, NEW k \in Nat \ {0}, NEW n, n = (len + k - 1) \div k
  PROVE  /\ n \in Nat /\ len <= n * k
         /\ n > 0 => (n - 1) * k < len
<1> DEFINE m == len + k - 1
<1>1. m \in Nat
  OBVIOUS
<1>2. n \in Nat /\ n * k <= m /\ m < (n + 1) * k
  <2> HIDE DEF m
  <2>1. m \div k \in Nat /\ (m \div k) * k <= m /\ m < ((m \div k) + 1) * k
    BY <1>1
  <2> QED
    BY <2>1 DEF m
<1>3. (n + 1) * k = n * k + k /\ (n - 1) * k = n * k - k /\ n * k \in Nat
  BY <1>2
<1> QED
  BY <1>2, <1>3

LEMMA TimesMonotone ==
  ASSUME NEW i \in Nat, NEW j \in Nat, i <= j, NEW k \in Nat
  PROVE  i * k <= j * k /\ i * k \in Nat /\ j * k \in Nat /\ (i + 1) * k = i * k + k
  OBVIOUS

(* The i-th chunk of some data: it begins within the data, where the one before
   it ends. *)
LEMMA ChunkBounds ==
  ASSUME NEW data \in Data, NEW k \in Nat \ {0}, NEW i \in DOMAIN Chunks(data, k)
  PROVE  /\ i \in Nat \ {0} /\ (i - 1) * k \in Nat /\ (i - 1) * k < Len(data)
         /\ i * k = (i - 1) * k + k
         /\ i < Len(Chunks(data, k)) => i * k < Len(data)
         /\ i = Len(Chunks(data, k)) => Len(data) <= i * k
<1> DEFINE n == (Len(data) + k - 1) \div k
<1>1. Len(data) \in Nat
  BY DEF Data
<1>2. n \in Nat /\ Len(data) <= n * k /\ (n > 0 => (n - 1) * k < Len(data))
  BY <1>1, ChunkCount
<1>3. DOMAIN Chunks(data, k) = 1 .. n /\ Len(Chunks(data, k)) = n
  <2> HIDE DEF n
  <2>1. Chunks(data, k) = [j \in 1 .. n |->
          [offset |-> (j - 1) * k, data |-> SubSeq(data, (j - 1) * k + 1, Lesser(j * k, Len(data)))]]
    BY DEF Chunks, n
  <2> QED
    BY <1>2, <2>1
<1> HIDE DEF n
<1>4. i \in 1 .. n
  BY <1>3
<1>5. (i - 1) * k <= (n - 1) * k /\ (i - 1) * k \in Nat /\ i * k = (i - 1) * k + k
  <2>1. i - 1 \in Nat /\ n - 1 \in Nat /\ i - 1 <= n - 1
    BY <1>2, <1>4
  <2> DEFINE j == i - 1
             m == n - 1
  <2>2. j * k <= m * k /\ j * k \in Nat /\ (j + 1) * k = j * k + k
    <3>1. j \in Nat /\ m \in Nat /\ j <= m
      BY <2>1
    <3> HIDE DEF j, m
    <3> QED
      BY <3>1, TimesMonotone
  <2>3. j + 1 = i
    BY <1>4
  <2> QED
    BY <2>2, <2>3
<1>6. ASSUME i < n PROVE i * k <= (n - 1) * k
  <2>1. n - 1 \in Nat /\ i <= n - 1
    BY <1>2, <1>4, <1>6
  <2> DEFINE m == n - 1
  <2>2. i * k <= m * k
    <3>1. m \in Nat /\ i <= m /\ i \in Nat
      BY <1>4, <2>1
    <3> HIDE DEF m
    <3> QED
      BY <3>1, TimesMonotone
  <2> QED
    BY <2>2
<1>7. n > 0 /\ (n - 1) * k \in Int /\ i * k \in Int
  <2>1. n - 1 \in Int /\ i \in Int
    BY <1>2, <1>4
  <2> QED
    BY <1>2, <1>4, <2>1
<1> QED
  BY <1>1, <1>2, <1>3, <1>4, <1>5, <1>6, <1>7

LEMMA ChunkOf ==
  ASSUME NEW data \in Data, NEW k \in Nat \ {0}, NEW i \in DOMAIN Chunks(data, k)
  PROVE  /\ Chunks(data, k)[i].offset = (i - 1) * k
         /\ Chunks(data, k)[i].data = SubSeq(data, (i - 1) * k + 1, Lesser(i * k, Len(data)))
         /\ Chunks(data, k)[i].data \in Data
         /\ Len(Chunks(data, k)[i].data) = Lesser(i * k, Len(data)) - (i - 1) * k
         /\ End(Chunks(data, k), i) = Lesser(i * k, Len(data))
         /\ Lesser(i * k, Len(data)) > (i - 1) * k
<1> DEFINE from == (i - 1) * k
           to == Lesser(i * k, Len(data))
           part == SubSeq(data, from + 1, to)
<1>1. /\ Chunks(data, k)[i] = [offset |-> from, data |-> part]
  BY DEF Chunks
<1>2. from \in Nat /\ to \in Nat /\ from < to /\ to <= Len(data) /\ i # 0
  BY ChunkBounds DEF Lesser, Data
<1> HIDE DEF from, to
<1>3. part \in Data /\ Len(part) = to - from
  <2>1. data \in Seq(Units) /\ Len(data) <= MaxLen /\ MaxLen \in Nat
    BY Sizes DEF Data
  <2>2. part \in Seq(Units) /\ Len(part) = to - from
    BY <1>2, <2>1
  <2>3. to - from <= MaxLen
    BY <1>2, <2>1
  <2> QED
    BY <2>2, <2>3 DEF Data
<1>4. End(Chunks(data, k), i) = from + Len(part)
  BY <1>1, <1>2 DEF End
<1>5. from + Len(part) = to
  BY <1>2, <1>3
<1>6. /\ Chunks(data, k)[i].offset = from /\ Chunks(data, k)[i].data = part
      /\ part \in Data /\ Len(part) = to - from /\ End(Chunks(data, k), i) = to /\ to > from
  <2> HIDE DEF part
  <2> QED
    BY <1>1, <1>2, <1>3, <1>4, <1>5
<1> QED
  BY <1>6 DEF from, to

(* The chunks of some data follow one another and cover it. *)
LEMMA ChunksCover ==
  ASSUME NEW data \in Data, NEW k \in Nat \ {0}
  PROVE  /\ Chunks(data, k) \in Seq(ChunkHash)
         /\ End(Chunks(data, k), Len(Chunks(data, k))) = Len(data)
         /\ \A i \in DOMAIN Chunks(data, k) :
              Chunks(data, k)[i].offset = End(Chunks(data, k), i - 1)
<1> DEFINE c == Chunks(data, k)
           n == (Len(data) + k - 1) \div k
<1>1. Len(data) \in Nat
  BY DEF Data
<1>2. n \in Nat /\ Len(data) <= n * k
  BY <1>1, ChunkCount
<1>3. c = [i \in 1 .. n |-> c[i]] /\ DOMAIN c = 1 .. n /\ Len(c) = n
  <2>1. n \in Nat /\ c = [j \in 1 .. n |->
          [offset |-> (j - 1) * k, data |-> SubSeq(data, (j - 1) * k + 1, Lesser(j * k, Len(data)))]]
    BY <1>2 DEF Chunks
  <2> HIDE DEF n, c
  <2> QED
    BY <2>1
<1> HIDE DEF n
<1>4. ASSUME NEW i \in 1 .. n PROVE c[i] \in ChunkHash
  <2>0. i \in DOMAIN Chunks(data, k)
    BY <1>3, <1>4
  <2>1. /\ c[i].offset = (i - 1) * k /\ (i - 1) * k \in Nat /\ c[i].data \in Data
    BY <2>0, ChunkOf, ChunkBounds
  <2>2. c[i] = [offset |-> (i - 1) * k,
                data |-> SubSeq(data, (i - 1) * k + 1, Lesser(i * k, Len(data)))]
    BY <1>3, <1>4 DEF Chunks
  <2> QED
    BY <2>1, <2>2 DEF ChunkHash
<1>5. c \in Seq(ChunkHash)
  <2> HIDE DEF c
  <2>1. c \in [1 .. n -> ChunkHash]
    BY <1>3, <1>4
  <2> QED
    BY <1>2, <2>1
<1>6. End(c, Len(c)) = Len(data)
  <2>1. CASE n = 0
    BY <1>1, <1>2, <1>3, <2>1 DEF End
  <2>2. CASE n # 0
    <3>1. n \in DOMAIN Chunks(data, k)
      BY <1>2, <1>3, <2>2
    <3>2. End(Chunks(data, k), n) = Lesser(n * k, Len(data)) /\ n * k \in Int
      BY <3>1, ChunkOf, <1>2
    <3> QED
      BY <1>1, <1>2, <1>3, <3>2 DEF Lesser
  <2> QED
    BY <2>1, <2>2
<1>7. ASSUME NEW i \in 1 .. n PROVE c[i].offset = End(c, i - 1)
  <2>1. c[i].offset = (i - 1) * k
    BY <1>3, <1>7, ChunkOf
  <2>2. CASE i = 1
    <3>1. (i - 1) * k = 0
      BY <2>2
    <3> QED
      BY <2>1, <2>2, <3>1 DEF End
  <2>3. CASE i # 1
    <3> DEFINE j == i - 1
    <3>1. j \in DOMAIN Chunks(data, k) /\ j < Len(Chunks(data, k))
      BY <1>2, <1>3, <1>7, <2>3
    <3> HIDE DEF j
    <3>2. j * k < Len(data) /\ j * k \in Int /\ End(Chunks(data, k), j) = Lesser(j * k, Len(data))
      <4>1. j \in Int
        BY <1>2, <1>3, <3>1
      <4> QED
        BY <3>1, <4>1, ChunkOf, ChunkBounds
    <3>3. End(Chunks(data, k), j) = j * k
      BY <1>1, <3>2 DEF Lesser
    <3> QED
      BY <2>1, <3>3 DEF j
  <2> QED
    BY <2>2, <2>3
<1> QED
  BY <1>3, <1>5, <1>6, <1>7

(* The entry of a file is taken for it when the chunk size is the same. *)
LEMMA ChunksMatch ==
  ASSUME NEW data \in Data, NEW k \in Nat \ {0}, NEW entry, entry.chunks = Chunks(data, k),
         entry.size = Len(data)
  PROVE  CacheMatches(entry, Len(data), entry.mtime, k)
<1> DEFINE c == Chunks(data, k)
<1>1. Len(data) \in Nat
  BY DEF Data
<1>2. ASSUME NEW i \in DOMAIN c
      PROVE  /\ c[i].offset = End(c, i - 1) /\ c[i].data # <<>>
             /\ End(c, i) < Len(data) => Len(c[i].data) = k
  <2>1. /\ (i - 1) * k \in Nat /\ i * k = (i - 1) * k + k
        /\ Len(c[i].data) = Lesser(i * k, Len(data)) - (i - 1) * k
        /\ End(c, i) = Lesser(i * k, Len(data)) /\ Lesser(i * k, Len(data)) > (i - 1) * k
    BY <1>2, ChunkBounds, ChunkOf
  <2>2. c[i].offset = End(c, i - 1)
    BY <1>2, ChunksCover
  <2> DEFINE from == (i - 1) * k
             next == i * k
             part == c[i].data
  <2>3. /\ from \in Nat /\ next = from + k /\ Len(part) = Lesser(next, Len(data)) - from
        /\ End(c, i) = Lesser(next, Len(data)) /\ Lesser(next, Len(data)) > from
    BY <2>1
  <2> HIDE DEF from, next, part, c
  <2>4. Len(part) > 0 /\ (End(c, i) < Len(data) => Len(part) = k)
    BY <1>1, <2>3 DEF Lesser
  <2>5. part # <<>>
    BY <2>4
  <2> QED
    BY <2>2, <2>4, <2>5 DEF part
<1>3. End(c, Len(c)) = Len(data) /\ c \in Seq(ChunkHash)
  BY ChunksCover
<1>4. Len(data) = 0 \/ c # <<>>
  <2> SUFFICES ASSUME c = <<>> PROVE Len(data) = 0
    OBVIOUS
  <2>1. Len(c) = 0 /\ End(c, 0) = 0
    BY DEF End
  <2> QED
    BY <1>3, <2>1
<1> HIDE DEF c
<1> QED
  BY <1>2, <1>3, <1>4 DEF CacheMatches, c

-----------------------------------------------------------------------------
Build == [st : {"idle", "stat", "hash", "stored"}, chunkSize : ChunkSizes,
          cache : [Files -> CacheEntry]]
Work == [st : {"todo", "stated", "cached", "hashing", "hashed"},
         size : 0 .. MaxLen, mtime : Times, entry : CacheEntry]
Snapshot == [file : Files, size : 0 .. MaxLen, mtime : Times, full : Data,
             chunks : Seq(ChunkHash), chunkSize : ChunkSizes]

FileType == file \in [Files -> File] /\ history \in [Files -> SUBSET File] /\ edits \in 0 .. MaxEdits
WorkType == work \in [Handlers -> [Files -> Work]]
BuildType == build \in [Handlers -> Build] /\ rounds \in [Handlers -> 0 .. Rounds]
CacheType == cache \in [Files -> CacheEntry] /\ snapshots \subseteq Snapshot

LEMMA TypeParts == TypeOK <=> FileType /\ WorkType /\ BuildType /\ CacheType
  BY DEF TypeOK, FileType, WorkType, BuildType, CacheType, Build, Work, Snapshot

LEMMA EmptyData == <<>> \in Data /\ Len(<<>>) = 0 /\ \A d \in Data : d = <<>> <=> Len(d) = 0
  BY Sizes DEF Data

LEMMA Constants ==
  /\ NoEntry \in CacheEntry /\ NoWork \in Work /\ Idle \in Build /\ Missing \in File
  /\ ChunkSizes \subseteq Nat \ {0} /\ 0 \notin ChunkSizes
<1>1. MinChunk \in ChunkSizes /\ ChunkSizes \subseteq Nat \ {0}
  BY Sizes DEF ChunkSizes
<1>2. NoEntry \in CacheEntry
  BY EmptyData, Sizes DEF NoEntry, CacheEntry, Times
<1>3. NoWork \in Work
  BY <1>2, Sizes DEF NoWork, Work, Times, Units
<1>4. Idle \in Build
  BY <1>1, <1>2 DEF Idle, Build
<1> QED
  BY <1>1, <1>2, <1>3, <1>4, EmptyData DEF Missing, File, Times

(* What an edit leaves of a file. *)
LEMMA EditedData ==
  ASSUME FileType, NEW f \in Files, NEW data, Edit(f, data),
         \/ \E i \in DOMAIN file[f].data : data = [file[f].data EXCEPT ![i] = edits + 1]
         \/ Len(file[f].data) < MaxLen /\ data = Append(file[f].data, edits + 1)
         \/ /\ file[f].data # <<>>
            /\ data = SubSeq(file[f].data, 1, Len(file[f].data) - 1)
  PROVE  data \in Data
<1> DEFINE old == file[f].data
<1>1. old \in Seq(Units) /\ Len(old) <= MaxLen
  BY DEF FileType, File, Data
<1>2. edits + 1 \in Units
  BY Sizes DEF FileType, Units, Edit
<1> HIDE DEF old
<1>3. ASSUME NEW i \in DOMAIN old PROVE [old EXCEPT ![i] = edits + 1] \in Data
  <2>1. [old EXCEPT ![i] = edits + 1] \in Seq(Units) /\ Len([old EXCEPT ![i] = edits + 1]) = Len(old)
    BY <1>1, <1>2, <1>3
  <2> QED
    BY <1>1, <2>1 DEF Data
<1>4. Len(old) < MaxLen => Append(old, edits + 1) \in Data
  BY <1>1, <1>2, Sizes DEF Data
<1>5. old # <<>> => SubSeq(old, 1, Len(old) - 1) \in Data
  BY <1>1, Sizes DEF Data
<1> QED
  BY <1>3, <1>4, <1>5 DEF old

LEMMA EditType == ASSUME TypeOK, NEW f \in Files, NEW data \in Data, Edit(f, data) PROVE TypeOK'
<1>1. FileType /\ UNCHANGED <<cache, build, work, snapshots, rounds>>
  BY TypeParts DEF Edit
<1>2. [data |-> data, mtime |-> edits + 1] \in File /\ edits + 1 \in 0 .. MaxEdits
  BY <1>1, Sizes DEF Edit, FileType, File, Times, Units
<1>3. file' \in [Files -> File] /\ file'[f] \in File /\ edits' \in 0 .. MaxEdits
  BY <1>1, <1>2 DEF Edit, FileType
<1>4. history' \in [Files -> SUBSET File]
  BY <1>1, <1>3 DEF Edit, FileType
<1> QED
  BY <1>1, <1>3, <1>4 DEF TypeOK

LEMMA HandlerType ==
  ASSUME TypeOK, NEW h \in Handlers,
         \/ \E asked \in Asked : Request(h, asked)
         \/ AllStated(h) \/ StoreCache(h) \/ Publish(h)
  PROVE  TypeOK'
<1>0. FileType /\ WorkType /\ BuildType /\ CacheType
  BY TypeParts
<1>1. ASSUME NEW asked \in Asked, Request(h, asked) PROVE TypeOK'
  <2>1. [st |-> "stat", chunkSize |-> ChunkSize(asked), cache |-> cache] \in Build
    BY <1>0, ChunkSizeClamped DEF Build, CacheType
  <2>2. BuildType'
    BY <1>0, <1>1, <2>1, Sizes DEF Request, BuildType
  <2>3. WorkType'
    BY <1>0, <1>1, Constants DEF Request, WorkType
  <2> QED
    BY <1>0, <1>1, <2>2, <2>3 DEF Request, TypeOK, WorkType, BuildType, Work, Build
<1>2. CASE AllStated(h)
  BY <1>0, <1>2 DEF AllStated, TypeOK
<1>3. CASE StoreCache(h)
  <2>1. cache' \in [Files -> CacheEntry]
    BY <1>0, <1>3 DEF StoreCache, WorkType, Work, CacheType
  <2> QED
    BY <1>0, <1>3, <2>1, ZenonT(30) DEF StoreCache, TypeOK
<1>4. CASE Publish(h)
  <2>1. ASSUME NEW f \in Files
        PROVE  [file |-> f, size |-> work[h][f].size, mtime |-> work[h][f].mtime,
                full |-> work[h][f].entry.full, chunks |-> work[h][f].entry.chunks,
                chunkSize |-> build[h].chunkSize] \in Snapshot
    BY <1>0 DEF WorkType, Work, CacheEntry, BuildType, Build, Snapshot
  <2>2. CacheType'
    BY <1>0, <1>4, <2>1 DEF Publish, CacheType
  <2>3. BuildType'
    BY <1>0, <1>4, Constants DEF Publish, BuildType
  <2>4. FileType' /\ WorkType'
    BY <1>0, <1>4 DEF Publish, FileType, WorkType
  <2> QED
    BY <2>2, <2>3, <2>4 DEF TypeOK, FileType, WorkType, BuildType, CacheType, Build, Work, Snapshot
<1> QED
  BY <1>1, <1>2, <1>3, <1>4

LEMMA FileStepType ==
  ASSUME TypeOK, NEW h \in Handlers, NEW f \in Files,
         \/ Stat(h, f) \/ UseCached(h, f) \/ OpenFile(h, f)
         \/ ReadOn(h, f) \/ Hashed(h, f) \/ BuildFails(h, f)
  PROVE  TypeOK'
<1>0. FileType /\ WorkType /\ BuildType /\ CacheType
  BY TypeParts
<1>1. work[h][f] \in Work /\ build[h] \in Build /\ file[f] \in File /\ Idle \in Build
  BY <1>0, Constants DEF WorkType, BuildType, FileType
<1>2. ASSUME UNCHANGED <<file, history, edits, cache, snapshots, rounds>>,
             NEW w \in Work, work' = [work EXCEPT ![h][f] = w], UNCHANGED build
      PROVE  TypeOK'
  <2>1. WorkType'
    BY <1>0, <1>2 DEF WorkType
  <2> QED
    BY <1>0, <1>2, <2>1 DEF TypeOK, WorkType, Work
<1>3. ASSUME UNCHANGED <<file, history, edits, cache, snapshots, rounds>>,
             build' = [build EXCEPT ![h] = Idle], UNCHANGED work
      PROVE  TypeOK'
  <2>1. BuildType'
    BY <1>0, <1>1, <1>3 DEF BuildType
  <2> QED
    BY <1>0, <1>3, <2>1 DEF TypeOK, BuildType, Build
<1>4. CASE Stat(h, f)
  <2> DEFINE w == [NoWork EXCEPT !.st = "stated", !.size = Len(file[f].data), !.mtime = file[f].mtime]
  <2>1. Len(file[f].data) \in 0 .. MaxLen /\ file[f].mtime \in Times
    BY <1>1, Sizes DEF File, Data
  <2>2. w \in Work
    BY <2>1, Constants DEF Work
  <2>3. work' = [work EXCEPT ![h][f] = w]
    BY <1>4 DEF Stat
  <2> QED
    BY <1>2, <1>4, <2>2, <2>3 DEF Stat
<1>5. CASE UseCached(h, f)
  <2> DEFINE w == [work[h][f] EXCEPT !.st = "cached", !.entry = build[h].cache[f]]
  <2>1. w \in Work
    BY <1>1 DEF Work, Build
  <2>2. work' = [work EXCEPT ![h][f] = w]
    BY <1>0, <1>1, <1>5 DEF UseCached, WorkType, Work
  <2> QED
    BY <1>2, <1>5, <2>1, <2>2 DEF UseCached
<1>6. CASE OpenFile(h, f)
  <2> DEFINE w == [work[h][f] EXCEPT !.st = "hashing"]
  <2>1. w \in Work
    BY <1>1 DEF Work
  <2>2. work' = [work EXCEPT ![h][f] = w]
    BY <1>0, <1>1, <1>6 DEF OpenFile, WorkType, Work
  <2> QED
    BY <1>2, <1>6, <2>1, <2>2 DEF OpenFile
<1>7. CASE ReadOn(h, f)
  <2> DEFINE full == Append(Read(h, f), file[f].data[Len(Read(h, f)) + 1])
             w == [work[h][f] EXCEPT !.entry.full = full]
  <2>1. /\ Read(h, f) \in Seq(Units) /\ file[f].data \in Seq(Units)
        /\ Len(file[f].data) <= MaxLen /\ Len(Read(h, f)) < Len(file[f].data)
    BY <1>1, <1>7 DEF ReadOn, Read, Work, CacheEntry, File, Data
  <2>2. full \in Data
    BY <2>1, Sizes DEF Data
  <2>3. w \in Work
    BY <1>1, <2>2 DEF Work, CacheEntry
  <2>4. work' = [work EXCEPT ![h][f] = w]
    BY <1>0, <1>1, <1>7 DEF ReadOn, Read, WorkType, Work, CacheEntry
  <2> QED
    BY <1>2, <1>7, <2>3, <2>4 DEF ReadOn
<1>8. CASE Hashed(h, f)
  <2> DEFINE same == Len(file[f].data) = work[h][f].size /\ file[f].mtime = work[h][f].mtime
  <2>1. CASE same
    <3> DEFINE entry == Entry(h, f, work[h][f].mtime)
               w == [work[h][f] EXCEPT !.st = "hashed", !.entry = entry]
    <3>1. Chunks(Read(h, f), build[h].chunkSize) \in Seq(ChunkHash)
      BY <1>1, ChunksCover, Constants DEF Read, Work, Build, CacheEntry
    <3>2. entry \in CacheEntry
      BY <1>1, <3>1 DEF Entry, Read, Work, Build, CacheEntry
    <3>3. w \in Work
      BY <1>1, <3>2 DEF Work
    <3>4. work' = [work EXCEPT ![h][f] = w]
      BY <1>0, <1>1, <1>8, <2>1 DEF Hashed, Finish, WorkType, Work
    <3> QED
      BY <1>2, <1>8, <2>1, <3>3, <3>4 DEF Hashed, Finish
  <2>2. CASE ~same
    BY <1>3, <1>8, <2>2 DEF Hashed, Finish
  <2> QED
    BY <2>1, <2>2
<1>9. CASE BuildFails(h, f)
  BY <1>3, <1>9 DEF BuildFails
<1> QED
  BY <1>4, <1>5, <1>6, <1>7, <1>8, <1>9

LEMMA TypeStep == ASSUME TypeOK, [Next]_vars PROVE TypeOK'
<1>1. ASSUME NEW f \in Files, WriteUnit(f) \/ Extend(f) \/ Shorten(f) PROVE TypeOK'
  <2>1. PICK data : /\ Edit(f, data)
                    /\ \/ \E i \in DOMAIN file[f].data : data = [file[f].data EXCEPT ![i] = edits + 1]
                       \/ Len(file[f].data) < MaxLen /\ data = Append(file[f].data, edits + 1)
                       \/ /\ file[f].data # <<>>
                          /\ data = SubSeq(file[f].data, 1, Len(file[f].data) - 1)
    BY <1>1 DEF WriteUnit, Extend, Shorten
  <2>2. data \in Data
    BY <2>1, EditedData, TypeParts
  <2> QED
    BY <2>1, <2>2, EditType
<1>2. ASSUME NEW f \in Files, Delete(f) PROVE TypeOK'
  <2>1. file' \in [Files -> File] /\ edits' \in 0 .. MaxEdits
    BY <1>2, TypeParts, Constants, Sizes DEF Delete, FileType
  <2> QED
    BY <1>2, <2>1 DEF Delete, TypeOK
<1>3. ASSUME UNCHANGED vars PROVE TypeOK'
  BY <1>3 DEF vars, TypeOK
<1> QED
  BY <1>1, <1>2, <1>3, HandlerType, FileStepType DEF Next

LEMMA InitType == Init => TypeOK
<1> SUFFICES ASSUME Init PROVE TypeOK
  OBVIOUS
<1>1. FileType
  <2>1. ASSUME NEW n \in 0 .. MaxLen PROVE [i \in 1 .. n |-> 0] \in Data
    <3>1. n \in Nat /\ [i \in 1 .. n |-> 0] \in [1 .. n -> Units] /\ n <= MaxLen
      BY Sizes DEF Units
    <3>2. [i \in 1 .. n |-> 0] \in Seq(Units) /\ Len([i \in 1 .. n |-> 0]) = n
      BY <3>1
    <3> QED
      BY <3>1, <3>2 DEF Data
  <2>2. {[data |-> [i \in 1 .. n |-> 0], mtime |-> 0] : n \in 0 .. MaxLen} \subseteq File
    BY <2>1, Sizes DEF File, Times, Units
  <2> QED
    BY <2>2, Sizes DEF Init, FileType
<1>2. WorkType /\ BuildType /\ CacheType
  BY Constants, Sizes DEF Init, WorkType, BuildType, CacheType
<1> QED
  BY <1>1, <1>2, TypeParts

(* The rows of the cache, the progress of every request and the manifests keep
   their types whatever is edited and whoever else prepares a snapshot. *)
THEOREM SnapshotTypeCorrect == Spec => []TypeOK
  BY InitType, TypeStep, PTL DEF Spec

-----------------------------------------------------------------------------
(* The inductive invariant.  An entry, wherever it is kept, is NoEntry or holds
   the hashes of one version the file has had. *)
Sound(entry, versions) ==
  \/ entry = NoEntry
  \/ /\ entry.chunkSize \in ChunkSizes /\ entry.chunks = Chunks(entry.full, entry.chunkSize)
     /\ \E v \in versions : /\ entry.full = v.data /\ entry.size = Len(v.data)
                            /\ entry.mtime = v.mtime

(* What has been read of a file is the beginning of what it holds. *)
Begins(full, data) == Len(full) <= Len(data) /\ \A i \in 1 .. Len(full) : full[i] = data[i]

(* The progress w with a file that has had these versions and now is what now
   says. *)
Progress(w, versions, now) ==
  /\ w.st # "todo" => \E v \in versions : w.size = Len(v.data) /\ w.mtime = v.mtime
  /\ w.st = "stated" => w.entry = NoEntry
  /\ w.st = "hashing" /\ now.mtime = w.mtime => Begins(w.entry.full, now.data)
  /\ w.st \in {"cached", "hashed"} =>
       /\ Sound(w.entry, versions) /\ w.entry # NoEntry
       /\ w.entry.size = w.size /\ w.entry.mtime = w.mtime

(* The time of an edit identifies the version it made. *)
Dated(versions, last) ==
  \A v \in versions : /\ v.mtime \in 0 .. last
                      /\ \A w \in versions : v.mtime = w.mtime => v = w

HistoryInv == \A f \in Files : /\ file[f] # Missing => file[f] \in history[f]
                              /\ Dated(history[f], edits)
CacheInv == \A f \in Files : Sound(cache[f], history[f])
BuildInv == \A h \in Handlers, f \in Files : Sound(build[h].cache[f], history[f])
WorkInv == \A h \in Handlers, f \in Files : Progress(work[h][f], history[f], file[f])
StoredInv == \A h \in Handlers : build[h].st = "stored" =>
               \A f \in Files : work[h][f].st \in {"cached", "hashed"}

SnapshotInv ==
  /\ HistoryInv /\ CacheInv /\ BuildInv /\ WorkInv /\ StoredInv
  /\ ManifestOfOneVersion /\ UnchangedNotHashed

LEMMA SoundGrows ==
  ASSUME NEW entry, NEW S, NEW T, S \subseteq T, Sound(entry, S) PROVE Sound(entry, T)
  BY DEF Sound

(* An edit gives a file a time that no request has noted, so that what was read
   before it is not taken for what is there now. *)
LEMMA ProgressEdited ==
  ASSUME NEW w, NEW S, NEW T, S \subseteq T, NEW last, NEW now, NEW next, Dated(S, last),
         next.mtime \notin 0 .. last, Progress(w, S, now)
  PROVE  Progress(w, T, next)
<1>1. w.st = "hashing" => w.mtime # next.mtime
  BY DEF Progress, Dated
<1> QED
  BY <1>1, SoundGrows DEF Progress

LEMMA ProgressGrows ==
  ASSUME NEW w, NEW S, NEW T, S \subseteq T, NEW now, Progress(w, S, now)
  PROVE  Progress(w, T, now)
  BY SoundGrows DEF Progress

LEMMA DescribedGrows ==
  ASSUME NEW m, NEW f, history[f] \subseteq history'[f], Described(m, f)
  PROVE  Described(m, f)'
  BY DEF Described

(* An entry that holds the hashes of a version describes that version. *)
LEMMA SoundDescribes ==
  ASSUME NEW m, NEW f \in Files, NEW entry \in CacheEntry, Sound(entry, history[f]), entry # NoEntry,
         m.full = entry.full, m.chunks = entry.chunks, m.size = entry.size, m.mtime = entry.mtime
  PROVE  Described(m, f)
<1>1. PICK v \in history[f] : entry.full = v.data /\ entry.size = Len(v.data) /\ entry.mtime = v.mtime
  BY DEF Sound
<1> DEFINE k == entry.chunkSize
           c == Chunks(v.data, k)
<1>2. v.data \in Data /\ k \in Nat \ {0} /\ m.chunks = c
  BY <1>1, Constants DEF Sound, CacheEntry
<1>3. /\ End(c, Len(c)) = Len(v.data)
      /\ \A i \in DOMAIN c : c[i].offset = End(c, i - 1)
  BY <1>2, ChunksCover
<1>4. ASSUME NEW i \in DOMAIN c
      PROVE  c[i].data = SubSeq(v.data, c[i].offset + 1, End(c, i))
  BY <1>2, <1>4, ChunkOf
<1> HIDE DEF c, k
<1> QED
  BY <1>1, <1>2, <1>3, <1>4 DEF Described

(* An edit, or the deletion of a file. *)
LEMMA FileChanges ==
  ASSUME TypeOK, SnapshotInv, NEW f \in Files, NEW next, next.mtime = edits + 1 \/ next = Missing,
         file' = [file EXCEPT ![f] = next], edits' = edits + 1,
         \/ next = Missing /\ history' = history
         \/ next # Missing /\ history' = [history EXCEPT ![f] = @ \cup {next}],
         UNCHANGED <<cache, build, work, snapshots>>
  PROVE  SnapshotInv'
<1>1. /\ FileType /\ edits \in Nat
      /\ \A g \in Files : g # f => file'[g] = file[g] /\ history'[g] = history[g]
      /\ file'[f] = next /\ history'[f] \in {history[f], history[f] \cup {next}}
  BY TypeParts DEF FileType
<1>2. \A g \in Files : history[g] \subseteq history'[g]
  BY <1>1
<1>3. next.mtime \notin 0 .. edits
  BY <1>1 DEF Missing
<1>4. ASSUME NEW S, Dated(S, edits) PROVE Dated(S, edits + 1)
  BY <1>1, <1>4 DEF Dated
<1>5. ASSUME NEW S, Dated(S, edits), next # Missing PROVE Dated(S \cup {next}, edits + 1)
  <2>1. next.mtime = edits + 1
    BY <1>5
  <2>2. \A v \in S : v.mtime \in 0 .. edits /\ v.mtime # next.mtime
    BY <1>3, <1>5 DEF Dated
  <2> QED
    BY <1>1, <1>5, <2>1, <2>2 DEF Dated
<1>6. HistoryInv'
  <2> SUFFICES ASSUME NEW g \in Files
               PROVE  /\ file'[g] # Missing => file'[g] \in history'[g]
                      /\ Dated(history'[g], edits + 1)
    BY DEF HistoryInv
  <2>1. Dated(history[g], edits) /\ (file[g] # Missing => file[g] \in history[g])
    BY DEF SnapshotInv, HistoryInv
  <2>2. CASE g = f
    <3>1. CASE next = Missing
      BY <1>1, <1>4, <2>1, <2>2, <3>1
    <3>2. CASE next # Missing
      <4>1. history'[f] = history[f] \cup {next}
        BY <1>1, <3>2 DEF FileType
      <4> QED
        BY <1>1, <1>5, <2>1, <2>2, <3>2, <4>1
    <3> QED
      BY <3>1, <3>2
  <2>3. CASE g # f
    BY <1>1, <1>4, <2>1, <2>3
  <2> QED
    BY <2>2, <2>3
<1>7. CacheInv' /\ BuildInv' /\ StoredInv' /\ UnchangedNotHashed'
  <2>1. CacheInv' /\ BuildInv'
    BY <1>2, SoundGrows DEF SnapshotInv, CacheInv, BuildInv
  <2> QED
    BY <2>1 DEF SnapshotInv, StoredInv, UnchangedNotHashed
<1>8. WorkInv'
  <2> SUFFICES ASSUME NEW h \in Handlers, NEW g \in Files
               PROVE  Progress(work[h][g], history'[g], file'[g])
    BY DEF WorkInv
  <2>1. Progress(work[h][g], history[g], file[g]) /\ Dated(history[g], edits)
    BY DEF SnapshotInv, WorkInv, HistoryInv
  <2>2. CASE g = f
    BY <1>1, <1>2, <1>3, <2>1, <2>2, ProgressEdited
  <2>3. CASE g # f
    BY <1>1, <2>1, <2>3
  <2> QED
    BY <2>2, <2>3
<1>9. ManifestOfOneVersion'
  <2>1. \A m \in snapshots : m.file \in Files /\ Described(m, m.file)
    BY TypeParts DEF CacheType, Snapshot, SnapshotInv, ManifestOfOneVersion
  <2>2. \A m \in snapshots : Described(m, m.file)'
    BY <1>2, <2>1, DescribedGrows
  <2> QED
    BY <2>2 DEF ManifestOfOneVersion
<1> QED
  BY <1>6, <1>7, <1>8, <1>9 DEF SnapshotInv

(* One file of a request makes progress. *)
LEMMA WorkChanges ==
  ASSUME TypeOK, SnapshotInv, NEW h \in Handlers, NEW f \in Files, NEW w,
         UNCHANGED <<file, history, edits, cache, build, snapshots>>,
         work' = [work EXCEPT ![h][f] = w], build[h].st # "stored",
         Progress(w, history[f], file[f]),
         w.st = "hashing" => LET entry == build[h].cache[f]
                             IN ~ /\ entry # NoEntry /\ entry.chunkSize = build[h].chunkSize
                                  /\ entry.size = w.size /\ entry.mtime = w.mtime
  PROVE  SnapshotInv'
<1>1. /\ work'[h][f] = w
      /\ \A i \in Handlers, g \in Files : i # h \/ g # f => work'[i][g] = work[i][g]
  BY TypeParts DEF WorkType
<1>2. HistoryInv' /\ CacheInv' /\ BuildInv'
  BY DEF SnapshotInv, HistoryInv, CacheInv, BuildInv
<1>3. WorkInv'
  BY <1>1 DEF SnapshotInv, WorkInv
<1>4. StoredInv'
  BY <1>1 DEF SnapshotInv, StoredInv
<1>5. ManifestOfOneVersion'
  BY DescribedGrows DEF SnapshotInv, ManifestOfOneVersion, Described
<1>6. UnchangedNotHashed'
  BY <1>1 DEF SnapshotInv, UnchangedNotHashed
<1> QED
  BY <1>2, <1>3, <1>4, <1>5, <1>6 DEF SnapshotInv

(* A request ends, with or without a manifest. *)
LEMMA BuildEnds ==
  ASSUME TypeOK, SnapshotInv, NEW h \in Handlers,
         UNCHANGED <<file, history, edits, cache, work>>, build' = [build EXCEPT ![h] = Idle],
         ManifestOfOneVersion'
  PROVE  SnapshotInv'
<1>1. /\ build'[h] = Idle
      /\ \A i \in Handlers : i # h => build'[i] = build[i]
  BY TypeParts DEF BuildType
<1>2. HistoryInv' /\ CacheInv' /\ WorkInv'
  BY DEF SnapshotInv, HistoryInv, CacheInv, WorkInv
<1>3. BuildInv'
  BY <1>1 DEF SnapshotInv, BuildInv, Idle, Sound
<1>4. StoredInv'
  BY <1>1 DEF SnapshotInv, StoredInv, Idle
<1>5. UnchangedNotHashed'
  BY <1>1 DEF SnapshotInv, UnchangedNotHashed, Idle
<1> QED
  BY <1>2, <1>3, <1>4, <1>5 DEF SnapshotInv

LEMMA HandlerInv ==
  ASSUME TypeOK, SnapshotInv, NEW h \in Handlers,
         \/ \E asked \in Asked : Request(h, asked)
         \/ AllStated(h) \/ StoreCache(h) \/ Publish(h)
  PROVE  SnapshotInv'
<1>0. FileType /\ WorkType /\ BuildType /\ CacheType
  BY TypeParts
<1>1. UNCHANGED <<file, history, edits>> /\ HistoryInv'
  BY DEF Request, AllStated, StoreCache, Publish, SnapshotInv, HistoryInv
<1>2. ASSUME UNCHANGED snapshots PROVE ManifestOfOneVersion'
  BY <1>1, <1>2 DEF SnapshotInv, ManifestOfOneVersion, Described
<1>3. ASSUME NEW asked \in Asked, Request(h, asked) PROVE SnapshotInv'
  <2>1. /\ build'[h] = [st |-> "stat", chunkSize |-> ChunkSize(asked), cache |-> cache]
        /\ work'[h] = [f \in Files |-> NoWork]
        /\ \A i \in Handlers : i # h => build'[i] = build[i] /\ work'[i] = work[i]
    BY <1>0, <1>3 DEF Request, BuildType, WorkType
  <2>2. CacheInv' /\ BuildInv'
    BY <1>1, <1>3, <2>1 DEF Request, SnapshotInv, CacheInv, BuildInv
  <2>3. WorkInv'
    BY <1>1, <2>1 DEF SnapshotInv, WorkInv, Progress, NoWork
  <2>4. StoredInv'
    BY <2>1 DEF SnapshotInv, StoredInv
  <2>5. UnchangedNotHashed'
    BY <2>1 DEF SnapshotInv, UnchangedNotHashed, NoWork
  <2> QED
    BY <1>1, <1>2, <1>3, <2>2, <2>3, <2>4, <2>5 DEF Request, SnapshotInv
<1>4. CASE AllStated(h) \/ StoreCache(h)
  <2>1. /\ build'[h].cache = build[h].cache /\ build'[h].chunkSize = build[h].chunkSize
        /\ \A i \in Handlers : i # h => build'[i] = build[i]
        /\ UNCHANGED <<work, snapshots>>
    BY <1>0, <1>4 DEF AllStated, StoreCache, BuildType, Build
  <2>2. CacheInv'
    <3> SUFFICES ASSUME NEW f \in Files PROVE Sound(cache'[f], history[f])
      BY <1>1 DEF CacheInv
    <3>1. Sound(cache[f], history[f]) /\ Progress(work[h][f], history[f], file[f])
      BY DEF SnapshotInv, CacheInv, WorkInv
    <3>2. \/ cache'[f] = cache[f]
          \/ work[h][f].st = "hashed" /\ cache'[f] = work[h][f].entry
      BY <1>4 DEF AllStated, StoreCache
    <3> QED
      BY <3>1, <3>2 DEF Progress
  <2>3. BuildInv'
    BY <1>1, <2>1 DEF SnapshotInv, BuildInv
  <2>4. WorkInv'
    BY <1>1, <2>1 DEF SnapshotInv, WorkInv
  <2>5. StoredInv'
    BY <1>0, <1>4, <2>1 DEF SnapshotInv, StoredInv, AllStated, StoreCache, BuildType, Build
  <2>6. UnchangedNotHashed'
    BY <2>1 DEF SnapshotInv, UnchangedNotHashed
  <2> QED
    BY <1>1, <1>2, <2>1, <2>2, <2>3, <2>4, <2>5, <2>6 DEF SnapshotInv
<1>5. CASE Publish(h)
  <2>1. ASSUME NEW m \in snapshots' PROVE Described(m, m.file)'
    <3>1. CASE m \in snapshots
      BY <1>1, <3>1 DEF SnapshotInv, ManifestOfOneVersion, Described
    <3>2. CASE m \notin snapshots
      <4>1. PICK f \in Files :
              m = [file |-> f, size |-> work[h][f].size, mtime |-> work[h][f].mtime,
                   full |-> work[h][f].entry.full, chunks |-> work[h][f].entry.chunks,
                   chunkSize |-> build[h].chunkSize]
        BY <1>5, <2>1, <3>2 DEF Publish
      <4>2. work[h][f].st \in {"cached", "hashed"} /\ Progress(work[h][f], history[f], file[f])
        BY <1>5 DEF Publish, SnapshotInv, StoredInv, WorkInv
      <4> DEFINE entry == work[h][f].entry
      <4>3. /\ Sound(entry, history[f]) /\ entry # NoEntry /\ entry \in CacheEntry
            /\ m.full = entry.full /\ m.chunks = entry.chunks
            /\ m.size = entry.size /\ m.mtime = entry.mtime
        BY <1>0, <4>1, <4>2 DEF Progress, WorkType, Work
      <4>4. Described(m, f)
        <5> HIDE DEF entry
        <5> QED
          BY <4>3, SoundDescribes
      <4>5. m.file = f
        BY <4>1
      <4> QED
        BY <1>1, <4>4, <4>5 DEF Described
    <3> QED
      BY <3>1, <3>2
  <2>2. ManifestOfOneVersion'
    BY <2>1 DEF ManifestOfOneVersion
  <2> QED
    BY <1>5, <2>2, BuildEnds DEF Publish
<1> QED
  BY <1>3, <1>4, <1>5

(* A file read on is still the beginning of what it holds. *)
LEMMA BeginsOn ==
  ASSUME NEW full \in Seq(Units), NEW data \in Seq(Units), Begins(full, data), Len(full) < Len(data)
  PROVE  Begins(Append(full, data[Len(full) + 1]), data)
  BY DEF Begins

LEMMA BeginsWhole ==
  ASSUME NEW full \in Seq(Units), NEW data \in Seq(Units), Begins(full, data), Len(full) >= Len(data)
  PROVE  full = data
  BY DEF Begins

LEMMA FileStepInv ==
  ASSUME TypeOK, SnapshotInv, NEW h \in Handlers, NEW f \in Files,
         \/ Stat(h, f) \/ UseCached(h, f) \/ OpenFile(h, f)
         \/ ReadOn(h, f) \/ Hashed(h, f) \/ BuildFails(h, f)
  PROVE  SnapshotInv'
<1>0. FileType /\ WorkType /\ BuildType /\ CacheType
  BY TypeParts
<1>1. work[h][f] \in Work /\ build[h] \in Build /\ file[f] \in File /\ build[h].cache[f] \in CacheEntry
  BY <1>0 DEF WorkType, BuildType, FileType, Build
<1>2. /\ Progress(work[h][f], history[f], file[f]) /\ Sound(build[h].cache[f], history[f])
      /\ Dated(history[f], edits) /\ (file[f] # Missing => file[f] \in history[f])
  BY DEF SnapshotInv, WorkInv, BuildInv, HistoryInv
<1>3. work[h][f].st # "todo" => work[h][f].mtime \in Nat /\ work[h][f].mtime # -1
  BY <1>0, <1>2 DEF Progress, Dated, FileType
<1>4. CASE Stat(h, f)
  <2> DEFINE w == [NoWork EXCEPT !.st = "stated", !.size = Len(file[f].data), !.mtime = file[f].mtime]
  <2>1. w.st = "stated" /\ w.size = Len(file[f].data) /\ w.mtime = file[f].mtime /\ w.entry = NoEntry
    BY DEF NoWork
  <2>2. work' = [work EXCEPT ![h][f] = w] /\ file[f] \in history[f]
    BY <1>2, <1>4 DEF Stat
  <2> HIDE DEF w
  <2>3. Progress(w, history[f], file[f])
    BY <2>1, <2>2 DEF Progress
  <2> QED
    BY <1>4, <2>1, <2>2, <2>3, WorkChanges DEF Stat
<1>5. CASE UseCached(h, f)
  <2> DEFINE entry == build[h].cache[f]
             w == [work[h][f] EXCEPT !.st = "cached", !.entry = entry]
  <2>1. w.st = "cached" /\ w.size = work[h][f].size /\ w.mtime = work[h][f].mtime /\ w.entry = entry
    BY <1>1 DEF Work
  <2>2. work' = [work EXCEPT ![h][f] = w]
    BY <1>0, <1>1, <1>5 DEF UseCached, WorkType, Work
  <2>3. entry.size = work[h][f].size /\ entry.mtime = work[h][f].mtime /\ work[h][f].st = "stated"
    BY <1>5 DEF UseCached, Cached, CacheMatches
  <2>4. entry # NoEntry
    BY <1>3, <2>3 DEF NoEntry
  <2>5. Progress(w, history[f], file[f])
    <3> HIDE DEF w, entry
    <3> QED
      BY <1>2, <2>1, <2>3, <2>4 DEF Progress, entry
  <2> HIDE DEF w
  <2> QED
    BY <1>5, <2>1, <2>2, <2>5, WorkChanges DEF UseCached
<1>6. CASE OpenFile(h, f)
  <2> DEFINE w == [work[h][f] EXCEPT !.st = "hashing"]
             entry == build[h].cache[f]
  <2>1. /\ w.st = "hashing" /\ w.size = work[h][f].size /\ w.mtime = work[h][f].mtime
        /\ w.entry = NoEntry /\ work[h][f].st = "stated"
    BY <1>1, <1>2, <1>6 DEF Work, OpenFile, Progress
  <2>2. work' = [work EXCEPT ![h][f] = w]
    BY <1>0, <1>1, <1>6 DEF OpenFile, WorkType, Work
  <2>3. ASSUME entry # NoEntry, entry.chunkSize = build[h].chunkSize, entry.size = w.size,
               entry.mtime = w.mtime
        PROVE  FALSE
    <3>1. PICK v \in history[f] :
            /\ entry.full = v.data /\ entry.size = Len(v.data) /\ entry.mtime = v.mtime
            /\ entry.chunks = Chunks(v.data, build[h].chunkSize)
      BY <1>2, <2>3 DEF Sound
    <3>2. v.data \in Data /\ build[h].chunkSize \in Nat \ {0}
      BY <1>1, <3>1, Constants DEF CacheEntry, Build
    <3>3. CacheMatches(entry, Len(v.data), entry.mtime, build[h].chunkSize)
      <4> HIDE DEF entry
      <4> QED
        BY <3>1, <3>2, ChunksMatch
    <3>4. Len(v.data) = work[h][f].size /\ entry.mtime = work[h][f].mtime
      BY <2>1, <2>3, <3>1
    <3>5. ~CacheMatches(entry, work[h][f].size, work[h][f].mtime, build[h].chunkSize)
      BY <1>6 DEF OpenFile, Cached
    <3> HIDE DEF entry, w
    <3> QED
      BY <3>3, <3>4, <3>5
  <2>4. Progress(w, history[f], file[f])
    <3>1. Len(NoEntry.full) = 0 /\ Len(file[f].data) \in Nat
      BY <1>1, EmptyData DEF NoEntry, File, Data
    <3>2. Begins(NoEntry.full, file[f].data)
      BY <3>1 DEF Begins
    <3> HIDE DEF w
    <3> QED
      BY <1>2, <2>1, <3>2 DEF Progress
  <2> HIDE DEF w
  <2> QED
    BY <1>6, <2>1, <2>2, <2>3, <2>4, WorkChanges DEF OpenFile
<1>7. CASE ReadOn(h, f)
  <2> DEFINE full == Append(Read(h, f), file[f].data[Len(Read(h, f)) + 1])
             w == [work[h][f] EXCEPT !.entry.full = full]
  <2>1. /\ Read(h, f) \in Seq(Units) /\ file[f].data \in Seq(Units)
        /\ Len(Read(h, f)) < Len(file[f].data) /\ work[h][f].st = "hashing"
    BY <1>1, <1>7 DEF ReadOn, Read, Work, CacheEntry, File, Data
  <2>2. /\ w.st = "hashing" /\ w.size = work[h][f].size /\ w.mtime = work[h][f].mtime
        /\ w.entry.full = full
    BY <1>1, <2>1 DEF Work, CacheEntry
  <2>3. work' = [work EXCEPT ![h][f] = w]
    BY <1>0, <1>1, <1>7 DEF ReadOn, Read, WorkType, Work, CacheEntry
  <2>4. file[f].mtime = w.mtime => Begins(full, file[f].data)
    BY <1>2, <2>1, <2>2, BeginsOn DEF Progress, Read
  <2> HIDE DEF w, full
  <2>5. Progress(w, history[f], file[f])
    BY <1>2, <2>1, <2>2, <2>4 DEF Progress
  <2>6. w.st = "hashing" => LET entry == build[h].cache[f]
                            IN ~ /\ entry # NoEntry /\ entry.chunkSize = build[h].chunkSize
                                 /\ entry.size = w.size /\ entry.mtime = w.mtime
    BY <2>1, <2>2 DEF SnapshotInv, UnchangedNotHashed
  <2> QED
    BY <1>7, <2>3, <2>5, <2>6, WorkChanges DEF ReadOn
<1>8. ASSUME UNCHANGED <<file, history, edits, cache, snapshots, work>>,
             build' = [build EXCEPT ![h] = Idle]
      PROVE  SnapshotInv'
  <2>1. ManifestOfOneVersion'
    BY <1>8 DEF SnapshotInv, ManifestOfOneVersion, Described
  <2> QED
    BY <1>8, <2>1, BuildEnds
<1>9. CASE Hashed(h, f)
  <2> DEFINE same == Len(file[f].data) = work[h][f].size /\ file[f].mtime = work[h][f].mtime
  <2>1. CASE same
    <3> DEFINE entry == Entry(h, f, work[h][f].mtime)
               w == [work[h][f] EXCEPT !.st = "hashed", !.entry = entry]
    <3>1. /\ work[h][f].st = "hashing" /\ build[h].st = "hash"
          /\ Len(Read(h, f)) >= Len(file[f].data)
      BY <1>9 DEF Hashed, Finish, EndOfFile
    <3>2. file[f] # Missing /\ file[f] \in history[f]
      BY <1>2, <1>3, <2>1, <3>1 DEF Missing
    <3>3. Read(h, f) = file[f].data
      <4>1. Read(h, f) \in Seq(Units) /\ file[f].data \in Seq(Units)
        BY <1>1 DEF Read, Work, CacheEntry, File, Data
      <4>2. Begins(Read(h, f), file[f].data)
        BY <1>2, <2>1, <3>1 DEF Progress, Read
      <4> QED
        BY <3>1, <4>1, <4>2, BeginsWhole
    <3>4. /\ entry.size = work[h][f].size /\ entry.mtime = work[h][f].mtime
          /\ entry.full = file[f].data /\ entry.chunkSize = build[h].chunkSize
          /\ entry.chunks = Chunks(entry.full, entry.chunkSize)
      BY <3>3 DEF Entry
    <3>5. /\ w.st = "hashed" /\ w.size = work[h][f].size /\ w.mtime = work[h][f].mtime
          /\ w.entry = entry
      BY <1>1 DEF Work
    <3>6. work' = [work EXCEPT ![h][f] = w]
      BY <1>0, <1>1, <1>9, <2>1 DEF Hashed, Finish, WorkType, Work
    <3>7. UNCHANGED <<file, history, edits, cache, build, snapshots>>
      BY <1>9, <2>1 DEF Hashed, Finish
    <3> HIDE DEF entry, w
    <3>8. entry.mtime # -1 /\ entry # NoEntry
      BY <1>3, <3>1, <3>4 DEF NoEntry
    <3>9. Sound(entry, history[f])
      BY <1>1, <2>1, <3>2, <3>4 DEF Sound, Build
    <3>10. Progress(w, history[f], file[f])
      BY <1>2, <3>1, <3>4, <3>5, <3>8, <3>9 DEF Progress
    <3> QED
      BY <3>1, <3>5, <3>6, <3>7, <3>10, WorkChanges
  <2>2. CASE ~same
    BY <1>8, <1>9, <2>2 DEF Hashed, Finish
  <2> QED
    BY <2>1, <2>2
<1>10. CASE BuildFails(h, f)
  BY <1>8, <1>10 DEF BuildFails
<1> QED
  BY <1>4, <1>5, <1>6, <1>7, <1>9, <1>10

LEMMA SnapshotInvStep == ASSUME TypeOK, SnapshotInv, [Next]_vars PROVE SnapshotInv'
<1>1. ASSUME NEW f \in Files, WriteUnit(f) \/ Extend(f) \/ Shorten(f) PROVE SnapshotInv'
  <2>1. PICK data : Edit(f, data)
    BY <1>1 DEF WriteUnit, Extend, Shorten
  <2> DEFINE next == [data |-> data, mtime |-> edits + 1]
  <2>2. /\ file' = [file EXCEPT ![f] = next] /\ edits' = edits + 1 /\ next.mtime = edits + 1
        /\ UNCHANGED <<cache, build, work, snapshots>>
    BY <2>1 DEF Edit
  <2>3. history' = [history EXCEPT ![f] = @ \cup {next}]
    BY <2>1, <2>2, TypeParts DEF Edit, FileType
  <2>4. next # Missing
    <3>1. edits \in Nat /\ Missing.mtime = -1
      BY TypeParts DEF FileType, Missing
    <3> QED
      BY <2>2, <3>1
  <2> HIDE DEF next
  <2> QED
    BY <2>2, <2>3, <2>4, FileChanges
<1>2. ASSUME NEW f \in Files, Delete(f) PROVE SnapshotInv'
  BY <1>2, FileChanges DEF Delete
<1>3. ASSUME UNCHANGED vars PROVE SnapshotInv'
  BY <1>3 DEF vars, SnapshotInv, HistoryInv, CacheInv, BuildInv, WorkInv, StoredInv,
              ManifestOfOneVersion, UnchangedNotHashed, Described
<1> QED
  BY <1>1, <1>2, <1>3, HandlerInv, FileStepInv DEF Next

LEMMA InitInv == Init => SnapshotInv
<1> SUFFICES ASSUME Init PROVE SnapshotInv
  OBVIOUS
<1>1. HistoryInv
  BY DEF Init, HistoryInv, Dated
<1>2. CacheInv /\ BuildInv /\ StoredInv
  BY DEF Init, CacheInv, BuildInv, StoredInv, Sound, Idle
<1>3. WorkInv /\ ManifestOfOneVersion /\ UnchangedNotHashed
  BY DEF Init, WorkInv, ManifestOfOneVersion, UnchangedNotHashed, Progress, NoWork
<1> QED
  BY <1>1, <1>2, <1>3 DEF SnapshotInv

LEMMA SnapshotInvHolds == Spec => []SnapshotInv
<1>1. Init => TypeOK /\ SnapshotInv
  BY InitType, InitInv
<1>2. TypeOK /\ SnapshotInv /\ [Next]_vars => (TypeOK /\ SnapshotInv)'
  BY TypeStep, SnapshotInvStep
<1> QED
  BY <1>1, <1>2, PTL DEF Spec

(* create_snapshot: size, time, whole hash and chunk hashes of every file of a
   manifest are those of one version that the file really had, however the
   files are edited while any number of connections hash them and share their
   hashes. *)
THEOREM ManifestsOfOneVersion == Spec => []ManifestOfOneVersion
  BY SnapshotInvHolds, PTL DEF SnapshotInv

(* store_hash_cache and cache_matches: an entry that would be taken for the file
   as it is now holds its hashes, whichever connection stored it and however
   late. *)
THEOREM CacheIsSound == Spec => []CacheSound
<1>1. SnapshotInv => CacheSound
  <2> SUFFICES ASSUME SnapshotInv, NEW f \in Files, cache[f] # NoEntry, file[f] # Missing,
                      cache[f].mtime = file[f].mtime
               PROVE  cache[f].full = file[f].data
    BY DEF CacheSound
  <2>1. Sound(cache[f], history[f]) /\ file[f] \in history[f] /\ Dated(history[f], edits)
    BY DEF SnapshotInv, CacheInv, HistoryInv
  <2> QED
    BY <2>1 DEF Sound, Dated
<1> QED
  BY <1>1, SnapshotInvHolds, PTL

(* cache_matches: it takes every entry that hash_file made for the same size,
   time and chunk size, so that a file that has not changed is not hashed a
   second time; a last chunk that is shorter than the others is no obstacle. *)
THEOREM NothingHashedTwice == Spec => []UnchangedNotHashed
  BY SnapshotInvHolds, PTL DEF SnapshotInv
=============================================================================
