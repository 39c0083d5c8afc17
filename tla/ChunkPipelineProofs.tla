------------------------- MODULE ChunkPipelineProofs -------------------------
(***************************************************************************)
(* Proofs, for any files, chunk numbers and permits, that no permit of the *)
(* stream semaphore is lost or duplicated, that a captured file which      *)
(* reaches verification was hashed completely and in index order, and that *)
(* a run is never blocked before its end and runs out of steps.            *)
(***************************************************************************)
EXTENDS ChunkPipeline, FiniteSetTheorems, WellFoundedInduction, TLAPS

(* A pair is a file with the index of one of its chunks. *)
LEMMA PairsFact ==
  /\ \A p \in Pairs : p[1] \in Files /\ p[2] \in 1 .. Chunks[p[1]] /\ p = <<p[1], p[2]>>
  /\ \A f \in Files : \A i \in 1 .. Chunks[f] : <<f, i>> \in Pairs
  /\ \A f \in Files : <<f, 0>> \notin Pairs
BY ChunkPipelineAssumption DEF Pairs

LEMMA PairType ==
  ASSUME NEW f \in Files, NEW p \in ChunksOf(f)
  PROVE  p \in Pairs /\ p[1] = f /\ p[2] \in Nat \ {0} /\ p = <<f, p[2]>>
BY PairsFact, ChunkPipelineAssumption DEF ChunksOf

-----------------------------------------------------------------------------
(* Types and permits together: that the permits are a natural number after
   the downloads are dropped follows from what the dropped results held. *)
Released == {p \in Pairs : st[p] = "ready" /\ p[1] \in Capture}

PermitInv == TypeOK /\ IsFiniteSet(Holders) /\ PermitsConserved

(* Adding or removing one holder moves the permits by one. *)
LEMMA OneMore ==
  ASSUME PermitInv, NEW x, x \notin Holders, permits > 0,
         permits' = permits - 1, Holders' = Holders \cup {x}
  PROVE  permits' \in Nat /\ IsFiniteSet(Holders') /\ PermitsConserved'
<1>1. IsFiniteSet(Holders') /\ Cardinality(Holders') = Cardinality(Holders) + 1
  BY FS_AddElement DEF PermitInv
<1>2. Cardinality(Holders) \in Nat /\ permits \in Nat /\ StreamLimit \in Nat
  BY FS_CardinalityType, ChunkPipelineAssumption DEF PermitInv, TypeOK
<1> QED
  BY <1>1, <1>2 DEF PermitInv, PermitsConserved

LEMMA OneLess ==
  ASSUME PermitInv, NEW x, x \in Holders,
         permits' = permits + 1, Holders' = Holders \ {x}
  PROVE  permits' \in Nat /\ IsFiniteSet(Holders') /\ PermitsConserved'
<1>1. IsFiniteSet(Holders') /\ Cardinality(Holders') = Cardinality(Holders) - 1
  BY FS_RemoveElement DEF PermitInv
<1>2. Cardinality(Holders) \in Nat /\ permits \in Nat /\ StreamLimit \in Nat
  BY FS_CardinalityType, ChunkPipelineAssumption DEF PermitInv, TypeOK
<1> QED
  BY <1>1, <1>2 DEF PermitInv, PermitsConserved

LEMMA SameHolders ==
  ASSUME PermitInv, permits' = permits, Holders' = Holders
  PROVE  permits' \in Nat /\ IsFiniteSet(Holders') /\ PermitsConserved'
BY DEF PermitInv, PermitsConserved, TypeOK

LEMMA TypeStep ==
  ASSUME TypeOK, [Next]_vars, permits' \in Nat PROVE TypeOK'
<1> USE DEF TypeOK, HashState, RunState
<1>1. ASSUME NEW f \in Files, NEW p \in ChunksOf(f),
             SpawnQueued(p) \/ SpawnPreacquired(p)
      PROVE TypeOK'
  <2>1. p \in Pairs
    BY PairType
  <2>2. st' \in [Pairs -> {"new", "queued", "running", "ready", "failed", "joined", "discarded"}]
    BY <1>1, <2>1 DEF SpawnQueued, SpawnPreacquired
  <2> QED
    BY <1>1, <2>2 DEF SpawnQueued, SpawnPreacquired
<1>2. ASSUME NEW f \in Files, NEW p \in ChunksOf(f), Join(p) PROVE TypeOK'
  <2> p \in Pairs /\ p[1] = f /\ p[2] \in Nat \ {0}
    BY PairType
  <2>1. st' \in [Pairs -> {"new", "queued", "running", "ready", "failed", "joined", "discarded"}]
    BY <1>2 DEF Join
  <2>2. buffered' \in [Files -> SUBSET (Nat \ {0})]
    <3>1. buffered' = buffered \/ buffered' = [buffered EXCEPT ![f] = @ \cup {p[2]}]
      BY <1>2 DEF Join
    <3>2. buffered[f] \cup {p[2]} \in SUBSET (Nat \ {0})
      OBVIOUS
    <3> QED
      BY <3>1, <3>2, ZenonT(30)
  <2>3. pc' \in [Files -> {"spawn", "collect", "drain", "verify", "ok", "failed", "dropped"}]
    <3>1. pc' = pc \/ pc' = [pc EXCEPT ![f] = "drain"]
      BY <1>2 DEF Join
    <3> QED
      BY <3>1
  <2>4. UNCHANGED <<next, hashed, error, cancelled, ended>>
    BY <1>2 DEF Join
  <2> QED
    BY <2>1, <2>2, <2>3, <2>4
<1>3. ASSUME NEW f \in Files, NEW p \in ChunksOf(f), JoinFailed(p) PROVE TypeOK'
  BY <1>3, PairType DEF JoinFailed
<1>4. ASSUME NEW f \in Files,
             \/ SpawnCancelled(f) \/ SpawnDone(f) \/ CollectDone(f)
             \/ VerifyDone(f) \/ VerifyFails(f)
      PROVE TypeOK'
  BY <1>4 DEF SpawnCancelled, SpawnDone, CollectDone, VerifyDone, VerifyFails
<1>5. ASSUME NEW f \in Files, DrainNext(f) PROVE TypeOK'
  BY <1>5 DEF DrainNext
<1>6. ASSUME NEW f \in Files, DrainDone(f) PROVE TypeOK'
  BY <1>6 DEF DrainDone
<1>7. ASSUME NEW p \in Pairs, TransferStep(p) PROVE TypeOK'
  BY <1>7 DEF TransferStep, AcquirePermit, QueuedCancelled, TransferOk, TransferFails
<1>8. CASE FileError \/ DbError
  <2>1. /\ pc' \in [Files -> {"spawn", "collect", "drain", "verify", "ok", "failed", "dropped"}]
        /\ st' \in [Pairs -> {"new", "queued", "running", "ready", "failed", "joined", "discarded"}]
    BY <1>8 DEF FileError, DbError, DropDownloads
  <2> QED
    BY <1>8, <2>1 DEF FileError, DbError, DropDownloads
<1>9. CASE AllOk \/ Cancel
  BY <1>9 DEF AllOk, Cancel
<1>10. CASE UNCHANGED vars
  BY <1>10 DEF vars
<1> QED
  BY <1>1, <1>2, <1>3, <1>4, <1>5, <1>6, <1>7, <1>8, <1>9, <1>10 DEF Next, FileStep

LEMMA PermitStep ==
  ASSUME PermitInv, [Next]_vars
  PROVE  permits' \in Nat /\ IsFiniteSet(Holders') /\ PermitsConserved'
<1> DEFINE Goal == permits' \in Nat /\ IsFiniteSet(Holders') /\ PermitsConserved'
<1> USE PairsFact DEF PermitInv, TypeOK, HashState, RunState
<1>1. ASSUME NEW f \in Files, NEW p \in ChunksOf(f), SpawnQueued(p) PROVE Goal
  <2> p \in Pairs
    BY PairType
  <2>1. /\ pc' = pc
        /\ \A q \in Pairs : q # p => st'[q] = st[q]
        /\ st[p] = "new" /\ st'[p] = "queued"
    BY <1>1 DEF SpawnQueued, Unspawned
  <2>2. Holders' = Holders
    BY <2>1 DEF Holders
  <2> QED
    BY <1>1, <2>2, SameHolders DEF SpawnQueued
<1>2. ASSUME NEW f \in Files, NEW p \in ChunksOf(f), SpawnPreacquired(p) PROVE Goal
  <2>1. Holders' = Holders \cup {p} /\ p \notin Holders
    BY <1>2, PairType DEF SpawnPreacquired, Unspawned, Holders
  <2> QED
    BY <1>2, <2>1, OneMore DEF SpawnPreacquired
<1>3. ASSUME NEW f \in Files, NEW p \in ChunksOf(f), Join(p) PROVE Goal
  <2>1. CASE p[1] \in Capture
    <3>1. Holders' = (Holders \ {p}) \cup {<<p[1], 0>>}
      BY <1>3, <2>1, PairType DEF Join, Holders
    <3>2. p \in Holders /\ <<p[1], 0>> \notin Holders
      BY <1>3, <2>1, PairType DEF Join, Holders
    <3>3. /\ IsFiniteSet(Holders \ {p})
          /\ Cardinality(Holders \ {p}) = Cardinality(Holders) - 1
      BY <3>2, FS_RemoveElement
    <3>4. /\ IsFiniteSet(Holders')
          /\ Cardinality(Holders') = Cardinality(Holders \ {p}) + 1
      BY <3>1, <3>2, <3>3, FS_AddElement
    <3>5. Cardinality(Holders) \in Nat
      BY FS_CardinalityType
    <3> QED
      BY <1>3, <3>3, <3>4, <3>5 DEF Join, PermitsConserved
  <2>2. CASE p[1] \notin Capture
    <3>1. Holders' = Holders
      BY <1>3, <2>2, PairType DEF Join, Holders
    <3> QED
      BY <1>3, <2>2, <3>1, SameHolders DEF Join
  <2> QED
    BY <2>1, <2>2
<1>4. ASSUME NEW f \in Files, NEW p \in ChunksOf(f), JoinFailed(p) PROVE Goal
  <2>1. Holders' = Holders
    BY <1>4, PairType DEF JoinFailed, Holders
  <2> QED
    BY <1>4, <2>1, SameHolders DEF JoinFailed
<1>5. ASSUME NEW f \in Files,
             \/ SpawnCancelled(f) \/ SpawnDone(f) \/ CollectDone(f)
             \/ VerifyDone(f) \/ VerifyFails(f)
      PROVE Goal
  <2>1. Holders' = Holders
    BY <1>5 DEF SpawnCancelled, SpawnDone, CollectDone, VerifyDone, VerifyFails, Holders
  <2> QED
    BY <1>5, <2>1, SameHolders DEF SpawnCancelled, SpawnDone, CollectDone, VerifyDone, VerifyFails
<1>6. ASSUME NEW f \in Files, DrainNext(f) PROVE Goal
  <2>1. Holders' = Holders
    BY <1>6 DEF DrainNext, Holders
  <2> QED
    BY <1>6, <2>1, SameHolders DEF DrainNext
<1>7. ASSUME NEW f \in Files, DrainDone(f) PROVE Goal
  <2>1. Holders' = Holders \ {<<f, 0>>} /\ <<f, 0>> \in Holders
    BY <1>7 DEF DrainDone, Holders
  <2> QED
    BY <1>7, <2>1, OneLess DEF DrainDone
<1>8. ASSUME NEW p \in Pairs, AcquirePermit(p) PROVE Goal
  <2>1. Holders' = Holders \cup {p} /\ p \notin Holders
    BY <1>8 DEF AcquirePermit, Holders
  <2> QED
    BY <1>8, <2>1, OneMore DEF AcquirePermit
<1>9. ASSUME NEW p \in Pairs, TransferOk(p) PROVE Goal
  <2>1. CASE Live(p[1]) /\ p[1] \in Capture
    <3>1. Holders' = Holders
      BY <1>9, <2>1 DEF TransferOk, Holders
    <3> QED
      BY <1>9, <2>1, <3>1, SameHolders DEF TransferOk
  <2>2. CASE ~(Live(p[1]) /\ p[1] \in Capture)
    <3>1. Holders' = Holders \ {p} /\ p \in Holders
      BY <1>9, <2>2 DEF TransferOk, Holders
    <3> QED
      BY <1>9, <2>2, <3>1, OneLess DEF TransferOk
  <2> QED
    BY <2>1, <2>2
<1>10. ASSUME NEW p \in Pairs, TransferFails(p) PROVE Goal
  <2>1. Holders' = Holders \ {p} /\ p \in Holders
    BY <1>10 DEF TransferFails, Holders
  <2> QED
    BY <1>10, <2>1, OneLess DEF TransferFails
<1>11. ASSUME NEW p \in Pairs, QueuedCancelled(p) PROVE Goal
  <2>1. Holders' = Holders
    BY <1>11 DEF QueuedCancelled, Holders
  <2> QED
    BY <1>11, <2>1, SameHolders DEF QueuedCancelled
<1>12. ASSUME DropDownloads PROVE Goal
  <2>1. Holders' = Holders \ Released /\ Released \subseteq Holders
    BY <1>12 DEF DropDownloads, Holders, Released, Live
  <2>2. permits' = permits + Cardinality(Released)
    BY <1>12 DEF DropDownloads, Released
  <2>3. /\ IsFiniteSet(Released) /\ Cardinality(Released) \in Nat
        /\ IsFiniteSet(Holders')
        /\ Cardinality(Holders') = Cardinality(Holders) - Cardinality(Released)
    <3>1. Holders \cap Released = Released
      BY <2>1
    <3>2. IsFiniteSet(Released) /\ Cardinality(Released) \in Nat
      BY <2>1, FS_Subset, FS_CardinalityType
    <3>3. /\ IsFiniteSet(Holders \ Released)
          /\ Cardinality(Holders \ Released) = Cardinality(Holders) - Cardinality(Released)
      <4>1. Cardinality(Holders \ Released)
              = Cardinality(Holders) - Cardinality(Holders \cap Released)
        BY FS_Difference
      <4> QED
        BY <3>1, <4>1, FS_Difference
    <3> QED
      BY <2>1, <3>2, <3>3
  <2>4. Cardinality(Holders) \in Nat
    BY FS_CardinalityType
  <2> QED
    BY <2>2, <2>3, <2>4 DEF PermitsConserved
<1>13. CASE AllOk \/ Cancel \/ UNCHANGED vars
  <2>1. Holders' = Holders /\ permits' = permits
    BY <1>13 DEF AllOk, Cancel, vars, Holders
  <2> QED
    BY <2>1, SameHolders
<1> QED
  BY <1>1, <1>2, <1>3, <1>4, <1>5, <1>6, <1>7, <1>8, <1>9, <1>10, <1>11, <1>12, <1>13
     DEF Next, FileStep, TransferStep, FileError, DbError

LEMMA PermitInvHolds == Spec => []PermitInv
<1>1. Init => PermitInv
  <2> SUFFICES ASSUME Init PROVE PermitInv
    OBVIOUS
  <2>1. TypeOK
    <3> USE DEF Init, TypeOK
    <3>1. /\ pc \in [Files -> {"spawn", "collect", "drain", "verify", "ok", "failed", "dropped"}]
          /\ st \in [Pairs -> {"new", "queued", "running", "ready", "failed", "joined", "discarded"}]
      OBVIOUS
    <3>2. permits \in Nat
      BY ChunkPipelineAssumption
    <3>3. buffered \in [Files -> SUBSET (Nat \ {0})] /\ next \in [Files -> Nat \ {0}]
      OBVIOUS
    <3>4. hashed \in [Files -> Seq(Nat \ {0})]
      OBVIOUS
    <3>5. error \in [Files -> BOOLEAN]
      OBVIOUS
    <3> QED
      BY <3>1, <3>2, <3>3, <3>4, <3>5
  <2>2. Holders = {}
    BY DEF Init, Holders
  <2> QED
    BY <2>1, <2>2, FS_EmptySet, ChunkPipelineAssumption DEF Init, PermitInv, PermitsConserved
<1>2. PermitInv /\ [Next]_vars => PermitInv'
  <2> SUFFICES ASSUME PermitInv, [Next]_vars PROVE PermitInv'
    OBVIOUS
  <2>1. permits' \in Nat /\ IsFiniteSet(Holders') /\ PermitsConserved'
    BY PermitStep
  <2>2. TypeOK'
    BY <2>1, TypeStep DEF PermitInv
  <2> QED
    BY <2>1, <2>2 DEF PermitInv
<1> QED
  BY <1>1, <1>2, PTL DEF Spec

(* Type correctness. *)
THEOREM PipelineTypeCorrect == Spec => []TypeOK
<1>1. PermitInv => TypeOK
  BY DEF PermitInv
<1> QED
  BY <1>1, PermitInvHolds, PTL

(* Whatever ends the run and whenever, free permits and holders add up to the
   configured number of streams: the drain loop, the results that carry their
   permit and the dropped futures neither lose nor duplicate one. *)
THEOREM PermitsAreConserved == Spec => []PermitsConserved
<1>1. PermitInv => PermitsConserved
  BY DEF PermitInv
<1> QED
  BY <1>1, PermitInvHolds, PTL

-----------------------------------------------------------------------------
(* The hash side.  Chunks before next_hash_index are joined and the buffer is
   drained outside of the drain loop; a chunk of a live file is only
   discarded with an error. *)
HashedJoined == \A f \in Capture : /\ next[f] <= Chunks[f] + 1
                                   /\ \A i \in 1 .. (next[f] - 1) : st[<<f, i>>] = "joined"
Drained == \A f \in Capture : pc[f] # "drain" => next[f] \notin buffered[f]
DiscardedErred == \A f \in Files : \A i \in 1 .. Chunks[f] :
                    Live(f) /\ st[<<f, i>>] = "discarded" => error[f]

DrainsCapture == \A f \in Files : pc[f] = "drain" => f \in Capture

HashInv == /\ TypeOK /\ HashedInOrder /\ BufferExact /\ HashedJoined /\ Drained
           /\ DiscardedErred /\ DrainsCapture /\ CaptureSuffices

(* A step that leaves the hasher alone and joins no captured chunk. *)
LEMMA HashIdle ==
  ASSUME HashInv, TypeOK', UNCHANGED <<buffered, next, hashed>>,
         \A p \in Pairs : p[1] \in Capture => (st[p] = "joined" <=> st'[p] = "joined"),
         \A f \in Files : pc[f] = "drain" <=> pc'[f] = "drain",
         \A f \in Files : pc'[f] \in {"verify", "ok"} => pc[f] \in {"verify", "ok"},
         DiscardedErred'
  PROVE  HashInv'
<1> USE ChunkPipelineAssumption, PairsFact DEF HashInv
<1>1. HashedInOrder'
  BY DEF HashedInOrder
<1>2. BufferExact'
  BY DEF BufferExact, TypeOK
<1>3. HashedJoined'
  BY DEF HashedJoined, TypeOK
<1>4. Drained'
  BY DEF Drained, TypeOK
<1>5. CaptureSuffices'
  BY DEF CaptureSuffices, HashComplete, TypeOK
<1>6. DrainsCapture'
  BY DEF DrainsCapture
<1> QED
  BY <1>1, <1>2, <1>3, <1>4, <1>5, <1>6

LEMMA HashIdleActions ==
  ASSUME HashInv, TypeOK', NEW f \in Files,
         \/ \E p \in ChunksOf(f) : SpawnQueued(p) \/ SpawnPreacquired(p) \/ JoinFailed(p)
         \/ SpawnCancelled(f) \/ SpawnDone(f) \/ VerifyDone(f) \/ VerifyFails(f)
  PROVE  HashInv'
<1> USE PairsFact DEF HashInv, TypeOK, HashState, RunState
<1>1. ASSUME NEW p \in ChunksOf(f), SpawnQueued(p) \/ SpawnPreacquired(p) PROVE HashInv'
  <2>1. p \in Pairs /\ p[1] = f
    BY PairType
  <2>2. /\ UNCHANGED <<buffered, next, hashed, pc, error>>
        /\ st[p] = "new" /\ st'[p] \in {"queued", "running"}
        /\ \A q \in Pairs : q # p => st'[q] = st[q]
    BY <1>1, <2>1 DEF SpawnQueued, SpawnPreacquired, Unspawned
  <2>3. DiscardedErred'
    BY <2>1, <2>2 DEF DiscardedErred, Live
  <2> QED
    BY <2>1, <2>2, <2>3, HashIdle
<1>2. ASSUME NEW p \in ChunksOf(f), JoinFailed(p) PROVE HashInv'
  <2>1. p \in Pairs /\ p[1] = f
    BY PairType
  <2>2. /\ UNCHANGED <<buffered, next, hashed, pc>>
        /\ st[p] = "failed" /\ st'[p] = "discarded" /\ error'[f]
        /\ \A g \in Files : g # f => error'[g] = error[g]
        /\ \A q \in Pairs : q # p => st'[q] = st[q]
    BY <1>2, <2>1 DEF JoinFailed
  <2>3. ASSUME NEW g \in Files, NEW i \in 1 .. Chunks[g], Live(g)', st'[<<g, i>>] = "discarded"
        PROVE error'[g]
    <3>1. CASE g = f
      BY <3>1, <2>2
    <3>2. CASE g # f
      <4>1. <<g, i>> \in Pairs /\ <<g, i>> # p
        BY <3>2, <2>1
      <4>2. Live(g) /\ st[<<g, i>>] = "discarded"
        BY <4>1, <2>2, <2>3 DEF Live
      <4>3. error[g]
        BY <4>2 DEF DiscardedErred
      <4> QED
        BY <4>3, <3>2, <2>2
    <3> QED
      BY <3>1, <3>2
  <2>4. DiscardedErred'
    BY <2>3 DEF DiscardedErred
  <2> QED
    BY <2>1, <2>2, <2>4, HashIdle
<1>3. ASSUME SpawnCancelled(f) \/ SpawnDone(f) \/ VerifyDone(f) \/ VerifyFails(f) PROVE HashInv'
  <2>1. /\ UNCHANGED <<buffered, next, hashed, st, error>>
        /\ pc[f] \in {"spawn", "verify"} /\ pc'[f] \in {"failed", "collect", "ok"}
        /\ pc'[f] = "ok" => pc[f] = "verify"
        /\ \A g \in Files : g # f => pc'[g] = pc[g]
    BY <1>3 DEF SpawnCancelled, SpawnDone, VerifyDone, VerifyFails
  <2>2. DiscardedErred'
    BY <2>1 DEF DiscardedErred, Live
  <2> QED
    BY <2>1, <2>2, HashIdle
<1> QED
  BY <1>1, <1>2, <1>3

LEMMA HashIdleTransfer ==
  ASSUME HashInv, TypeOK', NEW p \in Pairs, TransferStep(p) PROVE HashInv'
<1> USE PairsFact DEF HashInv, TypeOK, HashState, RunState
<1>1. /\ UNCHANGED <<buffered, next, hashed, pc, error>>
      /\ st[p] \in {"queued", "running"}
      /\ st'[p] \in {"running", "ready", "failed", "discarded"}
      /\ st'[p] = "discarded" => ~Live(p[1])
      /\ \A q \in Pairs : q # p => st'[q] = st[q]
  <2>1. CASE AcquirePermit(p)
    BY <2>1 DEF AcquirePermit
  <2>2. CASE QueuedCancelled(p)
    BY <2>2 DEF QueuedCancelled
  <2>3. CASE TransferOk(p)
    BY <2>3 DEF TransferOk
  <2>4. CASE TransferFails(p)
    BY <2>4 DEF TransferFails
  <2> QED
    BY <2>1, <2>2, <2>3, <2>4 DEF TransferStep
<1>2. DiscardedErred'
  BY <1>1 DEF DiscardedErred, Live
<1> QED
  BY <1>1, <1>2, HashIdle

LEMMA HashIdleRun ==
  ASSUME HashInv, TypeOK', DropDownloads \/ AllOk \/ Cancel \/ UNCHANGED vars PROVE HashInv'
<1> USE PairsFact DEF HashInv, TypeOK, HashState, RunState
<1>1. ASSUME DropDownloads PROVE HashInv'
  <2>1. /\ UNCHANGED <<buffered, next, hashed, error>>
        /\ \A f \in Files : ~Live(f)'
        /\ \A f \in Files : pc[f] = "drain" <=> pc'[f] = "drain"
        /\ \A f \in Files : pc'[f] \in {"verify", "ok"} => pc[f] \in {"verify", "ok"}
        /\ \A q \in Pairs : st[q] = "joined" <=> st'[q] = "joined"
    BY <1>1 DEF DropDownloads, Live
  <2>2. DiscardedErred'
    BY <2>1 DEF DiscardedErred
  <2> QED
    BY <2>1, <2>2, HashIdle
<1>2. ASSUME AllOk \/ Cancel \/ UNCHANGED vars PROVE HashInv'
  <2>1. UNCHANGED <<pc, st, buffered, next, hashed, error>>
    BY <1>2 DEF AllOk, Cancel, vars
  <2>2. DiscardedErred'
    BY <2>1 DEF DiscardedErred, Live
  <2> QED
    BY <2>1, <2>2, HashIdle
<1> QED
  BY <1>1, <1>2

LEMMA HashJoin ==
  ASSUME HashInv, TypeOK', NEW f \in Files, NEW p \in ChunksOf(f), Join(p) PROVE HashInv'
<1> USE PairsFact, ChunkPipelineAssumption DEF HashInv, HashState, RunState
<1>1. /\ p \in Pairs /\ p[1] = f /\ p = <<f, p[2]>>
      /\ p[2] \in 1 .. Chunks[f] /\ Chunks[f] \in Nat
  BY PairType
<1>2. /\ UNCHANGED <<next, hashed, error>>
      /\ pc[f] = "collect" /\ st[p] = "ready" /\ st'[p] = "joined"
      /\ \A q \in Pairs : q # p => st'[q] = st[q]
      /\ \A g \in Files : g # f => pc'[g] = pc[g]
      /\ f \notin Capture => UNCHANGED <<buffered, pc>>
  BY <1>1 DEF Join, TypeOK
<1>3. DiscardedErred'
  <2>1. pc'[f] \in {"collect", "drain"}
    BY <1>1 DEF Join, TypeOK
  <2> QED
    BY <1>1, <1>2, <2>1 DEF DiscardedErred, Live
<1>4. CASE f \notin Capture
  <2>1. \A q \in Pairs : q[1] \in Capture => (st[q] = "joined" <=> st'[q] = "joined")
    BY <1>1, <1>2, <1>4
  <2>2. UNCHANGED <<buffered, next, hashed, pc>>
    BY <1>2, <1>4
  <2> QED
    BY <2>1, <2>2, <1>3, HashIdle
<1>5. CASE f \in Capture
  <2>1. /\ buffered'[f] = buffered[f] \cup {p[2]} /\ pc'[f] = "drain"
        /\ \A g \in Files : g # f => buffered'[g] = buffered[g]
    BY <1>1, <1>5 DEF Join, TypeOK
  <2>2. HashedInOrder'
    BY <1>2 DEF HashedInOrder
  <2>3. p[2] >= next[f]
    <3>1. ~(p[2] \in 1 .. (next[f] - 1))
      BY <1>1, <1>2, <1>5 DEF HashedJoined
    <3>2. next[f] \in Nat
      BY DEF TypeOK
    <3> QED
      BY <1>1, <3>1, <3>2
  <2>4. BufferExact'
    <3>1. ASSUME NEW g \in Capture
          PROVE buffered'[g] = {i \in 1 .. Chunks[g] : st'[<<g, i>>] = "joined" /\ i >= next'[g]}
      <4>1. CASE g = f
        <5>1. buffered[f] = {i \in 1 .. Chunks[f] : st[<<f, i>>] = "joined" /\ i >= next[f]}
          BY <1>5 DEF BufferExact
        <5>2. \A i \in 1 .. Chunks[f] : i # p[2] => st'[<<f, i>>] = st[<<f, i>>]
          BY <1>1, <1>2
        <5>3. st'[<<f, p[2]>>] = "joined"
          BY <1>1, <1>2
        <5> QED
          BY <1>1, <1>2, <2>1, <2>3, <4>1, <5>1, <5>2, <5>3
      <4>2. CASE g # f
        <5>1. g \in Files /\ \A i \in 1 .. Chunks[g] : st'[<<g, i>>] = st[<<g, i>>]
          BY <1>1, <1>2, <4>2
        <5>2. buffered[g] = {i \in 1 .. Chunks[g] : st[<<g, i>>] = "joined" /\ i >= next[g]}
          BY DEF BufferExact
        <5>3. buffered'[g] = buffered[g] /\ next'[g] = next[g]
          BY <1>2, <2>1, <4>2, <5>1
        <5> QED
          BY <5>1, <5>2, <5>3
      <4> QED
        BY <4>1, <4>2
    <3> QED
      BY <3>1 DEF BufferExact
  <2>5. HashedJoined'
    <3>1. ASSUME NEW g \in Capture, NEW i \in 1 .. (next[g] - 1) PROVE st'[<<g, i>>] = "joined"
      <4>1. i \in 1 .. Chunks[g] /\ g \in Files /\ st[<<g, i>>] = "joined"
        BY SMTT(20) DEF HashedJoined, TypeOK
      <4> QED
        BY <1>2, <4>1
    <3>2. \A g \in Capture : next[g] <= Chunks[g] + 1
      BY DEF HashedJoined
    <3> QED
      BY <1>2, <3>1, <3>2 DEF HashedJoined
  <2>6. Drained'
    BY <1>2, <2>1 DEF Drained
  <2>7. CaptureSuffices'
    BY <1>2, <2>1 DEF CaptureSuffices, HashComplete
  <2>8. DrainsCapture'
    BY <1>2, <1>5 DEF DrainsCapture
  <2> QED
    BY <2>2, <2>4, <2>5, <2>6, <2>7, <2>8, <1>3
<1> QED
  BY <1>4, <1>5

LEMMA HashDrain ==
  ASSUME HashInv, TypeOK', NEW f \in Files, DrainNext(f) PROVE HashInv'
<1> USE PairsFact, ChunkPipelineAssumption DEF HashInv, HashState, RunState
<1>1. /\ UNCHANGED <<pc, st, error>>
      /\ pc[f] = "drain" /\ f \in Capture
      /\ next[f] \in buffered[f] /\ next[f] \in Nat \ {0} /\ Chunks[f] \in Nat
      /\ next'[f] = next[f] + 1
      /\ buffered'[f] = buffered[f] \ {next[f]}
      /\ \A g \in Files : g # f => next'[g] = next[g] /\ buffered'[g] = buffered[g]
  <2>1. pc[f] = "drain" /\ f \in Capture
    BY DEF DrainNext, DrainsCapture
  <2>2. next[f] \in Nat \ {0} /\ Chunks[f] \in Nat
    BY DEF TypeOK
  <2>3. next'[f] = next[f] + 1 /\ buffered'[f] = buffered[f] \ {next[f]}
    BY DEF DrainNext, TypeOK
  <2>4. \A g \in Files : g # f => next'[g] = next[g] /\ buffered'[g] = buffered[g]
    BY DEF DrainNext, TypeOK
  <2> QED
    BY <2>1, <2>2, <2>3, <2>4 DEF DrainNext
<1>10. /\ hashed[f] \in Seq(Nat \ {0}) /\ hashed'[f] = Append(hashed[f], next[f])
      /\ \A g \in Files : g # f => hashed'[g] = hashed[g]
  BY DEF DrainNext, TypeOK
<1>2. next[f] \in 1 .. Chunks[f] /\ st[<<f, next[f]>>] = "joined"
  BY <1>1 DEF BufferExact
<1>3. HashedInOrder'
  <2>1. ASSUME NEW g \in Files
        PROVE  /\ Len(hashed'[g]) = next'[g] - 1
               /\ \A i \in 1 .. Len(hashed'[g]) : hashed'[g][i] = i
    <3>1. CASE g = f
      <4>1. Len(hashed[f]) = next[f] - 1 /\ \A i \in 1 .. Len(hashed[f]) : hashed[f][i] = i
        BY DEF HashedInOrder
      <4>2. Len(hashed'[f]) = Len(hashed[f]) + 1 /\ Len(hashed[f]) \in Nat
        BY <1>1, <1>10
      <4>3. ASSUME NEW i \in 1 .. Len(hashed'[f]) PROVE hashed'[f][i] = i
        <5>1. CASE i = Len(hashed[f]) + 1
          BY <1>1, <1>10, <4>1, <5>1
        <5>2. CASE i \in 1 .. Len(hashed[f])
          BY <1>1, <1>10, <4>1, <5>2
        <5> QED
          BY <4>2, <5>1, <5>2
      <4>4. Len(hashed'[f]) = next'[f] - 1
        BY <1>1, <4>1, <4>2
      <4> QED
        BY <3>1, <4>3, <4>4
    <3>2. CASE g # f
      BY <1>1, <1>10, <3>2 DEF HashedInOrder
    <3> QED
      BY <3>1, <3>2
  <2> QED
    BY <2>1 DEF HashedInOrder
<1>4. BufferExact'
  <2>1. ASSUME NEW g \in Capture
        PROVE buffered'[g] = {i \in 1 .. Chunks[g] : st[<<g, i>>] = "joined" /\ i >= next'[g]}
    <3>1. buffered[g] = {i \in 1 .. Chunks[g] : st[<<g, i>>] = "joined" /\ i >= next[g]}
      BY DEF BufferExact
    <3>2. CASE g = f
      <4>1. \A i \in 1 .. Chunks[f] : i >= next[f] + 1 <=> i >= next[f] /\ i # next[f]
        BY <1>1
      <4> QED
        BY <1>1, <3>1, <3>2, <4>1
    <3>3. CASE g # f
      BY <1>1, <3>1, <3>3
    <3> QED
      BY <3>2, <3>3
  <2> QED
    BY <1>1, <2>1 DEF BufferExact
<1>5. HashedJoined'
  <2>1. ASSUME NEW g \in Capture
        PROVE  next'[g] <= Chunks[g] + 1 /\ \A i \in 1 .. (next'[g] - 1) : st[<<g, i>>] = "joined"
    <3>1. next[g] <= Chunks[g] + 1 /\ \A i \in 1 .. (next[g] - 1) : st[<<g, i>>] = "joined"
      BY DEF HashedJoined
    <3>2. CASE g = f
      <4>1. \A i \in 1 .. (next'[f] - 1) : i \in 1 .. (next[f] - 1) \/ i = next[f]
        BY <1>1
      <4>2. \A i \in 1 .. (next'[f] - 1) : st[<<f, i>>] = "joined"
        BY <1>2, <3>1, <3>2, <4>1
      <4>3. next'[f] <= Chunks[f] + 1
        BY <1>1, <1>2
      <4> QED
        BY <3>2, <4>2, <4>3
    <3>3. CASE g # f
      BY <1>1, <3>1, <3>3
    <3> QED
      BY <3>2, <3>3
  <2> QED
    BY <1>1, <2>1 DEF HashedJoined
<1>6. Drained'
  BY <1>1 DEF Drained
<1>7. CaptureSuffices'
  BY <1>1 DEF CaptureSuffices, HashComplete
<1>8. DiscardedErred'
  BY <1>1 DEF DiscardedErred, Live
<1>9. DrainsCapture'
  BY <1>1 DEF DrainsCapture
<1> QED
  BY <1>3, <1>4, <1>5, <1>6, <1>7, <1>8, <1>9

LEMMA HashDrained ==
  ASSUME HashInv, TypeOK', NEW f \in Files, DrainDone(f) PROVE HashInv'
<1> USE ChunkPipelineAssumption DEF HashInv, HashState, RunState
<1>1. /\ UNCHANGED <<st, buffered, next, hashed, error>>
      /\ pc[f] = "drain" /\ next[f] \notin buffered[f] /\ pc'[f] = "collect"
      /\ \A g \in Files : g # f => pc'[g] = pc[g]
  BY DEF DrainDone, TypeOK
<1>2. HashedInOrder' /\ BufferExact' /\ HashedJoined'
  BY <1>1 DEF HashedInOrder, BufferExact, HashedJoined
<1>3. Drained'
  BY <1>1 DEF Drained
<1>4. CaptureSuffices'
  BY <1>1 DEF CaptureSuffices, HashComplete
<1>5. DiscardedErred'
  BY <1>1 DEF DiscardedErred, Live
<1>6. DrainsCapture'
  BY <1>1 DEF DrainsCapture
<1> QED
  BY <1>2, <1>3, <1>4, <1>5, <1>6

(* Every chunk is joined, so the drained buffer is empty and the hasher has
   seen them all. *)
LEMMA HashCollected ==
  ASSUME HashInv, TypeOK', NEW f \in Files, CollectDone(f) PROVE HashInv'
<1> USE PairsFact, ChunkPipelineAssumption DEF HashInv, HashState, RunState
<1>1. /\ UNCHANGED <<st, buffered, next, hashed, error>>
      /\ pc[f] = "collect" /\ pc'[f] \in {"failed", "verify"}
      /\ pc'[f] = "verify" => ~error[f]
      /\ \A g \in Files : g # f => pc'[g] = pc[g]
  BY DEF CollectDone, TypeOK
<1>2. HashedInOrder' /\ BufferExact' /\ HashedJoined'
  BY <1>1 DEF HashedInOrder, BufferExact, HashedJoined
<1>3. Drained'
  BY <1>1 DEF Drained
<1>4. ASSUME f \in Capture, ~error[f] PROVE HashComplete(f)
  <2>1. ASSUME NEW i \in 1 .. Chunks[f] PROVE st[<<f, i>>] = "joined"
    <3>1. <<f, i>> \in ChunksOf(f)
      BY DEF ChunksOf
    <3>2. st[<<f, i>>] \in {"joined", "discarded"}
      BY <3>1 DEF CollectDone
    <3> QED
      BY <1>1, <1>4, <3>2 DEF DiscardedErred, Live
  <2>2. buffered[f] = {i \in 1 .. Chunks[f] : st[<<f, i>>] = "joined" /\ i >= next[f]}
    BY <1>4 DEF BufferExact
  <2>3. next[f] \notin buffered[f] /\ next[f] <= Chunks[f] + 1
    BY <1>1, <1>4 DEF Drained, HashedJoined
  <2>4. next[f] \in Nat \ {0} /\ Chunks[f] \in Nat
    BY DEF TypeOK
  <2>5. next[f] = Chunks[f] + 1
    BY <2>1, <2>2, <2>3, <2>4
  <2>6. buffered[f] = {}
    BY <2>2, <2>4, <2>5
  <2> QED
    BY <1>4, <2>5, <2>6 DEF HashComplete
<1>5. CaptureSuffices'
  BY <1>1, <1>4 DEF CaptureSuffices, HashComplete
<1>6. DiscardedErred'
  BY <1>1 DEF DiscardedErred, Live
<1>7. DrainsCapture'
  BY <1>1 DEF DrainsCapture
<1> QED
  BY <1>2, <1>3, <1>5, <1>6, <1>7

LEMMA HashInvHolds == Spec => []HashInv
<1>1. Init /\ TypeOK => HashInv
  <2> SUFFICES ASSUME Init, TypeOK PROVE HashInv
    OBVIOUS
  <2> USE PairsFact, ChunkPipelineAssumption DEF Init
  <2>1. HashedInOrder
    BY DEF HashedInOrder
  <2>2. BufferExact
    BY DEF BufferExact
  <2>3. HashedJoined
    BY DEF HashedJoined
  <2>4. Drained /\ DiscardedErred /\ DrainsCapture /\ CaptureSuffices
    BY DEF Drained, DiscardedErred, DrainsCapture, CaptureSuffices
  <2> QED
    BY <2>1, <2>2, <2>3, <2>4 DEF HashInv
<1>2. HashInv /\ TypeOK' /\ [Next]_vars => HashInv'
  BY HashIdleActions, HashIdleTransfer, HashIdleRun, HashJoin, HashDrain, HashDrained,
     HashCollected DEF Next, FileStep, FileError, DbError
<1> QED
  BY <1>1, <1>2, PipelineTypeCorrect, PTL DEF Spec

(* Whatever the order in which the transfers finish, the hasher is fed chunk
   1, 2, 3, ... and the buffer holds what is joined and not hashed. *)
THEOREM HashFedInOrder == Spec => [](HashedInOrder /\ BufferExact)
<1>1. HashInv => HashedInOrder /\ BufferExact
  BY DEF HashInv
<1> QED
  BY <1>1, HashInvHolds, PTL

(* A captured file that reaches verification was hashed completely, so that
   verified_during_transfer never compares a partial hash. *)
THEOREM CaptureIsComplete == Spec => []CaptureSuffices
<1>1. HashInv => CaptureSuffices
  BY DEF HashInv
<1> QED
  BY <1>1, HashInvHolds, PTL
-----------------------------------------------------------------------------
(* What the sequential reader sees of one file's step. *)
LEMMA VerdictOnly ==
  ASSUME NEW f \in Files, TypeOK,
         \E s \in {"collect", "drain", "verify", "ok", "failed"} : pc' = [pc EXCEPT ![f] = s]
  PROVE  [g \in Files |-> Verdict(g)'] = [[g \in Files |-> Verdict(g)] EXCEPT ![f] = Verdict(f)']
BY DEF Verdict, TypeOK

(* The abstract initial state and steps, in terms of this module. *)
LEMMA SequentialInit == Init => Sequential!Init
BY DEF Init, Verdict, Sequential!Init

LEMMA SequentialFeed ==
  ASSUME HashInv, NEW f \in Files, DrainNext(f) PROVE Sequential!Feed(f)
<1> USE DEF HashState, RunState
<1>1. pc' = pc /\ ended' = ended /\ pc[f] = "drain" /\ f \in Capture
  BY DEF DrainNext, HashInv, DrainsCapture
<1>2. Verdict(f) = "none" /\ \A g \in Files : Verdict(g)' = Verdict(g)
  BY <1>1 DEF Verdict
<1>3. Len(hashed[f]) = next[f] - 1 /\ next[f] \in 1 .. Chunks[f]
  BY <1>1 DEF HashInv, HashedInOrder, BufferExact, DrainNext
<1>4. Chunks[f] \in Nat /\ hashed[f] \in Seq(Nat \ {0}) /\ next[f] \in Nat
  BY ChunkPipelineAssumption DEF HashInv, TypeOK
<1>5. Len(hashed[f]) < Chunks[f] /\ next[f] = Len(hashed[f]) + 1
  BY <1>3, <1>4
<1>6. hashed' = [hashed EXCEPT ![f] = Append(@, Len(@) + 1)]
  BY <1>5 DEF DrainNext
<1> QED
  BY <1>1, <1>2, <1>5, <1>6 DEF Sequential!Feed

LEMMA SequentialAccept ==
  ASSUME HashInv, NEW f \in Files, VerifyDone(f) PROVE Sequential!Accept(f)
<1>1. UNCHANGED <<hashed, ended>> /\ pc[f] = "verify" /\ pc' = [pc EXCEPT ![f] = "ok"]
  BY DEF VerifyDone, HashState, RunState
<1>2. Verdict(f) = "none" /\ Verdict(f)' = "accepted"
  BY <1>1 DEF Verdict, HashInv, TypeOK
<1>3. [g \in Files |-> Verdict(g)'] = [[g \in Files |-> Verdict(g)] EXCEPT ![f] = "accepted"]
  BY <1>1, <1>2, VerdictOnly DEF HashInv
<1>4. f \in Capture => Len(hashed[f]) = Chunks[f]
  <2> SUFFICES ASSUME f \in Capture PROVE Len(hashed[f]) = Chunks[f]
    OBVIOUS
  <2>1. next[f] = Chunks[f] + 1
    BY <1>1 DEF HashInv, CaptureSuffices, HashComplete
  <2>2. Len(hashed[f]) = next[f] - 1 /\ Chunks[f] \in Nat
    BY ChunkPipelineAssumption DEF HashInv, HashedInOrder
  <2> QED
    BY <2>1, <2>2
<1> QED
  BY <1>1, <1>2, <1>3, <1>4 DEF Sequential!Accept

LEMMA SequentialGiveUp ==
  ASSUME HashInv, NEW f \in Files,
         SpawnCancelled(f) \/ (CollectDone(f) /\ error[f]) \/ VerifyFails(f)
  PROVE  Sequential!GiveUp(f)
<1>1. /\ UNCHANGED <<hashed, ended>>
      /\ pc[f] \in {"spawn", "collect", "verify"} /\ pc' = [pc EXCEPT ![f] = "failed"]
  BY DEF SpawnCancelled, CollectDone, VerifyFails, HashState, RunState
<1>2. Verdict(f) = "none" /\ Verdict(f)' = "given_up"
  BY <1>1 DEF Verdict, HashInv, TypeOK
<1>3. [g \in Files |-> Verdict(g)'] = [[g \in Files |-> Verdict(g)] EXCEPT ![f] = "given_up"]
  BY <1>1, <1>2, VerdictOnly DEF HashInv
<1> QED
  BY <1>1, <1>2, <1>3 DEF Sequential!GiveUp

LEMMA SequentialFail ==
  ASSUME HashInv, FileError \/ DbError PROVE Sequential!Fail
<1>1. /\ ended = "no" /\ ended' = "failed" /\ hashed' = hashed
      /\ pc' = [f \in Files |-> IF Live(f) THEN "dropped" ELSE pc[f]]
  BY DEF FileError, DbError, DropDownloads, HashState
<1>2. \A f \in Files : Verdict(f)' = IF Verdict(f) = "none" THEN "given_up" ELSE Verdict(f)
  BY <1>1 DEF Verdict, Live, HashInv, TypeOK
<1> QED
  BY <1>1, <1>2 DEF Sequential!Fail

LEMMA SequentialComplete ==
  ASSUME AllOk PROVE Sequential!Complete
<1>1. \A f \in Files : Verdict(f) = "accepted" /\ Verdict(f)' = Verdict(f)
  BY DEF AllOk, Verdict
<1> QED
  BY <1>1 DEF AllOk, HashState, Sequential!Complete

(* Every other step is invisible to it. *)
LEMMA SequentialStutter ==
  ASSUME HashInv, UNCHANGED <<hashed, ended>>,
         \/ UNCHANGED pc
         \/ \E f \in Files : \E s \in {"collect", "drain", "verify"} :
              Live(f) /\ pc' = [pc EXCEPT ![f] = s]
  PROVE  UNCHANGED Sequential!vars
<1>1. \A f \in Files : Verdict(f)' = Verdict(f)
  BY DEF Verdict, Live, HashInv, TypeOK
<1> QED
  BY <1>1 DEF Sequential!vars

LEMMA SequentialStep ==
  ASSUME HashInv, [Next]_vars PROVE [Sequential!Next]_(Sequential!vars)
<1> USE DEF HashState, RunState
<1>1. ASSUME NEW f \in Files, FileStep(f) PROVE [Sequential!Next]_(Sequential!vars)
  <2>1. ASSUME NEW p \in ChunksOf(f), SpawnQueued(p) \/ SpawnPreacquired(p) \/ JoinFailed(p)
        PROVE  UNCHANGED Sequential!vars
    BY <2>1, SequentialStutter DEF SpawnQueued, SpawnPreacquired, JoinFailed
  <2>2. ASSUME NEW p \in ChunksOf(f), Join(p) PROVE UNCHANGED Sequential!vars
    <3>1. p[1] \in Files
      BY PairType
    <3>2. /\ UNCHANGED <<hashed, ended>> /\ Live(p[1])
          /\ UNCHANGED pc \/ pc' = [pc EXCEPT ![p[1]] = "drain"]
      BY <2>2 DEF Join, Live
    <3> QED
      BY <3>1, <3>2, SequentialStutter
  <2>3. CASE SpawnDone(f) \/ DrainDone(f) \/ (CollectDone(f) /\ ~error[f])
    BY <2>3, SequentialStutter DEF SpawnDone, DrainDone, CollectDone, Live
  <2>4. CASE SpawnCancelled(f) \/ (CollectDone(f) /\ error[f]) \/ VerifyFails(f)
    BY <2>4, SequentialGiveUp DEF Sequential!Next
  <2>5. CASE DrainNext(f)
    BY <2>5, SequentialFeed DEF Sequential!Next
  <2>6. CASE VerifyDone(f)
    BY <2>6, SequentialAccept DEF Sequential!Next
  <2> QED
    BY <1>1, <2>1, <2>2, <2>3, <2>4, <2>5, <2>6 DEF FileStep
<1>2. ASSUME NEW p \in Pairs, TransferStep(p) PROVE UNCHANGED Sequential!vars
  BY <1>2, SequentialStutter
     DEF TransferStep, AcquirePermit, QueuedCancelled, TransferOk, TransferFails
<1>3. CASE FileError \/ DbError
  BY <1>3, SequentialFail DEF Sequential!Next
<1>4. CASE AllOk
  BY <1>4, SequentialComplete DEF Sequential!Next
<1>5. CASE Cancel \/ UNCHANGED vars
  BY <1>5, SequentialStutter DEF Cancel, vars
<1> QED
  BY <1>1, <1>2, <1>3, <1>4, <1>5 DEF Next

(* However many transfers run at once, whatever their order and whatever
   fails, the run is one a sequential reader of the files could have made:
   hashed from the first chunk to the last and never accepted before. *)
THEOREM RefinesSequentialHash == Spec => HashesSequentially
<1>1. HashInv /\ [Next]_vars => [Sequential!Next]_(Sequential!vars)
  BY SequentialStep
<1> QED
  BY <1>1, SequentialInit, HashInvHolds, PTL DEF Spec, HashesSequentially, Sequential!Spec

-----------------------------------------------------------------------------
(* A run gets on: its files, transfers and permits never wait for each other
   in a circle, and its steps are numbered. *)

States == {"new", "queued", "running", "ready", "failed", "joined", "discarded"}
Places == {"spawn", "collect", "drain", "verify", "ok", "failed", "dropped"}

(* How the transfers of a file stand, by where the file is. *)
Standing ==
  /\ \A f \in Files : pc[f] = "dropped" => ended # "no"
  /\ \A f \in Files : ended # "no" => ~Live(f)
  /\ \A p \in Pairs : pc[p[1]] \in {"collect", "drain"} => st[p] # "new"
  /\ \A p \in Pairs : pc[p[1]] \in {"verify", "ok"} => st[p] \in {"joined", "discarded"}
  /\ \A p \in Pairs : ~Live(p[1]) /\ p[1] \in Capture => st[p] # "ready"

(* A step of one transfer. *)
LEMMA TransferStanding ==
  ASSUME TypeOK, Standing, NEW p \in Pairs, NEW s \in States \ {"new"},
         st' = [st EXCEPT ![p] = s], UNCHANGED <<pc, ended>>,
         pc[p[1]] \in {"verify", "ok"} => s \in {"joined", "discarded"},
         ~Live(p[1]) => s # "ready"
  PROVE  Standing'
<1>1. \A q \in Pairs : st'[q] = IF q = p THEN s ELSE st[q]
  BY DEF TypeOK
<1>2. \A f : Live(f)' <=> Live(f)
  BY DEF Live
<1> QED
  BY <1>1, <1>2 DEF Standing

(* A step of one file, its transfers staying as they are. *)
LEMMA FileStanding ==
  ASSUME TypeOK, Standing, NEW f \in Files, NEW s \in Places \ {"dropped"},
         pc' = [pc EXCEPT ![f] = s], UNCHANGED <<st, ended>>, Live(f),
         s \in {"collect", "drain"} => \A p \in ChunksOf(f) : st[p] # "new",
         s \in {"verify", "ok"} => \A p \in ChunksOf(f) : st[p] \in {"joined", "discarded"},
         s = "failed" /\ f \in Capture => \A p \in ChunksOf(f) : st[p] # "ready",
         s # "spawn"
  PROVE  Standing'
<1>1. \A g \in Files : pc'[g] = IF g = f THEN s ELSE pc[g]
  BY DEF TypeOK
<1>2. \A p \in Pairs : p[1] \in Files /\ (p[1] = f => p \in ChunksOf(f))
  BY PairsFact DEF ChunksOf
<1>3. /\ \A g \in Files : pc'[g] = "dropped" => ended' # "no"
      /\ \A g \in Files : ended' # "no" => ~Live(g)'
  BY <1>1 DEF Standing, Live
<1>4. ASSUME NEW p \in Pairs
      PROVE  /\ pc'[p[1]] \in {"collect", "drain"} => st'[p] # "new"
             /\ pc'[p[1]] \in {"verify", "ok"} => st'[p] \in {"joined", "discarded"}
             /\ ~Live(p[1])' /\ p[1] \in Capture => st'[p] # "ready"
  <2>1. CASE p[1] = f
    BY <1>1, <1>2, <2>1 DEF Live, Places
  <2>2. CASE p[1] # f
    BY <1>1, <1>2, <2>2 DEF Standing, Live
  <2> QED
    BY <2>1, <2>2
<1> QED
  BY <1>3, <1>4 DEF Standing

LEMMA FileStepStanding ==
  ASSUME TypeOK, TypeOK', Standing, NEW f \in Files, FileStep(f)
  PROVE  Standing'
<1>1. ASSUME NEW p \in ChunksOf(f), SpawnQueued(p) \/ SpawnPreacquired(p) \/ JoinFailed(p)
      PROVE  Standing'
  <2>1. p \in Pairs /\ p[1] = f
    BY PairType
  <2>2. PICK s \in {"queued", "running", "discarded"} : st' = [st EXCEPT ![p] = s]
    BY <1>1 DEF SpawnQueued, SpawnPreacquired, JoinFailed
  <2>3. UNCHANGED <<pc, ended>> /\ pc[f] \in {"spawn", "collect"}
    BY <1>1, <2>1 DEF SpawnQueued, SpawnPreacquired, JoinFailed, RunState
  <2>4. s \in States \ {"new"}
    BY DEF States
  <2> QED
    BY <2>1, <2>2, <2>3, <2>4, TransferStanding
<1>2. ASSUME NEW p \in ChunksOf(f), Join(p) PROVE Standing'
  <2>1. p \in Pairs /\ p[1] = f
    BY PairType
  <2>2. /\ st' = [st EXCEPT ![p] = "joined"] /\ pc[f] = "collect" /\ UNCHANGED ended
        /\ pc' = pc \/ pc' = [pc EXCEPT ![f] = "drain"]
    BY <1>2, <2>1 DEF Join, RunState
  <2>3. /\ \A q \in Pairs : st'[q] = st[q] \/ st'[q] = "joined"
        /\ \A g \in Files : g # f => pc'[g] = pc[g]
        /\ pc'[f] \in {"collect", "drain"}
    BY <2>2 DEF TypeOK
  <2>4. \A g \in Files : Live(g)' <=> Live(g)
    BY <2>2, <2>3 DEF Live
  <2>5. \A q \in Pairs : q[1] \in Files
    BY PairsFact
  <2> QED
    BY <2>2, <2>3, <2>4, <2>5 DEF Standing
<1>3. CASE SpawnCancelled(f)
  <2>1. pc' = [pc EXCEPT ![f] = "failed"] /\ UNCHANGED <<st, ended>> /\ f \notin Capture /\ Live(f)
    BY <1>3 DEF SpawnCancelled, RunState, Live
  <2> QED
    BY <2>1, FileStanding DEF Places
<1>4. CASE SpawnDone(f)
  <2>1. /\ pc' = [pc EXCEPT ![f] = "collect"] /\ UNCHANGED <<st, ended>> /\ Live(f)
        /\ \A p \in ChunksOf(f) : st[p] # "new"
    BY <1>4 DEF SpawnDone, RunState, Live
  <2> QED
    BY <2>1, FileStanding DEF Places
<1>5. CASE DrainNext(f)
  <2>1. UNCHANGED <<pc, st, ended>>
    BY <1>5 DEF DrainNext, RunState
  <2> QED
    BY <2>1 DEF Standing, Live
<1>6. CASE DrainDone(f)
  <2>1. pc' = [pc EXCEPT ![f] = "collect"] /\ UNCHANGED <<st, ended>> /\ pc[f] = "drain" /\ Live(f)
    BY <1>6 DEF DrainDone, RunState, Live
  <2>2. \A p \in ChunksOf(f) : st[p] # "new"
    BY <2>1, PairType DEF Standing
  <2> QED
    BY <2>1, <2>2, FileStanding DEF Places
<1>7. CASE CollectDone(f)
  <2>1. PICK s \in {"failed", "verify"} : pc' = [pc EXCEPT ![f] = s]
    BY <1>7 DEF CollectDone
  <2>2. /\ UNCHANGED <<st, ended>> /\ Live(f) /\ s \in Places \ {"dropped"}
        /\ \A p \in ChunksOf(f) : st[p] \in {"joined", "discarded"}
    BY <1>7 DEF CollectDone, RunState, Live, Places
  <2> QED
    BY <2>1, <2>2, FileStanding
<1>8. CASE VerifyDone(f) \/ VerifyFails(f)
  <2>1. /\ \E s \in {"ok", "failed"} : pc' = [pc EXCEPT ![f] = s]
        /\ UNCHANGED <<st, ended>> /\ pc[f] = "verify" /\ Live(f)
    BY <1>8 DEF VerifyDone, VerifyFails, RunState, Live
  <2>2. \A p \in ChunksOf(f) : st[p] \in {"joined", "discarded"}
    BY <2>1, PairType DEF Standing
  <2> QED
    BY <2>1, <2>2, FileStanding DEF Places
<1> QED
  BY <1>1, <1>2, <1>3, <1>4, <1>5, <1>6, <1>7, <1>8 DEF FileStep

LEMMA NextStanding ==
  ASSUME TypeOK, TypeOK', Standing, [Next]_vars
  PROVE  Standing'
<1>1. ASSUME NEW p \in Pairs, TransferStep(p) PROVE Standing'
  <2>1. PICK s \in {"running", "ready", "failed", "discarded"} : st' = [st EXCEPT ![p] = s]
    BY <1>1 DEF TransferStep, AcquirePermit, QueuedCancelled, TransferOk, TransferFails
  <2>2. UNCHANGED <<pc, ended>> /\ st[p] \in {"queued", "running"}
    BY <1>1 DEF TransferStep, AcquirePermit, QueuedCancelled, TransferOk, TransferFails, RunState
  <2>3. pc[p[1]] \notin {"verify", "ok"}
    BY <2>2 DEF Standing
  <2>4. st'[p] = s /\ (st'[p] = "ready" => Live(p[1]))
    BY <1>1, <2>1 DEF TransferStep, AcquirePermit, QueuedCancelled, TransferOk, TransferFails, TypeOK
  <2>5. s \in States \ {"new"}
    BY DEF States
  <2> QED
    BY <2>1, <2>2, <2>3, <2>4, <2>5, TransferStanding
<1>2. ASSUME DropDownloads PROVE Standing'
  <2>1. /\ ended' = "failed"
        /\ \A f \in Files : pc'[f] = IF Live(f) THEN "dropped" ELSE pc[f]
        /\ \A p \in Pairs : st'[p] = IF st[p] \in {"ready", "failed"} THEN "discarded" ELSE st[p]
    BY <1>2 DEF DropDownloads
  <2>2. \A f \in Files : ~Live(f)' /\ (pc'[f] = pc[f] \/ pc'[f] = "dropped")
    BY <2>1 DEF Live
  <2>3. \A p \in Pairs : p[1] \in Files
    BY PairsFact
  <2>4. \A p \in Pairs : /\ pc'[p[1]] \notin {"collect", "drain"}
                         /\ pc'[p[1]] \in {"verify", "ok"} => pc'[p[1]] = pc[p[1]]
    BY <2>2, <2>3 DEF Live
  <2>5. \A p \in Pairs : pc'[p[1]] \in {"verify", "ok"} => st'[p] \in {"joined", "discarded"}
    BY <2>1, <2>4 DEF Standing
  <2> QED
    BY <2>1, <2>2, <2>4, <2>5 DEF Standing
<1>3. CASE AllOk
  <2>1. UNCHANGED <<pc, st>> /\ ended' = "completed" /\ \A f \in Files : pc[f] = "ok"
    BY <1>3 DEF AllOk
  <2> QED
    BY <2>1 DEF Standing, Live
<1>4. CASE Cancel \/ UNCHANGED vars
  <2>1. UNCHANGED <<pc, st, ended>>
    BY <1>4 DEF Cancel, vars
  <2> QED
    BY <2>1 DEF Standing, Live
<1> QED
  BY <1>1, <1>2, <1>3, <1>4, FileStepStanding DEF Next, FileError, DbError

LEMMA StandingHolds == Spec => []Standing
<1>1. Init => Standing
  <2> SUFFICES ASSUME Init PROVE Standing
    OBVIOUS
  <2>1. /\ \A f \in Files : pc[f] = "spawn" /\ \A p \in Pairs : st[p] = "new"
        /\ ended = "no"
    BY DEF Init
  <2>2. \A p \in Pairs : p[1] \in Files
    BY PairsFact
  <2>3. \A p \in Pairs : st[p] = "new"
    BY DEF Init
  <2> QED
    BY <2>1, <2>2, <2>3 DEF Standing, Live
<1>2. TypeOK /\ TypeOK' /\ Standing /\ [Next]_vars => Standing'
  BY NextStanding
<1> QED
  BY <1>1, <1>2, PipelineTypeCorrect, PTL DEF Spec

(* The guards of FileStep, of TransferStep, and of FileError and AllOk. *)
FileReady(f) ==
  \/ /\ pc[f] = "spawn"
     /\ \/ \A p \in ChunksOf(f) : st[p] # "new"
        \/ \E p \in ChunksOf(f) : Unspawned(p) /\ (f \in Capture \/ permits > 0 \/ cancelled)
  \/ /\ pc[f] = "collect"
     /\ \/ \E p \in ChunksOf(f) : st[p] \in {"ready", "failed"}
        \/ \A p \in ChunksOf(f) : st[p] \in {"joined", "discarded"}
  \/ pc[f] \in {"drain", "verify"}
TransferReady(p) ==
  \/ st[p] = "running"
  \/ st[p] = "queued" /\ (permits > 0 \/ cancelled)
RunReady ==
  /\ ended = "no"
  /\ \/ (\E f \in Files : pc[f] = "failed") /\ \A f \in Files : pc[f] # "drain"
     \/ \A f \in Files : pc[f] = "ok"

Unblocked ==
  /\ ended = "no" => \/ \E f \in Files : FileReady(f)
                     \/ \E p \in Pairs : TransferReady(p)
                     \/ RunReady
  /\ ended # "no" /\ permits # StreamLimit => \E p \in Pairs : st[p] = "running"

(* The spawn loop takes the chunks of a file in order: one is next. *)
LEMMA OneUnspawned ==
  ASSUME NEW f \in Files, NEW p \in ChunksOf(f), st[p] = "new"
  PROVE  \E q \in ChunksOf(f) : Unspawned(q)
<1> DEFINE S == {i \in Nat : <<f, i>> \in ChunksOf(f) /\ st[<<f, i>>] = "new"}
<1>1. S \subseteq Nat /\ S # {}
  BY PairType
<1>2. PICK i \in S : \A j \in S : ~(<<j, i>> \in OpToRel(<, Nat))
  <2> HIDE DEF S
  <2> QED
    BY <1>1, WFMin, NatLessThanWellFounded, Zenon
<1>3. \A j \in S : ~(j < i)
  BY <1>1, <1>2, Zenon DEF OpToRel
<1>4. ASSUME NEW q \in ChunksOf(f), q[2] < i
      PROVE  st[q] # "new"
  BY <1>3, <1>4, PairType
<1>5. <<f, i>> \in ChunksOf(f) /\ st[<<f, i>>] = "new" /\ <<f, i>>[1] = f /\ <<f, i>>[2] = i
  BY <1>2
<1> QED
  BY <1>4, <1>5 DEF Unspawned

LEMMA PermitsFree ==
  ASSUME PermitInv
  PROVE  Holders = {} => permits = StreamLimit /\ permits > 0
<1>1. permits \in Nat /\ StreamLimit \in Nat \ {0} /\ permits + Cardinality(Holders) = StreamLimit
  BY ChunkPipelineAssumption DEF PermitInv, TypeOK, PermitsConserved
<1>2. Holders = {} => Cardinality(Holders) = 0
  BY FS_EmptySet
<1> QED
  BY <1>1, <1>2

(* Whoever holds a permit can step; when nobody holds one, a permit is free. *)
LEMMA PipelineUnblocked ==
  ASSUME PermitInv, Standing
  PROVE  Unblocked
<1>0. /\ \A f \in Files : pc[f] \in Places
      /\ \A p \in Pairs : st[p] \in States /\ p[1] \in Files /\ p \in ChunksOf(p[1])
  BY PairsFact DEF PermitInv, TypeOK, Places, States, ChunksOf
<1>1. ASSUME ended = "no", \A f \in Files : ~FileReady(f), \A p \in Pairs : ~TransferReady(p)
      PROVE  RunReady
  <2>1. \A f \in Files : pc[f] \in {"spawn", "collect", "ok", "failed"}
    BY <1>0, <1>1 DEF FileReady, Places, Standing
  <2>2. ASSUME \A f \in Files : pc[f] # "failed"
        PROVE  \A f \in Files : pc[f] = "ok"
    <3>1. \A p \in Pairs : ~(p[1] \in Capture /\ st[p] = "ready")
      <4> SUFFICES ASSUME NEW p \in Pairs, p[1] \in Capture, st[p] = "ready"
                   PROVE  FALSE
        OBVIOUS
      <4>1. CASE pc[p[1]] = "spawn"
        <5>1. PICK q \in ChunksOf(p[1]) : st[q] = "new"
          BY <1>0, <1>1, <4>1 DEF FileReady
        <5> QED
          BY <1>0, <1>1, <4>1, <5>1, OneUnspawned DEF FileReady
      <4>2. CASE pc[p[1]] = "collect"
        BY <1>0, <1>1, <4>2 DEF FileReady
      <4>3. CASE pc[p[1]] = "ok"
        BY <4>3 DEF Standing
      <4> QED
        BY <1>0, <2>1, <2>2, <4>1, <4>2, <4>3
    <3>2. Holders = {}
      BY <1>1, <2>1, <3>1 DEF Holders, TransferReady
    <3>3. permits > 0
      BY <3>2, PermitsFree
    <3>4. \A f \in Files : pc[f] # "spawn"
      BY <1>1, <3>3, OneUnspawned DEF FileReady
    <3>5. ASSUME NEW f \in Files, pc[f] = "collect"
          PROVE  FALSE
      <4>1. PICK p \in ChunksOf(f) : st[p] \notin {"joined", "discarded"}
        BY <1>1, <3>5 DEF FileReady
      <4>2. p \in Pairs /\ p[1] = f
        BY PairType
      <4>3. st[p] \notin {"new", "ready", "failed", "running", "queued"}
        BY <1>1, <3>3, <3>5, <4>2 DEF FileReady, TransferReady, Standing
      <4> QED
        BY <1>0, <4>1, <4>2, <4>3 DEF States
    <3> QED
      BY <2>1, <2>2, <3>4, <3>5
  <2> QED
    BY <1>1, <2>1, <2>2 DEF RunReady
<1>2. ASSUME ended # "no", permits # StreamLimit
      PROVE  \E p \in Pairs : st[p] = "running"
  <2>1. Holders # {}
    BY <1>2, PermitsFree
  <2>2. \A f \in Files : pc[f] # "drain"
    BY <1>2 DEF Standing, Live
  <2>3. \A p \in Pairs : ~(st[p] = "ready" /\ p[1] \in Capture)
    BY <1>0, <1>2 DEF Standing
  <2> QED
    BY <2>1, <2>2, <2>3 DEF Holders
<1> QED
  BY <1>1, <1>2 DEF Unblocked

(* Whatever the files, their chunks and the number of permits: while the run
   lasts, a file, a transfer or run_task can go on, though captured results
   keep their permits until they are joined in completion order, spawn loops
   wait for the same permits, and the hash takes the chunks in index order.
   After the run, as long as a permit is out, a transfer that holds one runs. *)
THEOREM PipelineIsNeverBlocked == Spec => []Unblocked
<1>1. PermitInv /\ Standing => Unblocked
  BY PipelineUnblocked
<1> QED
  BY <1>1, PermitInvHolds, StandingHolds, PTL

(* The stages that a transfer, or a file, has still before it. *)
ChunkStages(s) == CASE s = "new" -> 4 [] s = "queued" -> 3 [] s = "running" -> 2
                    [] s \in {"ready", "failed"} -> 1 [] OTHER -> 0
FileStages(s) == CASE s = "spawn" -> 3 [] s \in {"collect", "drain"} -> 2
                   [] s = "verify" -> 1 [] OTHER -> 0

(* What is ahead: stages of transfers and of files, chunks to hash, turns of
   the drain loop, the end of the run and its cancellation. *)
ChunksAhead == {x \in Pairs \X (1 .. 4) : x[2] <= ChunkStages(st[x[1]])}
FilesAhead == {x \in Files \X (1 .. 3) : x[2] <= FileStages(pc[x[1]])}
HashAhead == {p \in Pairs : p[1] \in Capture /\ p[2] >= next[p[1]]}
DrainsAhead == {p \in Pairs : st[p] \notin {"joined", "discarded"}}
               \cup {<<f, 0>> : f \in {g \in Files : pc[g] = "drain"}}
EndsAhead == (IF ended = "no" THEN 1 ELSE 0) + (IF cancelled THEN 0 ELSE 1)
StepsLeft == Cardinality(ChunksAhead) + Cardinality(FilesAhead) + Cardinality(HashAhead)
             + Cardinality(DrainsAhead) + EndsAhead

LEMMA AheadFinite ==
  ASSUME IsFiniteSet(Files)
  PROVE  /\ IsFiniteSet(ChunksAhead) /\ IsFiniteSet(FilesAhead)
         /\ IsFiniteSet(HashAhead) /\ IsFiniteSet(DrainsAhead)
<1>1. IsFiniteSet(1 .. 4) /\ IsFiniteSet(1 .. 3)
  <2>1. 1 \in Int /\ 3 \in Int /\ 4 \in Int
    OBVIOUS
  <2> QED
    BY <2>1, FS_Interval
<1>2. IsFiniteSet(Pairs)
  <2> DEFINE of == [f \in Files |-> {f} \X (1 .. Chunks[f])]
             T == {of[f] : f \in Files}
  <2>1. IsFiniteSet(T)
    <3>1. of \in Surjection(Files, T)
      BY DEF Surjection
    <3> HIDE DEF of, T
    <3> QED
      BY <3>1, FS_Surjection
  <2>2. \A X \in T : IsFiniteSet(X)
    <3> SUFFICES ASSUME NEW f \in Files PROVE IsFiniteSet({f} \X (1 .. Chunks[f]))
      OBVIOUS
    <3> DEFINE n == Chunks[f]
               one == {f}
    <3>1. 1 \in Int /\ n \in Int
      BY ChunkPipelineAssumption
    <3>2. IsFiniteSet(one)
      BY FS_Singleton
    <3> HIDE DEF n, one
    <3>3. IsFiniteSet(1 .. n)
      BY <3>1, FS_Interval
    <3>4. IsFiniteSet(one \X (1 .. n))
      BY <3>2, <3>3, FS_Product
    <3> QED
      BY <3>4 DEF n, one
  <2>3. Pairs = UNION T
    BY DEF Pairs
  <2> HIDE DEF T
  <2> QED
    BY <2>1, <2>2, <2>3, FS_UNION
<1>3. IsFiniteSet(ChunksAhead) /\ IsFiniteSet(FilesAhead)
  <2>1. ChunksAhead \in SUBSET (Pairs \X (1 .. 4)) /\ FilesAhead \in SUBSET (Files \X (1 .. 3))
    BY DEF ChunksAhead, FilesAhead
  <2>2. IsFiniteSet(Pairs \X (1 .. 4)) /\ IsFiniteSet(Files \X (1 .. 3))
    BY <1>1, <1>2, FS_Product
  <2> QED
    BY <2>1, <2>2, FS_Subset
<1>4. IsFiniteSet(HashAhead)
  <2>1. HashAhead \in SUBSET Pairs
    BY DEF HashAhead
  <2> QED
    BY <1>2, <2>1, FS_Subset
<1>5. IsFiniteSet(DrainsAhead)
  <2> DEFINE zero == {0}
  <2>1. IsFiniteSet(zero)
    BY FS_Singleton
  <2>2. DrainsAhead \in SUBSET (Pairs \cup (Files \X zero))
    BY DEF DrainsAhead
  <2> HIDE DEF zero
  <2>3. IsFiniteSet(Files \X zero)
    BY <2>1, FS_Product
  <2>4. IsFiniteSet(Pairs \cup (Files \X zero))
    BY <1>2, <2>3, FS_Union
  <2> QED
    BY <2>2, <2>4, FS_Subset
<1> QED
  BY <1>3, <1>4, <1>5

(* Part of a finite set has no more elements, and fewer unless it is all of it. *)
LEMMA Shrunk ==
  ASSUME NEW S, IsFiniteSet(S), NEW T, T \subseteq S
  PROVE  /\ Cardinality(T) \in Nat /\ Cardinality(S) \in Nat /\ Cardinality(T) <= Cardinality(S)
         /\ T # S => Cardinality(T) < Cardinality(S)
<1>1. T \in SUBSET S
  OBVIOUS
<1>2. IsFiniteSet(T) /\ Cardinality(T) <= Cardinality(S) /\ (Cardinality(S) = Cardinality(T) => S = T)
  BY <1>1, FS_Subset
<1>3. Cardinality(T) \in Nat /\ Cardinality(S) \in Nat
  BY <1>2, FS_CardinalityType
<1> QED
  BY <1>2, <1>3

(* One element for another leaves as many. *)
LEMMA Swapped ==
  ASSUME NEW S, IsFiniteSet(S), NEW x \in S, NEW y, y \notin S, NEW T, T = (S \ {x}) \cup {y}
  PROVE  Cardinality(T) = Cardinality(S)
<1>1. IsFiniteSet(S \ {x}) /\ Cardinality(S \ {x}) = Cardinality(S) - 1
  BY FS_RemoveElement
<1>2. Cardinality(T) = Cardinality(S \ {x}) + 1
  BY <1>1, FS_AddElement
<1>3. Cardinality(S) \in Nat
  BY FS_CardinalityType
<1> QED
  BY <1>1, <1>2, <1>3

(* A step that leaves no more ahead of any kind, and less of one, is counted. *)
LEMMA OneFewer ==
  ASSUME IsFiniteSet(Files),
         ChunksAhead' \subseteq ChunksAhead, FilesAhead' \subseteq FilesAhead,
         HashAhead' \subseteq HashAhead,
         DrainsAhead' \subseteq DrainsAhead \/ Cardinality(DrainsAhead') = Cardinality(DrainsAhead),
         EndsAhead' <= EndsAhead, EndsAhead' \in Nat, EndsAhead \in Nat,
         \/ ChunksAhead' # ChunksAhead \/ FilesAhead' # FilesAhead \/ HashAhead' # HashAhead
         \/ DrainsAhead' \subseteq DrainsAhead /\ DrainsAhead' # DrainsAhead
         \/ EndsAhead' < EndsAhead
  PROVE  StepsLeft \in Nat /\ StepsLeft' < StepsLeft
<1> DEFINE a == Cardinality(ChunksAhead)
           b == Cardinality(FilesAhead)
           c == Cardinality(HashAhead)
           d == Cardinality(DrainsAhead)
           e == EndsAhead
           v == Cardinality(ChunksAhead')
           w == Cardinality(FilesAhead')
           x == Cardinality(HashAhead')
           y == Cardinality(DrainsAhead')
           z == EndsAhead'
<1>1. /\ a \in Nat /\ v \in Nat /\ v <= a /\ (ChunksAhead' # ChunksAhead => v < a)
      /\ b \in Nat /\ w \in Nat /\ w <= b /\ (FilesAhead' # FilesAhead => w < b)
      /\ c \in Nat /\ x \in Nat /\ x <= c /\ (HashAhead' # HashAhead => x < c)
  BY AheadFinite, Shrunk
<1>2. d \in Nat
  BY AheadFinite, FS_CardinalityType
<1>3. /\ y \in Nat /\ y <= d
      /\ DrainsAhead' \subseteq DrainsAhead /\ DrainsAhead' # DrainsAhead => y < d
  <2>1. CASE DrainsAhead' \subseteq DrainsAhead
    BY <2>1, AheadFinite, Shrunk
  <2>2. CASE ~(DrainsAhead' \subseteq DrainsAhead)
    <3>1. y = d
      BY <2>2
    <3> HIDE DEF y, d
    <3> QED
      BY <1>2, <2>2, <3>1
  <2> QED
    BY <2>1, <2>2
<1>4. StepsLeft = a + b + c + d + e /\ StepsLeft' = v + w + x + y + z
  BY DEF StepsLeft
<1>5. e \in Nat /\ z \in Nat /\ z <= e
  OBVIOUS
<1>6. v < a \/ w < b \/ x < c \/ y < d \/ z < e
  BY <1>1, <1>3
<1> HIDE DEF a, b, c, d, e, v, w, x, y, z
<1> QED
  BY <1>1, <1>2, <1>3, <1>4, <1>5, <1>6

LEMMA EndsCounted == EndsAhead \in Nat
  BY DEF EndsAhead

(* A transfer that goes a stage further ... *)
LEMMA ChunkNearer ==
  ASSUME TypeOK, NEW p \in Pairs, NEW s \in States, st' = [st EXCEPT ![p] = s],
         ChunkStages(s) < ChunkStages(st[p])
  PROVE  /\ ChunksAhead' \subseteq ChunksAhead /\ ChunksAhead' # ChunksAhead
         /\ \A q \in Pairs : st[q] \in {"joined", "discarded"} => st'[q] \in {"joined", "discarded"}
<1>1. \A q \in Pairs : st'[q] = IF q = p THEN s ELSE st[q]
  BY DEF TypeOK
<1>2. \A r : ChunkStages(r) \in 0 .. 4
  BY DEF ChunkStages
<1>3. ChunksAhead' \subseteq ChunksAhead
  <2> SUFFICES ASSUME NEW q \in Pairs, NEW k \in 1 .. 4, k <= ChunkStages(st'[q])
               PROVE  k <= ChunkStages(st[q])
    BY DEF ChunksAhead
  <2> QED
    BY <1>1, <1>2
<1>4. ChunksAhead' # ChunksAhead
  <2> DEFINE k == ChunkStages(st[p])
  <2>1. k \in 1 .. 4 /\ k <= ChunkStages(st[p]) /\ ~(k <= ChunkStages(s))
    BY <1>2
  <2> HIDE DEF k
  <2>2. <<p, k>> \in ChunksAhead
    BY <2>1 DEF ChunksAhead
  <2>3. st'[p] = s
    BY <1>1
  <2>4. <<p, k>> \notin ChunksAhead'
    BY <2>1, <2>3 DEF ChunksAhead
  <2> QED
    BY <2>2, <2>4
<1>5. st[p] \notin {"joined", "discarded"}
  BY <1>2 DEF ChunkStages
<1> QED
  BY <1>1, <1>3, <1>4, <1>5

(* ... and files none of which falls back. *)
LEMMA FilesNearer ==
  ASSUME \A f \in Files : FileStages(pc'[f]) <= FileStages(pc[f])
  PROVE  /\ FilesAhead' \subseteq FilesAhead
         /\ (\E f \in Files : FileStages(pc'[f]) < FileStages(pc[f])) => FilesAhead' # FilesAhead
<1>1. \A r : FileStages(r) \in 0 .. 3
  BY DEF FileStages
<1>2. FilesAhead' \subseteq FilesAhead
  <2> SUFFICES ASSUME NEW f \in Files, NEW k \in 1 .. 3, k <= FileStages(pc'[f])
               PROVE  k <= FileStages(pc[f])
    BY DEF FilesAhead
  <2> QED
    BY <1>1
<1>3. ASSUME NEW f \in Files, FileStages(pc'[f]) < FileStages(pc[f])
      PROVE  FilesAhead' # FilesAhead
  <2> DEFINE k == FileStages(pc[f])
  <2>1. k \in 1 .. 3 /\ k <= FileStages(pc[f]) /\ ~(k <= FileStages(pc'[f]))
    BY <1>1, <1>3
  <2> HIDE DEF k
  <2>2. <<f, k>> \in FilesAhead /\ <<f, k>> \notin FilesAhead'
    BY <2>1 DEF FilesAhead
  <2> QED
    BY <2>2
<1> QED
  BY <1>2, <1>3

(* A step of a transfer that only moves that transfer. *)
LEMMA TransferFewer ==
  ASSUME IsFiniteSet(Files), TypeOK, NEW p \in Pairs, NEW s \in States,
         st' = [st EXCEPT ![p] = s], ChunkStages(s) < ChunkStages(st[p]),
         UNCHANGED <<pc, next, ended, cancelled>>
  PROVE  StepsLeft \in Nat /\ StepsLeft' < StepsLeft
<1>1. FilesAhead' = FilesAhead /\ HashAhead' = HashAhead /\ EndsAhead' = EndsAhead
  BY DEF FilesAhead, HashAhead, EndsAhead
<1>2. EndsAhead \in Nat /\ EndsAhead' <= EndsAhead
  BY <1>1, EndsCounted
<1>3. DrainsAhead' \subseteq DrainsAhead
  BY ChunkNearer DEF DrainsAhead
<1>4. ChunksAhead' \subseteq ChunksAhead /\ ChunksAhead' # ChunksAhead
  BY ChunkNearer
<1> QED
  BY <1>1, <1>2, <1>3, <1>4, OneFewer

(* A step of a file that only moves that file. *)
LEMMA FileFewer ==
  ASSUME IsFiniteSet(Files), TypeOK, NEW f \in Files, NEW s \in Places \ {"drain"},
         pc' = [pc EXCEPT ![f] = s], UNCHANGED <<st, next, ended, cancelled>>,
         FileStages(s) < FileStages(pc[f])
  PROVE  StepsLeft \in Nat /\ StepsLeft' < StepsLeft
<1>1. \A g \in Files : pc'[g] = IF g = f THEN s ELSE pc[g]
  BY DEF TypeOK
<1>2. ChunksAhead' = ChunksAhead /\ HashAhead' = HashAhead /\ EndsAhead' = EndsAhead
  BY DEF ChunksAhead, HashAhead, EndsAhead
<1>3. EndsAhead \in Nat /\ EndsAhead' <= EndsAhead
  BY <1>2, EndsCounted
<1>4. DrainsAhead' \subseteq DrainsAhead
  BY <1>1 DEF DrainsAhead
<1>5. FilesAhead' \subseteq FilesAhead /\ FilesAhead' # FilesAhead
  <2>1. \A r : FileStages(r) \in 0 .. 3
    BY DEF FileStages
  <2>2. \A g \in Files : FileStages(pc'[g]) <= FileStages(pc[g])
    BY <1>1, <2>1
  <2>3. FileStages(pc'[f]) < FileStages(pc[f])
    BY <1>1
  <2> QED
    BY <2>2, <2>3, FilesNearer
<1> QED
  BY <1>2, <1>3, <1>4, <1>5, OneFewer

(* A captured result that is joined gives the drain loop a turn. *)
LEMMA JoinFewer ==
  ASSUME IsFiniteSet(Files), TypeOK, NEW f \in Files, NEW p \in ChunksOf(f), Join(p)
  PROVE  StepsLeft \in Nat /\ StepsLeft' < StepsLeft
<1>1. p \in Pairs /\ p[1] = f
  BY PairType
<1>2. /\ st' = [st EXCEPT ![p] = "joined"] /\ st[p] = "ready" /\ pc[f] = "collect"
      /\ UNCHANGED <<next, ended, cancelled>>
  BY <1>1 DEF Join, RunState
<1>3. "joined" \in States /\ ChunkStages("joined") < ChunkStages("ready")
  BY DEF States, ChunkStages
<1>4. CASE f \notin Capture
  <2>1. UNCHANGED pc
    BY <1>1, <1>4 DEF Join
  <2> QED
    BY <1>1, <1>2, <1>3, <2>1, TransferFewer
<1>5. CASE f \in Capture
  <2>1. pc' = [pc EXCEPT ![f] = "drain"]
    BY <1>1, <1>5 DEF Join
  <2>2. \A g \in Files : pc'[g] = IF g = f THEN "drain" ELSE pc[g]
    BY <2>1 DEF TypeOK
  <2>3. \A q \in Pairs : st'[q] = IF q = p THEN "joined" ELSE st[q]
    BY <1>2 DEF TypeOK
  <2>4. ChunksAhead' \subseteq ChunksAhead /\ ChunksAhead' # ChunksAhead
    BY <1>1, <1>2, <1>3, ChunkNearer
  <2>5. HashAhead' = HashAhead /\ EndsAhead' = EndsAhead
    BY <1>2 DEF HashAhead, EndsAhead
  <2>6. FilesAhead' \subseteq FilesAhead
    <3>1. FileStages("drain") = 2 /\ FileStages("collect") = 2 /\ \A r : FileStages(r) \in 0 .. 3
      BY DEF FileStages
    <3>2. \A g \in Files : FileStages(pc'[g]) <= FileStages(pc[g])
      BY <1>2, <2>2, <3>1
    <3> QED
      BY <3>2, FilesNearer
  <2>7. /\ DrainsAhead' = (DrainsAhead \ {p}) \cup {<<f, 0>>}
        /\ p \in DrainsAhead /\ <<f, 0>> \notin DrainsAhead
    BY <1>1, <1>2, <2>2, <2>3, PairsFact DEF DrainsAhead
  <2>8. Cardinality(DrainsAhead') = Cardinality(DrainsAhead)
    BY <2>7, AheadFinite, Swapped
  <2>9. EndsAhead \in Nat /\ EndsAhead' <= EndsAhead
    BY <2>5, EndsCounted
  <2> QED
    BY <2>4, <2>5, <2>6, <2>8, <2>9, OneFewer
<1> QED
  BY <1>4, <1>5

(* A turn of the drain loop hashes a chunk or ends. *)
LEMMA DrainFewer ==
  ASSUME IsFiniteSet(Files), HashInv, NEW f \in Files, DrainNext(f) \/ DrainDone(f)
  PROVE  StepsLeft \in Nat /\ StepsLeft' < StepsLeft
<1>0. UNCHANGED <<st, ended, cancelled>> /\ pc[f] = "drain"
  BY DEF DrainNext, DrainDone, RunState
<1>1. ChunksAhead' = ChunksAhead /\ EndsAhead' = EndsAhead
  BY <1>0 DEF ChunksAhead, EndsAhead
<1>2. EndsAhead \in Nat /\ EndsAhead' <= EndsAhead
  BY <1>1, EndsCounted
<1>3. CASE DrainNext(f)
  <2>1. UNCHANGED pc /\ next' = [next EXCEPT ![f] = next[f] + 1] /\ next[f] \in buffered[f]
    BY <1>3 DEF DrainNext
  <2>2. f \in Capture /\ next \in [Files -> Nat \ {0}]
    BY <1>0 DEF HashInv, DrainsCapture, TypeOK
  <2>3. next[f] \in 1 .. Chunks[f]
    BY <2>1, <2>2 DEF HashInv, BufferExact
  <2>4. \A g \in Files : next'[g] = IF g = f THEN next[f] + 1 ELSE next[g]
    BY <2>1, <2>2
  <2>5. HashAhead' \subseteq HashAhead
    <3> SUFFICES ASSUME NEW p \in Pairs, p[2] >= next'[p[1]]
                 PROVE  p[2] >= next[p[1]]
      BY DEF HashAhead
    <3>1. p[1] \in Files /\ p[2] \in Int
      BY PairsFact, ChunkPipelineAssumption
    <3> QED
      BY <2>2, <2>4, <3>1
  <2>6. HashAhead' # HashAhead
    <3>1. <<f, next[f]>> \in Pairs /\ next[f] \in Nat
      BY <2>2, <2>3, PairsFact
    <3>2. <<f, next[f]>> \in HashAhead
      BY <2>2, <3>1 DEF HashAhead
    <3>3. ~(next[f] >= next'[f])
      BY <2>4, <3>1
    <3>4. <<f, next[f]>> \notin HashAhead'
      BY <3>3 DEF HashAhead
    <3> QED
      BY <3>2, <3>4
  <2>7. FilesAhead' = FilesAhead /\ DrainsAhead' = DrainsAhead
    BY <1>0, <2>1 DEF FilesAhead, DrainsAhead
  <2> QED
    BY <1>1, <1>2, <2>5, <2>6, <2>7, OneFewer
<1>4. CASE DrainDone(f)
  <2>1. pc' = [pc EXCEPT ![f] = "collect"] /\ UNCHANGED next
    BY <1>4 DEF DrainDone, HashState
  <2>2. \A g \in Files : pc'[g] = IF g = f THEN "collect" ELSE pc[g]
    BY <2>1 DEF HashInv, TypeOK
  <2>3. HashAhead' = HashAhead
    BY <2>1 DEF HashAhead
  <2>4. FilesAhead' \subseteq FilesAhead
    <3>1. FileStages("drain") = 2 /\ FileStages("collect") = 2 /\ \A r : FileStages(r) \in 0 .. 3
      BY DEF FileStages
    <3>2. \A g \in Files : FileStages(pc'[g]) <= FileStages(pc[g])
      BY <1>0, <2>2, <3>1
    <3> QED
      BY <3>2, FilesNearer
  <2>5. DrainsAhead' \subseteq DrainsAhead
    BY <1>0, <2>2 DEF DrainsAhead
  <2>6. <<f, 0>> \in DrainsAhead /\ <<f, 0>> \notin DrainsAhead'
    BY <1>0, <2>2, PairsFact DEF DrainsAhead
  <2>7. DrainsAhead' # DrainsAhead
    BY <2>6
  <2> QED
    BY <1>1, <1>2, <2>3, <2>4, <2>5, <2>7, OneFewer
<1> QED
  BY <1>3, <1>4

LEMMA FileStepFewer ==
  ASSUME IsFiniteSet(Files), HashInv, NEW f \in Files, FileStep(f)
  PROVE  StepsLeft \in Nat /\ StepsLeft' < StepsLeft
<1>0. TypeOK
  BY DEF HashInv
<1>1. ASSUME NEW p \in ChunksOf(f), SpawnQueued(p) \/ SpawnPreacquired(p) \/ JoinFailed(p)
      PROVE  StepsLeft \in Nat /\ StepsLeft' < StepsLeft
  <2>1. p \in Pairs /\ UNCHANGED <<pc, next, ended, cancelled>>
    BY <1>1, PairType DEF SpawnQueued, SpawnPreacquired, JoinFailed, HashState, RunState
  <2>2. \/ st[p] = "new" /\ \E s \in {"queued", "running"} : st' = [st EXCEPT ![p] = s]
        \/ st[p] = "failed" /\ st' = [st EXCEPT ![p] = "discarded"]
    BY <1>1 DEF SpawnQueued, SpawnPreacquired, JoinFailed, Unspawned
  <2>3. /\ ChunkStages("queued") < ChunkStages("new") /\ ChunkStages("running") < ChunkStages("new")
        /\ ChunkStages("discarded") < ChunkStages("failed")
        /\ {"queued", "running", "discarded"} \subseteq States
    BY DEF ChunkStages, States
  <2>4. PICK s \in States : st' = [st EXCEPT ![p] = s] /\ ChunkStages(s) < ChunkStages(st[p])
    BY <2>2, <2>3
  <2> QED
    BY <1>0, <2>1, <2>4, TransferFewer
<1>2. ASSUME \/ SpawnCancelled(f) \/ SpawnDone(f) \/ CollectDone(f)
             \/ VerifyDone(f) \/ VerifyFails(f)
      PROVE  StepsLeft \in Nat /\ StepsLeft' < StepsLeft
  <2>1. UNCHANGED <<st, next, ended, cancelled>>
    BY <1>2 DEF SpawnCancelled, SpawnDone, CollectDone, VerifyDone, VerifyFails, HashState, RunState
  <2>2. \/ pc[f] = "spawn" /\ \E s \in {"failed", "collect"} : pc' = [pc EXCEPT ![f] = s]
        \/ pc[f] = "collect" /\ \E s \in {"failed", "verify"} : pc' = [pc EXCEPT ![f] = s]
        \/ pc[f] = "verify" /\ \E s \in {"failed", "ok"} : pc' = [pc EXCEPT ![f] = s]
    BY <1>2 DEF SpawnCancelled, SpawnDone, CollectDone, VerifyDone, VerifyFails
  <2>3. /\ FileStages("spawn") = 3 /\ FileStages("collect") = 2 /\ FileStages("verify") = 1
        /\ FileStages("failed") = 0 /\ FileStages("ok") = 0
        /\ {"failed", "collect", "verify", "ok"} \subseteq Places \ {"drain"}
    BY DEF FileStages, Places
  <2>4. PICK s \in Places \ {"drain"} :
          pc' = [pc EXCEPT ![f] = s] /\ FileStages(s) < FileStages(pc[f])
    BY <2>2, <2>3
  <2> QED
    BY <1>0, <2>1, <2>4, FileFewer
<1> QED
  BY <1>0, <1>1, <1>2, JoinFewer, DrainFewer DEF FileStep

LEMMA NextFewer ==
  ASSUME IsFiniteSet(Files), HashInv, Next
  PROVE  StepsLeft \in Nat /\ StepsLeft' < StepsLeft
<1>0. TypeOK
  BY DEF HashInv
<1>1. ASSUME NEW p \in Pairs, TransferStep(p)
      PROVE  StepsLeft \in Nat /\ StepsLeft' < StepsLeft
  <2>1. UNCHANGED <<pc, next, ended, cancelled>>
    BY <1>1 DEF TransferStep, AcquirePermit, QueuedCancelled, TransferOk, TransferFails,
                HashState, RunState
  <2>2. \/ /\ st[p] = "queued"
           /\ \E s \in {"running", "failed", "discarded"} : st' = [st EXCEPT ![p] = s]
        \/ /\ st[p] = "running"
           /\ \E s \in {"ready", "failed", "discarded"} : st' = [st EXCEPT ![p] = s]
    BY <1>1 DEF TransferStep, AcquirePermit, QueuedCancelled, TransferOk, TransferFails
  <2>3. /\ ChunkStages("queued") = 3 /\ ChunkStages("running") = 2 /\ ChunkStages("ready") = 1
        /\ ChunkStages("failed") = 1 /\ ChunkStages("discarded") = 0
        /\ {"running", "ready", "failed", "discarded"} \subseteq States
    BY DEF ChunkStages, States
  <2>4. PICK s \in States : st' = [st EXCEPT ![p] = s] /\ ChunkStages(s) < ChunkStages(st[p])
    BY <2>2, <2>3
  <2> QED
    BY <1>0, <2>1, <2>4, TransferFewer
<1>2. ASSUME DropDownloads, cancelled' = TRUE \/ cancelled' = cancelled, ended = "no"
      PROVE  StepsLeft \in Nat /\ StepsLeft' < StepsLeft
  <2>1. /\ ended' = "failed" /\ UNCHANGED next
        /\ \A f \in Files : pc'[f] = IF Live(f) THEN "dropped" ELSE pc[f]
        /\ \A p \in Pairs : st'[p] = IF st[p] \in {"ready", "failed"} THEN "discarded" ELSE st[p]
    BY <1>2 DEF DropDownloads, HashState
  <2>2. EndsAhead' < EndsAhead /\ EndsAhead' <= EndsAhead /\ EndsAhead \in Nat /\ EndsAhead' \in Nat
    BY <1>2, <2>1 DEF EndsAhead
  <2>3. HashAhead' = HashAhead
    BY <2>1 DEF HashAhead
  <2>4. FilesAhead' \subseteq FilesAhead
    <3>1. FileStages("dropped") = 0 /\ \A r : FileStages(r) \in 0 .. 3
      BY DEF FileStages
    <3>2. \A f \in Files : FileStages(pc'[f]) <= FileStages(pc[f])
      BY <2>1, <3>1
    <3> QED
      BY <3>2, FilesNearer
  <2>5. ChunksAhead' \subseteq ChunksAhead
    <3>1. ChunkStages("discarded") = 0 /\ \A r : ChunkStages(r) \in 0 .. 4
      BY DEF ChunkStages
    <3> SUFFICES ASSUME NEW p \in Pairs, NEW k \in 1 .. 4, k <= ChunkStages(st'[p])
                 PROVE  k <= ChunkStages(st[p])
      BY DEF ChunksAhead
    <3> QED
      BY <2>1, <3>1
  <2>6. DrainsAhead' \subseteq DrainsAhead
    BY <2>1 DEF DrainsAhead
  <2> QED
    BY <2>2, <2>3, <2>4, <2>5, <2>6, OneFewer
<1>3. ASSUME AllOk \/ Cancel
      PROVE  StepsLeft \in Nat /\ StepsLeft' < StepsLeft
  <2>1. /\ UNCHANGED <<pc, st, next>>
        /\ \/ ended = "no" /\ ended' = "completed" /\ UNCHANGED cancelled
           \/ ~cancelled /\ cancelled' = TRUE /\ UNCHANGED ended
    BY <1>3 DEF AllOk, Cancel, HashState
  <2>2. EndsAhead' < EndsAhead /\ EndsAhead' <= EndsAhead /\ EndsAhead \in Nat /\ EndsAhead' \in Nat
    BY <2>1 DEF EndsAhead
  <2>3. /\ ChunksAhead' = ChunksAhead /\ FilesAhead' = FilesAhead /\ HashAhead' = HashAhead
        /\ DrainsAhead' = DrainsAhead
    BY <2>1 DEF ChunksAhead, FilesAhead, HashAhead, DrainsAhead
  <2> QED
    BY <2>2, <2>3, OneFewer
<1>4. CASE FileError \/ DbError
  <2>1. DropDownloads /\ ended = "no" /\ (cancelled' = TRUE \/ cancelled' = cancelled)
    BY <1>4 DEF FileError, DbError
  <2> QED
    BY <1>2, <2>1
<1> QED
  BY <1>1, <1>3, <1>4, FileStepFewer DEF Next

(* Every step, of a run or of what it leaves behind, brings both nearer to
   their end: a run over a manifest has no more steps than it has left at its
   start.  With PipelineIsNeverBlocked, a pipeline that is polled ends its run
   and gets its permits back, whatever the files and the limit. *)
THEOREM PipelineStepsEnd ==
  ASSUME IsFiniteSet(Files)
  PROVE  Spec => [][StepsLeft' < StepsLeft /\ StepsLeft \in Nat]_vars
<1>1. HashInv /\ [Next]_vars => [StepsLeft' < StepsLeft /\ StepsLeft \in Nat]_vars
  BY NextFewer
<1> QED
  BY <1>1, HashInvHolds, PTL DEF Spec
=============================================================================
