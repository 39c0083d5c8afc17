-------------------------- MODULE FileDownloadProofs --------------------------
(***************************************************************************)
(* Proofs about the download of one file over any number of runs, for any  *)
(* contents, chunk sizes and bounds: what is installed is the file of the  *)
(* manifest but for writes of the blocking pool that were lost or came     *)
(* late, and files of the user are kept.                                   *)
(***************************************************************************)
EXTENDS FileDownload, TLAPS, FiniteSetTheorems, WellFoundedInduction

LEMMA Constants ==
  /\ Contents \subseteq Seq(Units) /\ UserFiles \subseteq Seq(Units)
  /\ InitLocal \subseteq Seq(Units) \cup {NoFile} /\ NoFile \notin Seq(Units)
  /\ Policy \in {"overwrite", "skip", "keep_both"}
  /\ ChunkSizes \subseteq Nat \ {0} /\ Attempts \in Nat \ {0}
  /\ MaxRuns \in Nat /\ MaxFaults \in Nat /\ MaxDisk \in Nat /\ MaxCrashes \in Nat
  /\ MaxEdits \in Nat /\ MaxUser \in Nat /\ MaxCopies \in Nat /\ MaxCopies > MaxRuns + MaxUser
  /\ MaxDetaches \in Nat
  /\ UserNames \subseteq Finals /\ Finals \subseteq Names /\ Part \in Names
  /\ Target \in Finals /\ Part \notin Finals /\ Copies \subseteq Finals /\ Copies \subseteq Nat
  /\ Zero \in Units
<1>1. /\ UserNames \subseteq Finals /\ Finals \subseteq Names /\ Part \in Names
      /\ Target \in Finals /\ Part \notin Finals /\ Copies \subseteq Finals /\ Copies \subseteq Nat
  BY FileDownloadAssumption DEF Finals, Names, Copies, Part, Target
<1>2. Zero \in Units
  BY DEF Units
<1> QED
  BY <1>1, <1>2, FileDownloadAssumption

-----------------------------------------------------------------------------
(* The files: sizes, writes, chunks. *)

LEMMA FunctionIsSequence ==
  ASSUME NEW S, NEW n \in Nat, NEW f \in [1 .. n -> S]
  PROVE  f \in Seq(S) /\ Len(f) = n /\ DOMAIN f = 1 .. n
  OBVIOUS

LEMMA ResizeIs ==
  ASSUME NEW c \in Seq(Units) \cup {NoFile}, NEW len \in Nat
  PROVE  /\ Resize(c, len) \in Seq(Units) /\ Len(Resize(c, len)) = len
         /\ DOMAIN Resize(c, len) = 1 .. len
         /\ c # NoFile => \A p \in 1 .. len : p \in DOMAIN c => Resize(c, len)[p] = c[p]
<1>1. \A p \in 1 .. len : (IF c # NoFile /\ p \in DOMAIN c THEN c[p] ELSE Zero) \in Units
  BY Constants
<1>2. Resize(c, len) \in [1 .. len -> Units]
  BY <1>1 DEF Resize
<1>3. Resize(c, len) \in Seq(Units)
  BY <1>2
<1> QED
  BY <1>2, <1>3 DEF Resize

LEMMA LongerDomain ==
  ASSUME NEW S, NEW c \in Seq(S), NEW e \in Seq(S), NEW at \in Nat,
         Len(e) = IF at > Len(c) THEN at ELSE Len(c)
  PROVE  /\ \A p \in DOMAIN e : p \in DOMAIN c \/ p \in Len(c) + 1 .. at
         /\ at <= Len(c) => DOMAIN e = DOMAIN c
<1>1. at <= Len(c) => DOMAIN e = DOMAIN c
  OBVIOUS
<1>2. \A p \in DOMAIN e : p \in DOMAIN c \/ p \in Len(c) + 1 .. at
  OBVIOUS
<1> QED
  BY <1>1, <1>2

LEMMA WriteUnitIs ==
  ASSUME NEW c \in Seq(Units), NEW at \in Places, NEW unit \in Units
  PROVE  /\ WriteUnit(c, at, unit) \in Seq(Units) /\ WriteUnit(c, at, unit)[at] = unit
         /\ at \in DOMAIN WriteUnit(c, at, unit)
         /\ \A p \in DOMAIN c : p \in DOMAIN WriteUnit(c, at, unit) /\ (p # at => WriteUnit(c, at, unit)[p] = c[p])
         /\ \A p \in DOMAIN WriteUnit(c, at, unit) : p \in DOMAIN c \/ p \in Len(c) + 1 .. at
         /\ at <= Len(c) => DOMAIN WriteUnit(c, at, unit) = DOMAIN c
<1> DEFINE len == IF at > Len(c) THEN at ELSE Len(c)
<1>1. Len(c) \in Nat /\ DOMAIN c = 1 .. Len(c) /\ len \in Nat /\ at \in 1 .. len /\ at \in Nat
      /\ c # NoFile
      /\ \A p \in 1 .. Len(c) : p \in 1 .. len
  BY Constants DEF Places
<1>2. WriteUnit(c, at, unit) = [Resize(c, len) EXCEPT ![at] = unit]
  BY DEF WriteUnit
<1> HIDE DEF len
<1>3. /\ Resize(c, len) \in Seq(Units) /\ DOMAIN Resize(c, len) = 1 .. len /\ Len(Resize(c, len)) = len
      /\ \A p \in 1 .. len : p \in DOMAIN c => Resize(c, len)[p] = c[p]
  BY <1>1, ResizeIs
<1> DEFINE d == Resize(c, len)
<1> HIDE DEF d
<1>4. /\ WriteUnit(c, at, unit) \in Seq(Units) /\ DOMAIN WriteUnit(c, at, unit) = 1 .. len
      /\ Len(WriteUnit(c, at, unit)) = len
      /\ WriteUnit(c, at, unit)[at] = unit
      /\ \A p \in 1 .. len : p # at => WriteUnit(c, at, unit)[p] = d[p]
  <2>1. d \in Seq(Units) /\ Len(d) = len /\ WriteUnit(c, at, unit) = [d EXCEPT ![at] = unit]
    BY <1>2, <1>3 DEF d
  <2>2. d \in [1 .. len -> Units]
    BY <2>1
  <2>3. [d EXCEPT ![at] = unit] \in [1 .. len -> Units]
    BY <2>2
  <2>4. [d EXCEPT ![at] = unit] \in Seq(Units) /\ Len([d EXCEPT ![at] = unit]) = len
    <3>1. len \in Nat
      BY <1>1
    <3> QED
      BY <2>3, <3>1, FunctionIsSequence
  <2> QED
    BY <1>1, <2>1, <2>2, <2>3, <2>4
<1> DEFINE e == WriteUnit(c, at, unit)
<1>5. e \in Seq(Units) /\ DOMAIN e = 1 .. len /\ Len(e) = len /\ e[at] = unit
  BY <1>4
<1>6. \A p \in DOMAIN c : p \in 1 .. len /\ (p # at => e[p] = c[p])
  BY <1>1, <1>3, <1>4 DEF d
<1> HIDE DEF e
<1>7. at \in DOMAIN e /\ \A p \in DOMAIN c : p \in DOMAIN e
  BY <1>1, <1>5, <1>6
<1>8. /\ \A p \in DOMAIN e : p \in DOMAIN c \/ p \in Len(c) + 1 .. at
      /\ at <= Len(c) => DOMAIN e = DOMAIN c
  <2>1. Len(e) = IF at > Len(c) THEN at ELSE Len(c)
    BY <1>5 DEF len
  <2> QED
    BY <1>1, <1>5, <2>1, LongerDomain
<1> QED
  BY <1>5, <1>6, <1>7, <1>8 DEF e
-----------------------------------------------------------------------------
(* Types. *)

Working == {"transfer", "sync", "mark", "verify", "replace", "rename"}

(* While a run works on the file there is a .part file. *)
PartThere == run.pc \in Working => Exists(Part)

(* A run takes one copy name at most. *)
Taken == {n \in Copies : Exists(n)}
RoomInv == Cardinality(Taken) + (IF Ended THEN 0 ELSE 1) <= 1 + count.runs + count.user

(* Every run has a manifest. *)
ManGiven == run.pc # "idle" => run.man \in Contents

Basic == FileTypes /\ PartThere /\ RoomInv /\ ManGiven

Offset(k, i) == (i - 1) * k
Span(c, k, i) == (Offset(k, i) + 1) .. ChunkEnd(c, k, i)

LEMMA TypedRun ==
  ASSUME FileTypes
  PROVE  /\ run.tr \in Seq(Transfer) /\ Len(run.tr) \in Nat /\ DOMAIN run.tr = 1 .. Len(run.tr)
         /\ run.man \in Seq(Units) /\ Len(run.man) \in Nat /\ DOMAIN run.man = 1 .. Len(run.man)
         /\ run.k \in Nat \ {0} /\ run.final \in Finals /\ run.bits \subseteq Places
         /\ run.final \in Names /\ run.final # Part
         /\ source \in Seq(Units) /\ Len(source) \in Nat
         /\ \A i \in DOMAIN run.tr : /\ i \in Places /\ run.tr[i] \in Transfer
                                     /\ run.tr[i].tries \in Nat
                                     /\ run.tr[i].data \in Seq(Units) /\ Len(run.tr[i].data) \in Nat
<1>1. /\ run.tr \in Seq(Transfer) /\ run.man \in Contents \cup {<<>>} /\ run.k \in ChunkSizes \cup {1}
      /\ run.final \in Finals /\ run.bits \subseteq Places /\ source \in Contents
  BY DEF FileTypes, Run
<1>2. run.man \in Seq(Units) /\ source \in Seq(Units) /\ run.k \in Nat \ {0}
  <2>1. <<>> \in Seq(Units)
    OBVIOUS
  <2>2. run.man \in Seq(Units) /\ source \in Seq(Units)
    BY <1>1, <2>1, Constants
  <2>3. run.k \in Nat \ {0}
    <3>1. ChunkSizes \subseteq Nat \ {0}
      BY Constants
    <3>2. 1 \in Nat \ {0}
      OBVIOUS
    <3> QED
      BY <1>1, <3>1, <3>2, Zenon
  <2> QED
    BY <2>2, <2>3
<1>3. ASSUME NEW i \in DOMAIN run.tr
      PROVE  /\ i \in Places /\ run.tr[i] \in Transfer /\ run.tr[i].tries \in Nat
             /\ run.tr[i].data \in Seq(Units) /\ Len(run.tr[i].data) \in Nat
  <2>1. i \in Places /\ run.tr[i] \in Transfer
    BY <1>1, <1>3 DEF Places
  <2>2. run.tr[i].tries \in 0 .. Attempts - 1 /\ run.tr[i].data \in Seq(Units)
    BY <2>1 DEF Transfer
  <2> QED
    BY <2>1, <2>2
<1>4. /\ Len(run.tr) \in Nat /\ DOMAIN run.tr = 1 .. Len(run.tr)
      /\ Len(run.man) \in Nat /\ DOMAIN run.man = 1 .. Len(run.man) /\ Len(source) \in Nat
  BY <1>1, <1>2
<1>5. run.final \in Names /\ run.final # Part
  BY <1>1, Constants
<1> QED
  BY <1>1, <1>2, <1>3, <1>4, <1>5

LEMMA RunChanges ==
  ASSUME FileTypes, NEW i \in DOMAIN run.tr, NEW t \in Transfer, run' = [run EXCEPT !.tr[i] = t]
  PROVE  /\ run' \in Run /\ run'.tr[i] = t /\ DOMAIN run'.tr = DOMAIN run.tr
         /\ \A j \in DOMAIN run.tr : j # i => run'.tr[j] = run.tr[j]
         /\ run'.pc = run.pc /\ run'.man = run.man /\ run'.k = run.k /\ run'.final = run.final
<1> DEFINE tr == [run.tr EXCEPT ![i] = t]
<1>1. run \in Run /\ run' = [run EXCEPT !.tr = tr]
  BY DEF FileTypes
<1>2. /\ tr[i] = t /\ DOMAIN tr = DOMAIN run.tr /\ \A j \in DOMAIN run.tr : j # i => tr[j] = run.tr[j]
      /\ tr \in Seq(Transfer)
  <2>1. run.tr \in [1 .. Len(run.tr) -> Transfer] /\ Len(run.tr) \in Nat /\ DOMAIN run.tr = 1 .. Len(run.tr)
    BY TypedRun
  <2>2. tr \in [1 .. Len(run.tr) -> Transfer]
    BY <2>1
  <2>3. tr \in Seq(Transfer)
    <3> HIDE DEF tr
    <3> QED
      BY <2>1, <2>2, FunctionIsSequence
  <2> QED
    BY <2>1, <2>2, <2>3
<1> HIDE DEF tr
<1> QED
  BY <1>1, <1>2 DEF Run

LEMMA RetriedIs ==
  ASSUME NEW t \in Transfer
  PROVE  /\ Retried(t) \in Transfer
         /\ \/ /\ Retried(t).st = "run" /\ Retried(t).tries = t.tries + 1
               /\ Retried(t).data = <<>> /\ Len(Retried(t).data) = 0
            \/ Retried(t).st = "err"
<1>1. t.tries \in 0 .. Attempts - 1 /\ Attempts \in Nat \ {0} /\ <<>> \in Seq(Units)
  BY Constants DEF Transfer
<1>2. t.tries + 1 < Attempts => t.tries + 1 \in 0 .. Attempts - 1
  BY <1>1
<1> QED
  BY <1>1, <1>2 DEF Retried, Transfer

LEMMA ChunkCount ==
  ASSUME NEW c \in Seq(Units), NEW k \in Nat \ {0}
  PROVE  NumChunks(c, k) \in Nat /\ Chunks(c, k) \subseteq Places
<1>1. Len(c) \in Nat
  OBVIOUS
<1>2. \A n \in Nat : n \div k \in Nat
  OBVIOUS
<1>3. Len(c) + k - 1 \in Nat
  BY <1>1
<1> QED
  BY <1>2, <1>3, SMTT(20) DEF NumChunks, Chunks, Places

LEMMA LeastOf ==
  ASSUME NEW S \in SUBSET Nat, IsFiniteSet(S), S # {}
  PROVE  \E n \in S : \A m \in S : ~(m < n)
<1> DEFINE below(n) == {m \in S : m < n}
           T == {below(n) : n \in S}
<1>1. IsWellFoundedOn(StrictSubsetOrdering(S), FiniteSubsetsOf(S))
  BY FS_StrictSubsetOrderingWellFounded
<1>2. T \subseteq FiniteSubsetsOf(S) /\ T # {}
  <2>1. FiniteSubsetsOf(S) = SUBSET S
    BY FS_FiniteSubsetsOfFinite
  <2>2. \A n \in S : below(n) \in SUBSET S
    OBVIOUS
  <2>3. T \subseteq SUBSET S
    BY <2>2, Zenon
  <2>4. T # {}
    <3>1. PICK n \in S : TRUE
      OBVIOUS
    <3>2. below(n) \in T
      BY Zenon
    <3> QED
      BY <3>2, Zenon
  <2> QED
    BY <2>1, <2>3, <2>4, Zenon
<1>3. PICK X \in T : \A Y \in T : ~(<<Y, X>> \in StrictSubsetOrdering(S))
  BY <1>1, <1>2, WFMin
<1>4. PICK n \in S : X = below(n)
  BY <1>3
<1>5. ASSUME NEW m \in S, m < n
      PROVE  FALSE
  <2>1. below(m) \in T
    BY Zenon
  <2>2. m \in below(n) /\ m \notin below(m) /\ below(m) \subseteq below(n)
    <3>1. m \in S /\ m < n /\ ~(m < m) /\ \A l \in S : l < m => l < n
      BY <1>5
    <3> QED
      BY <3>1, Zenon
  <2>3. <<below(m), X>> \in StrictSubsetOrdering(S)
    BY <1>4, <2>2 DEF StrictSubsetOrdering
  <2> QED
    BY <1>3, <2>1, <2>3
<1> QED
  BY <1>5

LEMMA NamesTaken ==
  ASSUME NEW S \in SUBSET Copies, NEW T \in SUBSET Copies
  PROVE  /\ IsFiniteSet(S) /\ Cardinality(S) \in Nat
         /\ T \subseteq S => Cardinality(T) <= Cardinality(S)
         /\ \A x : T \subseteq S \cup {x} => Cardinality(T) <= Cardinality(S) + 1
         /\ Cardinality(S) < MaxCopies => Copies \ S # {}
<1>1. IsFiniteSet(Copies) /\ Cardinality(Copies) = MaxCopies
  BY FS_Interval, Constants DEF Copies
<1>2. IsFiniteSet(S) /\ Cardinality(S) \in Nat
  BY <1>1, FS_Subset, FS_CardinalityType
<1>3. T \subseteq S => Cardinality(T) <= Cardinality(S)
  BY <1>2, FS_Subset
<1>4. ASSUME NEW x, T \subseteq S \cup {x}
      PROVE  Cardinality(T) <= Cardinality(S) + 1
  <2>1. IsFiniteSet(S \cup {x}) /\ Cardinality(S \cup {x}) <= Cardinality(S) + 1
    <3>1. /\ IsFiniteSet(S \cup {x})
          /\ Cardinality(S \cup {x}) = IF x \in S THEN Cardinality(S) ELSE Cardinality(S) + 1
      BY <1>2, FS_AddElement, Zenon
    <3> QED
      BY <1>2, <3>1
  <2>2. Cardinality(T) <= Cardinality(S \cup {x}) /\ Cardinality(T) \in Nat /\ Cardinality(S \cup {x}) \in Nat
    BY <1>1, <1>4, <2>1, FS_Subset, FS_CardinalityType
  <2> QED
    BY <1>2, <2>1, <2>2
<1>5. Cardinality(S) < MaxCopies => Copies \ S # {}
  <2>1. SUFFICES ASSUME Copies \ S = {}
                 PROVE  Cardinality(S) = MaxCopies
    BY <1>2, Constants
  <2>2. Copies = S
    BY <2>1
  <2> QED
    BY <1>1, <2>2
<1> QED
  BY <1>2, <1>3, <1>4, <1>5

(* There is always a free copy name, and keep_both_path finds one. *)
LEMMA KeepBothFree ==
  ASSUME Basic, ~Ended
  PROVE  KeepBothPath \in Copies /\ ~Exists(KeepBothPath)
<1>1. Cardinality(Taken) \in Nat /\ count.runs \in 0 .. MaxRuns /\ count.user \in 0 .. MaxUser
  BY NamesTaken DEF Basic, FileTypes, Count, Taken
<1>2. Cardinality(Taken) < MaxCopies
  BY <1>1, Constants DEF Basic, RoomInv
<1>3. Copies \ Taken # {}
  BY <1>2, NamesTaken DEF Taken
<1>4. IsFiniteSet(Copies \ Taken) /\ Copies \ Taken \in SUBSET Nat
  BY NamesTaken, Constants
<1>5. PICK n \in Copies \ Taken : \A m \in Copies \ Taken : ~(m < n)
  BY <1>3, <1>4, LeastOf
<1>6. /\ n \in Copies /\ ~Exists(n)
      /\ \A m \in Copies : m < n => Exists(m)
  BY <1>5 DEF Taken
<1> QED
  BY <1>6 DEF KeepBothPath

LEMMA GotoIs ==
  ASSUME FileTypes, NEW p \in Stages, Goto(p)
  PROVE  /\ run' \in Run /\ run'.pc = p /\ run'.man = run.man /\ run'.k = run.k
         /\ run'.tr = run.tr /\ run'.final = run.final /\ run'.bits = run.bits
  BY DEF FileTypes, Run, Goto

(* Steps that leave the files and the writes in flight alone. *)
LEMMA BasicKept ==
  ASSUME Basic, UNCHANGED <<source, fs, inflight, installed>>,
         run' \in Run, run'.pc \in Working => run.pc \in Working, Ended => Ended',
         run'.man = run.man, run.pc = "idle" => run'.pc = "idle",
         count' \in Count, count'.runs = count.runs, count'.user = count.user,
         dirty' \subseteq Names \X Places, damaged' \subseteq Names \X Places \X {"lost", "late"},
         db' \in [hash : Contents \cup {NoFile}, bits : SUBSET Places],
         acked' \subseteq Places \X Places
  PROVE  Basic'
<1>1. FileTypes'
  BY DEF Basic, FileTypes, Exists
<1>2. PartThere'
  BY DEF Basic, PartThere, Exists
<1>3. RoomInv'
  <2>1. Taken' = Taken /\ Cardinality(Taken) \in Nat
    BY NamesTaken DEF Taken, Exists
  <2>2. Cardinality(Taken') = Cardinality(Taken)
    BY <2>1
  <2>3. count.runs \in Nat /\ count.user \in Nat
    BY DEF Basic, FileTypes, Count
  <2> QED
    BY <2>1, <2>2, <2>3 DEF Basic, RoomInv
<1>4. ManGiven'
  BY DEF Basic, ManGiven
<1> QED
  BY <1>1, <1>2, <1>3, <1>4 DEF Basic

LEMMA OnlyRunBasic ==
  ASSUME Basic, OnlyRun, run' \in Run, run'.pc \in Working => run.pc \in Working, Ended => Ended',
         run'.man = run.man, run.pc = "idle" => run'.pc = "idle"
  PROVE  Basic'
  BY BasicKept DEF Basic, FileTypes, OnlyRun, Count

LEMMA InitBasic == Init => Basic
<1> SUFFICES ASSUME Init PROVE Basic
  OBVIOUS
<1>1. source \in Contents /\ source \in Seq(Units)
  BY Constants DEF Init
<1>2. fs \in [Names -> Seq(Units) \cup {NoFile}]
  BY Constants DEF Init
<1>3. run \in Run
  <2>1. <<>> \in Seq(Transfer)
    OBVIOUS
  <2> QED
    BY <2>1, Constants DEF Init, Idle, Run, Stages
<1>4. count \in Count
  BY Constants DEF Init, Count
<1>5. FileTypes
  BY <1>1, <1>2, <1>3, <1>4 DEF Init, FileTypes
<1>6. PartThere
  BY DEF Init, Idle, PartThere, Working
<1>7. RoomInv
  <2>1. Taken \subseteq {} \cup {2} /\ {} \in SUBSET Copies /\ Taken \in SUBSET Copies
    <3>1. \A n \in Copies : n # 2 /\ n # Target => fs[n] = NoFile
      BY Constants DEF Init
    <3>2. Target \notin Copies
      BY DEF Target, Copies
    <3> QED
      BY <3>1, <3>2 DEF Taken, Exists
  <2>2. Cardinality(Taken) <= Cardinality({}) + 1
    BY <2>1, NamesTaken
  <2>3. Cardinality(Taken) \in Nat /\ Cardinality({}) = 0
    BY <2>1, NamesTaken, FS_EmptySet
  <2>4. Ended /\ count.runs = 0 /\ count.user = 0
    BY DEF Init, Idle, Ended
  <2> QED
    BY <2>2, <2>3, <2>4 DEF RoomInv
<1>8. ManGiven
  BY DEF Init, Idle, ManGiven
<1> QED
  BY <1>5, <1>6, <1>7, <1>8 DEF Basic

LEMMA StartBasic ==
  ASSUME Basic, NEW k \in ChunkSizes, Start(k)
  PROVE  Basic'
<1>1. run' \in Run /\ run'.pc = "check" /\ run'.man = source
  <2>1. <<>> \in Seq(Transfer) /\ source \in Contents
    BY DEF Basic, FileTypes
  <2> QED
    BY <2>1, Constants DEF Start, Idle, Run, Stages
<1>2. /\ count.runs \in 0 .. MaxRuns /\ count.user \in 0 .. MaxUser
      /\ count'.runs = count.runs + 1 /\ count'.user = count.user /\ count' \in Count
  <2>1. /\ count \in Count /\ count.runs < MaxRuns /\ count' = [count EXCEPT !.runs = @ + 1]
        /\ MaxRuns \in Nat
    BY Constants DEF Basic, FileTypes, Start
  <2> HIDE DEF Basic
  <2>2. count.runs + 1 \in 0 .. MaxRuns /\ count.runs \in 0 .. MaxRuns /\ count.user \in 0 .. MaxUser
    BY <2>1 DEF Count
  <2> QED
    BY <2>1, <2>2 DEF Count
<1>3. db' \in [hash : Contents \cup {NoFile}, bits : SUBSET Places] /\ acked' \subseteq Places \X Places
  BY DEF Basic, FileTypes, Start, InsertTaskFile
<1>4. FileTypes'
  BY <1>1, <1>2, <1>3 DEF Basic, FileTypes, Start, Exists
<1>5. PartThere'
  BY <1>1 DEF PartThere, Working
<1>6. RoomInv'
  <2>1. Taken' = Taken /\ Cardinality(Taken) \in Nat
    BY NamesTaken DEF Taken, Exists, Start
  <2>2. Cardinality(Taken') = Cardinality(Taken)
    BY <2>1
  <2>3. Cardinality(Taken) <= 1 + count.runs + count.user
    BY <1>2, <2>1 DEF Basic, RoomInv, Start
  <2>4. MaxUser \in Nat
    BY Constants
  <2> QED
    BY <1>2, <2>1, <2>2, <2>3, <2>4 DEF RoomInv
<1>7. ManGiven'
  BY <1>1, <1>4 DEF ManGiven, Basic, FileTypes
<1> QED
  BY <1>4, <1>5, <1>6, <1>7 DEF Basic

LEMMA CheckTargetBasic ==
  ASSUME Basic, CheckTarget
  PROVE  Basic'
<1>0. run.pc = "check" /\ UNCHANGED <<source, fs, inflight, dirty, db, count, acked, installed, damaged>>
  BY DEF CheckTarget
<1>1. CASE Goto("done")
  <2>1. run' \in Run /\ run'.pc = "done" /\ run'.man = run.man
    BY <1>1, GotoIs DEF Basic, Stages
  <2> QED
    BY <1>0, <2>1, BasicKept DEF Working, Ended, Basic, FileTypes
<1>2. CASE ~Goto("done")
  <2>1. KeepBothPath \in Finals /\ Target \in Finals
    BY KeepBothFree, Constants DEF CheckTarget, Ended
  <2>2. run' \in Run /\ run'.pc = "open" /\ run'.man = run.man
    BY <1>2, <2>1 DEF Basic, FileTypes, CheckTarget, Run, Stages
  <2> QED
    BY <1>0, <2>2, BasicKept DEF Working, Ended, Basic, FileTypes
<1> QED
  BY <1>1, <1>2

(* Files of the user are left alone: the names that exist stay the same. *)
LEMMA RoomKept ==
  ASSUME Basic, \A n \in Copies : Exists(n)' => Exists(n), Ended => Ended',
         count'.runs = count.runs, count'.user = count.user
  PROVE  RoomInv'
<1>1. Taken \in SUBSET Copies /\ Taken' \in SUBSET Copies /\ Taken' \subseteq Taken
  BY DEF Taken
<1>2. Cardinality(Taken') <= Cardinality(Taken) /\ Cardinality(Taken) \in Nat /\ Cardinality(Taken') \in Nat
  BY <1>1, NamesTaken
<1>3. count.runs \in Nat /\ count.user \in Nat
  BY DEF Basic, FileTypes, Count
<1> QED
  BY <1>2, <1>3 DEF Basic, RoomInv

LEMMA OpenTransfers ==
  ASSUME Basic, NEW S
  PROVE  [i \in Chunks(run.man, run.k) |->
            [st |-> IF i \in S THEN "have" ELSE "run", tries |-> 0, data |-> <<>>]] \in Seq(Transfer)
<1>1. /\ run.man \in Seq(Units) /\ run.k \in Nat \ {0}
      /\ <<>> \in Seq(Units) /\ 0 \in 0 .. Attempts - 1
  BY TypedRun, Constants DEF Basic
<1>2. \A i : [st |-> IF i \in S THEN "have" ELSE "run", tries |-> 0, data |-> <<>>] \in Transfer
  BY <1>1 DEF Transfer
<1>3. NumChunks(run.man, run.k) \in Nat
  BY <1>1, ChunkCount
<1>4. [i \in Chunks(run.man, run.k) |->
         [st |-> IF i \in S THEN "have" ELSE "run", tries |-> 0, data |-> <<>>]]
        \in [1 .. NumChunks(run.man, run.k) -> Transfer]
  BY <1>2 DEF Chunks
<1> QED
  BY <1>3, <1>4, FunctionIsSequence

(* The bits that survive the validation, and the chunks they are for. *)
OpenBits == IF Exists(Part) /\ Len(fs[Part]) = Len(run.man)
            THEN ValidateCompletedChunks(db.bits, run.man, run.k) ELSE {}
Kept == {i \in OpenBits : i \in Chunks(run.man, run.k)}

LEMMA OpenIs ==
  ASSUME OpenPartial, Basic
  PROVE  /\ run.pc = "open" /\ OpenBits \subseteq Places
         /\ fs' = [fs EXCEPT ![Part] = Resize(fs[Part], Len(run.man))]
         /\ run' \in Run /\ run'.pc = "transfer" /\ run'.man = run.man /\ run'.k = run.k
         /\ run'.bits = OpenBits /\ run'.final = run.final
         /\ run'.tr = [i \in Chunks(run.man, run.k) |->
                         [st |-> IF i \in Kept THEN "have" ELSE "run", tries |-> 0, data |-> <<>>]]
         /\ damaged' = {d \in damaged : d[1] = Part =>
              /\ d[2] <= Len(run.man)
              /\ \A i \in Kept : d[2] \notin Span(run.man, run.k, i)}
         /\ dirty' = {d \in dirty : d[1] = Part => d[2] <= Len(run.man)}
         /\ UNCHANGED <<source, inflight, db, count, acked, installed>>
<1> DEFINE tr == [i \in Chunks(run.man, run.k) |->
                    [st |-> IF i \in Kept THEN "have" ELSE "run", tries |-> 0, data |-> <<>>]]
           cap == CaptureFullHash(run.man, run.k, OpenBits)
<1>1. run' = [run EXCEPT !.pc = "transfer", !.bits = OpenBits, !.capture = cap, !.tr = tr]
  BY DEF OpenPartial, OpenBits, Kept
<1>2. tr \in Seq(Transfer) /\ cap \in BOOLEAN
  BY OpenTransfers DEF CaptureFullHash
<1>3. OpenBits \subseteq Places
  BY DEF OpenBits, ValidateCompletedChunks, Basic, FileTypes
<1>4. /\ damaged' = {d \in damaged : d[1] = Part =>
           /\ d[2] <= Len(run.man)
           /\ \A i \in Kept : d[2] \notin Span(run.man, run.k, i)}
      /\ fs' = [fs EXCEPT ![Part] = Resize(fs[Part], Len(run.man))]
      /\ dirty' = {d \in dirty : d[1] = Part => d[2] <= Len(run.man)}
      /\ run.pc = "open" /\ UNCHANGED <<source, inflight, db, count, acked, installed>>
  BY DEF OpenPartial, OpenBits, Kept, Span, Offset
<1>5. run \in Run
  BY DEF Basic, FileTypes
<1> HIDE DEF tr, cap
<1>6. /\ run' \in Run /\ run'.pc = "transfer" /\ run'.man = run.man /\ run'.k = run.k
      /\ run'.bits = OpenBits /\ run'.final = run.final /\ run'.tr = tr
  BY <1>1, <1>2, <1>3, <1>5 DEF Run, Stages
<1> QED
  BY <1>3, <1>4, <1>6 DEF tr

LEMMA OpenPartialBasic ==
  ASSUME Basic, OpenPartial
  PROVE  Basic'
<1>1. /\ fs' \in [Names -> Seq(Units) \cup {NoFile}] /\ Exists(Part)'
      /\ \A n \in Names : n # Part => fs'[n] = fs[n]
  <2>1. Resize(fs[Part], Len(run.man)) \in Seq(Units) /\ fs \in [Names -> Seq(Units) \cup {NoFile}]
        /\ Part \in Names /\ NoFile \notin Seq(Units)
    BY ResizeIs, TypedRun, Constants DEF Basic, FileTypes
  <2>2. fs' = [fs EXCEPT ![Part] = Resize(fs[Part], Len(run.man))]
    BY OpenIs
  <2> QED
    BY <2>1, <2>2 DEF Exists
<1>2. \A n \in Names : Exists(n) => Exists(n)'
  BY <1>1 DEF Exists
<1>3. FileTypes'
  <2>1. \A w \in inflight' : Exists(w.name)'
    <3>1. inflight' = inflight /\ \A w \in inflight : w.name \in Names /\ Exists(w.name)
      BY OpenIs DEF Basic, FileTypes, Write
    <3> QED
      BY <1>2, <3>1
  <2>2. dirty' \subseteq dirty /\ damaged' \subseteq damaged
    BY OpenIs
  <2> QED
    BY <1>1, <2>1, <2>2, OpenIs DEF Basic, FileTypes
<1>4. PartThere'
  BY <1>1 DEF PartThere
<1>5. RoomInv'
  <2>1. \A n \in Copies : Exists(n)' => Exists(n)
    BY <1>1, Constants DEF Exists
  <2>2. ~Ended
    BY OpenIs DEF Ended
  <2> QED
    BY <2>1, <2>2, OpenIs, RoomKept
<1>6. ManGiven'
  BY OpenIs DEF Basic, ManGiven
<1> QED
  BY <1>3, <1>4, <1>5, <1>6 DEF Basic

LEMMA ChunkEnds ==
  ASSUME NEW c \in Seq(Units), NEW k \in Nat \ {0}, NEW i \in Places
  PROVE  /\ ChunkEnd(c, k, i) \in Nat /\ ChunkEnd(c, k, i) <= Len(c) /\ Offset(k, i) \in Nat
         /\ Len(ChunkAt(c, k, i)) = IF Offset(k, i) < ChunkEnd(c, k, i)
                                     THEN ChunkEnd(c, k, i) - Offset(k, i) ELSE 0
         /\ ChunkAt(c, k, i) \in Seq(Units)
         /\ \A j \in 1 .. Len(ChunkAt(c, k, i)) : ChunkAt(c, k, i)[j] = c[Offset(k, i) + j]
<1> DEFINE m == Offset(k, i)
           n == ChunkEnd(c, k, i)
<1>1. m \in Nat /\ i * k \in Nat
  <2>1. \A x, y \in Nat : x * y \in Nat
    OBVIOUS
  <2>2. i - 1 \in Nat /\ i \in Nat /\ k \in Nat
    BY DEF Places
  <2> QED
    BY <2>1, <2>2 DEF Offset
<1>2. n \in Nat /\ n <= Len(c)
  BY <1>1 DEF ChunkEnd
<1>3. ChunkAt(c, k, i) = SubSeq(c, m + 1, n)
  BY DEF ChunkAt, Offset
<1> HIDE DEF m, n
<1>4. /\ SubSeq(c, m + 1, n) \in Seq(Units)
      /\ Len(SubSeq(c, m + 1, n)) = IF m < n THEN n - m ELSE 0
      /\ \A j \in 1 .. Len(SubSeq(c, m + 1, n)) : SubSeq(c, m + 1, n)[j] = c[m + j]
  BY <1>1, <1>2
<1> QED
  BY <1>1, <1>2, <1>3, <1>4 DEF m, n

At(i) == Offset(run.k, i) + Len(run.tr[i].data) + 1
Frame(i) == [name |-> Part, at |-> At(i), unit |-> source[At(i)], by |-> Handle(i)]
Received(i) == [run.tr[i] EXCEPT !.data = Append(run.tr[i].data, source[At(i)])]

LEMMA ReceiveIs ==
  ASSUME Basic, NEW i \in DOMAIN run.tr, ReceiveFrame(i)
  PROVE  /\ run.pc = "transfer" /\ run.tr[i].st = "run" /\ ~Full(i)
         /\ \A w \in inflight : w.by # Handle(i)
         /\ At(i) \in Places /\ source[At(i)] \in Units /\ Frame(i) \in Write
         /\ Received(i) \in Transfer /\ run' = [run EXCEPT !.tr[i] = Received(i)]
         /\ inflight' = inflight \cup {Frame(i)}
         /\ UNCHANGED <<source, fs, dirty, db, count, acked, installed, damaged>>
<1>1. run.pc = "transfer" /\ run.tr[i].st = "run" /\ ~Full(i) /\ \A w \in inflight : w.by # Handle(i)
  BY DEF ReceiveFrame, Transferring, Having
<1> DEFINE got == run.tr[i].data
<1>2. /\ source \in Seq(Units) /\ run.man \in Seq(Units) /\ run.k \in Nat \ {0} /\ i \in Places
      /\ run.tr[i] \in Transfer /\ got \in Seq(Units) /\ Len(got) \in Nat /\ run.tr[i].tries \in Nat
      /\ Len(source) \in Nat
  BY TypedRun DEF Basic
<1>3. /\ Len(source) >= (IF got = <<>> THEN ChunkEnd(run.man, run.k, i) ELSE At(i))
      /\ run' = [run EXCEPT !.tr[i].data = Append(got, source[At(i)])]
      /\ inflight' = inflight \cup {Frame(i)}
      /\ UNCHANGED <<source, fs, dirty, db, count, acked, installed, damaged>>
  <2>1. (i - 1) * run.k + Len(run.tr[i].data) + 1 = At(i)
    BY DEF At, Offset
  <2> QED
    BY <2>1 DEF ReceiveFrame, Frame
<1>4. At(i) \in Nat /\ 1 <= At(i) /\ At(i) <= Len(source)
  <2>1. /\ Offset(run.k, i) \in Nat /\ ChunkEnd(run.man, run.k, i) \in Nat
        /\ Len(ChunkAt(run.man, run.k, i)) = IF Offset(run.k, i) < ChunkEnd(run.man, run.k, i)
                                     THEN ChunkEnd(run.man, run.k, i) - Offset(run.k, i) ELSE 0
    BY <1>2, ChunkEnds
  <2>2. got = <<>> => Len(got) = 0
    OBVIOUS
  <2>3. Len(got) # Len(ChunkAt(run.man, run.k, i))
    BY <1>1 DEF Full
  <2>4. At(i) = Offset(run.k, i) + Len(got) + 1
    BY DEF At
  <2> HIDE DEF got
  <2> QED
    BY <1>2, <1>3, <2>1, <2>2, <2>3, <2>4
<1>5. source[At(i)] \in Units
  BY <1>2, <1>4
<1>6. Handle(i) \in Nat \X Places \X Nat
  <2>1. count.runs \in Nat
    BY DEF Basic, FileTypes, Count
  <2> QED
    BY <1>2, <2>1 DEF Handle
<1>7. Frame(i) \in Write
  BY <1>4, <1>5, <1>6, Constants DEF Frame, Write, Places
<1>8. Received(i) \in Transfer
  <2>1. Append(got, source[At(i)]) \in Seq(Units)
    BY <1>2, <1>5
  <2> QED
    BY <1>2, <2>1 DEF Received, Transfer
<1>9. run' = [run EXCEPT !.tr[i] = Received(i)]
  BY <1>3 DEF Received
<1>10. At(i) \in Places
  BY <1>4 DEF Places
<1> HIDE DEF got
<1> QED
  BY <1>1, <1>3, <1>5, <1>7, <1>8, <1>9, <1>10

LEMMA ReceiveFrameBasic ==
  ASSUME Basic, NEW i \in DOMAIN run.tr, ReceiveFrame(i)
  PROVE  Basic'
<1>1. run' \in Run /\ run'.pc = "transfer" /\ run.pc = "transfer" /\ run'.man = run.man
  BY ReceiveIs, RunChanges DEF Basic
<1>2. Exists(Part)
  BY <1>1 DEF Basic, PartThere, Working
<1>3. FileTypes'
  <2>1. /\ inflight' \subseteq Write /\ \A w \in inflight' : Exists(w.name)'
    <3>1. inflight' = inflight \cup {Frame(i)} /\ Frame(i) \in Write /\ Frame(i).name = Part /\ fs' = fs
      BY ReceiveIs DEF Frame
    <3> QED
      BY <1>2, <3>1 DEF Basic, FileTypes, Exists
  <2> QED
    BY <1>1, <2>1, ReceiveIs DEF Basic, FileTypes
<1>4. PartThere'
  BY <1>2, ReceiveIs DEF PartThere, Exists
<1>5. RoomInv'
  BY <1>1, ReceiveIs, RoomKept DEF Exists, Ended
<1>6. ManGiven'
  BY <1>1 DEF Basic, ManGiven
<1> QED
  BY <1>3, <1>4, <1>5, <1>6 DEF Basic

(* One transfer changes, to a fresh attempt, to "ok" or to "err". *)
LEMMA TransferBasic ==
  ASSUME Basic, NEW i \in DOMAIN run.tr, NEW t \in Transfer, run' = [run EXCEPT !.tr[i] = t],
         UNCHANGED <<source, fs, inflight, dirty, db, acked, installed, damaged>>,
         count' \in Count, count'.runs = count.runs, count'.user = count.user
  PROVE  Basic'
<1>1. run' \in Run /\ run'.pc = run.pc /\ run'.man = run.man
  BY RunChanges DEF Basic
<1>2. Ended => Ended'
  BY <1>1 DEF Ended
<1> QED
  BY <1>1, <1>2, BasicKept DEF Basic, FileTypes

(* The outcomes of an attempt. *)
Failed(t) == [t EXCEPT !.st = "err", !.data = <<>>]
Arrived(t) == [st |-> "ok", tries |-> t.tries, data |-> <<>>]

LEMMA AttemptIs ==
  ASSUME Basic, NEW i \in DOMAIN run.tr
  PROVE  /\ ChunkComplete(i) =>
              /\ run' = [run EXCEPT !.tr[i] = IF run.tr[i].data = ChunkAt(run.man, run.k, i)
                                             THEN Arrived(run.tr[i]) ELSE Retried(run.tr[i])]
              /\ UNCHANGED count
         /\ SourceShort(i) => run' = [run EXCEPT !.tr[i] = Retried(run.tr[i])] /\ UNCHANGED count
         /\ ConnectionFault(i) =>
              /\ \/ run' = [run EXCEPT !.tr[i] = Retried(run.tr[i])]
                 \/ run' = [run EXCEPT !.tr[i] = Failed(run.tr[i])]
              /\ count' \in Count /\ count'.runs = count.runs /\ count'.user = count.user
         /\ ChunkComplete(i) \/ SourceShort(i) \/ ConnectionFault(i) =>
              /\ UNCHANGED <<source, fs, inflight, dirty, db, acked, installed, damaged>>
              /\ run.pc = "transfer" /\ run.tr[i].st = "run"
         /\ Arrived(run.tr[i]) \in Transfer /\ Retried(run.tr[i]) \in Transfer /\ Failed(run.tr[i]) \in Transfer
<1>1. run.tr[i] \in Transfer /\ <<>> \in Seq(Units)
  BY TypedRun DEF Basic
<1>2. /\ Arrived(run.tr[i]) \in Transfer /\ Failed(run.tr[i]) \in Transfer
  BY <1>1 DEF Arrived, Failed, Transfer
<1>3. Retried(run.tr[i]) \in Transfer
  BY <1>1, RetriedIs
<1>4. /\ ChunkComplete(i) \/ SourceShort(i) \/ ConnectionFault(i) =>
            /\ UNCHANGED <<source, fs, inflight, dirty, db, acked, installed, damaged>>
            /\ run.pc = "transfer" /\ run.tr[i].st = "run"
  BY DEF ChunkComplete, SourceShort, ConnectionFault, OnlyRun, Transferring, Having
<1>5. ChunkComplete(i) =>
        /\ run' = [run EXCEPT !.tr[i] = IF run.tr[i].data = ChunkAt(run.man, run.k, i)
                                       THEN Arrived(run.tr[i]) ELSE Retried(run.tr[i])]
        /\ UNCHANGED count
  BY DEF ChunkComplete, OnlyRun, Arrived
<1>6. SourceShort(i) => run' = [run EXCEPT !.tr[i] = Retried(run.tr[i])] /\ UNCHANGED count
  BY DEF SourceShort, OnlyRun
<1>7. ASSUME ConnectionFault(i)
      PROVE  /\ \/ run' = [run EXCEPT !.tr[i] = Retried(run.tr[i])]
                \/ run' = [run EXCEPT !.tr[i] = Failed(run.tr[i])]
             /\ count' \in Count /\ count'.runs = count.runs /\ count'.user = count.user
  <2>1. /\ count \in Count /\ count.faults < MaxFaults /\ count' = [count EXCEPT !.faults = @ + 1]
        /\ MaxFaults \in Nat
    BY <1>7, Constants DEF ConnectionFault, Basic, FileTypes
  <2>2. count.faults + 1 \in 0 .. MaxFaults
    BY <2>1 DEF Count
  <2>3. count' \in Count /\ count'.runs = count.runs /\ count'.user = count.user
    BY <2>1, <2>2 DEF Count
  <2>4. \/ run' = [run EXCEPT !.tr[i] = Retried(run.tr[i])]
        \/ run' = [run EXCEPT !.tr[i] = Failed(run.tr[i])]
    BY <1>7 DEF ConnectionFault, Failed
  <2> QED
    BY <2>3, <2>4
<1> QED
  BY <1>2, <1>3, <1>4, <1>5, <1>6, <1>7

LEMMA AttemptBasic ==
  ASSUME Basic, NEW i \in DOMAIN run.tr, ChunkComplete(i) \/ SourceShort(i) \/ ConnectionFault(i)
  PROVE  Basic'
<1>1. PICK t \in Transfer : run' = [run EXCEPT !.tr[i] = t]
  BY AttemptIs
<1>2. /\ count' \in Count /\ count'.runs = count.runs /\ count'.user = count.user
      /\ UNCHANGED <<source, fs, inflight, dirty, db, acked, installed, damaged>>
  BY AttemptIs DEF Basic, FileTypes
<1> QED
  BY <1>1, <1>2, TransferBasic

(* Seen by the transfers of a paused run: those under way end. *)
Stopped(t) == IF t.st = "run" THEN [st |-> "err", tries |-> 0, data |-> <<>>] ELSE t

LEMMA StoppedTransfers ==
  ASSUME FileTypes
  PROVE  [i \in DOMAIN run.tr |-> Stopped(run.tr[i])] \in Seq(Transfer)
<1> DEFINE tr == [i \in DOMAIN run.tr |-> Stopped(run.tr[i])]
<1>1. 0 \in 0 .. Attempts - 1 /\ <<>> \in Seq(Units)
  BY Constants
<1>2. \A i \in DOMAIN run.tr : Stopped(run.tr[i]) \in Transfer
  BY <1>1, TypedRun DEF Stopped, Transfer
<1>3. DOMAIN run.tr = 1 .. Len(run.tr) /\ Len(run.tr) \in Nat
  BY TypedRun
<1>4. tr \in [1 .. Len(run.tr) -> Transfer]
  BY <1>2, <1>3
<1> HIDE DEF tr
<1>5. tr \in Seq(Transfer)
  BY <1>3, <1>4, FunctionIsSequence
<1> QED
  BY <1>5 DEF tr

LEMMA CancelIs ==
  ASSUME Basic, CancelTransfers
  PROVE  /\ run.pc = "transfer" /\ run' = [run EXCEPT !.tr = [i \in DOMAIN run.tr |-> Stopped(run.tr[i])]]
         /\ run' \in Run /\ run'.pc = run.pc /\ run'.man = run.man /\ run'.k = run.k /\ run'.final = run.final
         /\ run'.tr = [i \in DOMAIN run.tr |-> Stopped(run.tr[i])]
         /\ OnlyRun
<1> DEFINE tr == [i \in DOMAIN run.tr |-> Stopped(run.tr[i])]
<1>1. run.pc = "transfer" /\ run' = [run EXCEPT !.tr = tr] /\ OnlyRun /\ run \in Run
  BY DEF CancelTransfers, GivenUp, Stopped, Basic, FileTypes
<1>2. tr \in Seq(Transfer)
  BY StoppedTransfers DEF Basic
<1> HIDE DEF tr
<1>3. run' \in Run /\ run'.pc = run.pc /\ run'.man = run.man /\ run'.k = run.k /\ run'.final = run.final /\ run'.tr = tr
  BY <1>1, <1>2 DEF Run
<1> QED
  BY <1>1, <1>3 DEF tr

LEMMA DetachIs ==
  ASSUME Basic, Detach
  PROVE  /\ run.pc = "transfer" /\ run' \in Run /\ run'.pc = "failed" /\ run'.man = run.man /\ run'.k = run.k
         /\ run'.final = run.final /\ run'.tr = [i \in DOMAIN run.tr |-> Stopped(run.tr[i])]
         /\ count' \in Count /\ count'.runs = count.runs /\ count'.user = count.user
         /\ \A d \in detached' : \/ d \in detached
                                 \/ \E i \in DOMAIN run.tr :
                                      /\ run.tr[i].st = "run"
                                      /\ d = [by |-> Handle(i), name |-> Part, man |-> run.man, k |-> run.k,
                                              data |-> run.tr[i].data]
         /\ UNCHANGED <<source, fs, inflight, dirty, db, acked, installed, damaged, sinceLook>>
<1> DEFINE tr == [i \in DOMAIN run.tr |-> Stopped(run.tr[i])]
<1>1. run.pc = "transfer" /\ run' = [run EXCEPT !.pc = "failed", !.tr = tr] /\ run \in Run
  BY DEF Detach, GivenUp, Stopped, Basic, FileTypes
<1>2. tr \in Seq(Transfer)
  BY StoppedTransfers DEF Basic
<1>3. count' \in Count /\ count'.runs = count.runs /\ count'.user = count.user
  <2>1. /\ count \in Count /\ count.detaches < MaxDetaches /\ count' = [count EXCEPT !.detaches = @ + 1]
        /\ MaxDetaches \in Nat
    BY Constants DEF Detach, Basic, FileTypes
  <2>2. count.detaches + 1 \in 0 .. MaxDetaches
    BY <2>1 DEF Count
  <2> QED
    BY <2>1, <2>2 DEF Count
<1>4. \A d \in detached' : \/ d \in detached
                           \/ \E i \in DOMAIN run.tr :
                                /\ run.tr[i].st = "run"
                                /\ d = [by |-> Handle(i), name |-> Part, man |-> run.man, k |-> run.k,
                                        data |-> run.tr[i].data]
  BY DEF Detach, Having
<1>5. UNCHANGED <<source, fs, inflight, dirty, db, acked, installed, damaged, sinceLook>>
  BY DEF Detach
<1> HIDE DEF tr
<1>6. run' \in Run /\ run'.pc = "failed" /\ run'.man = run.man /\ run'.k = run.k /\ run'.final = run.final
      /\ run'.tr = tr
  BY <1>1, <1>2 DEF Run, Stages
<1> QED
  BY <1>1, <1>3, <1>4, <1>5, <1>6 DEF tr

LEMMA DetachBasic ==
  ASSUME Basic, Detach
  PROVE  Basic'
  BY DetachIs, BasicKept DEF Working, Ended, Basic, FileTypes

LEMMA CancelBasic ==
  ASSUME Basic, CancelTransfers
  PROVE  Basic'
  BY CancelIs, OnlyRunBasic DEF Ended

(* The end of the transfers, up to the decision to replace the file. *)
LEMMA StagesBasic ==
  ASSUME Basic, Collect \/ SyncData \/ MarkChunksComplete \/ VerifyFile \/ Abandon
  PROVE  Basic'
<1>1. CASE Collect
  <2>1. PICK p \in {"sync", "failed", "verify"} : Goto(p)
    BY <1>1 DEF Collect
  <2>2. run' \in Run /\ run'.pc = p /\ run'.man = run.man
    BY <2>1, GotoIs DEF Basic, Stages
  <2>3. OnlyRun /\ run.pc = "transfer"
    BY <1>1 DEF Collect
  <2> QED
    BY <2>2, <2>3, OnlyRunBasic DEF Working, Ended
<1>2. CASE SyncData
  <2>1. run' \in Run /\ run'.pc = "mark" /\ run.pc = "sync" /\ dirty' \subseteq dirty /\ run'.man = run.man
    BY <1>2, GotoIs DEF Basic, Stages, SyncData
  <2> QED
    BY <1>2, <2>1, BasicKept DEF Working, Ended, SyncData, Basic, FileTypes
<1>3. CASE MarkChunksComplete
  <2>1. PICK p \in {"failed", "verify"} : Goto(p)
    BY <1>3 DEF MarkChunksComplete
  <2>2. run' \in Run /\ run'.pc = p /\ run.pc = "mark" /\ run'.man = run.man
    BY <1>3, <2>1, GotoIs DEF Basic, Stages, MarkChunksComplete
  <2>3. Having("ok") \subseteq Places /\ run.k \in Places
    BY TypedRun DEF Having, Basic, Places
  <2>4. db' \in [hash : Contents \cup {NoFile}, bits : SUBSET Places] /\ acked' \subseteq Places \X Places
    BY <1>3, <2>3 DEF MarkChunksComplete, Basic, FileTypes
  <2> QED
    BY <1>3, <2>2, <2>4, BasicKept DEF Working, Ended, MarkChunksComplete, Basic, FileTypes
<1>4. CASE VerifyFile
  <2>1. PICK p \in {"failed", "replace"} : Goto(p)
    BY <1>4 DEF VerifyFile
  <2>2. run' \in Run /\ run'.pc = p /\ run.pc = "verify" /\ run'.man = run.man
    BY <1>4, <2>1, GotoIs DEF Basic, Stages, VerifyFile
  <2>3. damaged' \subseteq damaged
    BY <1>4 DEF VerifyFile
  <2> QED
    BY <1>4, <2>2, <2>3, BasicKept DEF Working, Ended, VerifyFile, Basic, FileTypes
<1>5. CASE Abandon
  <2>1. run' \in Run /\ run'.pc = "stopped" /\ run'.man = run.man
    BY <1>5, GotoIs DEF Basic, Stages, Abandon
  <2> QED
    BY <1>5, <2>1, OnlyRunBasic DEF Working, Ended, Abandon
<1> QED
  BY <1>1, <1>2, <1>3, <1>4, <1>5

LEMMA RemoveBasic ==
  ASSUME Basic, RemoveExisting
  PROVE  Basic'
<1>1. run' \in Run /\ run'.pc = "rename" /\ run.pc = "replace" /\ run.final \in Finals /\ run'.man = run.man
  BY GotoIs, TypedRun DEF Basic, Stages, RemoveExisting
<1>2. CASE UNCHANGED <<fs, inflight, dirty, damaged, installed>>
  BY <1>1, <1>2, BasicKept DEF RemoveExisting, Working, Ended, Basic, FileTypes
<1>3. CASE ~UNCHANGED <<fs, inflight, dirty, damaged, installed>>
  <2>1. /\ fs' = [fs EXCEPT ![run.final] = NoFile]
        /\ inflight' = {w \in inflight : w.name # run.final}
        /\ dirty' = {d \in dirty : d[1] # run.final}
        /\ damaged' = {d \in damaged : d[1] # run.final}
        /\ installed' = [installed EXCEPT ![run.final] = NoFile]
        /\ UNCHANGED <<source, db, count, acked>>
    BY <1>3 DEF RemoveExisting
  <2>2. /\ fs' \in [Names -> Seq(Units) \cup {NoFile}] /\ \A n \in Names : n # run.final => fs'[n] = fs[n]
        /\ fs'[run.final] = NoFile /\ installed' \in [Names -> Contents \cup {NoFile}]
    BY <1>1, <2>1, Constants DEF Basic, FileTypes
  <2>3. \A w \in inflight' : w.name \in Names /\ w.name # run.final /\ Exists(w.name)
    BY <2>1 DEF Basic, FileTypes, Write
  <2>4. FileTypes'
    BY <1>1, <2>1, <2>2, <2>3 DEF Basic, FileTypes, Exists
  <2>5. PartThere'
    BY <1>1, <2>2, Constants DEF Basic, PartThere, Exists, Working
  <2>6. RoomInv'
    <3>1. \A n \in Copies : Exists(n)' => Exists(n)
      BY <2>2, Constants DEF Exists
    <3> QED
      BY <1>1, <2>1, <3>1, RoomKept DEF Ended
  <2>7. ManGiven'
    BY <1>1 DEF Basic, ManGiven
  <2> QED
    BY <2>4, <2>5, <2>6, <2>7 DEF Basic
<1> QED
  BY <1>2, <1>3

LEMMA RelabelIs ==
  ASSUME Basic, NEW S, NEW T, S \subseteq Names \X T
  PROVE  Relabel(S) \subseteq Names \X T
<1>1. run.final \in Names
  BY TypedRun DEF Basic
<1>2. \A d \in S : [d EXCEPT ![1] = IF @ = Part THEN run.final ELSE @] \in Names \X T
  BY <1>1
<1> QED
  BY <1>2 DEF Relabel

LEMMA RenameIs ==
  ASSUME Basic, RenamePartial
  PROVE  /\ run' \in Run /\ run'.pc = "done" /\ run'.man = run.man /\ run'.k = run.k /\ run'.tr = run.tr
         /\ run'.final = run.final /\ run.pc = "rename" /\ run.final \in Finals /\ Exists(Part) /\ run.man \in Contents
         /\ fs' = [fs EXCEPT ![run.final] = fs[Part], ![Part] = NoFile]
         /\ fs' \in [Names -> Seq(Units) \cup {NoFile}] /\ fs'[run.final] = fs[Part] /\ fs'[Part] = NoFile
         /\ \A n \in Names : n # run.final /\ n # Part => fs'[n] = fs[n]
         /\ installed' \in [Names -> Contents \cup {NoFile}] /\ installed'[run.final] = run.man
         /\ \A n \in Names : n # run.final => installed'[n] = installed[n]
         /\ UNCHANGED <<source, db, count, acked>>
<1>1. /\ run' \in Run /\ run'.pc = "done" /\ run'.man = run.man /\ run'.k = run.k /\ run'.tr = run.tr
      /\ run'.final = run.final /\ run.pc = "rename" /\ run.final \in Finals
  BY GotoIs, TypedRun DEF Basic, Stages, RenamePartial
<1>2. Exists(Part) /\ run.man \in Contents
  BY <1>1 DEF Basic, PartThere, ManGiven, Working
<1>3. /\ fs \in [Names -> Seq(Units) \cup {NoFile}] /\ installed \in [Names -> Contents \cup {NoFile}]
      /\ run.final \in Names /\ Part \in Names /\ run.final # Part
  BY <1>1, Constants DEF Basic, FileTypes
<1>4. /\ fs' = [fs EXCEPT ![run.final] = fs[Part], ![Part] = NoFile]
      /\ installed' = [installed EXCEPT ![run.final] = run.man]
      /\ UNCHANGED <<source, db, count, acked>>
  BY DEF RenamePartial
<1>5. /\ fs' \in [Names -> Seq(Units) \cup {NoFile}] /\ fs'[run.final] = fs[Part] /\ fs'[Part] = NoFile
      /\ \A n \in Names : n # run.final /\ n # Part => fs'[n] = fs[n]
  BY <1>3, <1>4
<1>6. /\ installed' \in [Names -> Contents \cup {NoFile}] /\ installed'[run.final] = run.man
      /\ \A n \in Names : n # run.final => installed'[n] = installed[n]
  BY <1>2, <1>3, <1>4
<1> QED
  BY <1>1, <1>2, <1>4, <1>5, <1>6

(* Where a write in flight goes after the rename. *)
Moved(w) == [w EXCEPT !.name = IF @ = Part THEN run.final ELSE @]

LEMMA RenamedWrites ==
  ASSUME Basic, RenamePartial
  PROVE  /\ \A w \in inflight' : w \in Write /\ \E v \in inflight : v.name # run.final /\ w = Moved(v)
         /\ \A v \in inflight : v.name # run.final => Moved(v) \in inflight'
         /\ \A v \in inflight : /\ Moved(v).at = v.at /\ Moved(v).unit = v.unit /\ Moved(v).by = v.by
                                 /\ Moved(v).name = IF v.name = Part THEN run.final ELSE v.name
<1>1. inflight' = {Moved(w) : w \in {v \in inflight : v.name # run.final}}
  BY DEF RenamePartial, Moved
<1>2. run.final \in Names
  BY TypedRun DEF Basic
<1>3. \A v \in inflight : /\ Moved(v) \in Write
                          /\ Moved(v).at = v.at /\ Moved(v).unit = v.unit /\ Moved(v).by = v.by
                          /\ Moved(v).name = IF v.name = Part THEN run.final ELSE v.name
  BY <1>2 DEF Basic, FileTypes, Write, Moved
<1> QED
  BY <1>1, <1>3

LEMMA RenameBasic ==
  ASSUME Basic, RenamePartial
  PROVE  Basic'
<1>1. FileTypes'
  <2>1. inflight' \subseteq Write
    BY RenamedWrites
  <2>2. ASSUME NEW w \in inflight'
        PROVE  Exists(w.name)'
    <3>1. PICK v \in inflight : v.name # run.final /\ w = Moved(v)
      BY <2>2, RenamedWrites
    <3>2. v.name \in Names /\ Exists(v.name)
      BY DEF Basic, FileTypes, Write
    <3>3. w.name = IF v.name = Part THEN run.final ELSE v.name
      BY <3>1, RenamedWrites
    <3> QED
      BY <3>1, <3>2, <3>3, RenameIs DEF Exists
  <2>3. dirty' \subseteq Names \X Places
    BY RelabelIs DEF RenamePartial, Basic, FileTypes
  <2>4. damaged' \subseteq Names \X Places \X {"lost", "late"}
    <3>1. run.final \in Names
      BY TypedRun DEF Basic
    <3>2. \A d \in damaged : [d EXCEPT ![1] = IF @ = Part THEN run.final ELSE @]
                               \in Names \X Places \X {"lost", "late"}
      BY <3>1 DEF Basic, FileTypes
    <3> QED
      BY <3>2 DEF RenamePartial, Relabel
  <2> QED
    BY <2>1, <2>2, <2>3, <2>4, RenameIs DEF Basic, FileTypes
<1>2. PartThere' /\ ManGiven'
  BY RenameIs DEF PartThere, ManGiven, Working
<1>3. RoomInv'
  <2>1. Taken \in SUBSET Copies /\ Taken' \in SUBSET Copies
    BY DEF Taken
  <2>2. Taken' \subseteq Taken \cup {run.final}
    BY RenameIs, Constants DEF Taken, Exists
  <2>3. Cardinality(Taken') <= Cardinality(Taken) + 1 /\ Cardinality(Taken) \in Nat /\ Cardinality(Taken') \in Nat
    BY <2>1, <2>2, NamesTaken
  <2>4. ~Ended /\ Ended' /\ count' = count
    BY RenameIs DEF Ended
  <2>5. count.runs \in Nat /\ count.user \in Nat
    BY DEF Basic, FileTypes, Count
  <2> QED
    BY <2>3, <2>4, <2>5 DEF Basic, RoomInv
<1> QED
  BY <1>1, <1>2, <1>3 DEF Basic

-----------------------------------------------------------------------------
(* The pool, crashes and the environment. *)

Late(w) == {p \in 1 .. w.at : p > Len(fs[w.name]) \/ (p = w.at /\ fs[w.name][p] # w.unit)}

LEMMA LandIs ==
  ASSUME Basic, NEW w, WriteLands(w)
  PROVE  /\ w \in Write /\ w \in inflight /\ w.name \in Names /\ w.at \in Places /\ w.unit \in Units
         /\ Exists(w.name) /\ fs[w.name] \in Seq(Units)
         /\ fs' \in [Names -> Seq(Units) \cup {NoFile}]
         /\ fs'[w.name] = WriteUnit(fs[w.name], w.at, w.unit) /\ fs'[w.name] \in Seq(Units)
         /\ \A n \in Names : n # w.name => fs'[n] = fs[n]
         /\ inflight' = inflight \ {w}
         /\ damaged' = IF Current(w) THEN {d \in damaged : <<d[1], d[2]>> # <<w.name, w.at>>}
                       ELSE damaged \cup {<<w.name, p, "late">> : p \in Late(w)}
         /\ dirty' = dirty \cup {<<w.name, w.at>>}
         /\ UNCHANGED <<source, db, run, count, acked, installed>>
<1>1. /\ w \in Write /\ w \in inflight /\ w.name \in Names /\ w.at \in Places /\ w.unit \in Units
      /\ Exists(w.name) /\ fs \in [Names -> Seq(Units) \cup {NoFile}]
  BY DEF Basic, FileTypes, Write, WriteLands
<1>2. fs[w.name] \in Seq(Units)
  BY <1>1 DEF Exists
<1>3. WriteUnit(fs[w.name], w.at, w.unit) \in Seq(Units)
  BY <1>1, <1>2, WriteUnitIs
<1>4. /\ fs' = [fs EXCEPT ![w.name] = WriteUnit(@, w.at, w.unit)]
      /\ inflight' = inflight \ {w}
      /\ damaged' = IF Current(w) THEN {d \in damaged : <<d[1], d[2]>> # <<w.name, w.at>>}
                    ELSE damaged \cup {<<w.name, p, "late">> : p \in Late(w)}
      /\ dirty' = dirty \cup {<<w.name, w.at>>}
      /\ UNCHANGED <<source, db, run, count, acked, installed>>
  BY DEF WriteLands, Late
<1>5. /\ fs' \in [Names -> Seq(Units) \cup {NoFile}]
      /\ fs'[w.name] = WriteUnit(fs[w.name], w.at, w.unit)
      /\ \A n \in Names : n # w.name => fs'[n] = fs[n]
  BY <1>1, <1>3, <1>4
<1> QED
  BY <1>1, <1>2, <1>3, <1>4, <1>5

LEMMA LandBasic ==
  ASSUME Basic, NEW w, WriteLands(w)
  PROVE  Basic'
<1>1. \A n \in Names : Exists(n)' <=> Exists(n)
  BY LandIs, Constants DEF Exists
<1>2. FileTypes'
  <2>1. \A v \in inflight' : v \in Write /\ Exists(v.name)'
    <3>1. \A v \in inflight' : v \in inflight /\ v \in Write /\ v.name \in Names /\ Exists(v.name)
      BY LandIs DEF Basic, FileTypes, Write
    <3> QED
      BY <1>1, <3>1
  <2>2. dirty' \subseteq Names \X Places
    BY LandIs DEF Basic, FileTypes
  <2>3. damaged' \subseteq Names \X Places \X {"lost", "late"}
    <3>1. Late(w) \subseteq Places
      BY LandIs DEF Late, Places
    <3>2. {<<w.name, p, "late">> : p \in Late(w)} \subseteq Names \X Places \X {"lost", "late"}
      BY <3>1, LandIs
    <3>3. damaged \subseteq Names \X Places \X {"lost", "late"}
      BY DEF Basic, FileTypes
    <3>4. damaged' \subseteq damaged \cup {<<w.name, p, "late">> : p \in Late(w)}
      BY LandIs
    <3> QED
      BY <3>2, <3>3, <3>4
  <2> QED
    BY <2>1, <2>2, <2>3, LandIs DEF Basic, FileTypes
<1>3. PartThere' /\ ManGiven'
  BY <1>1, LandIs, Constants DEF Basic, PartThere, ManGiven
<1>4. RoomInv'
  BY <1>1, LandIs, RoomKept, Constants DEF Ended
<1> QED
  BY <1>2, <1>3, <1>4 DEF Basic

LEMMA FailIs ==
  ASSUME Basic, NEW w, WriteFails(w)
  PROVE  /\ w \in Write /\ w \in inflight /\ w.name \in Names /\ w.at \in Places
         /\ inflight' = inflight \ {w} /\ damaged' = damaged \cup {<<w.name, w.at, "lost">>}
         /\ count' \in Count /\ count'.runs = count.runs /\ count'.user = count.user
         /\ UNCHANGED <<source, fs, dirty, db, acked, installed>>
         /\ \/ UNCHANGED run
            \/ \E i \in DOMAIN run.tr : /\ run.tr[i].st = "run" /\ run.pc = "transfer"
                                       /\ Retried(run.tr[i]) \in Transfer
                                       /\ run' = [run EXCEPT !.tr[i] = Retried(run.tr[i])]
<1>1. w \in Write /\ w \in inflight /\ w.name \in Names /\ w.at \in Places
  BY DEF Basic, FileTypes, Write, WriteFails
<1>2. count' \in Count /\ count'.runs = count.runs /\ count'.user = count.user
  <2>1. /\ count \in Count /\ count.disk < MaxDisk /\ count' = [count EXCEPT !.disk = @ + 1]
        /\ MaxDisk \in Nat
    BY Constants DEF WriteFails, Basic, FileTypes
  <2>2. count.disk + 1 \in 0 .. MaxDisk
    BY <2>1 DEF Count
  <2> QED
    BY <2>1, <2>2 DEF Count
<1>3. ASSUME run' # run
      PROVE  \E i \in DOMAIN run.tr : /\ run.tr[i].st = "run" /\ run.pc = "transfer"
                                      /\ Retried(run.tr[i]) \in Transfer
                                      /\ run' = [run EXCEPT !.tr[i] = Retried(run.tr[i])]
  <2>1. Transferring(w.by[2]) /\ run' = [run EXCEPT !.tr[w.by[2]] = Retried(@)]
    BY <1>3 DEF WriteFails
  <2>2. w.by[2] \in DOMAIN run.tr /\ run.tr[w.by[2]].st = "run" /\ run.pc = "transfer"
    BY <2>1 DEF Transferring, Having
  <2>3. Retried(run.tr[w.by[2]]) \in Transfer
    BY <2>2, TypedRun, RetriedIs DEF Basic
  <2> QED
    BY <2>1, <2>2, <2>3
<1>4. /\ inflight' = inflight \ {w} /\ damaged' = damaged \cup {<<w.name, w.at, "lost">>}
      /\ UNCHANGED <<source, fs, dirty, db, acked, installed>>
  BY DEF WriteFails
<1> QED
  BY <1>1, <1>2, <1>3, <1>4

LEMMA FailBasic ==
  ASSUME Basic, NEW w, WriteFails(w)
  PROVE  Basic'
<1>1. run' \in Run /\ run'.pc = run.pc /\ run'.man = run.man
  BY FailIs, RunChanges DEF Basic, FileTypes
<1>2. FileTypes'
  <2>1. inflight' \subseteq inflight
    BY FailIs
  <2>2. damaged' \subseteq Names \X Places \X {"lost", "late"}
    BY FailIs DEF Basic, FileTypes
  <2> QED
    BY <1>1, <2>1, <2>2, FailIs DEF Basic, FileTypes, Exists
<1>3. PartThere' /\ ManGiven'
  BY <1>1, FailIs DEF Basic, PartThere, ManGiven, Exists
<1>4. RoomInv'
  BY <1>1, FailIs, RoomKept DEF Exists, Ended
<1> QED
  BY <1>2, <1>3, <1>4 DEF Basic

LEMMA CrashIs ==
  ASSUME Basic, NEW lost \in SUBSET dirty, Crash(lost)
  PROVE  /\ inflight' = {} /\ dirty' \subseteq dirty
         /\ fs' \in [Names -> Seq(Units) \cup {NoFile}]
         /\ \A n \in Names : Exists(n)' <=> Exists(n)
         /\ \A n \in Names : Exists(n) =>
              /\ DOMAIN fs'[n] = DOMAIN fs[n]
              /\ \A p \in DOMAIN fs[n] : fs'[n][p] = IF <<n, p>> \in lost THEN Zero ELSE fs[n][p]
         /\ damaged' = damaged \cup {<<d[1], d[2], "lost">> : d \in lost}
                              \cup {<<w.name, w.at, "lost">> : w \in inflight}
         /\ run' \in Run /\ run' = (IF Ended THEN run ELSE [run EXCEPT !.pc = "stopped"])
         /\ run'.pc = (IF Ended THEN run.pc ELSE "stopped") /\ run'.tr = run.tr /\ run'.man = run.man
         /\ run'.k = run.k /\ run'.final = run.final
         /\ count' \in Count /\ count'.runs = count.runs /\ count'.user = count.user
         /\ UNCHANGED <<source, db, acked, installed>>
<1> DEFINE torn(n) == [p \in DOMAIN fs[n] |-> IF <<n, p>> \in lost THEN Zero ELSE fs[n][p]]
<1>1. fs' = [n \in Names |-> IF fs[n] = NoFile THEN NoFile ELSE torn(n)]
  BY DEF Crash
<1>2. ASSUME NEW n \in Names, Exists(n)
      PROVE  torn(n) \in Seq(Units)
  <2>1. fs[n] \in Seq(Units)
    BY <1>2 DEF Exists, Basic, FileTypes
  <2>2. Len(fs[n]) \in Nat /\ DOMAIN fs[n] = 1 .. Len(fs[n]) /\ \A p \in 1 .. Len(fs[n]) : fs[n][p] \in Units
    BY <2>1
  <2>3. torn(n) \in [1 .. Len(fs[n]) -> Units]
    BY <2>2, Constants
  <2> HIDE DEF torn
  <2> QED
    BY <2>2, <2>3, FunctionIsSequence
<1>3. NoFile \notin Seq(Units)
  BY Constants
<1>4. \A n \in Names : Exists(n) => DOMAIN torn(n) = DOMAIN fs[n]
                       /\ \A p \in DOMAIN fs[n] : torn(n)[p] = IF <<n, p>> \in lost THEN Zero ELSE fs[n][p]
  OBVIOUS
<1> HIDE DEF torn
<1>5. /\ fs' \in [Names -> Seq(Units) \cup {NoFile}]
      /\ \A n \in Names : Exists(n)' <=> Exists(n)
      /\ \A n \in Names : Exists(n) => fs'[n] = torn(n)
  BY <1>1, <1>2, <1>3 DEF Exists
<1>6. /\ run' \in Run /\ run' = (IF Ended THEN run ELSE [run EXCEPT !.pc = "stopped"])
      /\ run'.pc = (IF Ended THEN run.pc ELSE "stopped") /\ run'.tr = run.tr /\ run'.man = run.man
      /\ run'.k = run.k /\ run'.final = run.final
  BY DEF Crash, Basic, FileTypes, Run, Stages
<1>7. count' \in Count /\ count'.runs = count.runs /\ count'.user = count.user
  <2>1. /\ count \in Count /\ count.crashes < MaxCrashes /\ count' = [count EXCEPT !.crashes = @ + 1]
        /\ MaxCrashes \in Nat
    BY Constants DEF Crash, Basic, FileTypes
  <2>2. count.crashes + 1 \in 0 .. MaxCrashes
    BY <2>1 DEF Count
  <2> QED
    BY <2>1, <2>2 DEF Count
<1>8. /\ inflight' = {} /\ dirty' \subseteq dirty /\ UNCHANGED <<source, db, acked, installed>>
      /\ damaged' = damaged \cup {<<d[1], d[2], "lost">> : d \in lost}
                           \cup {<<w.name, w.at, "lost">> : w \in inflight}
  BY DEF Crash
<1> QED
  BY <1>4, <1>5, <1>6, <1>7, <1>8

LEMMA CrashBasic ==
  ASSUME Basic, NEW lost \in SUBSET dirty, Crash(lost)
  PROVE  Basic'
<1>1. FileTypes'
  <2>1. damaged' \subseteq Names \X Places \X {"lost", "late"}
    <3>1. {<<d[1], d[2], "lost">> : d \in lost} \subseteq Names \X Places \X {"lost", "late"}
      BY DEF Basic, FileTypes
    <3>2. {<<w.name, w.at, "lost">> : w \in inflight} \subseteq Names \X Places \X {"lost", "late"}
      BY DEF Basic, FileTypes, Write
    <3> QED
      BY <3>1, <3>2, CrashIs DEF Basic, FileTypes
  <2> QED
    BY <2>1, CrashIs DEF Basic, FileTypes
<1>2. PartThere' /\ ManGiven'
  <2>1. run'.pc \in Working => run'.pc = run.pc
    BY CrashIs DEF Working
  <2>2. (Exists(Part)' <=> Exists(Part)) /\ run'.man = run.man /\ (run'.pc # "idle" => run.pc # "idle")
    BY CrashIs, Constants DEF Ended
  <2> QED
    BY <2>1, <2>2 DEF Basic, PartThere, ManGiven
<1>3. RoomInv'
  BY CrashIs, RoomKept, Constants DEF Ended
<1> QED
  BY <1>1, <1>2, <1>3 DEF Basic

LEMMA EditBasic ==
  ASSUME Basic, NEW c \in Contents, EditSource(c)
  PROVE  Basic'
<1>1. count' \in Count /\ count'.runs = count.runs /\ count'.user = count.user
  <2>1. /\ count \in Count /\ count.edits < MaxEdits /\ count' = [count EXCEPT !.edits = @ + 1]
        /\ MaxEdits \in Nat
    BY Constants DEF EditSource, Basic, FileTypes
  <2>2. count.edits + 1 \in 0 .. MaxEdits
    BY <2>1 DEF Count
  <2> QED
    BY <2>1, <2>2 DEF Count
<1>2. source' = c /\ UNCHANGED <<fs, inflight, dirty, db, run, acked, installed, damaged>>
  BY DEF EditSource
<1>3. FileTypes'
  BY <1>1, <1>2 DEF Basic, FileTypes, Exists
<1>4. PartThere' /\ ManGiven'
  BY <1>2 DEF Basic, PartThere, ManGiven, Exists
<1>5. RoomInv'
  BY <1>1, <1>2, RoomKept DEF Ended, Exists
<1> QED
  BY <1>3, <1>4, <1>5 DEF Basic

LEMMA UserIs ==
  ASSUME Basic, NEW n \in UserNames, NEW c \in UserFiles, UserWrites(n, c)
  PROVE  /\ n \in Finals /\ n # Part /\ n \in Names
         /\ fs' \in [Names -> Seq(Units) \cup {NoFile}] /\ fs'[n] = c /\ c \in Seq(Units)
         /\ \A m \in Names : m # n => fs'[m] = fs[m]
         /\ inflight' = {w \in inflight : w.name # n} /\ dirty' = {d \in dirty : d[1] # n}
         /\ damaged' = {d \in damaged : d[1] # n}
         /\ installed' \in [Names -> Contents \cup {NoFile}] /\ installed'[n] = NoFile
         /\ \A m \in Names : m # n => installed'[m] = installed[m]
         /\ count' \in Count /\ count'.runs = count.runs /\ count'.user = count.user + 1 /\ count.user < MaxUser
         /\ UNCHANGED <<source, db, run, acked>>
<1>1. n \in Finals /\ n # Part /\ n \in Names /\ c \in Seq(Units)
  BY Constants
<1>2. count' \in Count /\ count'.runs = count.runs /\ count'.user = count.user + 1 /\ count.user < MaxUser
  <2>1. /\ count \in Count /\ count.user < MaxUser /\ count' = [count EXCEPT !.user = @ + 1]
        /\ MaxUser \in Nat
    BY Constants DEF UserWrites, Basic, FileTypes
  <2>2. count.user + 1 \in 0 .. MaxUser
    BY <2>1 DEF Count
  <2> QED
    BY <2>1, <2>2 DEF Count
<1> QED
  BY <1>1, <1>2 DEF UserWrites, Basic, FileTypes

LEMMA UserBasic ==
  ASSUME Basic, NEW n \in UserNames, NEW c \in UserFiles, UserWrites(n, c)
  PROVE  Basic'
<1>1. FileTypes'
  <2>1. \A w \in inflight' : w \in Write /\ Exists(w.name)'
    <3>1. \A w \in inflight' : w \in Write /\ w.name \in Names /\ w.name # n /\ Exists(w.name)
      BY UserIs DEF Basic, FileTypes, Write
    <3> QED
      BY <3>1, UserIs DEF Exists
  <2> QED
    BY <2>1, UserIs DEF Basic, FileTypes
<1>2. PartThere' /\ ManGiven'
  <2>1. fs'[Part] = fs[Part] /\ run' = run
    BY UserIs, Constants
  <2> QED
    BY <2>1 DEF Basic, PartThere, ManGiven, Exists
<1>3. RoomInv'
  <2>1. Taken \in SUBSET Copies /\ Taken' \in SUBSET Copies
    BY DEF Taken
  <2>2. Taken' \subseteq Taken \cup {n}
    BY UserIs, Constants, ZenonT(30) DEF Taken, Exists
  <2>3. Cardinality(Taken') <= Cardinality(Taken) + 1 /\ Cardinality(Taken) \in Nat /\ Cardinality(Taken') \in Nat
    BY <2>1, <2>2, NamesTaken
  <2>4. run' = run /\ count'.runs = count.runs /\ count'.user = count.user + 1
    BY UserIs
  <2>5. count.runs \in Nat /\ count.user \in Nat
    BY DEF Basic, FileTypes, Count
  <2> QED
    BY <2>3, <2>4, <2>5 DEF Basic, RoomInv, Ended
<1> QED
  BY <1>1, <1>2, <1>3 DEF Basic

(* Transfers that outlived their run: each has a file open, and is numbered as
   one of an earlier run, or as one that the run that failed has given up. *)
DetachedInv ==
  /\ sinceLook \subseteq UserNames /\ detached \subseteq Detached
  /\ \A d \in detached :
       /\ d.name # Gone => Exists(d.name)
       /\ d.by[1] < count.runs
          \/ /\ d.by[1] = count.runs /\ run.pc = "failed" /\ d.by[2] \in DOMAIN run.tr
             /\ run.tr[d.by[2]].st = "err"

(* The write a detached transfer issues. *)
Issued(d) == [name |-> d.name, at |-> DetachedAt(d), unit |-> source[DetachedAt(d)], by |-> d.by]

LEMMA DetachedTyped ==
  ASSUME NEW d \in Detached
  PROVE  /\ d.by \in Nat \X Places \X (0 .. Attempts - 1) /\ d.by[2] \in Places /\ d.by[1] \in Nat
         /\ d.name \in Names \cup {Gone} /\ d.man \in Contents /\ d.man \in Seq(Units)
         /\ d.k \in Nat \ {0} /\ d.data \in Seq(Units) /\ Len(d.data) \in Nat
<1>1. /\ d.by \in Nat \X Places \X (0 .. Attempts - 1) /\ d.name \in Names \cup {Gone}
      /\ d.man \in Contents /\ d.k \in ChunkSizes \cup {1} /\ d.data \in Seq(Units)
  BY DEF Detached
<1>2. d.k \in Nat \ {0}
  <2>1. ChunkSizes \subseteq Nat \ {0} /\ 1 \in Nat \ {0}
    BY Constants
  <2> QED
    BY <1>1, <2>1, Zenon
<1>3. d.man \in Seq(Units)
  BY <1>1, Constants
<1> QED
  BY <1>1, <1>2, <1>3

LEMMA IssuedIs ==
  ASSUME Basic, NEW d \in Detached, ~DetachedFull(d), ~DetachedShort(d)
  PROVE  /\ d.name # Gone => Issued(d) \in Write
         /\ [d EXCEPT !.data = Append(@, source[DetachedAt(d)])] \in Detached
<1> DEFINE got == d.data
           at == DetachedAt(d)
<1>1. /\ source \in Seq(Units) /\ Len(source) \in Nat
      /\ d.man \in Seq(Units) /\ d.k \in Nat \ {0} /\ d.by[2] \in Places
      /\ got \in Seq(Units) /\ Len(got) \in Nat
  BY TypedRun, DetachedTyped DEF Basic
<1>2. at = Offset(d.k, d.by[2]) + Len(got) + 1
  BY DEF DetachedAt, Offset
<1>3. ~(Len(source) < (IF got = <<>> THEN ChunkEnd(d.man, d.k, d.by[2]) ELSE at))
  BY DEF DetachedShort
<1>4. at \in Nat /\ 1 <= at /\ at <= Len(source)
  <2>1. /\ Offset(d.k, d.by[2]) \in Nat /\ ChunkEnd(d.man, d.k, d.by[2]) \in Nat
        /\ Len(ChunkAt(d.man, d.k, d.by[2])) =
             IF Offset(d.k, d.by[2]) < ChunkEnd(d.man, d.k, d.by[2])
             THEN ChunkEnd(d.man, d.k, d.by[2]) - Offset(d.k, d.by[2]) ELSE 0
    BY <1>1, ChunkEnds
  <2>2. got = <<>> => Len(got) = 0
    OBVIOUS
  <2>3. Len(got) # Len(ChunkAt(d.man, d.k, d.by[2]))
    BY DEF DetachedFull
  <2> HIDE DEF got, at
  <2> QED
    BY <1>1, <1>2, <1>3, <2>1, <2>2, <2>3
<1>5. source[at] \in Units /\ at \in Places
  BY <1>1, <1>4 DEF Places
<1> HIDE DEF at
<1>6. Append(got, source[at]) \in Seq(Units)
  BY <1>1, <1>5
<1>7. [d EXCEPT !.data = Append(@, source[at])] \in Detached
  BY <1>6 DEF Detached
<1>8. d.by \in Nat \X Places \X Nat
  BY DetachedTyped, Constants
<1>9. ASSUME d.name # Gone PROVE [name |-> d.name, at |-> at, unit |-> source[at], by |-> d.by] \in Write
  BY <1>5, <1>8, <1>9, DetachedTyped DEF Write
<1> QED
  BY <1>7, <1>9 DEF Issued, at

LEMMA ReopenedIs ==
  ASSUME NEW d \in Detached, NEW e \in Reopened(d)
  PROVE  /\ e \in Detached /\ e.by[1] = d.by[1] /\ e.by[2] = d.by[2] /\ e.name = Part /\ Exists(Part)
<1>1. d.by[3] + 1 < Attempts /\ Exists(Part) /\ e = [d EXCEPT !.by[3] = @ + 1, !.name = Part, !.data = <<>>]
  BY DEF Reopened
<1>2. d.by \in Nat \X Places \X (0 .. Attempts - 1) /\ <<>> \in Seq(Units) /\ Part \in Names
      /\ Attempts \in Nat
  BY DetachedTyped, Constants
<1>3. d.by[3] + 1 \in 0 .. Attempts - 1
  BY <1>1, <1>2
<1> DEFINE by == [d.by EXCEPT ![3] = @ + 1]
<1>4. by \in Nat \X Places \X (0 .. Attempts - 1) /\ by[1] = d.by[1] /\ by[2] = d.by[2]
  BY <1>2, <1>3
<1>5. e = [d EXCEPT !.by = by, !.name = Part, !.data = <<>>]
  BY <1>1
<1> HIDE DEF by
<1>6. e \in Detached /\ e.by = by /\ e.name = Part
  BY <1>2, <1>4, <1>5 DEF Detached
<1> QED
  BY <1>1, <1>4, <1>6

LEMMA DetachedIs ==
  ASSUME Basic, DetachedInv, NEW d \in detached,
         DetachedReceives(d) \/ DetachedRetries(d) \/ DetachedEnds(d)
  PROVE  /\ UNCHANGED <<source, fs, dirty, db, run, acked, installed, damaged, sinceLook>>
         /\ count' \in Count /\ count'.runs = count.runs /\ count'.user = count.user
         /\ inflight \subseteq inflight'
         /\ \A w \in inflight' : w \in inflight \/ (w \in Write /\ w.name = d.name /\ d.name # Gone /\ w.by = d.by)
         /\ \A e \in detached' : \/ e \in detached
                                 \/ /\ e \in Detached /\ e.by[1] = d.by[1] /\ e.by[2] = d.by[2]
                                    /\ e.name = d.name \/ (e.name = Part /\ Exists(Part))
<1>0. d \in Detached
  BY DEF DetachedInv
<1>1. CASE DetachedReceives(d)
  <2>1. /\ UNCHANGED <<source, fs, dirty, db, run, count, acked, installed, damaged, sinceLook>>
        /\ ~DetachedFull(d) /\ ~DetachedShort(d)
        /\ inflight' = inflight \cup {w \in {Issued(d)} : d.name # Gone}
        /\ detached' = (detached \ {d}) \cup {[d EXCEPT !.data = Append(@, source[DetachedAt(d)])]}
    BY <1>1 DEF DetachedReceives, Issued
  <2>2. Issued(d).name = d.name /\ Issued(d).by = d.by
    BY DEF Issued
  <2>3. /\ inflight \subseteq inflight'
        /\ \A w \in inflight' : w \in inflight \/ (w \in Write /\ w.name = d.name /\ d.name # Gone /\ w.by = d.by)
    BY <1>0, <2>1, <2>2, IssuedIs
  <2> DEFINE f == [d EXCEPT !.data = Append(@, source[DetachedAt(d)])]
  <2>4. f.by = d.by /\ f.name = d.name
    BY <1>0 DEF Detached
  <2>5. f \in Detached
    BY <1>0, <2>1, IssuedIs
  <2>6. \A e \in detached' : e \in detached \/ e = f
    BY <2>1
  <2> HIDE DEF f
  <2> QED
    BY <2>1, <2>3, <2>4, <2>5, <2>6 DEF Basic, FileTypes
<1>2. CASE DetachedRetries(d) \/ DetachedEnds(d)
  <2>1. /\ UNCHANGED <<source, fs, inflight, dirty, db, run, acked, installed, damaged, sinceLook>>
        /\ detached' \subseteq detached \cup Reopened(d)
        /\ \/ UNCHANGED count
           \/ count.faults < MaxFaults /\ count' = [count EXCEPT !.faults = @ + 1]
    BY <1>2 DEF DetachedRetries, DetachedEnds
  <2>2. count' \in Count /\ count'.runs = count.runs /\ count'.user = count.user
    <3>1. CASE UNCHANGED count
      BY <3>1 DEF Basic, FileTypes
    <3>2. CASE count.faults < MaxFaults /\ count' = [count EXCEPT !.faults = @ + 1]
      <4>1. count \in Count /\ MaxFaults \in Nat
        BY Constants DEF Basic, FileTypes
      <4>2. count.faults + 1 \in 0 .. MaxFaults
        BY <3>2, <4>1 DEF Count
      <4> QED
        BY <3>2, <4>1, <4>2 DEF Count
    <3> QED
      BY <2>1, <3>1, <3>2
  <2> QED
    BY <1>0, <2>1, <2>2, ReopenedIs
<1> QED
  BY <1>1, <1>2

LEMMA DetachedBasic ==
  ASSUME Basic, DetachedInv, NEW d \in detached,
         DetachedReceives(d) \/ DetachedRetries(d) \/ DetachedEnds(d)
  PROVE  Basic'
<1>1. FileTypes'
  <2>1. \A w \in inflight' : w \in Write /\ Exists(w.name)
    BY DetachedIs DEF Basic, FileTypes, DetachedInv
  <2> QED
    BY <2>1, DetachedIs DEF Basic, FileTypes, Exists
<1>2. PartThere' /\ ManGiven'
  BY DetachedIs DEF Basic, PartThere, ManGiven, Exists
<1>3. RoomInv'
  BY DetachedIs, RoomKept DEF Ended, Exists
<1> QED
  BY <1>1, <1>2, <1>3 DEF Basic

LEMMA NextBasic == Basic /\ DetachedInv /\ [Next]_vars => Basic'
<1> SUFFICES ASSUME Basic, DetachedInv, [Next]_vars PROVE Basic'
  OBVIOUS
<1>1. CASE LocalStep
  BY <1>1, CheckTargetBasic, OpenPartialBasic, StagesBasic, RemoveBasic, RenameBasic DEF LocalStep
<1>2. CASE \E k \in ChunkSizes : Start(k)
  BY <1>2, StartBasic
<1>3. CASE \E i \in DOMAIN run.tr : Answered(i) \/ ConnectionFault(i)
  BY <1>3, ReceiveFrameBasic, AttemptBasic DEF Answered
<1>4. CASE CancelTransfers \/ Abandon \/ Detach
  BY <1>4, CancelBasic, StagesBasic, DetachBasic
<1>5. CASE \E w \in inflight : WriteLands(w) \/ WriteFails(w)
  BY <1>5, LandBasic, FailBasic
<1>6. CASE \E lost \in SUBSET dirty : Crash(lost)
  BY <1>6, CrashBasic
<1>7. CASE \E c \in Contents : EditSource(c)
  BY <1>7, EditBasic
<1>8. CASE \E n \in UserNames, c \in UserFiles : UserWrites(n, c)
  BY <1>8, UserBasic
<1>9. CASE \E d \in detached : DetachedReceives(d) \/ DetachedRetries(d) \/ DetachedEnds(d)
  BY <1>9, DetachedBasic
<1>10. CASE UNCHANGED vars
  BY <1>10 DEF vars, Basic, FileTypes, PartThere, ManGiven, RoomInv, Taken, Exists, Ended
<1> QED
  BY <1>1, <1>2, <1>3, <1>4, <1>5, <1>6, <1>7, <1>8, <1>9, <1>10 DEF Next

(* Steps that open no file for a detached transfer. *)
LEMMA DetachedKept ==
  ASSUME DetachedInv, count'.runs = count.runs, run' = run \/ run.pc # "failed",
         \A n \in Names : Exists(n) => Exists(n)', sinceLook' \subseteq UserNames, detached' \subseteq detached
  PROVE  DetachedInv'
<1>1. ASSUME NEW d \in detached'
      PROVE  /\ d \in Detached /\ (d.name # Gone => Exists(d.name)')
             /\ d.by[1] < count'.runs
                \/ /\ d.by[1] = count'.runs /\ run'.pc = "failed" /\ d.by[2] \in DOMAIN run'.tr
                   /\ run'.tr[d.by[2]].st = "err"
  <2>1. d \in detached /\ d \in Detached
    BY <1>1 DEF DetachedInv
  <2>2. d.name \in Names \cup {Gone}
    BY <2>1, DetachedTyped
  <2> QED
    BY <2>1, <2>2 DEF DetachedInv
<1> QED
  BY <1>1 DEF DetachedInv

(* The name of an open file changes to m, which exists, or is taken from it. *)
LEMMA DetachedNamed ==
  ASSUME DetachedInv, count'.runs = count.runs, run' = run \/ run.pc # "failed", sinceLook' \subseteq UserNames,
         \A e \in detached' : \E d \in detached, m \in Names \cup {Gone} :
            e = [d EXCEPT !.name = m] /\ (m # Gone => Exists(m)')
  PROVE  DetachedInv'
<1>1. ASSUME NEW e \in detached'
      PROVE  /\ e \in Detached /\ (e.name # Gone => Exists(e.name)')
             /\ e.by[1] < count'.runs
                \/ /\ e.by[1] = count'.runs /\ run'.pc = "failed" /\ e.by[2] \in DOMAIN run'.tr
                   /\ run'.tr[e.by[2]].st = "err"
  <2>1. PICK d \in detached, m \in Names \cup {Gone} : e = [d EXCEPT !.name = m] /\ (m # Gone => Exists(m)')
    BY <1>1
  <2>2. d \in Detached
    BY DEF DetachedInv
  <2>3. e \in Detached /\ e.name = m /\ e.by = d.by
    BY <2>1, <2>2 DEF Detached
  <2> QED
    BY <2>1, <2>3 DEF DetachedInv
<1> QED
  BY <1>1 DEF DetachedInv

LEMMA UnlinkedIs ==
  ASSUME DetachedInv, NEW n \in Names, detached' = Unlinked(n), \A m \in Names : m # n /\ Exists(m) => Exists(m)'
  PROVE  \A e \in detached' : \E d \in detached, m \in Names \cup {Gone} :
            e = [d EXCEPT !.name = m] /\ (m # Gone => Exists(m)')
<1> SUFFICES ASSUME NEW d \in detached
             PROVE  \E m \in Names \cup {Gone} :
                      /\ [d EXCEPT !.name = IF @ = n THEN Gone ELSE @] = [d EXCEPT !.name = m]
                      /\ m # Gone => Exists(m)'
  BY DEF Unlinked
<1>1. d \in Detached /\ (d.name # Gone => Exists(d.name))
  BY DEF DetachedInv
<1>2. d.name \in Names \cup {Gone}
  BY <1>1, DetachedTyped
<1>3. CASE d.name = n
  BY <1>3
<1>4. CASE d.name # n
  <2>1. [d EXCEPT !.name = IF @ = n THEN Gone ELSE @] = [d EXCEPT !.name = d.name]
    BY <1>4
  <2>2. d.name # Gone => Exists(d.name)'
    BY <1>1, <1>2, <1>4
  <2> QED
    BY <1>2, <2>1, <2>2
<1> QED
  BY <1>3, <1>4

LEMMA RenamedIs ==
  ASSUME DetachedInv, NEW n \in Names, detached' = Renamed(n), Exists(n)',
         \A m \in Names : m # n /\ m # Part /\ Exists(m) => Exists(m)'
  PROVE  \A e \in detached' : \E d \in detached, m \in Names \cup {Gone} :
            e = [d EXCEPT !.name = m] /\ (m # Gone => Exists(m)')
<1> SUFFICES ASSUME NEW d \in detached
             PROVE  \E m \in Names \cup {Gone} :
                      /\ [d EXCEPT !.name = IF @ = Part THEN n ELSE IF @ = n THEN Gone ELSE @] = [d EXCEPT !.name = m]
                      /\ m # Gone => Exists(m)'
  BY DEF Renamed
<1>1. d \in Detached /\ (d.name # Gone => Exists(d.name))
  BY DEF DetachedInv
<1>2. d.name \in Names \cup {Gone}
  BY <1>1, DetachedTyped
<1> DEFINE m == IF d.name = Part THEN n ELSE IF d.name = n THEN Gone ELSE d.name
<1>3. [d EXCEPT !.name = IF @ = Part THEN n ELSE IF @ = n THEN Gone ELSE @] = [d EXCEPT !.name = m]
  OBVIOUS
<1>4. m = n \/ m = Gone \/ (m = d.name /\ d.name # n /\ d.name # Part)
  OBVIOUS
<1> HIDE DEF m
<1>5. m \in Names \cup {Gone} /\ (m # Gone => Exists(m)')
  <2>1. CASE m = n
    BY <2>1
  <2>2. CASE m = Gone
    BY <2>2
  <2>3. CASE m = d.name /\ d.name # n /\ d.name # Part
    BY <1>1, <1>2, <2>3
  <2> QED
    BY <1>4, <2>1, <2>2, <2>3
<1> QED
  BY <1>3, <1>5

LEMMA NextDetached == Basic /\ DetachedInv /\ [Next]_vars => DetachedInv'
<1> SUFFICES ASSUME Basic, DetachedInv, [Next]_vars PROVE DetachedInv'
  OBVIOUS
<1>1. CASE \/ CheckTarget \/ Collect \/ SyncData \/ MarkChunksComplete \/ VerifyFile \/ CancelTransfers \/ Abandon
           \/ \E i \in DOMAIN run.tr : ReceiveFrame(i) \/ ChunkComplete(i) \/ SourceShort(i)
  <2>1. /\ UNCHANGED <<fs, detached, count>> /\ run.pc # "failed"
        /\ sinceLook' \in {sinceLook, {}}
    BY <1>1 DEF CheckTarget, Collect, SyncData, MarkChunksComplete, VerifyFile, CancelTransfers, Abandon,
       ReceiveFrame, ChunkComplete, SourceShort, OnlyRun, Ended, Transferring
  <2> QED
    BY <2>1, DetachedKept DEF Exists, DetachedInv
<1>2. CASE \E i \in DOMAIN run.tr : ConnectionFault(i)
  <2>1. UNCHANGED <<fs, detached, sinceLook>> /\ run.pc # "failed" /\ count'.runs = count.runs
    BY <1>2, AttemptIs DEF ConnectionFault, Transferring
  <2> QED
    BY <2>1, DetachedKept DEF Exists, DetachedInv
<1>3. CASE OpenPartial
  <2>1. UNCHANGED <<detached, sinceLook, count>> /\ run.pc # "failed"
    BY <1>3 DEF OpenPartial
  <2>2. \A n \in Names : Exists(n) => Exists(n)'
    <3>1. fs' = [fs EXCEPT ![Part] = Resize(fs[Part], Len(run.man))]
      BY <1>3, OpenIs
    <3>2. Resize(fs[Part], Len(run.man)) \in Seq(Units) /\ NoFile \notin Seq(Units)
      BY ResizeIs, TypedRun, Constants DEF Basic, FileTypes
    <3> QED
      BY <3>1, <3>2 DEF Exists, Basic, FileTypes
  <2> QED
    BY <2>1, <2>2, DetachedKept DEF DetachedInv
<1>4. CASE RemoveExisting
  <2>1. run.pc = "replace" /\ UNCHANGED <<count, sinceLook>> /\ run.final \in Names
    BY <1>4, TypedRun DEF RemoveExisting, Basic
  <2>2. CASE Exists(run.final) /\ Policy = "overwrite"
    <3>1. detached' = Unlinked(run.final) /\ fs' = [fs EXCEPT ![run.final] = NoFile]
      BY <1>4, <2>2 DEF RemoveExisting
    <3>2. \A m \in Names : m # run.final /\ Exists(m) => Exists(m)'
      BY <3>1 DEF Exists, Basic, FileTypes
    <3> QED
      BY <2>1, <3>1, <3>2, UnlinkedIs, DetachedNamed DEF DetachedInv
  <2>3. CASE ~(Exists(run.final) /\ Policy = "overwrite")
    <3>1. UNCHANGED <<fs, detached>>
      BY <1>4, <2>3 DEF RemoveExisting
    <3> QED
      BY <2>1, <3>1, DetachedKept DEF Exists, DetachedInv
  <2> QED
    BY <2>2, <2>3
<1>5. CASE RenamePartial
  <2>1. run.pc = "rename" /\ UNCHANGED <<count, sinceLook>> /\ run'.final = run.final
    BY <1>5, RenameIs DEF RenamePartial
  <2>2. PICK n \in Names : n = run.final
    BY TypedRun DEF Basic
  <2>3. detached' = Renamed(n)
    BY <1>5, <2>2 DEF RenamePartial, Renamed
  <2>4. Exists(n)' /\ \A m \in Names : m # n /\ m # Part /\ Exists(m) => Exists(m)'
    BY <1>5, <2>2, RenameIs DEF Exists
  <2>5. \A e \in detached' : \E d \in detached, m \in Names \cup {Gone} :
            e = [d EXCEPT !.name = m] /\ (m # Gone => Exists(m)')
    BY <2>3, <2>4, RenamedIs
  <2> QED
    BY <2>1, <2>5, DetachedNamed DEF DetachedInv
<1>6. CASE \E k \in ChunkSizes : Start(k)
  <2>1. /\ UNCHANGED <<fs, detached, sinceLook>> /\ count'.runs = count.runs + 1 /\ count.runs \in Nat
    BY <1>6 DEF Start, Basic, FileTypes, Count
  <2>2. \A d \in detached : d.by[1] < count'.runs
    <3>1. \A d \in detached : d.by[1] \in Nat /\ d.by[1] <= count.runs
      BY <2>1, DetachedTyped DEF DetachedInv
    <3> QED
      BY <2>1, <3>1
  <2> QED
    BY <2>1, <2>2 DEF DetachedInv, Exists
<1>7. CASE Detach
  <2>1. /\ run.pc = "transfer" /\ run'.pc = "failed" /\ count'.runs = count.runs /\ fs' = fs
        /\ sinceLook' = sinceLook /\ run'.tr = [i \in DOMAIN run.tr |-> Stopped(run.tr[i])]
    BY <1>7, DetachIs
  <2>2. ASSUME NEW d \in detached', d \notin detached
        PROVE  /\ d \in Detached /\ d.name = Part /\ d.by[1] = count.runs /\ d.by[2] \in DOMAIN run.tr
               /\ run.tr[d.by[2]].st = "run"
    <3>1. PICK i \in DOMAIN run.tr :
            /\ run.tr[i].st = "run"
            /\ d = [by |-> Handle(i), name |-> Part, man |-> run.man, k |-> run.k, data |-> run.tr[i].data]
      BY <1>7, <2>2, DetachIs
    <3>2. /\ count.runs \in Nat /\ i \in Places /\ run.tr[i].tries \in 0 .. Attempts - 1
          /\ run.tr[i].data \in Seq(Units)
      BY TypedRun DEF Basic, FileTypes, Count, Transfer
    <3>3. Handle(i) \in Nat \X Places \X (0 .. Attempts - 1) /\ Handle(i)[1] = count.runs /\ Handle(i)[2] = i
      BY <3>2 DEF Handle
    <3>4. run.man \in Contents /\ run.k \in ChunkSizes \cup {1} /\ Part \in Names
      BY <2>1, Constants DEF Basic, ManGiven, FileTypes, Run
    <3> QED
      BY <3>1, <3>2, <3>3, <3>4 DEF Detached
  <2>3. Exists(Part)
    BY <2>1 DEF Basic, PartThere, Working
  <2>4. ASSUME NEW d \in detached'
        PROVE  /\ d \in Detached /\ (d.name # Gone => Exists(d.name)')
               /\ d.by[1] < count'.runs
                  \/ /\ d.by[1] = count'.runs /\ run'.pc = "failed" /\ d.by[2] \in DOMAIN run'.tr
                     /\ run'.tr[d.by[2]].st = "err"
    <3>1. CASE d \in detached
      BY <2>1, <3>1 DEF DetachedInv, Exists
    <3>2. CASE d \notin detached
      <4>1. Stopped(run.tr[d.by[2]]).st = "err"
        BY <2>2, <3>2 DEF Stopped
      <4> QED
        BY <2>1, <2>2, <2>3, <3>2, <4>1 DEF Exists
    <3> QED
      BY <3>1, <3>2
  <2> QED
    BY <2>1, <2>4 DEF DetachedInv
<1>8. CASE \E d \in detached : DetachedReceives(d) \/ DetachedRetries(d) \/ DetachedEnds(d)
  <2>1. PICK d \in detached : DetachedReceives(d) \/ DetachedRetries(d) \/ DetachedEnds(d)
    BY <1>8
  <2>2. UNCHANGED <<fs, run, sinceLook>> /\ count'.runs = count.runs
    BY <2>1, DetachedIs
  <2>3. \A e \in detached' : \/ e \in detached
                             \/ /\ e \in Detached /\ e.by[1] = d.by[1] /\ e.by[2] = d.by[2]
                                /\ e.name = d.name \/ (e.name = Part /\ Exists(Part))
    BY <2>1, DetachedIs
  <2> QED
    BY <2>2, <2>3 DEF DetachedInv, Exists
<1>9. CASE \E w \in inflight : WriteLands(w)
  <2>1. PICK w : WriteLands(w)
    BY <1>9
  <2>2. \A n \in Names : Exists(n)' <=> Exists(n)
    BY <2>1, LandIs, Constants DEF Exists
  <2>3. UNCHANGED <<run, count, detached, sinceLook>>
    BY <2>1 DEF WriteLands
  <2> QED
    BY <2>2, <2>3, DetachedKept DEF DetachedInv
<1>10. CASE \E w \in inflight : WriteFails(w)
  <2>1. PICK w : WriteFails(w)
    BY <1>10
  <2>2. /\ UNCHANGED <<fs, sinceLook>> /\ count'.runs = count.runs
        /\ run' = run \/ run.pc # "failed"
    BY <2>1, FailIs DEF WriteFails
  <2>3. \A e \in detached' : e \in detached \/ \E d \in detached : e \in Reopened(d)
    BY <2>1 DEF WriteFails
  <2>4. ASSUME NEW e \in detached'
        PROVE  /\ e \in Detached /\ (e.name # Gone => Exists(e.name))
               /\ \E d \in detached : e.by[1] = d.by[1] /\ e.by[2] = d.by[2]
    BY <2>3, ReopenedIs DEF DetachedInv
  <2> QED
    BY <2>2, <2>4 DEF DetachedInv, Exists
<1>11. CASE \E lost \in SUBSET dirty : Crash(lost)
  <2>1. detached' = {} /\ sinceLook' = sinceLook
    BY <1>11 DEF Crash
  <2> QED
    BY <2>1 DEF DetachedInv
<1>12. CASE \E c \in Contents : EditSource(c)
  <2>1. UNCHANGED <<fs, run, detached, sinceLook>> /\ count'.runs = count.runs
    BY <1>12 DEF EditSource, Basic, FileTypes, Count
  <2> QED
    BY <2>1, DetachedKept DEF Exists, DetachedInv
<1>13. CASE \E n \in UserNames, c \in UserFiles : UserWrites(n, c)
  <2>1. PICK n \in UserNames, c \in UserFiles : UserWrites(n, c)
    BY <1>13
  <2>2. /\ run' = run /\ count'.runs = count.runs /\ n \in Names
        /\ \A m \in Names : m # n /\ Exists(m) => Exists(m)'
    BY <2>1, UserIs DEF Exists
  <2>3. detached' = Unlinked(n) /\ sinceLook' = sinceLook \cup {n}
    BY <2>1 DEF UserWrites
  <2>4. sinceLook' \subseteq UserNames
    BY <2>3 DEF DetachedInv
  <2> QED
    BY <2>2, <2>3, <2>4, UnlinkedIs, DetachedNamed
<1>14. CASE UNCHANGED vars
  BY <1>14 DEF vars, DetachedInv, Exists
<1> QED
  BY <1>1, <1>2, <1>3, <1>4, <1>5, <1>6, <1>7, <1>8, <1>9, <1>10, <1>11, <1>12, <1>13, <1>14
     DEF Next, LocalStep, Answered

LEMMA Basics == Spec => [](Basic /\ DetachedInv)
<1>1. Init => Basic /\ DetachedInv
  BY InitBasic DEF Init, DetachedInv
<1>2. Basic /\ DetachedInv /\ [Next]_vars => (Basic /\ DetachedInv)'
  BY NextBasic, NextDetached
<1> QED
  BY <1>1, <1>2, PTL DEF Spec

(* The type invariant of the download, for all contents, chunk sizes and
   bounds: the names, positions and attempts the code computes are among those
   it can mean, the name keep_both_path finds included, and a transfer that
   outlived its run never shares a handle with the run that works now. *)
THEOREM DownloadTypeCorrect == Spec => []TypeOK
<1>1. Basic /\ DetachedInv => TypeOK
  <2> SUFFICES ASSUME Basic, DetachedInv PROVE TypeOK
    OBVIOUS
  <2>1. DetachedTypes
    BY DEF DetachedInv, DetachedTypes, Ended
  <2> QED
    BY <2>1 DEF Basic, TypeOK
<1> QED
  BY <1>1, Basics, PTL

-----------------------------------------------------------------------------
(* What is written is what the manifest says.                              *)

(* A position of a file that is known to be damaged, and one where the file
   reads u, or will when a write in flight has landed, unless it is damaged. *)
Damage(dam, n, p) == \E why \in {"lost", "late"} : <<n, p, why>> \in dam
Good(files, dam, fly, n, p, u) ==
  \/ p \in DOMAIN files[n] /\ files[n][p] = u
  \/ Damage(dam, n, p)
  \/ \E w \in fly : w.name = n /\ w.at = p /\ w.unit = u

(* The file is as long as c, up to damage; and it is c, up to damage and
   writes in flight. *)
Covers(files, dam, n, c) == /\ DOMAIN c \subseteq DOMAIN files[n]
                            /\ \A p \in DOMAIN files[n] : p \in DOMAIN c \/ Damage(dam, n, p)
Faithful(files, dam, fly, n, c) == /\ Covers(files, dam, n, c)
                                   /\ \A p \in DOMAIN c : Good(files, dam, fly, n, p, c[p])

(* What the transfer t of chunk i has written so far is in the .part file. *)
Written(files, dam, fly, c, k, i, t) ==
  /\ t.st \in {"have", "ok"} => \A p \in Span(c, k, i) : Good(files, dam, fly, Part, p, c[p])
  /\ t.st = "run" =>
       /\ Offset(k, i) + Len(t.data) <= ChunkEnd(c, k, i)
       /\ \A j \in DOMAIN t.data : Good(files, dam, fly, Part, Offset(k, i) + j, t.data[j])

TransferInv ==
  run.pc \in Working =>
    /\ DOMAIN run.tr = Chunks(run.man, run.k)
    /\ Covers(fs, damaged, Part, run.man)
    /\ \A i \in DOMAIN run.tr : Written(fs, damaged, inflight, run.man, run.k, i, run.tr[i])

(* Where a run is tells what its transfers can be. *)
Early == {"idle", "check", "open"}
Joined == {"sync", "mark", "verify", "replace", "rename", "done"}
Checked == {"verify", "replace", "rename", "done"}
StageInv ==
  /\ run.pc \in Early => run.tr = <<>>
  /\ run.pc \in Joined => Having("run") = {}
  /\ run.pc \in Checked => Having("err") = {}

(* Handles are never used twice: none is ahead of the run and the attempt. *)
HandleInv ==
  \A w \in inflight :
    /\ w.by[1] <= count.runs
    /\ w.by[1] = count.runs =>
         /\ run.pc \notin Early /\ w.by[2] \in DOMAIN run.tr
         /\ run.tr[w.by[2]].st = "err" \/ w.by[3] <= run.tr[w.by[2]].tries

(* A write of a handle in use goes where its chunk is, with the last unit
   received; when the file has its final name it is the manifest's. *)
InUse(w, runs, tr) == /\ w.by[2] \in DOMAIN tr /\ tr[w.by[2]].st \in {"run", "ok"}
                      /\ w.by = <<runs, w.by[2], tr[w.by[2]].tries>>
Fits(w, c, k, i, t) ==
  /\ w.at \in Span(c, k, i)
  /\ t.st = "ok" => w.unit = c[w.at]
  /\ t.st = "run" => /\ Len(t.data) \in DOMAIN t.data
                     /\ w.at = Offset(k, i) + Len(t.data) /\ w.unit = t.data[Len(t.data)]

WriteInv ==
  \A w \in inflight : InUse(w, count.runs, run.tr) =>
    /\ Fits(w, run.man, run.k, w.by[2], run.tr[w.by[2]])
    /\ IF run.pc = "done" THEN w.name \in Finals /\ installed[w.name] = run.man
                          ELSE w.name = Part

InstalledInv ==
  \A n \in Finals : installed[n] # NoFile =>
    Exists(n) /\ Faithful(fs, damaged, inflight, n, installed[n])

FaithInv == TransferInv /\ StageInv /\ HandleInv /\ WriteInv /\ InstalledInv


LEMMA Quotients ==
  ASSUME NEW n \in Nat, NEW k \in Nat \ {0}
  PROVE  /\ n \div k \in Nat /\ (n \div k) * k <= n /\ n < (n \div k + 1) * k
         /\ \A x, y \in Nat : x <= y => x * k <= y * k
         /\ \A x \in Nat : (x + 1) * k = x * k + k /\ x * k \in Nat
  OBVIOUS

LEMMA Offsets ==
  ASSUME NEW c \in Seq(Units), NEW k \in Nat \ {0}, NEW i \in Places
  PROVE  /\ Offset(k, i) \in Nat /\ ChunkEnd(c, k, i) \in Nat
         /\ ChunkEnd(c, k, i) = IF Offset(k, i) + k <= Len(c) THEN Offset(k, i) + k ELSE Len(c)
         /\ \A j \in Places : i < j => Offset(k, i) + k <= Offset(k, j)
<1>1. \A x \in Places : x - 1 \in Nat /\ (x - 1) + 1 = x /\ x \in Nat
  BY DEF Places
<1>2. \A x \in Places : /\ (x - 1) * k \in Nat /\ Offset(k, x) = (x - 1) * k
                        /\ x * k = (x - 1) * k + k
  BY <1>1, Quotients DEF Offset
<1>3. ASSUME NEW j \in Places, i < j
      PROVE  Offset(k, i) + k <= Offset(k, j)
  <2>1. i <= j - 1 /\ i \in Nat /\ j - 1 \in Nat
    BY <1>3 DEF Places
  <2>2. i * k <= (j - 1) * k
    BY <2>1, Quotients
  <2> QED
    BY <1>2, <2>2
<1>4. Offset(k, i) \in Nat /\ i * k = Offset(k, i) + k
  BY <1>2
<1>5. ChunkEnd(c, k, i) = IF Offset(k, i) + k <= Len(c) THEN Offset(k, i) + k ELSE Len(c)
  BY <1>4 DEF ChunkEnd
<1>6. Len(c) \in Nat /\ Offset(k, i) + k \in Nat
  BY <1>4
<1> QED
  BY <1>3, <1>4, <1>5, <1>6

LEMMA SpansDisjoint ==
  ASSUME NEW c \in Seq(Units), NEW k \in Nat \ {0}, NEW i \in Places, NEW j \in Places, i # j,
         NEW p \in Span(c, k, i)
  PROVE  p \notin Span(c, k, j)
<1>1. /\ Offset(k, i) \in Nat /\ ChunkEnd(c, k, i) \in Nat
      /\ ChunkEnd(c, k, i) = IF Offset(k, i) + k <= Len(c) THEN Offset(k, i) + k ELSE Len(c)
      /\ i < j => Offset(k, i) + k <= Offset(k, j)
  BY Offsets
<1>2. /\ Offset(k, j) \in Nat /\ ChunkEnd(c, k, j) \in Nat
      /\ ChunkEnd(c, k, j) = IF Offset(k, j) + k <= Len(c) THEN Offset(k, j) + k ELSE Len(c)
      /\ j < i => Offset(k, j) + k <= Offset(k, i)
  BY Offsets
<1>3. i < j \/ j < i
  BY DEF Places
<1>4. Len(c) \in Nat
  OBVIOUS
<1> QED
  BY <1>1, <1>2, <1>3, <1>4 DEF Span

LEMMA SpansCover ==
  ASSUME NEW c \in Seq(Units), NEW k \in Nat \ {0}
  PROVE  /\ \A p \in DOMAIN c : \E i \in Chunks(c, k) : p \in Span(c, k, i)
         /\ \A i \in Chunks(c, k) : Offset(k, i) < ChunkEnd(c, k, i)
         /\ \A i \in Places : Span(c, k, i) \subseteq DOMAIN c
<1> DEFINE N == NumChunks(c, k)
<1>1. Len(c) \in Nat /\ DOMAIN c = 1 .. Len(c) /\ Len(c) + k - 1 \in Nat
  OBVIOUS
<1>2. N \in Nat /\ N * k <= Len(c) + k - 1 /\ Len(c) <= N * k /\ N * k \in Nat
  <2>1. N \in Nat /\ N * k <= Len(c) + k - 1 /\ Len(c) + k - 1 < (N + 1) * k
    BY <1>1, Quotients DEF NumChunks
  <2> HIDE DEF N
  <2>2. (N + 1) * k = N * k + k /\ N * k \in Nat
    BY <2>1, Quotients
  <2> QED
    BY <1>1, <2>1, <2>2
<1>3. Chunks(c, k) = 1 .. N
  BY DEF Chunks
<1> HIDE DEF N
<1>5. ASSUME NEW i \in Chunks(c, k)
      PROVE  Offset(k, i) < ChunkEnd(c, k, i)
  <2>1. i \in Places /\ i \in Nat /\ i - 1 \in Nat /\ i - 1 < N
    BY <1>2, <1>3 DEF Places
  <2>2. (i - 1) * k + k <= N * k
    <3>1. ((i - 1) + 1) * k = (i - 1) * k + k /\ (i - 1) + 1 \in Nat /\ (i - 1) + 1 <= N
      BY <1>2, <2>1, Quotients
    <3>2. ((i - 1) + 1) * k <= N * k
      BY <1>2, <3>1, Quotients
    <3> QED
      BY <3>1, <3>2
  <2>3. Offset(k, i) + k <= Len(c) + k - 1
    <3>1. Offset(k, i) = (i - 1) * k /\ (i - 1) * k \in Nat
      BY <2>1, Quotients DEF Offset
    <3> QED
      BY <1>1, <1>2, <2>2, <3>1
  <2>4. /\ Offset(k, i) \in Nat
        /\ ChunkEnd(c, k, i) = IF Offset(k, i) + k <= Len(c) THEN Offset(k, i) + k ELSE Len(c)
    BY <2>1, Offsets
  <2> QED
    BY <1>1, <2>3, <2>4
<1>6. ASSUME NEW i \in Places
      PROVE  Span(c, k, i) \subseteq DOMAIN c
  <2>1. Offset(k, i) \in Nat /\ ChunkEnd(c, k, i) \in Nat /\ ChunkEnd(c, k, i) <= Len(c)
    BY ChunkEnds
  <2> QED
    BY <1>1, <2>1 DEF Span
<1>7. ASSUME NEW p \in DOMAIN c
      PROVE  \E i \in Chunks(c, k) : p \in Span(c, k, i)
  <2> DEFINE q == (p - 1) \div k
  <2>1. p - 1 \in Nat /\ p \in 1 .. Len(c)
    BY <1>1
  <2>2. q \in Nat /\ q * k <= p - 1 /\ p - 1 < (q + 1) * k /\ q * k \in Nat /\ (q + 1) * k = q * k + k
    BY <2>1, Quotients
  <2> HIDE DEF q
  <2>3. q < N
    <3>1. SUFFICES ASSUME N <= q PROVE FALSE
      BY <1>2, <2>2
    <3>2. N * k <= q * k
      BY <1>2, <2>2, <3>1, Quotients
    <3> QED
      BY <1>1, <1>2, <2>1, <2>2, <3>2
  <2>4. q + 1 \in Chunks(c, k) /\ q + 1 \in Places
    BY <1>2, <1>3, <2>2, <2>3 DEF Places
  <2>5. Offset(k, q + 1) = q * k
    BY <2>2 DEF Offset
  <2>6. p \in Span(c, k, q + 1)
    <3>1. /\ ChunkEnd(c, k, q + 1) \in Nat
          /\ ChunkEnd(c, k, q + 1) = IF q * k + k <= Len(c) THEN q * k + k ELSE Len(c)
      BY <2>4, <2>5, Offsets
    <3> QED
      BY <1>1, <2>1, <2>2, <2>5, <3>1 DEF Span
  <2> QED
    BY <2>4, <2>6
<1> QED
  BY <1>5, <1>6, <1>7

-----------------------------------------------------------------------------
(* What a step leaves good. *)

LEMMA GoodKept ==
  ASSUME NEW files, NEW dam, NEW fly, NEW files2, NEW dam2, NEW fly2, NEW n, NEW m,
         DOMAIN files2[m] = DOMAIN files[n], \A p \in DOMAIN files[n] : files2[m][p] = files[n][p],
         \A p : Damage(dam, n, p) => Damage(dam2, m, p),
         \A w \in fly : w.name = n => \E v \in fly2 : v.name = m /\ v.at = w.at /\ v.unit = w.unit
  PROVE  /\ \A p, u : Good(files, dam, fly, n, p, u) => Good(files2, dam2, fly2, m, p, u)
         /\ \A c : Covers(files, dam, n, c) => Covers(files2, dam2, m, c)
         /\ \A c : Faithful(files, dam, fly, n, c) => Faithful(files2, dam2, fly2, m, c)
<1>1. \A p, u : Good(files, dam, fly, n, p, u) => Good(files2, dam2, fly2, m, p, u)
  BY DEF Good
<1>2. \A c : Covers(files, dam, n, c) => Covers(files2, dam2, m, c)
  BY DEF Covers
<1> QED
  BY <1>1, <1>2 DEF Faithful

(* Nothing that is good stops being so. *)
Preserved ==
  /\ \A n \in Names : \A p, u : Good(fs, damaged, inflight, n, p, u) => Good(fs', damaged', inflight', n, p, u)
  /\ \A n \in Names : \A c : Covers(fs, damaged, n, c) => Covers(fs', damaged', n, c)

LEMMA PreservedWhen ==
  ASSUME fs' = fs, damaged \subseteq damaged',
         \A w \in inflight : w \in inflight' \/ <<w.name, w.at, "lost">> \in damaged'
  PROVE  Preserved
<1>1. \A n, p : Damage(damaged, n, p) => Damage(damaged', n, p)
  BY DEF Damage
<1>2. \A n : \A p, u : Good(fs, damaged, inflight, n, p, u) => Good(fs', damaged', inflight', n, p, u)
  BY <1>1 DEF Good, Damage
<1>3. \A n : \A c : Covers(fs, damaged, n, c) => Covers(fs', damaged', n, c)
  BY <1>1 DEF Covers
<1> QED
  BY <1>2, <1>3 DEF Preserved

LEMMA WrittenKept ==
  ASSUME Preserved, NEW c, NEW k, NEW i, NEW t, Written(fs, damaged, inflight, c, k, i, t)
  PROVE  Written(fs', damaged', inflight', c, k, i, t)
<1>1. \A p, u : Good(fs, damaged, inflight, Part, p, u) => Good(fs', damaged', inflight', Part, p, u)
  BY Constants DEF Preserved
<1> QED
  BY <1>1 DEF Written

LEMMA InstalledKept ==
  ASSUME InstalledInv, Preserved, installed' = installed, \A n \in Finals : Exists(n) => Exists(n)'
  PROVE  InstalledInv'
<1>1. ASSUME NEW n \in Finals, installed[n] # NoFile
      PROVE  Exists(n)' /\ Faithful(fs', damaged', inflight', n, installed[n])
  <2>1. Exists(n) /\ Faithful(fs, damaged, inflight, n, installed[n]) /\ n \in Names
    BY <1>1, Constants DEF InstalledInv
  <2> QED
    BY <2>1 DEF Faithful, Preserved
<1> QED
  BY <1>1 DEF InstalledInv

LEMMA TransferKept ==
  ASSUME TransferInv, Preserved, run'.pc \in Working => run.pc \in Working,
         run'.man = run.man, run'.k = run.k, DOMAIN run'.tr = DOMAIN run.tr,
         \A i \in DOMAIN run.tr : \/ run'.tr[i] = run.tr[i]
                                 \/ Written(fs', damaged', inflight', run.man, run.k, i, run'.tr[i])
  PROVE  TransferInv'
<1> SUFFICES ASSUME run'.pc \in Working
             PROVE  /\ DOMAIN run'.tr = Chunks(run'.man, run'.k)
                    /\ Covers(fs', damaged', Part, run'.man)
                    /\ \A i \in DOMAIN run'.tr :
                         Written(fs', damaged', inflight', run'.man, run'.k, i, run'.tr[i])
  BY DEF TransferInv
<1>1. /\ DOMAIN run.tr = Chunks(run.man, run.k) /\ Covers(fs, damaged, Part, run.man)
      /\ \A i \in DOMAIN run.tr : Written(fs, damaged, inflight, run.man, run.k, i, run.tr[i])
  BY DEF TransferInv
<1>2. Covers(fs', damaged', Part, run.man)
  BY <1>1, Constants DEF Preserved
<1>3. \A i \in DOMAIN run.tr : Written(fs', damaged', inflight', run.man, run.k, i, run'.tr[i])
  BY <1>1, WrittenKept
<1> QED
  BY <1>1, <1>2, <1>3

LEMMA HandleKept ==
  ASSUME HandleInv, inflight' \subseteq inflight, count'.runs = count.runs,
         run'.pc \in Early => run.pc \in Early, DOMAIN run'.tr = DOMAIN run.tr,
         \A i \in DOMAIN run.tr : \/ run'.tr[i] = run.tr[i] \/ run'.tr[i].st = "err"
                                 \/ /\ run.tr[i].st # "err" /\ run.tr[i].tries \in Nat
                                    /\ run'.tr[i].tries \in {run.tr[i].tries, run.tr[i].tries + 1},
         \A w \in inflight : w \in Write
  PROVE  HandleInv'
<1> SUFFICES ASSUME NEW w \in inflight'
             PROVE  /\ w.by[1] <= count'.runs
                    /\ w.by[1] = count'.runs =>
                         /\ run'.pc \notin Early /\ w.by[2] \in DOMAIN run'.tr
                         /\ run'.tr[w.by[2]].st = "err" \/ w.by[3] <= run'.tr[w.by[2]].tries
  BY DEF HandleInv
<1>1. /\ w.by[1] <= count.runs
      /\ w.by[1] = count.runs =>
           /\ run.pc \notin Early /\ w.by[2] \in DOMAIN run.tr
           /\ run.tr[w.by[2]].st = "err" \/ w.by[3] <= run.tr[w.by[2]].tries
  BY DEF HandleInv
<1>2. w.by[3] \in Nat
  BY DEF Write
<1>3. ASSUME w.by[1] = count.runs
      PROVE  run'.tr[w.by[2]].st = "err" \/ w.by[3] <= run'.tr[w.by[2]].tries
  BY <1>1, <1>2, <1>3
<1> QED
  BY <1>1, <1>3

(* Only the stage of the run changes. *)
LEMMA StageFaith ==
  ASSUME Basic, FaithInv, Preserved, StageInv', inflight' \subseteq inflight, installed' = installed,
         \A n \in Finals : Exists(n) => Exists(n)',
         run'.man = run.man, run'.k = run.k, run'.tr = run.tr, count'.runs = count.runs,
         run'.pc \in Working => run.pc \in Working, run'.pc \in Early => run.pc \in Early,
         run.tr = <<>> \/ (run'.pc = "done" <=> run.pc = "done")
  PROVE  FaithInv'
<1>1. TransferInv' /\ InstalledInv'
  BY TransferKept, InstalledKept DEF FaithInv
<1>2. HandleInv'
  BY HandleKept DEF FaithInv, Basic, FileTypes
<1>3. WriteInv'
  <2>1. CASE run.tr = <<>>
    <3>1. \A w : ~InUse(w, count'.runs, run'.tr)
      BY <2>1 DEF InUse
    <3> QED
      BY <3>1 DEF WriteInv
  <2>2. CASE run'.pc = "done" <=> run.pc = "done"
    BY <2>2 DEF FaithInv, WriteInv
  <2> QED
    BY <2>1, <2>2
<1> QED
  BY <1>1, <1>2, <1>3 DEF FaithInv

LEMMA StagesFaith ==
  ASSUME Basic, FaithInv, CheckTarget \/ Collect \/ SyncData \/ MarkChunksComplete \/ Abandon
  PROVE  FaithInv'
<1>1. CASE CheckTarget
  <2>1. PICK p \in {"done", "open"} :
          /\ run'.pc = p /\ run.pc = "check" /\ run'.man = run.man /\ run'.k = run.k /\ run'.tr = run.tr
          /\ UNCHANGED <<fs, inflight, damaged, installed, count>>
    <3>1. CASE Goto("done")
      BY <1>1, <3>1, GotoIs DEF CheckTarget, Basic, Stages
    <3>2. CASE ~Goto("done")
      BY <1>1, <3>2 DEF CheckTarget, Basic, FileTypes, Run
    <3> QED
      BY <3>1, <3>2
  <2>2. run.tr = <<>> /\ StageInv'
    BY <2>1 DEF FaithInv, StageInv, Having, Early, Joined, Checked
  <2> QED
    BY <2>1, <2>2, PreservedWhen, StageFaith DEF Exists, Working, Early
<1>2. CASE Collect
  <2>1. PICK p \in {"sync", "failed", "verify"} : Goto(p) /\ (p = "verify" => Having("err") = {})
    BY <1>2 DEF Collect
  <2>2. run.pc = "transfer" /\ Having("run") = {} /\ OnlyRun
    BY <1>2 DEF Collect
  <2>3. run'.pc = p /\ run'.man = run.man /\ run'.k = run.k /\ run'.tr = run.tr
    BY <2>1, GotoIs DEF Basic, Stages
  <2>4. StageInv'
    BY <2>1, <2>2, <2>3 DEF StageInv, Having, Early, Joined, Checked
  <2> QED
    BY <2>2, <2>3, <2>4, PreservedWhen, StageFaith DEF OnlyRun, Exists, Working, Early
<1>3. CASE SyncData
  <2>1. /\ run.pc = "sync" /\ run'.pc = "mark" /\ run'.man = run.man /\ run'.k = run.k /\ run'.tr = run.tr
        /\ UNCHANGED <<fs, inflight, damaged, installed, count>>
    BY <1>3, GotoIs DEF Basic, Stages, SyncData
  <2>2. StageInv'
    BY <2>1 DEF FaithInv, StageInv, Having, Early, Joined, Checked
  <2> QED
    BY <2>1, <2>2, PreservedWhen, StageFaith DEF Exists, Working, Early
<1>4. CASE MarkChunksComplete
  <2>1. PICK p \in {"failed", "verify"} : Goto(p) /\ (p = "verify" => Having("err") = {})
    BY <1>4 DEF MarkChunksComplete
  <2>2. run.pc = "mark" /\ UNCHANGED <<fs, inflight, damaged, installed, count>>
    BY <1>4 DEF MarkChunksComplete
  <2>3. run'.pc = p /\ run'.man = run.man /\ run'.k = run.k /\ run'.tr = run.tr
    BY <2>1, GotoIs DEF Basic, Stages
  <2>4. StageInv'
    BY <2>1, <2>2, <2>3 DEF FaithInv, StageInv, Having, Early, Joined, Checked
  <2> QED
    BY <2>2, <2>3, <2>4, PreservedWhen, StageFaith DEF Exists, Working, Early
<1>5. CASE Abandon
  <2>1. /\ ~Ended /\ run'.pc = "stopped" /\ run'.man = run.man /\ run'.k = run.k /\ run'.tr = run.tr
        /\ OnlyRun
    BY <1>5, GotoIs DEF Basic, Stages, Abandon
  <2>2. StageInv'
    BY <2>1 DEF StageInv, Early, Joined, Checked
  <2> QED
    BY <2>1, <2>2, PreservedWhen, StageFaith DEF OnlyRun, Exists, Working, Early, Ended
<1> QED
  BY <1>1, <1>2, <1>3, <1>4, <1>5

LEMMA EditFaith ==
  ASSUME Basic, FaithInv, NEW c \in Contents, EditSource(c)
  PROVE  FaithInv'
<1>1. run' = run /\ UNCHANGED <<fs, inflight, damaged, installed>> /\ count'.runs = count.runs
  BY DEF EditSource, Basic, FileTypes, Count
<1>2. StageInv'
  BY <1>1 DEF FaithInv, StageInv, Having
<1> QED
  BY <1>1, <1>2, PreservedWhen, StageFaith DEF Exists

LEMMA StartFaith ==
  ASSUME Basic, FaithInv, NEW k \in ChunkSizes, Start(k)
  PROVE  FaithInv'
<1>1. /\ run'.pc = "check" /\ run'.tr = <<>> /\ UNCHANGED <<fs, inflight, damaged, installed>>
      /\ count'.runs = count.runs + 1 /\ count.runs \in Nat
  BY DEF Start, Idle, Basic, FileTypes, Count
<1>2. TransferInv' /\ StageInv'
  BY <1>1 DEF TransferInv, StageInv, Having, Working, Early, Joined, Checked
<1>3. HandleInv'
  <2>1. \A w \in inflight : w.by[1] \in Nat /\ w.by[1] <= count.runs
    BY DEF FaithInv, HandleInv, Basic, FileTypes, Write
  <2> QED
    BY <1>1, <2>1 DEF HandleInv
<1>4. WriteInv'
  BY <1>1 DEF WriteInv, InUse
<1>5. InstalledInv'
  BY <1>1 DEF FaithInv, InstalledInv, Exists
<1> QED
  BY <1>2, <1>3, <1>4, <1>5 DEF FaithInv

LEMMA OpenFaith ==
  ASSUME Basic, FaithInv, OpenPartial
  PROVE  FaithInv'
<1> DEFINE c == run.man
           k == run.k
<1>1. /\ c \in Seq(Units) /\ k \in Nat \ {0} /\ Len(c) \in Nat /\ DOMAIN c = 1 .. Len(c)
      /\ fs \in [Names -> Seq(Units) \cup {NoFile}]
  BY TypedRun DEF Basic, FileTypes
<1>2. /\ fs'[Part] = Resize(fs[Part], Len(c)) /\ DOMAIN fs'[Part] = 1 .. Len(c)
      /\ \A n \in Names : n # Part => fs'[n] = fs[n]
      /\ Exists(Part) => \A p \in 1 .. Len(c) : p \in DOMAIN fs[Part] => fs'[Part][p] = fs[Part][p]
  <2>1. fs' = [fs EXCEPT ![Part] = Resize(fs[Part], Len(c))]
    BY OpenIs
  <2>2. Part \in Names /\ fs[Part] \in Seq(Units) \cup {NoFile}
    BY <1>1, Constants
  <2>3. fs'[Part] = Resize(fs[Part], Len(c)) /\ \A n \in Names : n # Part => fs'[n] = fs[n]
    BY <1>1, <2>1, <2>2
  <2> HIDE DEF c
  <2>4. /\ DOMAIN Resize(fs[Part], Len(c)) = 1 .. Len(c)
        /\ Exists(Part) => \A p \in 1 .. Len(c) : p \in DOMAIN fs[Part] => Resize(fs[Part], Len(c))[p] = fs[Part][p]
    BY <1>1, <2>2, ResizeIs DEF Exists
  <2> QED
    BY <2>3, <2>4
<1>3. /\ run.pc = "open" /\ run'.pc = "transfer" /\ run'.man = c /\ run'.k = k /\ inflight' = inflight
      /\ installed' = installed /\ count' = count
      /\ run'.tr = [i \in Chunks(c, k) |->
                      [st |-> IF i \in Kept THEN "have" ELSE "run", tries |-> 0, data |-> <<>>]]
  BY OpenIs
<1>4. ASSUME NEW i \in Kept, NEW p \in Span(c, k, i)
      PROVE  p \in DOMAIN fs'[Part] /\ fs'[Part][p] = c[p]
  <2>1. /\ i \in Chunks(c, k) /\ i \in Places /\ fs[Part] \in Seq(Units) /\ Len(fs[Part]) = Len(c)
        /\ ChunkAt(fs[Part], k, i) = ChunkAt(c, k, i)
    BY <1>1, ChunkCount, Constants DEF Kept, OpenBits, ValidateCompletedChunks, Exists
  <2>2. p \in DOMAIN c
    BY <1>1, <1>4, <2>1, SpansCover
  <2>3. fs'[Part][p] = fs[Part][p] /\ p \in DOMAIN fs'[Part]
    <3>1. p \in 1 .. Len(c) /\ p \in DOMAIN fs[Part]
      BY <1>1, <2>1, <2>2
    <3>2. Exists(Part)
      BY <2>1, Constants DEF Exists
    <3> QED
      BY <1>2, <3>1, <3>2
  <2>4. fs[Part][p] = c[p]
    <3> DEFINE j == p - Offset(k, i)
    <3>1. /\ Offset(k, i) \in Nat /\ ChunkEnd(c, k, i) \in Nat
          /\ Len(ChunkAt(c, k, i)) = IF Offset(k, i) < ChunkEnd(c, k, i)
                                     THEN ChunkEnd(c, k, i) - Offset(k, i) ELSE 0
          /\ \A x \in 1 .. Len(ChunkAt(c, k, i)) : ChunkAt(c, k, i)[x] = c[Offset(k, i) + x]
          /\ \A x \in 1 .. Len(ChunkAt(fs[Part], k, i)) : ChunkAt(fs[Part], k, i)[x] = fs[Part][Offset(k, i) + x]
      BY <1>1, <2>1, ChunkEnds
    <3>2. j \in 1 .. Len(ChunkAt(c, k, i)) /\ Offset(k, i) + j = p
      BY <1>4, <3>1 DEF Span
    <3> HIDE DEF j
    <3> QED
      BY <2>1, <3>1, <3>2
  <2> QED
    BY <2>3, <2>4
<1>5. TransferInv'
  <2>1. DOMAIN run'.tr = Chunks(c, k)
    BY <1>3
  <2>2. Covers(fs', damaged', Part, c)
    BY <1>1, <1>2 DEF Covers
  <2>3. ASSUME NEW i \in Chunks(c, k)
        PROVE  Written(fs', damaged', inflight', c, k, i, run'.tr[i])
    <3>1. run'.tr[i] = [st |-> IF i \in Kept THEN "have" ELSE "run", tries |-> 0, data |-> <<>>]
      BY <1>3
    <3>2. CASE i \in Kept
      <4>1. run'.tr[i].st = "have"
        BY <3>1, <3>2
      <4>2. \A p \in Span(c, k, i) : Good(fs', damaged', inflight', Part, p, c[p])
        BY <1>4, <3>2 DEF Good
      <4> QED
        BY <4>1, <4>2 DEF Written
    <3>3. CASE i \notin Kept
      <4>1. run'.tr[i].st = "run" /\ Len(run'.tr[i].data) = 0 /\ DOMAIN run'.tr[i].data = {}
        BY <3>1, <3>3
      <4>2. Offset(k, i) < ChunkEnd(c, k, i) /\ Offset(k, i) \in Nat /\ ChunkEnd(c, k, i) \in Nat
        BY <1>1, SpansCover, ChunkCount, ChunkEnds
      <4> QED
        BY <4>1, <4>2 DEF Written
    <3> QED
      BY <3>2, <3>3
  <2> QED
    BY <1>3, <2>1, <2>2, <2>3 DEF TransferInv
<1>6. StageInv'
  BY <1>3 DEF StageInv, Early, Joined, Checked
<1>7. \A w \in inflight : w.by[1] # count.runs /\ w.by[1] <= count.runs
  BY <1>3 DEF FaithInv, HandleInv, Early
<1>8. HandleInv' /\ WriteInv'
  BY <1>3, <1>7 DEF HandleInv, WriteInv, InUse
<1>9. InstalledInv'
  <2>1. ASSUME NEW n \in Finals, installed[n] # NoFile
        PROVE  Exists(n)' /\ Faithful(fs', damaged', inflight', n, installed[n])
    <3>1. n \in Names /\ n # Part /\ Exists(n) /\ Faithful(fs, damaged, inflight, n, installed[n])
      BY <2>1, Constants DEF FaithInv, InstalledInv
    <3>2. fs'[n] = fs[n]
      BY <1>2, <3>1
    <3>3. \A p : Damage(damaged, n, p) => Damage(damaged', n, p)
      BY <3>1, OpenIs DEF Damage
    <3> QED
      BY <1>3, <3>1, <3>2, <3>3, GoodKept DEF Exists
  <2> QED
    BY <1>3, <2>1 DEF InstalledInv
<1> QED
  BY <1>5, <1>6, <1>8, <1>9 DEF FaithInv

(* Of the transfers one changes, and of the writes in flight some are gone. *)
LEMMA AttemptFaith ==
  ASSUME Basic, FaithInv, Preserved, NEW i \in DOMAIN run.tr, run.pc = "transfer", run.tr[i].st = "run",
         NEW t \in Transfer, run' = [run EXCEPT !.tr[i] = t], inflight' \subseteq inflight,
         installed' = installed, fs' = fs, count'.runs = count.runs,
         \/ t = Retried(run.tr[i]) \/ t.st = "err"
         \/ t = Arrived(run.tr[i]) /\ run.tr[i].data = ChunkAt(run.man, run.k, i)
  PROVE  FaithInv'
<1> DEFINE c == run.man
           k == run.k
           old == run.tr[i]
<1>1. /\ run'.tr[i] = t /\ DOMAIN run'.tr = DOMAIN run.tr
      /\ \A j \in DOMAIN run.tr : j # i => run'.tr[j] = run.tr[j]
      /\ run'.pc = "transfer" /\ run'.man = c /\ run'.k = k
  BY RunChanges DEF Basic
<1>2. /\ c \in Seq(Units) /\ k \in Nat \ {0} /\ i \in Places /\ Len(old.data) \in Nat
      /\ old.data \in Seq(Units) /\ old.tries \in Nat
  BY TypedRun DEF Basic
<1>3. Written(fs, damaged, inflight, c, k, i, old) /\ i \in Chunks(c, k)
  BY DEF FaithInv, TransferInv, Working
<1>4. /\ Offset(k, i) \in Nat /\ ChunkEnd(c, k, i) \in Nat /\ Offset(k, i) < ChunkEnd(c, k, i)
      /\ Len(ChunkAt(c, k, i)) = ChunkEnd(c, k, i) - Offset(k, i)
      /\ \A j \in 1 .. Len(ChunkAt(c, k, i)) : ChunkAt(c, k, i)[j] = c[Offset(k, i) + j]
  BY <1>2, <1>3, ChunkEnds, SpansCover, ZenonT(30)
<1>5. CASE t.st = "err" \/ t = Retried(old)
  <2>1. t.st = "err" \/ (t.st = "run" /\ Len(t.data) = 0 /\ DOMAIN t.data = {} /\ t.tries = old.tries + 1)
    <3>1. old \in Transfer
      BY TypedRun DEF Basic
    <3>2. <<>> = <<>> /\ DOMAIN <<>> = {}
      OBVIOUS
    <3> QED
      BY <1>5, <3>1, <3>2, RetriedIs
  <2>2. Written(fs', damaged', inflight', c, k, i, t)
    BY <1>4, <2>1 DEF Written
  <2>3. HandleInv'
    BY <1>1, <1>2, <2>1, HandleKept DEF FaithInv, Basic, FileTypes
  <2>4. ASSUME NEW w \in inflight', InUse(w, count'.runs, run'.tr)
        PROVE  w.by[2] # i
    <3>1. SUFFICES ASSUME w.by[2] = i PROVE FALSE
      OBVIOUS
    <3>2. t.st # "err" /\ w.by[1] = count.runs /\ w.by[3] = old.tries + 1
      BY <1>1, <2>1, <2>4, <3>1 DEF InUse
    <3>3. w.by[3] <= old.tries
      BY <3>1, <3>2 DEF FaithInv, HandleInv
    <3> QED
      BY <1>2, <3>2, <3>3
  <2>5. WriteInv'
    <3>1. ASSUME NEW w \in inflight', InUse(w, count'.runs, run'.tr)
          PROVE  /\ Fits(w, run'.man, run'.k, w.by[2], run'.tr[w.by[2]])
                 /\ w.name = Part
      <4>1. w.by[2] # i
        BY <2>4, <3>1
      <4>2. InUse(w, count.runs, run.tr) /\ run'.tr[w.by[2]] = run.tr[w.by[2]]
        BY <1>1, <3>1, <4>1 DEF InUse
      <4> QED
        BY <1>1, <4>2 DEF FaithInv, WriteInv
    <3> QED
      BY <1>1, <3>1 DEF WriteInv
  <2> QED
    BY <1>1, <2>2, <2>3, <2>5, TransferKept, InstalledKept DEF FaithInv, StageInv, Early, Joined, Checked, Exists
<1>6. CASE t = Arrived(old) /\ old.data = ChunkAt(c, k, i)
  <2>1. t.st = "ok" /\ t.tries = old.tries
    BY <1>6 DEF Arrived
  <2>2. ASSUME NEW p \in Span(c, k, i)
        PROVE  /\ p - Offset(k, i) \in DOMAIN old.data /\ Offset(k, i) + (p - Offset(k, i)) = p
               /\ old.data[p - Offset(k, i)] = c[p]
    <3> DEFINE j == p - Offset(k, i)
    <3>1. j \in 1 .. Len(ChunkAt(c, k, i)) /\ Offset(k, i) + j = p
      BY <1>4, <2>2 DEF Span
    <3>2. DOMAIN old.data = 1 .. Len(ChunkAt(c, k, i))
      BY <1>2, <1>6
    <3> HIDE DEF j
    <3>3. old.data[j] = c[p]
      BY <1>4, <1>6, <3>1
    <3> QED
      BY <3>1, <3>2, <3>3 DEF j
  <2>3. Written(fs', damaged', inflight', c, k, i, t)
    <3>1. \A j \in DOMAIN old.data : Good(fs', damaged', inflight', Part, Offset(k, i) + j, old.data[j])
      BY <1>3, Constants DEF Written, Preserved
    <3>2. \A p \in Span(c, k, i) : Good(fs', damaged', inflight', Part, p, c[p])
      <4> TAKE p \in Span(c, k, i)
      <4>1. PICK j \in DOMAIN old.data : Offset(k, i) + j = p /\ old.data[j] = c[p]
        BY <2>2
      <4> QED
        BY <3>1, <4>1
    <3> QED
      BY <2>1, <3>2 DEF Written
  <2>4. HandleInv'
    BY <1>1, <1>2, <2>1, HandleKept DEF FaithInv, Basic, FileTypes
  <2>5. WriteInv'
    <3>1. ASSUME NEW w \in inflight', InUse(w, count'.runs, run'.tr)
          PROVE  /\ Fits(w, run'.man, run'.k, w.by[2], run'.tr[w.by[2]])
                 /\ w.name = Part
      <4>1. InUse(w, count.runs, run.tr)
        BY <1>1, <2>1, <3>1 DEF InUse
      <4>2. w.name = Part /\ Fits(w, c, k, w.by[2], run.tr[w.by[2]])
        BY <4>1 DEF FaithInv, WriteInv
      <4>3. CASE w.by[2] = i
        <5>1. w.at \in Span(c, k, i) /\ w.at = Offset(k, i) + Len(old.data) /\ w.unit = old.data[Len(old.data)]
          BY <4>2, <4>3 DEF Fits
        <5>2. w.at - Offset(k, i) = Len(old.data)
          BY <1>2, <1>4, <5>1
        <5>3. w.unit = c[w.at]
          BY <2>2, <5>1, <5>2
        <5>4. Fits(w, c, k, i, t)
          BY <2>1, <5>1, <5>3 DEF Fits
        <5> QED
          BY <1>1, <4>2, <4>3, <5>4
      <4>4. CASE w.by[2] # i
        BY <1>1, <4>1, <4>2, <4>4 DEF InUse
      <4> QED
        BY <4>3, <4>4
    <3> QED
      BY <1>1, <3>1 DEF WriteInv
  <2> QED
    BY <1>1, <2>3, <2>4, <2>5, TransferKept, InstalledKept DEF FaithInv, StageInv, Early, Joined, Checked, Exists
<1> QED
  BY <1>5, <1>6

LEMMA AttemptsFaith ==
  ASSUME Basic, FaithInv, NEW i \in DOMAIN run.tr, ChunkComplete(i) \/ SourceShort(i) \/ ConnectionFault(i)
  PROVE  FaithInv'
<1>1. /\ UNCHANGED <<source, fs, inflight, dirty, db, acked, installed, damaged>>
      /\ run.pc = "transfer" /\ run.tr[i].st = "run" /\ count'.runs = count.runs
  BY AttemptIs
<1>2. Preserved
  BY <1>1, PreservedWhen
<1>3. Failed(run.tr[i]).st = "err"
  BY TypedRun DEF Failed, Basic, Transfer
<1>4. \E t \in Transfer :
        /\ run' = [run EXCEPT !.tr[i] = t]
        /\ \/ t = Retried(run.tr[i]) \/ t.st = "err"
           \/ t = Arrived(run.tr[i]) /\ run.tr[i].data = ChunkAt(run.man, run.k, i)
  BY <1>3, AttemptIs
<1> QED
  BY <1>1, <1>2, <1>4, AttemptFaith

LEMMA FailFaith ==
  ASSUME Basic, FaithInv, NEW w, WriteFails(w)
  PROVE  FaithInv'
<1>1. Preserved
  BY FailIs, PreservedWhen
<1>2. inflight' \subseteq inflight /\ installed' = installed /\ fs' = fs /\ count'.runs = count.runs
  BY FailIs
<1>3. CASE UNCHANGED run
  <2>1. StageInv'
    BY <1>3 DEF FaithInv, StageInv, Having
  <2> QED
    BY <1>1, <1>2, <1>3, <2>1, StageFaith DEF Exists
<1>4. CASE ~UNCHANGED run
  <2>1. PICK i \in DOMAIN run.tr : /\ run.tr[i].st = "run" /\ run.pc = "transfer"
                                  /\ Retried(run.tr[i]) \in Transfer
                                  /\ run' = [run EXCEPT !.tr[i] = Retried(run.tr[i])]
    BY <1>4, FailIs
  <2> QED
    BY <1>1, <1>2, <2>1, AttemptFaith
<1> QED
  BY <1>3, <1>4

LEMMA CancelFaith ==
  ASSUME Basic, FaithInv, CancelTransfers
  PROVE  FaithInv'
<1>1. /\ run.pc = "transfer" /\ run'.pc = "transfer" /\ run'.man = run.man /\ run'.k = run.k
      /\ DOMAIN run'.tr = DOMAIN run.tr
      /\ \A i \in DOMAIN run.tr : run'.tr[i] = run.tr[i] \/ run'.tr[i].st = "err"
      /\ UNCHANGED <<fs, inflight, damaged, installed, count>>
  BY CancelIs DEF Stopped, OnlyRun
<1>2. Preserved
  BY <1>1, PreservedWhen
<1>3. \A i \in DOMAIN run.tr : \/ run'.tr[i] = run.tr[i]
                              \/ Written(fs', damaged', inflight', run.man, run.k, i, run'.tr[i])
  BY <1>1 DEF Written
<1>4. TransferInv' /\ InstalledInv' /\ StageInv'
  BY <1>1, <1>2, <1>3, TransferKept, InstalledKept DEF FaithInv, Exists, StageInv, Early, Joined, Checked
<1>5. HandleInv'
  BY <1>1, HandleKept DEF FaithInv, Basic, FileTypes
<1>6. WriteInv'
  <2>1. ASSUME NEW w \in inflight', InUse(w, count'.runs, run'.tr)
        PROVE  Fits(w, run'.man, run'.k, w.by[2], run'.tr[w.by[2]]) /\ w.name = Part
    <3>1. run'.tr[w.by[2]] = run.tr[w.by[2]] /\ InUse(w, count.runs, run.tr)
      BY <1>1, <2>1 DEF InUse
    <3> QED
      BY <1>1, <3>1 DEF FaithInv, WriteInv
  <2> QED
    BY <1>1, <2>1 DEF WriteInv
<1> QED
  BY <1>4, <1>5, <1>6 DEF FaithInv

(* The run fails, its transfers go on without it. *)
LEMMA DetachFaith ==
  ASSUME Basic, FaithInv, Detach
  PROVE  FaithInv'
<1>1. /\ run.pc = "transfer" /\ run'.pc = "failed" /\ run'.man = run.man /\ run'.k = run.k
      /\ DOMAIN run'.tr = DOMAIN run.tr
      /\ \A i \in DOMAIN run.tr : run'.tr[i] = run.tr[i] \/ run'.tr[i].st = "err"
      /\ UNCHANGED <<fs, inflight, damaged, installed>> /\ count'.runs = count.runs
  BY DetachIs DEF Stopped
<1>2. Preserved
  BY <1>1, PreservedWhen
<1>3. TransferInv' /\ InstalledInv' /\ StageInv'
  BY <1>1, <1>2, InstalledKept DEF FaithInv, Exists, TransferInv, StageInv, Early, Joined, Checked, Working
<1>4. HandleInv'
  BY <1>1, HandleKept DEF FaithInv, Basic, FileTypes, Early
<1>5. WriteInv'
  <2>1. ASSUME NEW w \in inflight', InUse(w, count'.runs, run'.tr)
        PROVE  Fits(w, run'.man, run'.k, w.by[2], run'.tr[w.by[2]]) /\ w.name = Part
    <3>1. run'.tr[w.by[2]] = run.tr[w.by[2]] /\ InUse(w, count.runs, run.tr)
      BY <1>1, <2>1 DEF InUse
    <3> QED
      BY <1>1, <3>1 DEF FaithInv, WriteInv
  <2> QED
    BY <1>1, <2>1 DEF WriteInv
<1> QED
  BY <1>3, <1>4, <1>5 DEF FaithInv

(* What a detached transfer writes is no write of the run. *)
LEMMA DetachedFaith ==
  ASSUME Basic, DetachedInv, FaithInv, NEW d \in detached,
         DetachedReceives(d) \/ DetachedRetries(d) \/ DetachedEnds(d)
  PROVE  FaithInv'
<1>1. /\ UNCHANGED <<fs, run, damaged, installed>> /\ count'.runs = count.runs /\ inflight \subseteq inflight'
      /\ \A w \in inflight' : w \in inflight \/ w.by = d.by
  BY DetachedIs
<1>2. Preserved
  BY <1>1, PreservedWhen
<1>3. TransferInv'
  BY <1>1, <1>2, TransferKept DEF FaithInv
<1>4. StageInv' /\ InstalledInv'
  BY <1>1, <1>2, InstalledKept DEF FaithInv, StageInv, Having, Exists
<1>5. \/ d.by[1] < count.runs
      \/ /\ d.by[1] = count.runs /\ run.pc = "failed" /\ d.by[2] \in DOMAIN run.tr
         /\ run.tr[d.by[2]].st = "err"
  BY DEF DetachedInv
<1>6. d.by[1] \in Nat /\ count.runs \in Nat
  BY DetachedTyped DEF DetachedInv, Basic, FileTypes, Count
<1>7. HandleInv'
  BY <1>1, <1>5, <1>6 DEF FaithInv, HandleInv, Early
<1>8. WriteInv'
  <2>1. ASSUME NEW w \in inflight', InUse(w, count.runs, run.tr)
        PROVE  w \in inflight
    <3>1. ASSUME w.by = d.by PROVE FALSE
      BY <1>5, <1>6, <2>1, <3>1 DEF InUse
    <3> QED
      BY <1>1, <3>1
  <2> QED
    BY <1>1, <2>1 DEF FaithInv, WriteInv
<1> QED
  BY <1>3, <1>4, <1>7, <1>8 DEF FaithInv

LEMMA ReceiveFaith ==
  ASSUME Basic, FaithInv, NEW i \in DOMAIN run.tr, ReceiveFrame(i)
  PROVE  FaithInv'
<1> DEFINE c == run.man
           k == run.k
           old == run.tr[i]
           t == Received(i)
           f == Frame(i)
<1>1. /\ run'.tr[i] = t /\ DOMAIN run'.tr = DOMAIN run.tr
      /\ \A j \in DOMAIN run.tr : j # i => run'.tr[j] = run.tr[j]
      /\ run'.pc = "transfer" /\ run.pc = "transfer" /\ run'.man = c /\ run'.k = k
  BY ReceiveIs, RunChanges DEF Basic
<1>2. /\ c \in Seq(Units) /\ k \in Nat \ {0} /\ i \in Places /\ Len(old.data) \in Nat
      /\ old.data \in Seq(Units) /\ old.tries \in Nat /\ count.runs \in Nat
  BY TypedRun DEF Basic, FileTypes, Count
<1>3. Written(fs, damaged, inflight, c, k, i, old) /\ i \in Chunks(c, k)
  BY <1>1 DEF FaithInv, TransferInv, Working
<1>4. /\ Offset(k, i) \in Nat /\ ChunkEnd(c, k, i) \in Nat /\ Offset(k, i) < ChunkEnd(c, k, i)
      /\ Len(ChunkAt(c, k, i)) = ChunkEnd(c, k, i) - Offset(k, i)
  BY <1>2, <1>3, ChunkEnds, SpansCover
<1>5. /\ f.name = Part /\ f.at = Offset(k, i) + (Len(old.data) + 1) /\ f.unit = source[At(i)]
      /\ f.by = <<count.runs, i, old.tries>> /\ f.by[1] = count.runs /\ f.by[2] = i /\ f.by[3] = old.tries
  BY <1>2, <1>4 DEF Frame, Handle, At
<1>6. /\ t.st = "run" /\ t.tries = old.tries /\ t.data = Append(old.data, f.unit)
      /\ Len(t.data) = Len(old.data) + 1 /\ t.data[Len(old.data) + 1] = f.unit
      /\ DOMAIN t.data = DOMAIN old.data \cup {Len(old.data) + 1}
      /\ \A j \in DOMAIN old.data : t.data[j] = old.data[j]
  <2>1. old \in Transfer /\ old.st = "run" /\ f.unit \in Units
    BY <1>5, ReceiveIs, TypedRun DEF Basic
  <2>2. t.st = "run" /\ t.tries = old.tries /\ t.data = Append(old.data, f.unit)
    BY <1>5, <2>1 DEF Received, Transfer
  <2> HIDE DEF t, old, f
  <2>3. /\ Len(Append(old.data, f.unit)) = Len(old.data) + 1
        /\ Append(old.data, f.unit)[Len(old.data) + 1] = f.unit
        /\ DOMAIN Append(old.data, f.unit) = 1 .. Len(old.data) + 1 /\ DOMAIN old.data = 1 .. Len(old.data)
        /\ \A j \in 1 .. Len(old.data) : Append(old.data, f.unit)[j] = old.data[j]
    BY <1>2, <2>1
  <2> QED
    BY <1>2, <2>2, <2>3
<1> HIDE DEF f, t
<1>7. /\ inflight' = inflight \cup {f} /\ UNCHANGED <<fs, damaged, installed, count>>
      /\ \A w \in inflight : w.by # <<count.runs, i, old.tries>>
  BY ReceiveIs DEF f, Handle
<1>8. Preserved
  BY <1>7, PreservedWhen
<1>9. Offset(k, i) + Len(old.data) <= ChunkEnd(c, k, i) /\ Len(old.data) # Len(ChunkAt(c, k, i))
  BY <1>3, ReceiveIs DEF Written, Full
<1>10. Offset(k, i) + (Len(old.data) + 1) <= ChunkEnd(c, k, i)
  <2> HIDE DEF c, k, old
  <2> QED
    BY <1>2, <1>4, <1>9
<1>11. Written(fs', damaged', inflight', c, k, i, t)
  <2>1. \A j \in DOMAIN old.data : Good(fs', damaged', inflight', Part, Offset(k, i) + j, t.data[j])
    BY <1>3, <1>6, <1>8, Constants, ReceiveIs DEF Written, Preserved
  <2>2. Good(fs', damaged', inflight', Part, Offset(k, i) + (Len(old.data) + 1), t.data[Len(old.data) + 1])
    BY <1>5, <1>6, <1>7 DEF Good
  <2> QED
    BY <1>6, <1>10, <2>1, <2>2 DEF Written
<1>12. TransferInv' /\ InstalledInv' /\ StageInv'
  BY <1>1, <1>7, <1>8, <1>11, TransferKept, InstalledKept DEF FaithInv, Exists, StageInv, Early, Joined, Checked
<1>13. HandleInv'
  <2>1. ASSUME NEW w \in inflight'
        PROVE  /\ w.by[1] <= count'.runs
               /\ w.by[1] = count'.runs =>
                     /\ run'.pc \notin Early /\ w.by[2] \in DOMAIN run'.tr
                     /\ run'.tr[w.by[2]].st = "err" \/ w.by[3] <= run'.tr[w.by[2]].tries
    <3>1. CASE w = f
      BY <1>1, <1>2, <1>5, <1>6, <1>7, <3>1 DEF Early
    <3>2. CASE w \in inflight
      <4>1. /\ w.by[1] <= count.runs
            /\ w.by[1] = count.runs =>
                  /\ run.pc \notin Early /\ w.by[2] \in DOMAIN run.tr
                  /\ run.tr[w.by[2]].st = "err" \/ w.by[3] <= run.tr[w.by[2]].tries
        BY <3>2 DEF FaithInv, HandleInv
      <4>2. old.st = "run"
        BY ReceiveIs
      <4> QED
        BY <1>1, <1>6, <1>7, <4>1, <4>2 DEF Early
    <3> QED
      BY <1>7, <3>1, <3>2
  <2> QED
    BY <2>1 DEF HandleInv
<1>14. WriteInv'
  <2>1. ASSUME NEW w \in inflight', InUse(w, count'.runs, run'.tr)
        PROVE  Fits(w, run'.man, run'.k, w.by[2], run'.tr[w.by[2]]) /\ w.name = Part
    <3>1. CASE w = f
      <4>1. f.at \in Span(c, k, i)
        <5>1. f.at \in Nat /\ Offset(k, i) + 1 <= f.at /\ f.at <= ChunkEnd(c, k, i)
          BY <1>2, <1>4, <1>5, <1>10, SMTT(20)
        <5> QED
          BY <1>4, <5>1 DEF Span
      <4>2. Fits(f, c, k, i, t)
        BY <1>5, <1>6, <4>1 DEF Fits
      <4> QED
        BY <1>1, <1>5, <3>1, <4>2
    <3>2. CASE w \in inflight
      <4>1. w.by[2] # i
        BY <1>1, <1>6, <1>7, <2>1, <3>2 DEF InUse
      <4>2. InUse(w, count.runs, run.tr) /\ run'.tr[w.by[2]] = run.tr[w.by[2]]
        BY <1>1, <1>7, <2>1, <4>1 DEF InUse
      <4> QED
        BY <1>1, <3>2, <4>2 DEF FaithInv, WriteInv
    <3> QED
      BY <1>7, <3>1, <3>2
  <2> QED
    BY <1>1, <2>1 DEF WriteInv
<1> QED
  BY <1>12, <1>13, <1>14 DEF FaithInv

LEMMA CrashFaith ==
  ASSUME Basic, FaithInv, NEW lost \in SUBSET dirty, Crash(lost)
  PROVE  FaithInv'
<1>1. /\ inflight' = {} /\ installed' = installed /\ run'.tr = run.tr
      /\ run'.pc = (IF Ended THEN run.pc ELSE "stopped")
      /\ \A n \in Names : Exists(n)' <=> Exists(n)
  BY CrashIs
<1>2. HandleInv' /\ WriteInv'
  BY <1>1 DEF HandleInv, WriteInv
<1>3. TransferInv'
  BY <1>1 DEF TransferInv, Working, Ended
<1>4. StageInv'
  BY <1>1 DEF FaithInv, StageInv, Having, Early, Joined, Checked
<1>5. InstalledInv'
  <2>1. ASSUME NEW n \in Finals, installed[n] # NoFile
        PROVE  Exists(n)' /\ Faithful(fs', damaged', inflight', n, installed[n])
    <3>1. n \in Names /\ Exists(n) /\ Exists(n)' /\ Faithful(fs, damaged, inflight, n, installed[n])
      BY <1>1, <2>1, Constants DEF FaithInv, InstalledInv
    <3>2. /\ DOMAIN fs'[n] = DOMAIN fs[n]
          /\ \A p \in DOMAIN fs[n] : fs'[n][p] = IF <<n, p>> \in lost THEN Zero ELSE fs[n][p]
          /\ damaged' = damaged \cup {<<d[1], d[2], "lost">> : d \in lost}
                              \cup {<<w.name, w.at, "lost">> : w \in inflight}
      BY <3>1, CrashIs
    <3>3. \A p : Damage(damaged, n, p) => Damage(damaged', n, p)
      BY <3>2 DEF Damage
    <3>4. \A p : <<n, p>> \in lost => Damage(damaged', n, p)
      <4>1. \A d \in lost : <<d[1], d[2], "lost">> \in damaged'
        BY <3>2
      <4>2. ASSUME NEW p, <<n, p>> \in lost
            PROVE  <<n, p, "lost">> \in damaged'
        <5>1. <<n, p>>[1] = n /\ <<n, p>>[2] = p
          OBVIOUS
        <5> QED
          BY <4>1, <4>2, <5>1
      <4> QED
        BY <4>2 DEF Damage
    <3>5. \A w \in inflight : Damage(damaged', w.name, w.at)
      BY <3>2 DEF Damage
    <3>6. \A p, u : Good(fs, damaged, inflight, n, p, u) => Good(fs', damaged', inflight', n, p, u)
      BY <3>2, <3>3, <3>4, <3>5 DEF Good
    <3>7. \A c : Covers(fs, damaged, n, c) => Covers(fs', damaged', n, c)
      BY <3>2, <3>3 DEF Covers
    <3> QED
      BY <3>1, <3>6, <3>7 DEF Faithful
  <2> QED
    BY <1>1, <2>1 DEF InstalledInv
<1> QED
  BY <1>2, <1>3, <1>4, <1>5 DEF FaithInv

(* Once every chunk is there the .part file is the file of the manifest. *)
LEMMA PartFaithful ==
  ASSUME Basic, FaithInv, run.pc \in {"verify", "replace", "rename"}
  PROVE  Faithful(fs, damaged, inflight, Part, run.man)
<1>1. /\ DOMAIN run.tr = Chunks(run.man, run.k) /\ Covers(fs, damaged, Part, run.man)
      /\ \A i \in DOMAIN run.tr : Written(fs, damaged, inflight, run.man, run.k, i, run.tr[i])
  BY DEF FaithInv, TransferInv, Working
<1>2. Having("run") = {} /\ Having("err") = {}
  BY DEF FaithInv, StageInv, Joined, Checked
<1>3. \A i \in DOMAIN run.tr : run.tr[i].st \in {"have", "ok"}
  <2>1. \A i \in DOMAIN run.tr : run.tr[i].st \in {"have", "run", "ok", "err"}
    BY TypedRun DEF Basic, Transfer
  <2> QED
    BY <1>2, <2>1 DEF Having
<1>4. ASSUME NEW p \in DOMAIN run.man
      PROVE  Good(fs, damaged, inflight, Part, p, run.man[p])
  <2>1. PICK i \in Chunks(run.man, run.k) : p \in Span(run.man, run.k, i)
    BY SpansCover, TypedRun DEF Basic
  <2> QED
    BY <1>1, <1>3, <2>1 DEF Written
<1> QED
  BY <1>1, <1>4 DEF Faithful

LEMMA VerifyFaith ==
  ASSUME Basic, FaithInv, VerifyFile
  PROVE  FaithInv'
<1>1. PICK p \in {"failed", "replace"} : Goto(p)
  BY DEF VerifyFile
<1>2. /\ run.pc = "verify" /\ run'.pc = p /\ run'.man = run.man /\ run'.k = run.k /\ run'.tr = run.tr
      /\ UNCHANGED <<fs, inflight, installed, count>>
  BY <1>1, GotoIs DEF Basic, Stages, VerifyFile
<1>3. StageInv'
  BY <1>2 DEF FaithInv, StageInv, Having, Early, Joined, Checked
<1>4. CASE damaged' = damaged
  BY <1>2, <1>3, <1>4, PreservedWhen, StageFaith DEF Exists, Working, Early
<1>5. CASE damaged' # damaged
  <2>1. damaged' = {d \in damaged : d[1] # Part} /\ (p = "replace" => Present(Part, run.man))
    BY <1>2, <1>5 DEF VerifyFile, Goto
  <2>2. TransferInv'
    <3>1. SUFFICES ASSUME p = "replace" PROVE TransferInv'
      BY <1>2 DEF TransferInv, Working
    <3>2. /\ DOMAIN run.tr = Chunks(run.man, run.k) /\ fs[Part] = run.man /\ Having("run") = {}
          /\ run.man \in Seq(Units) /\ run.k \in Nat \ {0}
      BY <1>2, <2>1, <3>1, TypedRun DEF FaithInv, TransferInv, StageInv, Working, Joined, Present, Basic
    <3>3. Covers(fs', damaged', Part, run.man)
      BY <1>2, <3>2 DEF Covers
    <3>4. ASSUME NEW i \in DOMAIN run.tr
          PROVE  Written(fs', damaged', inflight', run.man, run.k, i, run.tr[i])
      <4>1. run.tr[i].st # "run"
        BY <3>2 DEF Having
      <4>2. Span(run.man, run.k, i) \subseteq DOMAIN run.man
        BY <3>2, <3>4, SpansCover, ChunkCount
      <4>3. \A q \in Span(run.man, run.k, i) : Good(fs', damaged', inflight', Part, q, run.man[q])
        BY <1>2, <3>2, <4>2 DEF Good
      <4> QED
        BY <4>1, <4>3 DEF Written
    <3> QED
      BY <1>2, <3>2, <3>3, <3>4 DEF TransferInv
  <2>3. HandleInv' /\ WriteInv'
    BY <1>2 DEF FaithInv, HandleInv, WriteInv, Early
  <2>4. InstalledInv'
    <3>1. ASSUME NEW n \in Finals, installed[n] # NoFile
          PROVE  Exists(n)' /\ Faithful(fs', damaged', inflight', n, installed[n])
      <4>1. n # Part /\ Exists(n) /\ Faithful(fs, damaged, inflight, n, installed[n])
        BY <3>1, Constants DEF FaithInv, InstalledInv
      <4>2. \A q : Damage(damaged, n, q) => Damage(damaged', n, q)
        BY <2>1, <4>1 DEF Damage
      <4> QED
        BY <1>2, <4>1, <4>2, GoodKept DEF Exists
    <3> QED
      BY <1>2, <3>1 DEF InstalledInv
  <2> QED
    BY <1>3, <2>2, <2>3, <2>4 DEF FaithInv
<1> QED
  BY <1>4, <1>5

(* One name is given up or overwritten: the .part file, the other names and
   the writes to them stay. *)
LEMMA NameFaith ==
  ASSUME Basic, FaithInv, NEW m \in Finals,
         \A n \in Names : n # m => fs'[n] = fs[n] /\ installed'[n] = installed[n],
         installed'[m] = NoFile, inflight' = {w \in inflight : w.name # m},
         damaged' = {d \in damaged : d[1] # m},
         run'.man = run.man, run'.k = run.k, run'.tr = run.tr, count'.runs = count.runs,
         run'.pc \in Working => run.pc \in Working, run'.pc \in Early => run.pc \in Early,
         run'.pc = "done" <=> run.pc = "done", StageInv'
  PROVE  FaithInv'
<1>1. \A n, q : n # m /\ Damage(damaged, n, q) => Damage(damaged', n, q)
  BY DEF Damage
<1>2. \A n \in Names : n # m =>
        /\ \A q, u : Good(fs, damaged, inflight, n, q, u) => Good(fs', damaged', inflight', n, q, u)
        /\ \A c : Covers(fs, damaged, n, c) => Covers(fs', damaged', n, c)
        /\ \A c : Faithful(fs, damaged, inflight, n, c) => Faithful(fs', damaged', inflight', n, c)
  <2> TAKE n \in Names
  <2> HAVE n # m
  <2>1. fs'[n] = fs[n] /\ \A q : Damage(damaged, n, q) => Damage(damaged', n, q)
    BY <1>1
  <2>2. \A w \in inflight : w.name = n => \E v \in inflight' : v.name = n /\ v.at = w.at /\ v.unit = w.unit
    OBVIOUS
  <2>3. DOMAIN fs'[n] = DOMAIN fs[n] /\ \A q \in DOMAIN fs[n] : fs'[n][q] = fs[n][q]
    BY <2>1
  <2>4. \A q, u : Good(fs, damaged, inflight, n, q, u) => Good(fs', damaged', inflight', n, q, u)
    BY <2>1, <2>2, <2>3 DEF Good
  <2>5. \A c : Covers(fs, damaged, n, c) => Covers(fs', damaged', n, c)
    BY <2>1, <2>3 DEF Covers
  <2> QED
    BY <2>4, <2>5 DEF Faithful
<1>3. TransferInv'
  <2>1. Part \in Names /\ Part # m
    BY Constants
  <2>2. \A c, k, i, t : Written(fs, damaged, inflight, c, k, i, t) => Written(fs', damaged', inflight', c, k, i, t)
    BY <1>2, <2>1 DEF Written
  <2>3. \A c : Covers(fs, damaged, Part, c) => Covers(fs', damaged', Part, c)
    BY <1>2, <2>1
  <2> QED
    BY <2>2, <2>3 DEF FaithInv, TransferInv
<1>4. HandleInv'
  BY HandleKept DEF FaithInv, Basic, FileTypes
<1>5. WriteInv'
  <2>1. ASSUME NEW w \in inflight', InUse(w, count'.runs, run'.tr)
        PROVE  /\ Fits(w, run'.man, run'.k, w.by[2], run'.tr[w.by[2]])
               /\ IF run'.pc = "done" THEN w.name \in Finals /\ installed'[w.name] = run'.man
                                      ELSE w.name = Part
    <3>1. w \in inflight /\ InUse(w, count.runs, run.tr) /\ w.name # m
      BY <2>1
    <3>2. /\ Fits(w, run.man, run.k, w.by[2], run.tr[w.by[2]])
          /\ IF run.pc = "done" THEN w.name \in Finals /\ installed[w.name] = run.man
                                ELSE w.name = Part
      BY <3>1 DEF FaithInv, WriteInv
    <3> QED
      BY <3>1, <3>2, Constants
  <2> QED
    BY <2>1 DEF WriteInv
<1>6. InstalledInv'
  <2>1. ASSUME NEW n \in Finals, installed'[n] # NoFile
        PROVE  Exists(n)' /\ Faithful(fs', damaged', inflight', n, installed'[n])
    <3>1. n # m /\ n \in Names /\ installed'[n] = installed[n] /\ fs'[n] = fs[n]
      BY <2>1, Constants
    <3> QED
      BY <1>2, <2>1, <3>1 DEF FaithInv, InstalledInv, Exists
  <2> QED
    BY <2>1 DEF InstalledInv
<1> QED
  BY <1>3, <1>4, <1>5, <1>6 DEF FaithInv

LEMMA UserFaith ==
  ASSUME Basic, FaithInv, NEW n \in UserNames, NEW c \in UserFiles, UserWrites(n, c)
  PROVE  FaithInv'
<1>1. run' = run /\ StageInv'
  BY UserIs DEF FaithInv, StageInv, Having
<1> QED
  BY <1>1, UserIs, NameFaith

LEMMA RemoveFaith ==
  ASSUME Basic, FaithInv, RemoveExisting
  PROVE  FaithInv'
<1>1. /\ run.pc = "replace" /\ run'.pc = "rename" /\ run'.man = run.man /\ run'.k = run.k /\ run'.tr = run.tr
      /\ count' = count /\ run.final \in Finals /\ run.final \in Names
  BY GotoIs, TypedRun DEF Basic, Stages, RemoveExisting
<1>2. StageInv'
  BY <1>1 DEF FaithInv, StageInv, Having, Early, Joined, Checked
<1>3. CASE UNCHANGED <<fs, inflight, dirty, damaged, installed>>
  BY <1>1, <1>2, <1>3, PreservedWhen, StageFaith DEF Exists, Working, Early
<1>4. CASE ~UNCHANGED <<fs, inflight, dirty, damaged, installed>>
  <2>1. /\ fs' = [fs EXCEPT ![run.final] = NoFile] /\ inflight' = {w \in inflight : w.name # run.final}
        /\ damaged' = {d \in damaged : d[1] # run.final}
        /\ installed' = [installed EXCEPT ![run.final] = NoFile]
    BY <1>4 DEF RemoveExisting
  <2>2. /\ \A n \in Names : n # run.final => fs'[n] = fs[n] /\ installed'[n] = installed[n]
        /\ installed'[run.final] = NoFile
    BY <1>1, <2>1 DEF Basic, FileTypes
  <2> QED
    BY <1>1, <1>2, <2>1, <2>2, NameFaith DEF Working, Early
<1> QED
  BY <1>3, <1>4

LEMMA RenameFaith ==
  ASSUME Basic, FaithInv, RenamePartial
  PROVE  FaithInv'
<1>1. run.pc = "rename" /\ run'.pc = "done" /\ run'.tr = run.tr /\ run'.man = run.man /\ run'.k = run.k /\ count' = count
  BY RenameIs
<1>2. run.final \in Finals /\ run.final # Part /\ run.final \in Names
  BY RenameIs, Constants
<1>3. /\ \A d \in damaged : d[1] # run.final =>
           [d EXCEPT ![1] = IF @ = Part THEN run.final ELSE @] \in damaged'
  BY DEF RenamePartial, Relabel
<1>4. \A q : Damage(damaged, Part, q) => Damage(damaged', run.final, q)
  <2>1. ASSUME NEW q, NEW why, <<Part, q, why>> \in damaged
        PROVE  <<run.final, q, why>> \in damaged'
    <3>1. [<<Part, q, why>> EXCEPT ![1] = IF @ = Part THEN run.final ELSE @] = <<run.final, q, why>>
      OBVIOUS
    <3>2. <<Part, q, why>>[1] # run.final
      BY <1>2
    <3> QED
      BY <1>3, <2>1, <3>1, <3>2
  <2> QED
    BY <2>1 DEF Damage
<1>5. \A n, q : n # Part /\ n # run.final /\ Damage(damaged, n, q) => Damage(damaged', n, q)
  <2>1. ASSUME NEW n, NEW q, NEW why, <<n, q, why>> \in damaged, n # Part, n # run.final
        PROVE  <<n, q, why>> \in damaged'
    <3>1. [<<n, q, why>> EXCEPT ![1] = IF @ = Part THEN run.final ELSE @] = <<n, q, why>>
      BY <2>1
    <3>2. <<n, q, why>>[1] # run.final
      BY <2>1
    <3> QED
      BY <1>3, <2>1, <3>1, <3>2
  <2> QED
    BY <2>1 DEF Damage
<1>6. TransferInv'
  BY <1>1 DEF TransferInv, Working
<1>7. StageInv'
  BY <1>1 DEF FaithInv, StageInv, Having, Early, Joined, Checked
<1>8. HandleInv'
  <2>1. ASSUME NEW w \in inflight'
        PROVE  /\ w.by[1] <= count.runs
               /\ w.by[1] = count.runs =>
                     /\ w.by[2] \in DOMAIN run.tr
                     /\ run.tr[w.by[2]].st = "err" \/ w.by[3] <= run.tr[w.by[2]].tries
    <3>1. PICK v \in inflight : w.by = v.by
      BY RenamedWrites
    <3> QED
      BY <3>1 DEF FaithInv, HandleInv
  <2> QED
    BY <1>1, <2>1 DEF HandleInv, Early
<1>9. WriteInv'
  <2>1. ASSUME NEW w \in inflight', InUse(w, count'.runs, run'.tr)
        PROVE  /\ Fits(w, run.man, run.k, w.by[2], run.tr[w.by[2]])
               /\ w.name \in Finals /\ installed'[w.name] = run.man
    <3>1. PICK v \in inflight : /\ w.by = v.by /\ w.at = v.at /\ w.unit = v.unit
                               /\ w.name = IF v.name = Part THEN run.final ELSE v.name
      BY RenamedWrites
    <3>2. InUse(v, count.runs, run.tr)
      BY <1>1, <2>1, <3>1 DEF InUse
    <3>3. v.name = Part /\ Fits(v, run.man, run.k, v.by[2], run.tr[v.by[2]])
      BY <1>1, <3>2 DEF FaithInv, WriteInv
    <3>4. Fits(w, run.man, run.k, w.by[2], run.tr[w.by[2]])
      BY <3>1, <3>3 DEF Fits
    <3> QED
      BY <1>2, <3>1, <3>3, <3>4, RenameIs
  <2> QED
    BY <1>1, <2>1 DEF WriteInv
<1>10. InstalledInv'
  <2>1. ASSUME NEW n \in Finals, installed'[n] # NoFile
        PROVE  Exists(n)' /\ Faithful(fs', damaged', inflight', n, installed'[n])
    <3>1. CASE n = run.final
      <4>1. fs'[n] = fs[Part] /\ Exists(Part) /\ installed'[n] = run.man
        BY <3>1, RenameIs
      <4>2. Faithful(fs, damaged, inflight, Part, run.man)
        BY <1>1, PartFaithful
      <4>3. \A v \in inflight : v.name = Part =>
              \E w \in inflight' : w.name = n /\ w.at = v.at /\ w.unit = v.unit
        BY <1>2, <3>1, RenamedWrites
      <4>4. Faithful(fs', damaged', inflight', n, run.man)
        BY <1>4, <3>1, <4>1, <4>2, <4>3, GoodKept
      <4> QED
        BY <4>1, <4>4 DEF Exists
    <3>2. CASE n # run.final
      <4>1. n \in Names /\ n # Part
        BY Constants
      <4>2. fs'[n] = fs[n] /\ installed'[n] = installed[n]
        BY <3>2, <4>1, RenameIs
      <4>3. Exists(n) /\ Faithful(fs, damaged, inflight, n, installed[n])
        BY <2>1, <4>2 DEF FaithInv, InstalledInv
      <4>4. \A v \in inflight : v.name = n =>
              \E w \in inflight' : w.name = n /\ w.at = v.at /\ w.unit = v.unit
        BY <3>2, <4>1, RenamedWrites
      <4>5. \A q : Damage(damaged, n, q) => Damage(damaged', n, q)
        BY <1>5, <3>2, <4>1
      <4> QED
        BY <4>2, <4>3, <4>4, <4>5, GoodKept DEF Exists
    <3> QED
      BY <3>1, <3>2
  <2> QED
    BY <2>1 DEF InstalledInv
<1> QED
  BY <1>6, <1>7, <1>8, <1>9, <1>10 DEF FaithInv

(* A write lands: where a handle in use writes, it writes what it should. *)
LEMMA LandGood ==
  ASSUME Basic, NEW w, WriteLands(w), NEW n \in Names, NEW p, NEW u,
         Good(fs, damaged, inflight, n, p, u),
         Current(w) /\ n = w.name /\ p = w.at => u = w.unit
  PROVE  Good(fs', damaged', inflight', n, p, u)
<1> DEFINE old == fs[w.name]
<1>1. /\ w \in inflight /\ w.at \in Places /\ w.unit \in Units /\ old \in Seq(Units)
      /\ fs'[w.name] = WriteUnit(old, w.at, w.unit)
      /\ \A m \in Names : m # w.name => fs'[m] = fs[m]
      /\ inflight' = inflight \ {w}
  BY LandIs
<1>2. /\ fs'[w.name][w.at] = w.unit /\ w.at \in DOMAIN fs'[w.name]
      /\ \A q \in DOMAIN old : q \in DOMAIN fs'[w.name] /\ (q # w.at => fs'[w.name][q] = old[q])
  BY <1>1, WriteUnitIs
<1>3. damaged' = IF Current(w) THEN {d \in damaged : <<d[1], d[2]>> # <<w.name, w.at>>}
                 ELSE damaged \cup {<<w.name, q, "late">> : q \in Late(w)}
  BY LandIs
<1>4. \A m, q : Damage(damaged, m, q) =>
        Damage(damaged', m, q) \/ (Current(w) /\ m = w.name /\ q = w.at)
  BY <1>3 DEF Damage
<1>5. CASE n # w.name \/ p # w.at
  <2>1. Damage(damaged, n, p) => Damage(damaged', n, p)
    BY <1>4, <1>5
  <2>2. (\E v \in inflight : v.name = n /\ v.at = p /\ v.unit = u) =>
          \E v \in inflight' : v.name = n /\ v.at = p /\ v.unit = u
    BY <1>1, <1>5
  <2>3. p \in DOMAIN fs[n] /\ fs[n][p] = u => p \in DOMAIN fs'[n] /\ fs'[n][p] = u
    BY <1>1, <1>2, <1>5
  <2> QED
    BY <2>1, <2>2, <2>3 DEF Good
<1>6. CASE n = w.name /\ p = w.at /\ w.unit = u
  BY <1>2, <1>6 DEF Good
<1>7. CASE n = w.name /\ p = w.at /\ w.unit # u
  <2>1. ~Current(w)
    BY <1>7
  <2>2. CASE p \in DOMAIN old /\ old[p] = u
    <3>1. p \in Late(w)
      <4>1. w.at \in 1 .. w.at
        BY <1>1 DEF Places
      <4> QED
        BY <1>7, <2>2, <4>1 DEF Late
    <3>2. <<n, p, "late">> \in damaged'
      BY <1>3, <1>7, <2>1, <3>1
    <3> QED
      BY <3>2 DEF Good, Damage
  <2>3. CASE ~(p \in DOMAIN old /\ old[p] = u)
    <3>1. \/ Damage(damaged, n, p)
          \/ \E v \in inflight : v.name = n /\ v.at = p /\ v.unit = u
      BY <1>7, <2>3 DEF Good
    <3> QED
      BY <1>1, <1>4, <1>7, <2>1, <3>1 DEF Good
  <2> QED
    BY <2>2, <2>3
<1> QED
  BY <1>5, <1>6, <1>7

LEMMA LandCovers ==
  ASSUME Basic, NEW w, WriteLands(w), NEW n \in Names, NEW c, Covers(fs, damaged, n, c),
         Current(w) /\ n = w.name => w.at \in DOMAIN c
  PROVE  Covers(fs', damaged', n, c)
<1> DEFINE old == fs[w.name]
<1>1. /\ w \in inflight /\ w.at \in Places /\ w.unit \in Units /\ old \in Seq(Units)
      /\ fs'[w.name] = WriteUnit(old, w.at, w.unit)
      /\ \A m \in Names : m # w.name => fs'[m] = fs[m]
  BY LandIs
<1> HIDE DEF old
<1>2. /\ \A q \in DOMAIN old : q \in DOMAIN fs'[w.name]
      /\ \A q \in DOMAIN fs'[w.name] : q \in DOMAIN old \/ q \in Len(old) + 1 .. w.at
      /\ w.at <= Len(old) => DOMAIN fs'[w.name] = DOMAIN old
  BY <1>1, WriteUnitIs
<1> USE DEF old
<1>3. damaged' = IF Current(w) THEN {d \in damaged : <<d[1], d[2]>> # <<w.name, w.at>>}
                 ELSE damaged \cup {<<w.name, q, "late">> : q \in Late(w)}
  BY LandIs
<1>4. \A m, q : Damage(damaged, m, q) =>
        Damage(damaged', m, q) \/ (Current(w) /\ m = w.name /\ q = w.at)
  BY <1>3 DEF Damage
<1>5. CASE n # w.name
  <2>1. fs'[n] = fs[n] /\ \A q : Damage(damaged, n, q) => Damage(damaged', n, q)
    BY <1>1, <1>4, <1>5
  <2> QED
    BY <2>1 DEF Covers
<1>6. CASE n = w.name
  <2>1. DOMAIN c \subseteq DOMAIN fs'[n]
    BY <1>2, <1>6 DEF Covers
  <2>2. ASSUME NEW q \in DOMAIN fs'[n], q \notin DOMAIN c
        PROVE  Damage(damaged', n, q)
    <3>1. CASE q \in DOMAIN old
      <4>1. Damage(damaged, n, q) /\ ~(Current(w) /\ q = w.at)
        BY <1>6, <2>2, <3>1 DEF Covers
      <4> QED
        BY <1>4, <4>1
    <3>2. CASE q \notin DOMAIN old
      <4>1. q \in Len(old) + 1 .. w.at /\ ~(w.at <= Len(old))
        BY <1>2, <1>6, <2>2, <3>2
      <4>2. ~Current(w)
        <5>1. SUFFICES ASSUME w.at \in DOMAIN c PROVE FALSE
          BY <1>6
        <5>2. w.at \in DOMAIN old
          BY <1>6, <5>1 DEF Covers
        <5> QED
          BY <1>1, <4>1, <5>2
      <4>3. q \in Late(w)
        <5>1. Len(old) \in Nat /\ w.at \in Nat
          BY <1>1 DEF Places
        <5>2. q \in 1 .. w.at /\ q > Len(old)
          BY <4>1, <5>1
        <5> QED
          BY <5>2 DEF Late
      <4>4. <<n, q, "late">> \in damaged'
        BY <1>3, <1>6, <4>2, <4>3
      <4> QED
        BY <4>4 DEF Damage
    <3> QED
      BY <3>1, <3>2
  <2> QED
    BY <2>1, <2>2 DEF Covers
<1> QED
  BY <1>5, <1>6

LEMMA CurrentInUse ==
  \A w : Current(w) <=> InUse(w, count.runs, run.tr)
  BY DEF Current, InUse, Having, Handle

LEMMA LandFaith ==
  ASSUME Basic, FaithInv, NEW w, WriteLands(w)
  PROVE  FaithInv'
<1> DEFINE c == run.man
           k == run.k
<1>1. w \in inflight /\ inflight' = inflight \ {w} /\ UNCHANGED <<run, count, installed>>
  BY LandIs
<1>2. /\ c \in Seq(Units) /\ k \in Nat \ {0}
      /\ \A i \in DOMAIN run.tr : i \in Places /\ run.tr[i].data \in Seq(Units) /\ Len(run.tr[i].data) \in Nat
  BY TypedRun DEF Basic
<1>3. Current(w) =>
        /\ w.by[2] \in DOMAIN run.tr /\ run.tr[w.by[2]].st \in {"run", "ok"}
        /\ Fits(w, c, k, w.by[2], run.tr[w.by[2]])
        /\ IF run.pc = "done" THEN w.name \in Finals /\ installed[w.name] = c ELSE w.name = Part
  BY <1>1, CurrentInUse DEF FaithInv, WriteInv, InUse
<1>4. Current(w) => w.at \in Span(c, k, w.by[2]) /\ w.at \in DOMAIN c
  BY <1>2, <1>3, SpansCover DEF Fits
<1>5. HandleInv' /\ WriteInv' /\ StageInv'
  BY <1>1 DEF FaithInv, HandleInv, WriteInv, StageInv, Having
<1>6. TransferInv'
  <2> SUFFICES ASSUME run.pc \in Working
               PROVE  /\ DOMAIN run.tr = Chunks(c, k) /\ Covers(fs', damaged', Part, c)
                      /\ \A i \in DOMAIN run.tr : Written(fs', damaged', inflight', c, k, i, run.tr[i])
    BY <1>1 DEF TransferInv
  <2>1. /\ DOMAIN run.tr = Chunks(c, k) /\ Covers(fs, damaged, Part, c) /\ Part \in Names
        /\ \A i \in DOMAIN run.tr : Written(fs, damaged, inflight, c, k, i, run.tr[i])
    BY Constants DEF FaithInv, TransferInv
  <2>2. Covers(fs', damaged', Part, c)
    BY <1>4, <2>1, LandCovers
  <2>3. ASSUME NEW i \in DOMAIN run.tr
        PROVE  Written(fs', damaged', inflight', c, k, i, run.tr[i])
    <3> DEFINE t == run.tr[i]
    <3>1. Written(fs, damaged, inflight, c, k, i, t) /\ i \in Places /\ t.data \in Seq(Units) /\ Len(t.data) \in Nat
      BY <1>2, <2>1
    <3>2. Current(w) /\ w.by[2] # i => w.at \notin Span(c, k, i)
      BY <1>2, <1>3, <1>4, SpansDisjoint
    <3>3. ASSUME t.st \in {"have", "ok"}, NEW p \in Span(c, k, i)
          PROVE  Good(fs', damaged', inflight', Part, p, c[p])
      <4>1. Good(fs, damaged, inflight, Part, p, c[p])
        BY <3>1, <3>3 DEF Written
      <4>2. Current(w) /\ p = w.at => w.by[2] = i /\ t.st = "ok"
        BY <1>3, <3>2, <3>3
      <4>3. Current(w) /\ p = w.at => c[p] = w.unit
        BY <1>3, <4>2 DEF Fits
      <4> HIDE DEF c
      <4> QED
        BY <2>1, <4>1, <4>3, LandGood
    <3>4. ASSUME t.st = "run"
          PROVE  /\ Offset(k, i) + Len(t.data) <= ChunkEnd(c, k, i)
                 /\ \A j \in DOMAIN t.data : Good(fs', damaged', inflight', Part, Offset(k, i) + j, t.data[j])
      <4>1. /\ Offset(k, i) + Len(t.data) <= ChunkEnd(c, k, i)
            /\ \A j \in DOMAIN t.data : Good(fs, damaged, inflight, Part, Offset(k, i) + j, t.data[j])
        BY <3>1, <3>4 DEF Written
      <4>2. Offset(k, i) \in Nat /\ ChunkEnd(c, k, i) \in Nat /\ DOMAIN t.data = 1 .. Len(t.data)
        <5>1. c \in Seq(Units) /\ k \in Nat \ {0}
          BY <1>2
        <5> HIDE DEF c, k, t
        <5>2. Offset(k, i) \in Nat /\ ChunkEnd(c, k, i) \in Nat
          BY <3>1, <5>1, ChunkEnds
        <5>3. DOMAIN t.data = 1 .. Len(t.data)
          BY <3>1
        <5> QED
          BY <5>2, <5>3
      <4>3. ASSUME NEW j \in DOMAIN t.data, Current(w), Offset(k, i) + j = w.at
            PROVE  t.data[j] = w.unit
        <5>1. w.at \in Span(c, k, i)
          <6>1. Offset(k, i) + 1 <= Offset(k, i) + j /\ Offset(k, i) + j <= ChunkEnd(c, k, i)
                /\ Offset(k, i) + j \in Nat
            <7> HIDE DEF t
            <7> QED
              BY <3>1, <4>1, <4>2, <4>3
          <6> QED
            BY <4>2, <4>3, <6>1 DEF Span
        <5>2. w.by[2] = i
          BY <3>2, <4>3, <5>1
        <5>3. w.at = Offset(k, i) + Len(t.data) /\ w.unit = t.data[Len(t.data)]
          BY <1>3, <3>4, <4>3, <5>2 DEF Fits
        <5>4. j = Len(t.data)
          <6> HIDE DEF t
          <6> QED
            BY <3>1, <4>2, <4>3, <5>3
        <5> QED
          BY <5>3, <5>4
      <4>4. ASSUME NEW j \in DOMAIN t.data
            PROVE  Good(fs', damaged', inflight', Part, Offset(k, i) + j, t.data[j])
        <5>1. Good(fs, damaged, inflight, Part, Offset(k, i) + j, t.data[j])
          BY <4>1
        <5>2. Current(w) /\ Offset(k, i) + j = w.at => t.data[j] = w.unit
          BY <4>3
        <5> HIDE DEF t, k
        <5> QED
          BY <2>1, <5>1, <5>2, LandGood
      <4> QED
        BY <4>1, <4>4
    <3> QED
      BY <3>3, <3>4 DEF Written
  <2> QED
    BY <2>1, <2>2, <2>3
<1>7. InstalledInv'
  <2>1. ASSUME NEW n \in Finals, installed[n] # NoFile
        PROVE  Exists(n)' /\ Faithful(fs', damaged', inflight', n, installed[n])
    <3> DEFINE m == installed[n]
    <3>1. n \in Names /\ n # Part /\ Exists(n) /\ Faithful(fs, damaged, inflight, n, m)
      BY <2>1, Constants DEF FaithInv, InstalledInv
    <3>2. Current(w) /\ n = w.name => m = c /\ run.pc = "done"
      BY <1>3, <3>1
    <3>3. Current(w) /\ n = w.name => w.at \in DOMAIN m
      BY <1>4, <3>2
    <3>4. Current(w) /\ n = w.name => m[w.at] = w.unit
      <4>1. SUFFICES ASSUME Current(w), n = w.name PROVE m[w.at] = w.unit
        OBVIOUS
      <4>2. run.tr[w.by[2]].st = "ok"
        BY <1>3, <3>2, <4>1 DEF FaithInv, StageInv, Having, Joined
      <4> QED
        BY <1>3, <3>2, <4>1, <4>2 DEF Fits
    <3> HIDE DEF m
    <3>5. Covers(fs', damaged', n, m)
      BY <3>1, <3>3, LandCovers DEF Faithful
    <3>6. ASSUME NEW p \in DOMAIN m
          PROVE  Good(fs', damaged', inflight', n, p, m[p])
      <4>1. Good(fs, damaged, inflight, n, p, m[p])
        BY <3>1 DEF Faithful
      <4> QED
        BY <3>1, <3>4, <4>1, LandGood
    <3>7. Exists(n)'
      BY <3>1, LandIs, Constants DEF Exists
    <3> QED
      BY <3>5, <3>6, <3>7 DEF Faithful, m
  <2> QED
    BY <1>1, <2>1 DEF InstalledInv
<1> QED
  BY <1>5, <1>6, <1>7 DEF FaithInv

LEMMA InitFaith == Init => FaithInv
<1> SUFFICES ASSUME Init PROVE FaithInv
  OBVIOUS
<1>1. TransferInv /\ StageInv
  BY DEF Init, Idle, TransferInv, StageInv, Working, Early, Joined, Checked
<1>2. HandleInv /\ WriteInv
  BY DEF Init, HandleInv, WriteInv
<1>3. InstalledInv
  BY Constants DEF Init, InstalledInv
<1> QED
  BY <1>1, <1>2, <1>3 DEF FaithInv

LEMMA NextFaith == Basic /\ DetachedInv /\ FaithInv /\ [Next]_vars => FaithInv'
<1> SUFFICES ASSUME Basic, DetachedInv, FaithInv, [Next]_vars PROVE FaithInv'
  OBVIOUS
<1>1. CASE LocalStep
  BY <1>1, StagesFaith, OpenFaith, VerifyFaith, RemoveFaith, RenameFaith DEF LocalStep
<1>2. CASE \E k \in ChunkSizes : Start(k)
  BY <1>2, StartFaith
<1>3. CASE \E i \in DOMAIN run.tr : Answered(i) \/ ConnectionFault(i)
  BY <1>3, ReceiveFaith, AttemptsFaith DEF Answered
<1>4. CASE CancelTransfers \/ Abandon \/ Detach
  BY <1>4, CancelFaith, StagesFaith, DetachFaith
<1>10. CASE \E d \in detached : DetachedReceives(d) \/ DetachedRetries(d) \/ DetachedEnds(d)
  BY <1>10, DetachedFaith
<1>5. CASE \E w \in inflight : WriteLands(w) \/ WriteFails(w)
  BY <1>5, LandFaith, FailFaith
<1>6. CASE \E lost \in SUBSET dirty : Crash(lost)
  BY <1>6, CrashFaith
<1>7. CASE \E c \in Contents : EditSource(c)
  BY <1>7, EditFaith
<1>8. CASE \E n \in UserNames, c \in UserFiles : UserWrites(n, c)
  BY <1>8, UserFaith
<1>9. CASE UNCHANGED vars
  BY <1>9 DEF vars, FaithInv, TransferInv, StageInv, HandleInv, WriteInv, InstalledInv, Having, Exists
<1> QED
  BY <1>1, <1>2, <1>3, <1>4, <1>5, <1>6, <1>7, <1>8, <1>9, <1>10 DEF Next

LEMMA Faiths == Spec => [](Basic /\ FaithInv)
<1>1. Init => Basic /\ FaithInv
  BY InitBasic, InitFaith
<1>2. Basic /\ DetachedInv /\ FaithInv /\ [Next]_vars => FaithInv'
  BY NextFaith
<1> QED
  BY <1>1, <1>2, Basics, PTL DEF Spec

LEMMA FaithfulHolds ==
  ASSUME NEW n, NEW c, Faithful(fs, damaged, inflight, n, c)
  PROVE  Holds(n, c)
<1>1. \A p : Damage(damaged, n, p) => Excused(n, p)
  BY DEF Damage, Excused
<1>2. \A p \in DOMAIN c : p \in DOMAIN fs[n] /\ (fs[n][p] = c[p] \/ Excused(n, p))
  BY <1>1 DEF Faithful, Covers, Good, Excused
<1>3. \A p \in DOMAIN fs[n] : p \in DOMAIN c \/ Excused(n, p)
  BY <1>1 DEF Faithful, Covers
<1> QED
  BY <1>2, <1>3 DEF Holds

(* Over any number of runs, pauses, crashes, faults, edits of the shared file
   and changes of the chunk size, a file that download_file has renamed to its
   final name differs from the manifest it was downloaded for at most where a
   write of the blocking pool is outstanding, was lost or came late. *)
THEOREM InstalledIsFaithful == Spec => []InstalledFaithful
<1>1. FaithInv => InstalledFaithful
  BY FaithfulHolds DEF FaithInv, InstalledInv, InstalledFaithful
<1> QED
  BY <1>1, Faiths, PTL

-----------------------------------------------------------------------------
(* What the steps may do.                                                  *)

LEMMA TargetGoes ==
  ASSUME Basic, Next, Exists(Target), fs'[Target] = NoFile
  PROVE  run.pc = "replace"
<1>1. Target \in Names /\ Target # Part /\ Target \in Finals /\ NoFile \notin Seq(Units)
  BY Constants
<1>2. CASE UNCHANGED fs
  BY <1>2 DEF Exists
<1>3. CASE OpenPartial
  <2>1. fs' = [fs EXCEPT ![Part] = Resize(fs[Part], Len(run.man))]
    BY <1>3, OpenIs
  <2> QED
    BY <1>1, <2>1 DEF Exists, Basic, FileTypes
<1>4. CASE RemoveExisting
  BY <1>4 DEF RemoveExisting
<1>5. CASE RenamePartial
  <2>1. fs'[Target] = fs[Target] \/ fs'[Target] = fs[Part]
    BY <1>1, <1>5, RenameIs
  <2> QED
    BY <1>5, <2>1, RenameIs DEF Exists
<1>6. CASE \E w \in inflight : WriteLands(w)
  <2>1. PICK w : WriteLands(w)
    BY <1>6
  <2>2. fs'[Target] = fs[Target] \/ fs'[Target] \in Seq(Units)
    BY <1>1, <2>1, LandIs
  <2> QED
    BY <1>1, <2>2 DEF Exists
<1>7. CASE \E lost \in SUBSET dirty : Crash(lost)
  BY <1>1, <1>7, CrashIs DEF Exists
<1>8. CASE \E n \in UserNames, c \in UserFiles : UserWrites(n, c)
  <2>1. PICK n \in UserNames, c \in UserFiles : UserWrites(n, c)
    BY <1>8
  <2>2. fs'[Target] = fs[Target] \/ fs'[Target] \in Seq(Units)
    BY <1>1, <2>1, UserIs
  <2> QED
    BY <1>1, <2>2 DEF Exists
<1>9. CASE \/ CheckTarget \/ Collect \/ SyncData \/ MarkChunksComplete \/ VerifyFile \/ CancelTransfers \/ Abandon
           \/ Detach \/ \E d \in detached : DetachedReceives(d) \/ DetachedRetries(d) \/ DetachedEnds(d)
           \/ \E i \in DOMAIN run.tr : \/ ReceiveFrame(i) \/ ChunkComplete(i) \/ SourceShort(i)
                                       \/ ConnectionFault(i)
           \/ \E k \in ChunkSizes : Start(k)
           \/ \E w \in inflight : WriteFails(w)
           \/ \E c \in Contents : EditSource(c)
  <2>1. UNCHANGED fs
    BY <1>9 DEF CheckTarget, Collect, SyncData, MarkChunksComplete, VerifyFile, CancelTransfers, Abandon,
       Detach, DetachedReceives, DetachedRetries, DetachedEnds,
       ReceiveFrame, ChunkComplete, SourceShort, ConnectionFault, Start, WriteFails, EditSource, OnlyRun
  <2> QED
    BY <1>2, <2>1
<1> QED
  BY <1>3, <1>4, <1>5, <1>6, <1>7, <1>8, <1>9 DEF Next, LocalStep, Answered

(* Under overwrite the existing target is given up only when the .part file
   that replaces it reads as the manifest wherever no write is outstanding, was
   lost or came late, for any contents, chunk sizes and number of runs: what is
   not in it by then has been received and is on its way to the disk, or was
   lost there unheard.  That it is durable is not claimed: a crash between
   remove_file and rename can leave neither the old file nor a whole new one. *)
THEOREM TargetGivenUpForReplacement == Spec => ReplacementReady
<1>1. ASSUME Basic, FaithInv, Next, Exists(Target), fs'[Target] = NoFile
      PROVE  Exists(Part) /\ Holds(Part, run.man)
  <2>1. run.pc = "replace"
    BY <1>1, TargetGoes
  <2>2. Exists(Part)
    BY <1>1, <2>1 DEF Basic, PartThere, Working
  <2>3. Holds(Part, run.man)
    BY <1>1, <2>1, PartFaithful, FaithfulHolds
  <2> QED
    BY <2>2, <2>3
<1>2. Basic /\ FaithInv /\ [Next]_vars =>
        [Exists(Target) /\ fs'[Target] = NoFile => Exists(Part) /\ Holds(Part, run.man)]_vars
  BY <1>1
<1> QED
  BY <1>2, Faiths, PTL DEF Spec, ReplacementReady

(* The row of the file: a chunk confirmed for the content of the last manifest
   has its bit. *)
RowInv ==
  /\ run.pc # "idle" => db.hash = run.man
  /\ run.pc = "idle" => acked = {}
  /\ \A d \in acked : d[2] \in db.bits

LEMMA InitRow == Init => RowInv
  BY DEF Init, Idle, RowInv

(* The stages a step leads to. *)
LEMMA StageSteps ==
  ASSUME Basic, Next
  PROVE  /\ run.pc = "check" /\ run'.pc = "open" => CheckTarget
         /\ run.pc = "open" /\ run'.pc = "transfer" => OpenPartial
         /\ run.pc # "done" /\ run'.pc = "done" => CheckTarget \/ RenamePartial
         /\ \/ \E k \in ChunkSizes : Start(k)
            \/ MarkChunksComplete /\ run.pc = "mark" /\ run'.pc # "idle" /\ run'.man = run.man
            \/ /\ run'.man = run.man /\ (run'.pc = "idle" <=> run.pc = "idle")
               /\ UNCHANGED <<db, acked>>
<1>1. CASE \E k \in ChunkSizes : Start(k)
  BY <1>1 DEF Start, Idle, Ended
<1>2. CASE CheckTarget
  <2>1. run.pc = "check" /\ run'.pc \in {"done", "open"} /\ run'.man = run.man /\ UNCHANGED <<db, acked>>
    BY <1>2 DEF CheckTarget, Goto, Basic, FileTypes, Run
  <2> QED
    BY <1>2, <2>1
<1>3. CASE OpenPartial
  BY <1>3, OpenIs
<1>4. CASE \E i \in DOMAIN run.tr : \/ ReceiveFrame(i) \/ ChunkComplete(i) \/ SourceShort(i)
                                    \/ ConnectionFault(i)
  <2>1. PICK i \in DOMAIN run.tr : \/ ReceiveFrame(i) \/ ChunkComplete(i) \/ SourceShort(i)
                                  \/ ConnectionFault(i)
    BY <1>4
  <2>2. PICK t \in Transfer : run' = [run EXCEPT !.tr[i] = t]
    BY <2>1, ReceiveIs, AttemptIs
  <2>3. run'.pc = run.pc /\ run'.man = run.man
    BY <2>2, RunChanges DEF Basic
  <2>4. UNCHANGED <<db, acked>>
    BY <2>1, ReceiveIs, AttemptIs
  <2> QED
    BY <2>3, <2>4
<1>5. CASE Collect \/ SyncData \/ VerifyFile \/ Abandon
  <2>1. PICK p \in {"sync", "failed", "verify", "mark", "replace", "stopped"} : Goto(p)
    BY <1>5 DEF Collect, SyncData, VerifyFile, Abandon
  <2>2. run'.pc = p /\ run'.man = run.man
    BY <2>1, GotoIs DEF Basic, Stages
  <2>3. run.pc # "idle" /\ UNCHANGED <<db, acked>>
    BY <1>5 DEF Collect, SyncData, VerifyFile, Abandon, OnlyRun, Ended
  <2> QED
    BY <2>2, <2>3
<1>6. CASE MarkChunksComplete
  <2>1. PICK p \in {"failed", "verify"} : Goto(p)
    BY <1>6 DEF MarkChunksComplete
  <2>2. run'.pc = p /\ run'.man = run.man
    BY <2>1, GotoIs DEF Basic, Stages
  <2>3. run.pc = "mark"
    BY <1>6 DEF MarkChunksComplete
  <2> QED
    BY <1>6, <2>2, <2>3
<1>7. CASE RemoveExisting \/ RenamePartial
  <2>1. /\ run.pc \in {"replace", "rename"} /\ run'.pc \in {"rename", "done"} /\ run'.man = run.man
        /\ UNCHANGED <<db, acked>> /\ (run'.pc = "done" => RenamePartial)
    BY <1>7, GotoIs DEF RemoveExisting, RenamePartial, Basic, Stages
  <2> QED
    BY <2>1
<1>8. CASE CancelTransfers \/ Detach
  <2>1. run.pc = "transfer" /\ run'.pc \in {"transfer", "failed"} /\ run'.man = run.man /\ UNCHANGED <<db, acked>>
    BY <1>8, CancelIs, DetachIs DEF OnlyRun
  <2> QED
    BY <2>1
<1>13. CASE \E d \in detached : DetachedReceives(d) \/ DetachedRetries(d) \/ DetachedEnds(d)
  <2>1. UNCHANGED <<run, db, acked>>
    BY <1>13 DEF DetachedReceives, DetachedRetries, DetachedEnds
  <2> QED
    BY <2>1
<1>9. CASE \E w \in inflight : WriteLands(w)
  BY <1>9, LandIs
<1>10. CASE \E w \in inflight : WriteFails(w)
  <2>1. PICK w : WriteFails(w)
    BY <1>10
  <2>2. run'.pc = run.pc /\ run'.man = run.man /\ UNCHANGED <<db, acked>>
    BY <2>1, FailIs, RunChanges DEF Basic
  <2> QED
    BY <2>2
<1>11. CASE \E lost \in SUBSET dirty : Crash(lost)
  <2>1. run'.pc = (IF Ended THEN run.pc ELSE "stopped") /\ run'.man = run.man /\ UNCHANGED <<db, acked>>
    BY <1>11, CrashIs
  <2> QED
    BY <2>1 DEF Ended
<1>12. CASE \/ \E c \in Contents : EditSource(c)
            \/ \E n \in UserNames, c \in UserFiles : UserWrites(n, c)
  <2>1. UNCHANGED <<run, db, acked>>
    BY <1>12 DEF EditSource, UserWrites
  <2> QED
    BY <2>1
<1> QED
  BY <1>1, <1>2, <1>3, <1>4, <1>5, <1>6, <1>7, <1>8, <1>9, <1>10, <1>11, <1>12, <1>13 DEF Next, LocalStep, Answered

LEMMA NextRow == Basic /\ RowInv /\ [Next]_vars => RowInv'
<1> SUFFICES ASSUME Basic, RowInv, [Next]_vars PROVE RowInv'
  OBVIOUS
<1>1. CASE UNCHANGED vars
  BY <1>1 DEF vars, RowInv
<1>2. CASE \E k \in ChunkSizes : Start(k)
  <2>1. /\ run'.pc = "check" /\ run'.man = source
        /\ db'.hash = source /\ db'.bits = IF db.hash = source THEN db.bits ELSE {}
        /\ acked' = IF source = run.man THEN acked ELSE {}
    BY <1>2 DEF Start, InsertTaskFile, Idle
  <2> QED
    BY <2>1 DEF RowInv
<1>3. CASE MarkChunksComplete /\ run.pc = "mark" /\ run'.pc # "idle" /\ run'.man = run.man
  <2>1. db'.hash = db.hash /\ db'.bits = db.bits \cup Having("ok")
    BY <1>3 DEF MarkChunksComplete, Basic, FileTypes
  <2>2. acked' = acked \cup {<<run.k, i>> : i \in Having("ok")}
    BY <1>3 DEF MarkChunksComplete
  <2> QED
    BY <1>3, <2>1, <2>2 DEF RowInv
<1>4. CASE /\ run'.man = run.man /\ (run'.pc = "idle" <=> run.pc = "idle")
           /\ UNCHANGED <<db, acked>>
  BY <1>4 DEF RowInv
<1> QED
  BY <1>1, <1>2, <1>3, <1>4, StageSteps

LEMMA Rows == Spec => [](Basic /\ RowInv)
<1>1. Init => Basic /\ RowInv
  BY InitBasic, InitRow
<1>2. Basic /\ RowInv /\ [Next]_vars => RowInv'
  BY NextRow
<1> QED
  BY <1>1, <1>2, Basics, PTL DEF Spec

(* What earlier runs have stored is not requested again, whatever ended them:
   a chunk confirmed for the same content and chunk size that is intact in the
   .part file keeps its bit from insert_task_files to the transfers, and a
   target that is installed and intact gets no .part file. *)
THEOREM StoredIsNotRequested == Spec => NothingRequestedAgain
<1>1. ASSUME Basic, RowInv, Next
      PROVE  ~RequestsConfirmed
  <2>1. SUFFICES ASSUME NEW i \in DOMAIN run'.tr, run.pc = "open", run'.pc = "transfer",
                        <<run.k, i>> \in acked, Exists(Part), Len(fs[Part]) = Len(run.man),
                        ChunkAt(fs[Part], run.k, i) = ChunkAt(run.man, run.k, i)
                 PROVE  run'.tr[i].st = "have"
    BY DEF RequestsConfirmed
  <2>2. OpenPartial
    BY <1>1, <2>1, StageSteps
  <2>3. run'.tr = [j \in Chunks(run.man, run.k) |->
                    [st |-> IF j \in Kept THEN "have" ELSE "run", tries |-> 0, data |-> <<>>]]
    BY <1>1, <2>2, OpenIs
  <2>4. i \in Chunks(run.man, run.k)
    BY <2>1, <2>3
  <2>5. <<run.k, i>>[2] \in db.bits
    BY <1>1, <2>1 DEF RowInv
  <2>6. i \in Kept
    BY <2>1, <2>4, <2>5 DEF Kept, OpenBits, ValidateCompletedChunks
  <2> QED
    BY <2>3, <2>4, <2>6
<1>2. ASSUME Basic, Next
      PROVE  ~RequestsInstalled
  <2>1. SUFFICES ASSUME run.pc = "check", run'.pc = "open", fs[Target] = run.man PROVE FALSE
    BY DEF RequestsInstalled
  <2>2. CheckTarget
    BY <1>2, <2>1, StageSteps
  <2>3. Present(Target, run.man)
    <3>1. run.man \in Seq(Units)
      BY <1>2, TypedRun DEF Basic
    <3>2. run.man # NoFile
      BY <3>1, Constants
    <3> QED
      BY <2>1, <3>2 DEF Present, Exists
  <2>4. Goto("done")
    BY <2>2, <2>3 DEF CheckTarget
  <2> QED
    BY <1>2, <2>1, <2>4, GotoIs DEF Basic, Stages
<1>3. Basic /\ RowInv /\ [Next]_vars => [~RequestsConfirmed /\ ~RequestsInstalled]_vars
  BY <1>1, <1>2
<1> QED
  BY <1>3, Rows, PTL DEF Spec, NothingRequestedAgain

-----------------------------------------------------------------------------
(* Files of others.                                                        *)

(* The name a run installs under does not exist, unless the user has put a file
   there since the run looked; and what is open, written or not synced outside
   the .part file belongs to a file the program has installed. *)
ForeignInv ==
  /\ run.pc \in {"open"} \cup Working => ~Exists(run.final) \/ run.final \in sinceLook
  /\ \A d \in detached : d.name \in Finals => installed[d.name] # NoFile
  /\ \A w \in inflight : w.name \in Finals => installed[w.name] # NoFile
  /\ \A d \in dirty : d[1] \in Finals => installed[d[1]] # NoFile

(* Steps that leave the names as they are and write under no new one. *)
LEMMA ForeignKept ==
  ASSUME Basic, ForeignInv, \A n \in Finals : Exists(n)' <=> Exists(n),
         run'.final = run.final, run'.pc \in {"open"} \cup Working => run.pc \in {"open"} \cup Working,
         \A w \in inflight' : w \in inflight \/ w.name = Part,
         \A d \in dirty' : d \in dirty \/ d[1] = Part \/ \E w \in inflight : d[1] = w.name,
         \A d \in detached' : d.name = Part \/ \E e \in detached : d.name = e.name,
         installed' = installed, sinceLook \subseteq sinceLook'
  PROVE  ForeignInv'
<1>1. run'.pc \in {"open"} \cup Working => ~Exists(run.final)' \/ run.final \in sinceLook'
  BY TypedRun DEF ForeignInv, Basic
<1>4. \A d \in detached' : d.name \in Finals => installed[d.name] # NoFile
  BY Constants DEF ForeignInv
<1>2. \A w \in inflight' : w.name \in Finals => installed[w.name] # NoFile
  BY Constants DEF ForeignInv
<1>3. \A d \in dirty' : d[1] \in Finals => installed[d[1]] # NoFile
  BY Constants DEF ForeignInv
<1> QED
  BY <1>1, <1>2, <1>3, <1>4 DEF ForeignInv, Exists

LEMMA CheckForeign ==
  ASSUME Basic, ForeignInv, Policy # "overwrite", CheckTarget
  PROVE  ForeignInv'
<1>1. UNCHANGED <<fs, inflight, dirty, detached, installed>>
  BY DEF CheckTarget
<1>2. CASE Goto("done")
  <2>1. run'.pc = "done" /\ run'.final = run.final
    BY <1>2, GotoIs DEF Basic, Stages
  <2> QED
    BY <1>1, <2>1 DEF ForeignInv, Exists, Working
<1>3. CASE ~Goto("done")
  <2>1. /\ ~(Exists(Target) /\ Policy = "skip") /\ ~Ended
        /\ run' = [run EXCEPT !.pc = "open", !.final = IF Exists(Target) /\ Policy = "keep_both"
                                                        THEN KeepBothPath ELSE Target]
    BY <1>3 DEF CheckTarget, Ended
  <2>2. run'.final = IF Exists(Target) /\ Policy = "keep_both" THEN KeepBothPath ELSE Target
    BY <2>1 DEF Basic, FileTypes, Run
  <2>3. Exists(Target) => Policy = "keep_both"
    BY <2>1, Constants
  <2>4. ~Exists(run'.final)
    BY <2>1, <2>2, <2>3, KeepBothFree
  <2> QED
    BY <1>1, <2>4 DEF ForeignInv, Exists
<1> QED
  BY <1>2, <1>3

LEMMA OpenForeign ==
  ASSUME Basic, ForeignInv, OpenPartial
  PROVE  ForeignInv'
<1>1. \A n \in Finals : fs'[n] = fs[n]
  BY OpenIs, Constants DEF Basic, FileTypes
<1>2. /\ run'.final = run.final /\ run.pc = "open" /\ dirty' \subseteq dirty
      /\ UNCHANGED <<inflight, installed>>
  BY OpenIs
<1>3. UNCHANGED <<detached, sinceLook>>
  BY DEF OpenPartial
<1> QED
  BY <1>1, <1>2, <1>3, ForeignKept DEF Exists

LEMMA RenameForeign ==
  ASSUME Basic, DetachedInv, ForeignInv, RenamePartial
  PROVE  ForeignInv'
<1>1. installed'[run.final] # NoFile /\ run'.pc = "done"
  BY RenameIs, Constants
<1>2. ASSUME NEW w \in inflight', w.name \in Finals
      PROVE  installed'[w.name] # NoFile
  <2>1. PICK v \in inflight : v.name # run.final /\ w.name = IF v.name = Part THEN run.final ELSE v.name
    BY <1>2, RenamedWrites
  <2>2. CASE v.name = Part
    BY <1>1, <2>1, <2>2
  <2>3. CASE v.name # Part
    BY <1>2, <2>1, <2>3, RenameIs, Constants DEF ForeignInv
  <2> QED
    BY <2>2, <2>3
<1>3. ASSUME NEW d \in dirty', d[1] \in Finals
      PROVE  installed'[d[1]] # NoFile
  <2>1. PICK e \in dirty : e[1] # run.final /\ d = [e EXCEPT ![1] = IF @ = Part THEN run.final ELSE @]
    BY DEF RenamePartial, Relabel
  <2>2. d[1] = IF e[1] = Part THEN run.final ELSE e[1]
    BY <2>1 DEF Basic, FileTypes
  <2>3. CASE e[1] = Part
    BY <1>1, <2>2, <2>3
  <2>4. CASE e[1] # Part
    BY <1>3, <2>1, <2>2, <2>4, RenameIs, Constants DEF ForeignInv
  <2> QED
    BY <2>3, <2>4
<1>4. ASSUME NEW d \in detached', d.name \in Finals
      PROVE  installed'[d.name] # NoFile
  <2>1. PICK e \in detached :
          d = [e EXCEPT !.name = IF @ = Part THEN run.final ELSE IF @ = run.final THEN Gone ELSE @]
    BY DEF RenamePartial, Renamed
  <2>2. d.name = IF e.name = Part THEN run.final ELSE IF e.name = run.final THEN Gone ELSE e.name
    BY <2>1 DEF DetachedInv, Detached
  <2>3. Gone \notin Finals
    BY DEF Gone, Finals, Target, Copies
  <2> QED
    BY <1>1, <1>4, <2>2, <2>3, RenameIs, Constants DEF ForeignInv
<1> QED
  BY <1>1, <1>2, <1>3, <1>4 DEF ForeignInv, Working

(* The user replaces a file: nothing of the program has the new one open. *)
LEMMA UserForeign ==
  ASSUME Basic, DetachedInv, ForeignInv, NEW n \in UserNames, NEW c \in UserFiles, UserWrites(n, c)
  PROVE  ForeignInv'
<1>1. /\ run' = run /\ n \in Names /\ sinceLook' = sinceLook \cup {n}
      /\ \A m \in Names : m # n => fs'[m] = fs[m] /\ installed'[m] = installed[m]
  BY UserIs DEF UserWrites
<1>2. run'.pc \in {"open"} \cup Working => (~Exists(run.final))' \/ run'.final \in sinceLook'
  <2>1. (~Exists(run.final))' <=> fs'[run.final] = NoFile
    BY <1>1 DEF Exists
  <2> QED
    BY <1>1, <2>1, TypedRun DEF ForeignInv, Exists, Basic
<1>3. \A w \in inflight' : w.name \in Finals => installed'[w.name] # NoFile
  BY <1>1, UserIs, Constants DEF ForeignInv
<1>4. \A d \in dirty' : d[1] \in Finals => installed'[d[1]] # NoFile
  BY <1>1, UserIs, Constants DEF ForeignInv
<1>5. ASSUME NEW d \in detached', d.name \in Finals
      PROVE  installed'[d.name] # NoFile
  <2>1. PICK e \in detached : d = [e EXCEPT !.name = IF @ = n THEN Gone ELSE @]
    BY DEF UserWrites, Unlinked
  <2>2. d.name = IF e.name = n THEN Gone ELSE e.name
    BY <2>1 DEF DetachedInv, Detached
  <2>3. Gone \notin Finals
    BY DEF Gone, Finals, Target, Copies
  <2>4. e.name # n /\ d.name = e.name
    BY <1>5, <2>2, <2>3
  <2> QED
    BY <1>1, <1>5, <2>4, Constants DEF ForeignInv
<1> QED
  BY <1>1, <1>2, <1>3, <1>4, <1>5 DEF ForeignInv

LEMMA NextForeign ==
  Policy # "overwrite" /\ Basic /\ DetachedInv /\ ForeignInv /\ [Next]_vars => ForeignInv'
<1> SUFFICES ASSUME Policy # "overwrite", Basic, DetachedInv, ForeignInv, [Next]_vars PROVE ForeignInv'
  OBVIOUS
<1>1. CASE UNCHANGED vars
  BY <1>1 DEF vars, ForeignInv, Exists
<1>2. CASE CheckTarget \/ OpenPartial \/ RenamePartial
  BY <1>2, CheckForeign, OpenForeign, RenameForeign
<1>3. CASE \E i \in DOMAIN run.tr : ReceiveFrame(i)
  <2>1. PICK i \in DOMAIN run.tr : ReceiveFrame(i)
    BY <1>3
  <2>2. run'.pc = run.pc /\ run'.final = run.final
    BY <2>1, ReceiveIs, RunChanges DEF Basic
  <2>3. \A w \in inflight' : w \in inflight \/ w.name = Part
    <3>1. inflight' = inflight \cup {Frame(i)} /\ Frame(i).name = Part
      BY <2>1, ReceiveIs DEF Frame
    <3> QED
      BY <3>1, Zenon
  <2>4. UNCHANGED <<detached, sinceLook>>
    BY <2>1 DEF ReceiveFrame
  <2> QED
    BY <2>1, <2>2, <2>3, <2>4, ReceiveIs, ForeignKept DEF Exists
<1>4. CASE \E i \in DOMAIN run.tr : ChunkComplete(i) \/ SourceShort(i) \/ ConnectionFault(i)
  <2>1. PICK i \in DOMAIN run.tr : ChunkComplete(i) \/ SourceShort(i) \/ ConnectionFault(i)
    BY <1>4
  <2>2. \E t \in Transfer : run' = [run EXCEPT !.tr[i] = t]
    BY <2>1, AttemptIs
  <2>3. run'.pc = run.pc /\ run'.final = run.final
    BY <2>2, RunChanges DEF Basic
  <2>4. UNCHANGED <<detached, sinceLook>>
    BY <2>1 DEF ChunkComplete, SourceShort, ConnectionFault, OnlyRun
  <2> QED
    BY <2>1, <2>3, <2>4, AttemptIs, ForeignKept DEF Exists
<1>5. CASE Collect \/ SyncData \/ MarkChunksComplete \/ VerifyFile \/ Abandon
  <2>1. PICK p \in {"sync", "failed", "verify", "mark", "replace", "stopped"} :
          Goto(p) /\ (run.pc \in Working \/ p = "stopped")
    BY <1>5 DEF Collect, SyncData, MarkChunksComplete, VerifyFile, Abandon, Working
  <2>2. run'.pc = p /\ run'.final = run.final
    BY <2>1, GotoIs DEF Basic, Stages
  <2>3. dirty' \subseteq dirty /\ UNCHANGED <<fs, inflight, installed, detached, sinceLook>>
    BY <1>5 DEF Collect, SyncData, MarkChunksComplete, VerifyFile, Abandon, OnlyRun
  <2> QED
    BY <2>1, <2>2, <2>3, ForeignKept DEF Exists, Working
<1>6. CASE CancelTransfers
  <2>1. run'.pc = run.pc /\ run'.final = run.final /\ OnlyRun
    BY <1>6, CancelIs
  <2> QED
    BY <2>1, ForeignKept DEF Exists, OnlyRun
<1>7. CASE RemoveExisting
  <2>1. /\ run.pc = "replace" /\ run'.pc = "rename" /\ run'.final = run.final
        /\ UNCHANGED <<fs, inflight, dirty, installed, detached, sinceLook>>
    BY <1>7, GotoIs DEF RemoveExisting, Basic, Stages
  <2> QED
    BY <2>1, ForeignKept DEF Exists, Working
<1>8. CASE \E w \in inflight : WriteLands(w)
  <2>1. PICK w \in inflight : WriteLands(w)
    BY <1>8
  <2>2. \A n \in Finals : Exists(n)' <=> Exists(n)
    BY <2>1, LandIs, Constants DEF Exists
  <2>3. \A d \in dirty' : d \in dirty \/ d[1] = w.name
    BY <2>1, LandIs
  <2>4. UNCHANGED <<detached, sinceLook>>
    BY <2>1 DEF WriteLands
  <2> QED
    BY <2>1, <2>2, <2>3, <2>4, LandIs, ForeignKept
<1>9. CASE \E w \in inflight : WriteFails(w)
  <2>1. PICK w \in inflight : WriteFails(w)
    BY <1>9
  <2>2. run'.pc = run.pc /\ run'.final = run.final
    BY <2>1, FailIs, RunChanges DEF Basic
  <2>3. sinceLook' = sinceLook /\ \A e \in detached' : e \in detached \/ \E d \in detached : e \in Reopened(d)
    BY <2>1 DEF WriteFails
  <2>4. \A e \in detached' : e.name = Part \/ \E d \in detached : e.name = d.name
    BY <2>3, ReopenedIs DEF DetachedInv
  <2> QED
    BY <2>1, <2>2, <2>3, <2>4, FailIs, ForeignKept DEF Exists
<1>10. CASE \E lost \in SUBSET dirty : Crash(lost)
  <2>1. PICK lost \in SUBSET dirty : Crash(lost)
    BY <1>10
  <2>2. \A n \in Finals : Exists(n)' <=> Exists(n)
    BY <2>1, CrashIs, Constants
  <2>3. /\ run'.final = run.final /\ inflight' = {} /\ dirty' \subseteq dirty /\ installed' = installed
        /\ run'.pc = run.pc \/ run'.pc = "stopped"
    BY <2>1, CrashIs
  <2>4. detached' = {} /\ sinceLook' = sinceLook
    BY <2>1 DEF Crash
  <2> QED
    BY <2>2, <2>3, <2>4, ForeignKept DEF Working
<1>11. CASE \E k \in ChunkSizes : Start(k)
  <2>1. run'.pc = "check" /\ UNCHANGED <<fs, inflight, dirty, installed, detached, sinceLook>>
    BY <1>11 DEF Start, Idle
  <2> QED
    BY <2>1 DEF ForeignInv, Working
<1>12. CASE \E c \in Contents : EditSource(c)
  BY <1>12 DEF EditSource, ForeignInv, Exists
<1>13. CASE \E n \in UserNames, c \in UserFiles : UserWrites(n, c)
  BY <1>13, UserForeign
<1>14. CASE Detach
  <2>1. /\ run'.pc = "failed" /\ run'.final = run.final /\ UNCHANGED <<fs, inflight, dirty, installed, sinceLook>>
        /\ \A d \in detached' : d.name = Part \/ d \in detached
    BY <1>14, DetachIs
  <2> QED
    BY <2>1, ForeignKept DEF Exists, Working
<1>15. CASE \E d \in detached : DetachedReceives(d) \/ DetachedRetries(d) \/ DetachedEnds(d)
  <2>1. PICK d \in detached : DetachedReceives(d) \/ DetachedRetries(d) \/ DetachedEnds(d)
    BY <1>15
  <2>2. /\ UNCHANGED <<fs, dirty, run, installed, sinceLook>>
        /\ \A w \in inflight' : w \in inflight \/ w.name = d.name
        /\ \A e \in detached' : e \in detached \/ e.name \in {d.name, Part}
    BY <2>1, DetachedIs
  <2> QED
    BY <2>2, Constants DEF ForeignInv, Exists
<1> QED
  BY <1>1, <1>2, <1>3, <1>4, <1>5, <1>6, <1>7, <1>8, <1>9, <1>10, <1>11, <1>12, <1>13, <1>14, <1>15 DEF Next, LocalStep, Answered

LEMMA ForeignStays ==
  ASSUME Policy # "overwrite", Basic, ForeignInv, Next, count'.user = count.user,
         NEW n \in Finals \ sinceLook, Exists(n), installed[n] = NoFile
  PROVE  fs'[n] = fs[n]
<1>1. n \in Names /\ n # Part /\ NoFile \notin Seq(Units)
  BY Constants
<1>2. CASE OpenPartial
  BY <1>1, <1>2, OpenIs DEF Basic, FileTypes
<1>3. CASE RemoveExisting
  BY <1>3 DEF RemoveExisting
<1>4. CASE RenamePartial
  BY <1>1, <1>4, RenameIs DEF ForeignInv, Working
<1>5. CASE \E w \in inflight : WriteLands(w)
  BY <1>1, <1>5, LandIs DEF ForeignInv
<1>6. CASE \E lost \in SUBSET dirty : Crash(lost)
  <2>1. PICK lost \in SUBSET dirty : Crash(lost)
    BY <1>6
  <2>2. \A p : <<n, p>> \notin lost
    BY <2>1 DEF ForeignInv
  <2>3. fs'[n] = [p \in DOMAIN fs[n] |-> IF <<n, p>> \in lost THEN Zero ELSE fs[n][p]]
    BY <1>1, <2>1 DEF Crash, Exists
  <2>4. fs[n] \in Seq(Units)
    BY <1>1 DEF Exists, Basic, FileTypes
  <2>5. fs[n] = [p \in DOMAIN fs[n] |-> fs[n][p]]
    BY <2>4
  <2> QED
    BY <2>2, <2>3, <2>5
<1>7. CASE \E m \in UserNames, c \in UserFiles : UserWrites(m, c)
  BY <1>7, UserIs DEF Basic, FileTypes, Count
<1>8. CASE \/ CheckTarget \/ Collect \/ SyncData \/ MarkChunksComplete \/ VerifyFile \/ CancelTransfers \/ Abandon
           \/ \E i \in DOMAIN run.tr : \/ ReceiveFrame(i) \/ ChunkComplete(i) \/ SourceShort(i)
                                       \/ ConnectionFault(i)
           \/ \E k \in ChunkSizes : Start(k)
           \/ \E w \in inflight : WriteFails(w)
           \/ \E c \in Contents : EditSource(c)
           \/ Detach
           \/ \E d \in detached : DetachedReceives(d) \/ DetachedRetries(d) \/ DetachedEnds(d)
  <2>1. UNCHANGED fs
    BY <1>8 DEF Detach, DetachedReceives, DetachedRetries, DetachedEnds, CheckTarget, Collect, SyncData, MarkChunksComplete, VerifyFile, CancelTransfers, Abandon,
       ReceiveFrame, ChunkComplete, SourceShort, ConnectionFault, Start, WriteFails, EditSource, OnlyRun
  <2> QED
    BY <2>1
<1> QED
  BY <1>2, <1>3, <1>4, <1>5, <1>6, <1>7, <1>8 DEF Next, LocalStep, Answered

(* Under keep_both and skip a file the program did not install is neither changed
   nor removed, by any number of runs, crashes, late writes and transfers that
   outlived their run, and whatever the user puts under the destination's names
   meanwhile.  The one exception is the file the user puts under a name after
   the run has looked which names exist: the rename replaces it. *)
THEOREM ForeignFilesAreKept == Spec => KeepsForeignFiles
<1>1. CASE Policy = "overwrite"
  <2>1. [Next]_vars => [Policy # "overwrite" /\ count'.user = count.user
                          => \A n \in Finals \ sinceLook : Exists(n) /\ installed[n] = NoFile => fs'[n] = fs[n]]_vars
    BY <1>1
  <2> QED
    BY <2>1, PTL DEF Spec, KeepsForeignFiles
<1>2. CASE Policy # "overwrite"
  <2>1. Init => ForeignInv
    BY DEF Init, Idle, ForeignInv, Working
  <2>2. Basic /\ DetachedInv /\ ForeignInv /\ [Next]_vars => ForeignInv'
    BY <1>2, NextForeign
  <2>3. Basic /\ ForeignInv /\ [Next]_vars =>
          [Policy # "overwrite" /\ count'.user = count.user
             => \A n \in Finals \ sinceLook : Exists(n) /\ installed[n] = NoFile => fs'[n] = fs[n]]_vars
    BY ForeignStays
  <2> QED
    BY <2>1, <2>2, <2>3, Basics, PTL DEF Spec, KeepsForeignFiles
<1> QED
  BY <1>1, <1>2

-----------------------------------------------------------------------------
(* What is lost is received again.                                         *)

(* Position p of chunk i was there before, or has been received; and a write
   of it by the attempt that received it is in flight. *)
Arrives(c, k, i, t, p) == /\ p \in Span(c, k, i)
                          /\ \/ t.st \in {"have", "ok"}
                             \/ t.st = "run" /\ p <= Offset(k, i) + Len(t.data)
Rewritten(fly, runs, tr, i, p) ==
  \E w \in fly : w.name = Part /\ w.at = p /\ w.by[2] = i /\ InUse(w, runs, tr)

(* A position of the .part file that was lost belongs to the manifest, and it
   is written again before it counts as received. *)
LostInv ==
  run.pc \in Working =>
    \A d \in damaged : d[1] = Part /\ d[3] = "lost" =>
      /\ d[2] \in DOMAIN run.man
      /\ \A i \in DOMAIN run.tr : Arrives(run.man, run.k, i, run.tr[i], d[2])
                                    => Rewritten(inflight, count.runs, run.tr, i, d[2])

LEMMA LostKept ==
  ASSUME LostInv, run'.pc \in Working => run.pc \in Working, run'.man = run.man, run'.k = run.k,
         DOMAIN run'.tr = DOMAIN run.tr,
         \A d \in damaged' : d[1] = Part /\ d[3] = "lost" => d \in damaged,
         \A i \in DOMAIN run.tr : \A d \in damaged' :
            d[1] = Part /\ Arrives(run.man, run.k, i, run'.tr[i], d[2]) =>
              \/ /\ Arrives(run.man, run.k, i, run.tr[i], d[2])
                 /\ Rewritten(inflight, count.runs, run.tr, i, d[2])
                      => Rewritten(inflight', count'.runs, run'.tr, i, d[2])
              \/ Rewritten(inflight', count'.runs, run'.tr, i, d[2])
  PROVE  LostInv'
<1> SUFFICES ASSUME run'.pc \in Working, NEW d \in damaged', d[1] = Part, d[3] = "lost"
             PROVE  /\ d[2] \in DOMAIN run'.man
                    /\ \A i \in DOMAIN run'.tr : Arrives(run'.man, run'.k, i, run'.tr[i], d[2])
                         => Rewritten(inflight', count'.runs, run'.tr, i, d[2])
  BY DEF LostInv
<1>1. /\ d[2] \in DOMAIN run.man
      /\ \A i \in DOMAIN run.tr : Arrives(run.man, run.k, i, run.tr[i], d[2])
                                    => Rewritten(inflight, count.runs, run.tr, i, d[2])
  BY DEF LostInv
<1> QED
  BY <1>1

(* A transfer that goes on with the same attempt keeps its writes in use. *)
LEMMA RewrittenKept ==
  ASSUME inflight \subseteq inflight', count'.runs = count.runs, NEW i \in DOMAIN run.tr,
         DOMAIN run'.tr = DOMAIN run.tr, run'.tr[i].tries = run.tr[i].tries,
         run'.tr[i] = run.tr[i] \/ run'.tr[i].st \in {"run", "ok"}
  PROVE  \A p : Rewritten(inflight, count.runs, run.tr, i, p)
                  => Rewritten(inflight', count'.runs, run'.tr, i, p)
<1>1. ASSUME NEW w, w.by[2] = i, InUse(w, count.runs, run.tr)
      PROVE  InUse(w, count'.runs, run'.tr)
  BY <1>1 DEF InUse
<1> QED
  BY <1>1 DEF Rewritten

(* Steps of one transfer, and steps that leave the transfers alone. *)
LEMMA LostMoves ==
  ASSUME LostInv, run'.pc \in Working => run.pc \in Working, run'.man = run.man, run'.k = run.k,
         DOMAIN run'.tr = DOMAIN run.tr, inflight \subseteq inflight', count'.runs = count.runs,
         \A d \in damaged' : d[1] = Part /\ d[3] = "lost" => d \in damaged,
         \A i \in DOMAIN run.tr :
            \/ run'.tr[i] = run.tr[i]
            \/ \A p : ~Arrives(run.man, run.k, i, run'.tr[i], p)
            \/ /\ run'.tr[i].st \in {"run", "ok"} /\ run'.tr[i].tries = run.tr[i].tries
               /\ \A p : Arrives(run.man, run.k, i, run'.tr[i], p) =>
                    \/ Arrives(run.man, run.k, i, run.tr[i], p)
                    \/ Rewritten(inflight', count'.runs, run'.tr, i, p)
  PROVE  LostInv'
<1>1. ASSUME NEW i \in DOMAIN run.tr, NEW p, Arrives(run.man, run.k, i, run'.tr[i], p)
      PROVE  \/ /\ Arrives(run.man, run.k, i, run.tr[i], p)
                /\ Rewritten(inflight, count.runs, run.tr, i, p)
                     => Rewritten(inflight', count'.runs, run'.tr, i, p)
             \/ Rewritten(inflight', count'.runs, run'.tr, i, p)
  <2>1. CASE run'.tr[i] = run.tr[i]
    BY <1>1, <2>1, RewrittenKept
  <2>2. CASE run'.tr[i].st \in {"run", "ok"} /\ run'.tr[i].tries = run.tr[i].tries
    BY <1>1, <2>2, RewrittenKept
  <2> QED
    BY <1>1, <2>1, <2>2
<1> QED
  BY <1>1, LostKept

LEMMA LostOpen ==
  ASSUME Basic, OpenPartial
  PROVE  LostInv'
<1> SUFFICES ASSUME NEW d \in damaged', d[1] = Part
             PROVE  /\ d[2] \in DOMAIN run'.man
                    /\ \A i \in DOMAIN run'.tr : ~Arrives(run'.man, run'.k, i, run'.tr[i], d[2])
  BY DEF LostInv
<1>1. /\ run'.man = run.man /\ run'.k = run.k
      /\ run'.tr = [i \in Chunks(run.man, run.k) |->
                      [st |-> IF i \in Kept THEN "have" ELSE "run", tries |-> 0, data |-> <<>>]]
      /\ d \in damaged /\ d[2] <= Len(run.man) /\ \A i \in Kept : d[2] \notin Span(run.man, run.k, i)
  BY OpenIs
<1>2. d[2] \in Places /\ run.man \in Seq(Units) /\ run.k \in Nat \ {0} /\ Len(run.man) \in Nat
  BY <1>1, TypedRun DEF Basic, FileTypes
<1>3. d[2] \in DOMAIN run.man
  BY <1>1, <1>2 DEF Places
<1>4. ASSUME NEW i \in DOMAIN run'.tr, Arrives(run.man, run.k, i, run'.tr[i], d[2])
      PROVE  FALSE
  <2>1. i \in Chunks(run.man, run.k) /\ d[2] \in Span(run.man, run.k, i)
    BY <1>1, <1>4 DEF Arrives
  <2>2. i \notin Kept
    BY <1>1, <2>1
  <2>3. run'.tr[i].st = "run" /\ run'.tr[i].data = <<>> /\ Len(run'.tr[i].data) = 0
    BY <1>1, <2>1, <2>2
  <2>4. d[2] <= Offset(run.k, i) + 0
    BY <1>4, <2>3 DEF Arrives
  <2>5. Offset(run.k, i) \in Nat /\ ChunkEnd(run.man, run.k, i) \in Nat
    BY <1>2, <2>1, ChunkCount, ChunkEnds
  <2> QED
    BY <1>2, <2>1, <2>4, <2>5 DEF Span
<1> QED
  BY <1>1, <1>3, <1>4

LEMMA LostReceive ==
  ASSUME Basic, LostInv, NEW i \in DOMAIN run.tr, ReceiveFrame(i)
  PROVE  LostInv'
<1>1. /\ run'.tr[i] = Received(i) /\ DOMAIN run'.tr = DOMAIN run.tr
      /\ \A j \in DOMAIN run.tr : j # i => run'.tr[j] = run.tr[j]
      /\ run'.pc = run.pc /\ run'.man = run.man /\ run'.k = run.k /\ run.tr[i].st = "run"
      /\ inflight' = inflight \cup {Frame(i)} /\ UNCHANGED <<damaged, count>>
  BY ReceiveIs, RunChanges DEF Basic
<1>2. /\ run.tr[i].data \in Seq(Units) /\ Len(run.tr[i].data) \in Nat /\ source[At(i)] \in Units
      /\ run.tr[i] \in Transfer /\ run.man \in Seq(Units) /\ run.k \in Nat \ {0} /\ i \in Places
  BY ReceiveIs, TypedRun DEF Basic
<1>3. /\ Received(i).st = "run" /\ Received(i).tries = run.tr[i].tries
      /\ Received(i).data = Append(run.tr[i].data, source[At(i)])
  BY <1>1, <1>2 DEF Received, Transfer
<1>4. Len(Received(i).data) = Len(run.tr[i].data) + 1
  BY <1>2, <1>3
<1>5. Offset(run.k, i) \in Nat
  BY <1>2, ChunkEnds
<1>6. ASSUME NEW p, Arrives(run.man, run.k, i, Received(i), p)
      PROVE  \/ Arrives(run.man, run.k, i, run.tr[i], p)
             \/ Rewritten(inflight', count'.runs, run'.tr, i, p)
  <2>1. p \in Span(run.man, run.k, i) /\ p <= Offset(run.k, i) + (Len(run.tr[i].data) + 1)
    BY <1>3, <1>4, <1>6 DEF Arrives
  <2>2. p \in Int
    BY <2>1 DEF Span
  <2>3. CASE p <= Offset(run.k, i) + Len(run.tr[i].data)
    BY <1>1, <2>1, <2>3 DEF Arrives
  <2>4. CASE p = At(i)
    <3>1. Frame(i).name = Part /\ Frame(i).at = p /\ Frame(i).by = <<count.runs, i, run.tr[i].tries>>
      BY <2>4 DEF Frame, Handle
    <3>2. InUse(Frame(i), count'.runs, run'.tr)
      BY <1>1, <1>3, <3>1 DEF InUse
    <3>3. Frame(i).by[2] = i
      BY <3>1
    <3> QED
      BY <1>1, <3>1, <3>2, <3>3 DEF Rewritten
  <2>5. p <= Offset(run.k, i) + Len(run.tr[i].data) \/ p = At(i)
    <3>1. \A x, y, q \in Int : q <= x + (y + 1) => q <= x + y \/ q = x + y + 1
      OBVIOUS
    <3>2. Offset(run.k, i) \in Int /\ Len(run.tr[i].data) \in Int
      BY <1>2, <1>5
    <3> QED
      BY <2>1, <2>2, <3>1, <3>2 DEF At
  <2> QED
    BY <2>3, <2>4, <2>5
<1> QED
  BY <1>1, <1>3, <1>6, LostMoves

LEMMA LostAttempt ==
  ASSUME Basic, LostInv, NEW i \in DOMAIN run.tr, ChunkComplete(i) \/ SourceShort(i) \/ ConnectionFault(i)
  PROVE  LostInv'
<1>1. /\ UNCHANGED <<inflight, damaged>> /\ run.pc = "transfer" /\ run.tr[i].st = "run" /\ count'.runs = count.runs
  BY AttemptIs
<1>2. PICK t \in Transfer :
        /\ run' = [run EXCEPT !.tr[i] = t]
        /\ \/ t = Retried(run.tr[i]) \/ t = Failed(run.tr[i])
           \/ t = Arrived(run.tr[i]) /\ run.tr[i].data = ChunkAt(run.man, run.k, i)
  BY AttemptIs
<1>3. /\ run'.tr[i] = t /\ DOMAIN run'.tr = DOMAIN run.tr
      /\ \A j \in DOMAIN run.tr : j # i => run'.tr[j] = run.tr[j]
      /\ run'.pc = run.pc /\ run'.man = run.man /\ run'.k = run.k
  BY <1>2, RunChanges DEF Basic
<1>4. /\ run.man \in Seq(Units) /\ run.k \in Nat \ {0} /\ i \in Places /\ run.tr[i] \in Transfer
  BY TypedRun DEF Basic
<1>5. /\ Offset(run.k, i) \in Nat /\ ChunkEnd(run.man, run.k, i) \in Nat
      /\ Len(ChunkAt(run.man, run.k, i)) = IF Offset(run.k, i) < ChunkEnd(run.man, run.k, i)
                                           THEN ChunkEnd(run.man, run.k, i) - Offset(run.k, i) ELSE 0
  BY <1>4, ChunkEnds
<1>6. CASE t = Retried(run.tr[i]) \/ t = Failed(run.tr[i])
  <2>1. t.st = "err" \/ (t.st = "run" /\ Len(t.data) = 0)
    BY <1>4, <1>6, RetriedIs DEF Failed, Transfer
  <2>2. \A p : ~Arrives(run.man, run.k, i, t, p)
    BY <1>5, <2>1 DEF Arrives, Span
  <2> QED
    BY <1>1, <1>3, <2>2, LostMoves
<1>7. CASE t = Arrived(run.tr[i]) /\ run.tr[i].data = ChunkAt(run.man, run.k, i)
  <2>1. t.st = "ok" /\ t.tries = run.tr[i].tries
    BY <1>7 DEF Arrived
  <2>2. \A p \in Span(run.man, run.k, i) : p <= Offset(run.k, i) + Len(run.tr[i].data)
    BY <1>5, <1>7 DEF Span
  <2>3. \A p : Arrives(run.man, run.k, i, t, p) => Arrives(run.man, run.k, i, run.tr[i], p)
    BY <1>1, <2>2 DEF Arrives
  <2> QED
    BY <1>1, <1>3, <2>1, <2>3, LostMoves
<1> QED
  BY <1>2, <1>6, <1>7

LEMMA LostLand ==
  ASSUME Basic, LostInv, NEW w, WriteLands(w)
  PROVE  LostInv'
<1>1. /\ w \in inflight /\ inflight' = inflight \ {w} /\ UNCHANGED <<run, count>>
      /\ damaged' = IF Current(w) THEN {d \in damaged : <<d[1], d[2]>> # <<w.name, w.at>>}
                    ELSE damaged \cup {<<w.name, p, "late">> : p \in Late(w)}
  BY LandIs
<1>2. \A d \in damaged' : d[3] = "lost" => d \in damaged
  BY <1>1
<1> SUFFICES ASSUME run.pc \in Working, NEW d \in damaged', d[1] = Part, d[3] = "lost"
             PROVE  /\ d[2] \in DOMAIN run.man
                    /\ \A i \in DOMAIN run.tr : Arrives(run.man, run.k, i, run.tr[i], d[2])
                         => Rewritten(inflight', count.runs, run.tr, i, d[2])
  BY <1>1 DEF LostInv
<1>3. d \in damaged
  BY <1>2
<1>4. ASSUME NEW i \in DOMAIN run.tr, Arrives(run.man, run.k, i, run.tr[i], d[2])
      PROVE  Rewritten(inflight', count.runs, run.tr, i, d[2])
  <2>1. PICK v \in inflight : v.name = Part /\ v.at = d[2] /\ v.by[2] = i /\ InUse(v, count.runs, run.tr)
    BY <1>3, <1>4 DEF LostInv, Rewritten
  <2>2. v # w
    <3>1. SUFFICES ASSUME v = w PROVE FALSE
      OBVIOUS
    <3>2. Current(w)
      BY <2>1, <3>1, CurrentInUse
    <3> QED
      BY <1>1, <2>1, <3>1, <3>2
  <2> QED
    BY <1>1, <2>1, <2>2 DEF Rewritten
<1> QED
  BY <1>3, <1>4 DEF LostInv

LEMMA NextLost == MaxDisk = 0 /\ Basic /\ DetachedInv /\ LostInv /\ [Next]_vars => LostInv'
<1> SUFFICES ASSUME MaxDisk = 0, Basic, DetachedInv, LostInv, [Next]_vars PROVE LostInv'
  OBVIOUS
<1>1. CASE UNCHANGED vars
  BY <1>1 DEF vars, LostInv
<1>2. CASE OpenPartial \/ \E i \in DOMAIN run.tr : \/ ReceiveFrame(i) \/ ChunkComplete(i) \/ SourceShort(i)
                                                  \/ ConnectionFault(i)
  BY <1>2, LostOpen, LostReceive, LostAttempt
<1>3. CASE \E w \in inflight : WriteLands(w)
  BY <1>3, LostLand
<1>4. CASE \E w \in inflight : WriteFails(w)
  BY <1>4 DEF WriteFails, Basic, FileTypes, Count
<1>5. CASE Collect \/ SyncData \/ MarkChunksComplete \/ VerifyFile
  <2>1. PICK p \in {"sync", "failed", "verify", "mark", "replace"} : Goto(p)
    BY <1>5 DEF Collect, SyncData, MarkChunksComplete, VerifyFile
  <2>2. run'.tr = run.tr /\ run'.man = run.man /\ run'.k = run.k
    BY <2>1, GotoIs DEF Basic, Stages
  <2>3. run.pc \in Working /\ damaged' \subseteq damaged /\ UNCHANGED <<inflight, count>>
    BY <1>5 DEF Collect, SyncData, MarkChunksComplete, VerifyFile, OnlyRun, Working
  <2> QED
    BY <2>2, <2>3, LostMoves
<1>6. CASE RemoveExisting
  <2>1. /\ run.pc = "replace" /\ run'.tr = run.tr /\ run'.man = run.man /\ run'.k = run.k /\ count' = count
        /\ run.final # Part
    BY <1>6, GotoIs, TypedRun DEF Basic, Stages, RemoveExisting
  <2>2. damaged' \subseteq damaged /\ \A w \in inflight : w.name = Part => w \in inflight'
    BY <1>6, <2>1 DEF RemoveExisting
  <2>3. \A i, p : Rewritten(inflight, count.runs, run.tr, i, p) => Rewritten(inflight', count'.runs, run'.tr, i, p)
    BY <2>1, <2>2 DEF Rewritten
  <2> QED
    BY <2>1, <2>2, <2>3, LostKept DEF Working
<1>7. CASE CancelTransfers
  <2>1. \A i \in DOMAIN run.tr : run'.tr[i] = run.tr[i] \/ run'.tr[i].st = "err"
    BY <1>7, CancelIs DEF Stopped
  <2>2. \A i \in DOMAIN run.tr : run'.tr[i] = run.tr[i] \/ \A p : ~Arrives(run.man, run.k, i, run'.tr[i], p)
    BY <2>1 DEF Arrives
  <2>3. DOMAIN run'.tr = DOMAIN run.tr
    BY <1>7, CancelIs
  <2> QED
    BY <1>7, <2>2, <2>3, CancelIs, LostMoves DEF OnlyRun
<1>8. CASE \E c \in Contents : EditSource(c)
  BY <1>8, LostMoves DEF EditSource, Basic, FileTypes, Count
<1>9. CASE \E n \in UserNames, c \in UserFiles : UserWrites(n, c)
  <2>1. PICK n \in UserNames, c \in UserFiles : UserWrites(n, c)
    BY <1>9
  <2>2. n # Part /\ run' = run /\ count'.runs = count.runs
        /\ damaged' \subseteq damaged /\ \A w \in inflight : w.name = Part => w \in inflight'
    BY <2>1, UserIs
  <2>3. \A i, p : Rewritten(inflight, count.runs, run.tr, i, p) => Rewritten(inflight', count'.runs, run'.tr, i, p)
    BY <2>2 DEF Rewritten
  <2> QED
    BY <2>2, <2>3, LostKept
<1>10. CASE run'.pc \notin Working
  BY <1>10 DEF LostInv
<1>11. CASE \E k \in ChunkSizes : Start(k)
  BY <1>10, <1>11 DEF Start, Idle, Working
<1>12. CASE CheckTarget
  <2>1. run.pc = "check" /\ run'.pc \in {"done", "open"}
    BY <1>12 DEF CheckTarget, Goto, Basic, FileTypes, Run
  <2> QED
    BY <1>10, <2>1 DEF Working
<1>13. CASE RenamePartial \/ Abandon
  <2>1. run'.pc \in {"done", "stopped"}
    BY <1>13, GotoIs DEF RenamePartial, Abandon, Basic, Stages
  <2> QED
    BY <1>10, <2>1 DEF Working
<1>14. CASE \E lost \in SUBSET dirty : Crash(lost)
  BY <1>10, <1>14, CrashIs DEF Working, Ended
<1>15. CASE Detach
  BY <1>10, <1>15, DetachIs DEF Working
<1>16. CASE \E d \in detached : DetachedReceives(d) \/ DetachedRetries(d) \/ DetachedEnds(d)
  <2>1. /\ run' = run /\ damaged' = damaged /\ inflight \subseteq inflight' /\ count'.runs = count.runs
    BY <1>16, DetachedIs
  <2> QED
    BY <2>1, LostMoves
<1> QED
  BY <1>1, <1>2, <1>3, <1>4, <1>5, <1>6, <1>7, <1>8, <1>9, <1>11, <1>12, <1>13, <1>14, <1>15, <1>16 DEF Next, LocalStep, Answered

(* At the rename, with no write in flight, the .part file is the manifest but
   for what came late. *)
LEMMA PartComplete ==
  ASSUME Basic, FaithInv, LostInv, run.pc = "rename", inflight = {},
         NEW p \in DOMAIN run.man \cup DOMAIN fs[Part]
  PROVE  \/ p \in DOMAIN run.man /\ p \in DOMAIN fs[Part] /\ fs[Part][p] = run.man[p]
         \/ <<Part, p, "late">> \in damaged
<1>1. Faithful(fs, damaged, inflight, Part, run.man)
  BY PartFaithful
<1>2. ASSUME <<Part, p, "lost">> \in damaged
      PROVE  FALSE
  <2> DEFINE d == <<Part, p, "lost">>
  <2>1. d \in damaged /\ d[1] = Part /\ d[3] = "lost" /\ d[2] = p
    BY <1>2
  <2> HIDE DEF d
  <2>2. p \in DOMAIN run.man /\ \A i \in DOMAIN run.tr : ~Arrives(run.man, run.k, i, run.tr[i], p)
    BY <2>1 DEF LostInv, Working, Rewritten
  <2>3. PICK i \in Chunks(run.man, run.k) : p \in Span(run.man, run.k, i)
    BY <2>2, SpansCover, TypedRun DEF Basic
  <2>4. DOMAIN run.tr = Chunks(run.man, run.k) /\ Having("run") = {} /\ Having("err") = {}
    BY DEF FaithInv, TransferInv, StageInv, Working, Joined, Checked
  <2>5. run.tr[i].st \in {"have", "run", "ok", "err"}
    BY <2>4, TypedRun DEF Basic, Transfer
  <2>6. run.tr[i].st \in {"have", "ok"}
    BY <2>4, <2>5 DEF Having
  <2> QED
    BY <2>2, <2>3, <2>4, <2>6 DEF Arrives
<1>3. Damage(damaged, Part, p) => <<Part, p, "late">> \in damaged
  BY <1>2 DEF Damage
<1> QED
  BY <1>1, <1>3 DEF Faithful, Covers, Good

LEMMA DoneStored ==
  ASSUME Policy # "skip", Basic, FaithInv, LostInv, Next, run.pc # "done", run'.pc = "done", inflight = {}
  PROVE  \E n \in Finals :
           /\ fs'[n] # NoFile
           /\ \A p \in DOMAIN run.man \cup DOMAIN fs'[n] :
                \/ p \in DOMAIN run.man /\ p \in DOMAIN fs'[n] /\ fs'[n][p] = run.man[p]
                \/ <<n, p, "late">> \in damaged'
<1>1. CASE CheckTarget
  <2>1. Goto("done") /\ fs' = fs
    <3>1. ASSUME ~Goto("done")
          PROVE  run'.pc = "open"
      BY <1>1, <3>1 DEF CheckTarget, Basic, FileTypes, Run
    <3> QED
      BY <1>1, <3>1 DEF CheckTarget
  <2>2. CASE Present(Target, run.man)
    BY <2>1, <2>2, Constants DEF Present, Exists
  <2>3. CASE ~Present(Target, run.man)
    <3>1. run' = [run EXCEPT !.pc = "open", !.final = IF Exists(Target) /\ Policy = "keep_both"
                                                       THEN KeepBothPath ELSE Target]
      BY <1>1, <2>3 DEF CheckTarget
    <3> QED
      BY <3>1 DEF Basic, FileTypes, Run
  <2> QED
    BY <2>2, <2>3
<1>2. CASE RenamePartial
  <2>1. /\ run.pc = "rename" /\ run.final \in Finals /\ fs'[run.final] = fs[Part] /\ Exists(Part)
        /\ damaged' = Relabel(damaged) /\ run.final # Part
    BY <1>2, RenameIs, Constants DEF RenamePartial
  <2>2. ASSUME NEW p, <<Part, p, "late">> \in damaged
        PROVE  <<run.final, p, "late">> \in damaged'
    <3> DEFINE d == <<Part, p, "late">>
    <3>1. d \in {e \in damaged : e[1] # run.final}
      BY <2>1, <2>2
    <3>2. [d EXCEPT ![1] = IF @ = Part THEN run.final ELSE @] = <<run.final, p, "late">>
      OBVIOUS
    <3> HIDE DEF d
    <3>3. [d EXCEPT ![1] = IF @ = Part THEN run.final ELSE @] \in Relabel(damaged)
      BY <3>1 DEF Relabel
    <3> QED
      BY <2>1, <3>2, <3>3
  <2>3. \A p \in DOMAIN run.man \cup DOMAIN fs[Part] :
          \/ p \in DOMAIN run.man /\ p \in DOMAIN fs[Part] /\ fs[Part][p] = run.man[p]
          \/ <<Part, p, "late">> \in damaged
    BY <2>1, PartComplete
  <2> QED
    BY <2>1, <2>2, <2>3 DEF Exists
<1> QED
  BY <1>1, <1>2, StageSteps

(* Under overwrite and keep_both, when no write fails unheard, a run that
   reports the file as downloaded with nothing in flight leaves the content of
   the manifest under a destination name, but for writes that came late: what
   crashes and power losses tore is found when the .part file is opened and is
   received again.  Under skip a torn target is kept: FileDownload_torn_skip
   finds that execution. *)
THEOREM DownloadedIsStored ==
  MaxDisk = 0 /\ Policy # "skip" => (Spec => DoneMeansStored)
<1> SUFFICES ASSUME MaxDisk = 0, Policy # "skip" PROVE Spec => DoneMeansStored
  OBVIOUS
<1>1. Init => LostInv
  BY DEF Init, Idle, LostInv, Working
<1>2. Basic /\ DetachedInv /\ LostInv /\ [Next]_vars => LostInv'
  BY NextLost
<1>3. Basic /\ FaithInv /\ LostInv /\ [Next]_vars =>
  [run.pc # "done" /\ run'.pc = "done" /\ inflight = {} /\ inflight' = {}
       => \E n \in Finals :
            \/ /\ fs'[n] # NoFile
               /\ \A p \in DOMAIN run.man \cup DOMAIN fs'[n] :
                    \/ p \in DOMAIN run.man /\ p \in DOMAIN fs'[n] /\ fs'[n][p] = run.man[p]
                    \/ <<n, p, "late">> \in damaged'
            \/ Policy = "skip" /\ Exists(n) /\ installed[n] = NoFile]_vars
  BY DoneStored
<1> QED
  BY <1>1, <1>2, <1>3, Basics, Faiths, PTL DEF Spec, DoneMeansStored
=============================================================================
