------------------------ MODULE SelectionPathsProofs ------------------------
(***************************************************************************)
(* The safety of SelectionPaths for every shared directory, selection, set *)
(* of reserved names and number of edits and snapshots.                    *)
(*                                                                         *)
(* First what the conversions of paths do: SplitName and FlattenSeq are    *)
(* recursive functions (that a run of one exists is shown with UpTo, from  *)
(* the well-founded order of the library), and what a selected path without*)
(* backslashes begins with survives them.  Then why places keep files      *)
(* apart: encoded names stay apart, and the base leads all that belongs to *)
(* the selection.  Then the inductive invariant                            *)
(*   Fixed   the selection does not change after the first snapshot,       *)
(*   Rooted  what exists is in directories,                                *)
(*   Walked  what is found and offered is below the selection, unless a    *)
(*           walk has left it through a link,                              *)
(*   Stored  what was placed is where path and selection put it,           *)
(*   Swept   the map of a snapshot, as long as nothing is edited,          *)
(* one lemma per part, and the theorems.                                   *)
(***************************************************************************)
EXTENDS SelectionPaths, TLAPS, FiniteSetTheorems, WellFoundedInduction, SequenceTheorems

-----------------------------------------------------------------------------
(* Recursion without RECURSIVE: least elements, steps up to n, iterated functions. *)

(* A finite, non-empty set of numbers has a least element. *)
LEMMA LeastOf ==
  ASSUME NEW S \in SUBSET Nat, IsFiniteSet(S), S # {}
  PROVE  \E n \in S : \A m \in S : ~(m < n)
<1> DEFINE below(n) == {m \in S : m < n}
           T == {below(n) : n \in S}
<1>1. IsWellFoundedOn(StrictSubsetOrdering(S), FiniteSubsetsOf(S))
  BY FS_StrictSubsetOrderingWellFounded
<1>2. T \subseteq FiniteSubsetsOf(S) /\ T # {}
  <2>1. FiniteSubsetsOf(S) = SUBSET S
    BY FS_FiniteSubsetsOfFinite
  <2>2. T \subseteq SUBSET S /\ T # {}
    BY Zenon
  <2> QED
    BY <2>1, <2>2, Zenon
<1>3. PICK X \in T : \A Y \in T : ~(<<Y, X>> \in StrictSubsetOrdering(S))
  BY <1>1, <1>2, WFMin
<1>4. PICK n \in S : X = below(n)
  BY <1>3
<1>5. ASSUME NEW m \in S, m < n
      PROVE  FALSE
  <2>1. below(m) \in T
    BY Zenon
  <2>2. m \in S /\ m < n /\ ~(m < m) /\ \A l \in S : l < m => l < n
    BY <1>5
  <2>3. m \in below(n) /\ m \notin below(m) /\ below(m) \subseteq below(n)
    BY <2>2, Zenon
  <2>4. <<below(m), X>> \in StrictSubsetOrdering(S)
    BY <1>4, <2>3 DEF StrictSubsetOrdering
  <2> QED
    BY <1>3, <2>1, <2>4
<1> QED
  BY <1>5

(* What holds of 0 and passes on from each number to the next holds up to n. *)
LEMMA UpTo ==
  ASSUME NEW n \in Nat, NEW S, 0 \in S, \A k \in 1 .. n : k - 1 \in S => k \in S
  PROVE  n \in S /\ \A k \in 0 .. n : k \in S
<1> SUFFICES ASSUME (0 .. n) \ S # {} PROVE FALSE
  OBVIOUS
<1>1. (0 .. n) \ S \in SUBSET Nat /\ IsFiniteSet((0 .. n) \ S)
  <2>1. IsFiniteSet(0 .. n)
    BY FS_Interval
  <2>2. (0 .. n) \ S \in SUBSET (0 .. n)
    OBVIOUS
  <2>3. IsFiniteSet((0 .. n) \ S)
    BY <2>1, <2>2, FS_Subset, Zenon
  <2> QED
    BY <2>3
<1>2. PICK k \in (0 .. n) \ S : \A m \in (0 .. n) \ S : ~(m < k)
  BY <1>1, LeastOf
<1>3. k \in 1 .. n /\ k - 1 \in 0 .. n /\ k - 1 < k
  BY <1>2
<1> QED
  BY <1>2, <1>3

(* g is what the step h makes of x in n steps. *)
Iterates(n, x, h, g) == g[0] = x /\ \A k \in 1 .. n : g[k] = h[<<k, g[k - 1]>>]
HasIterates(n, X, x, h) == \E g \in [0 .. n -> X] : Iterates(n, x, h, g)

(* A function over 0 .. n can be defined by its first value and a step. *)
LEMMA Iterated ==
  ASSUME NEW n \in Nat, NEW X, NEW x \in X, NEW h \in [(1 .. n) \X X -> X]
  PROVE  HasIterates(n, X, x, h)
<1> DEFINE Upto(m) == \E g \in [0 .. m -> X] :
                        g[0] = x /\ \A k \in 1 .. m : g[k] = h[<<k, g[k - 1]>>]
           S == {m \in 0 .. n : Upto(m)}
<1>1. 0 \in S
  <2>1. [k \in 0 .. 0 |-> x] \in [0 .. 0 -> X] /\ [k \in 0 .. 0 |-> x][0] = x
    OBVIOUS
  <2>2. \A k \in 1 .. 0 : FALSE
    OBVIOUS
  <2>3. Upto(0)
    BY <2>1, <2>2, Zenon
  <2> QED
    BY <2>3
<1>2. ASSUME NEW m \in 1 .. n, m - 1 \in S
      PROVE  m \in S
  <2>1. PICK g \in [0 .. m - 1 -> X] :
          g[0] = x /\ \A k \in 1 .. m - 1 : g[k] = h[<<k, g[k - 1]>>]
    BY <1>2
  <2> DEFINE y == h[<<m, g[m - 1]>>]
             e == [k \in 0 .. m |-> IF k = m THEN y ELSE g[k]]
  <2>2. y \in X
    BY <2>1
  <2>3. e \in [0 .. m -> X]
    BY <2>2
  <2>4. e[0] = x
    BY <2>1
  <2>5. ASSUME NEW k \in 1 .. m
        PROVE  e[k] = h[<<k, e[k - 1]>>]
    <3>1. k - 1 \in 0 .. m - 1 /\ k - 1 # m /\ k \in 0 .. m /\ k - 1 \in 0 .. m
      OBVIOUS
    <3>2. e[k - 1] = g[k - 1]
      BY <3>1
    <3>3. CASE k = m
      <4>1. e[k] = y
        BY <3>3
      <4>2. h[<<k, e[k - 1]>>] = y
        <5> HIDE DEF e
        <5> QED
          BY <3>2, <3>3
      <4> QED
        BY <4>1, <4>2, Zenon
    <3>4. CASE k # m
      <4>1. e[k] = g[k] /\ k \in 1 .. m - 1
        BY <3>1, <3>4
      <4> QED
        BY <2>1, <3>2, <4>1
    <3> QED
      BY <3>3, <3>4
  <2>6. Upto(m)
    <3> HIDE DEF e
    <3> QED
      BY <2>3, <2>4, <2>5
  <2> QED
    BY <2>6
<1>3. n \in S
  <2> HIDE DEF S
  <2> QED
    BY <1>1, <1>2, UpTo
<1> QED
  BY <1>3 DEF HasIterates, Iterates

-----------------------------------------------------------------------------
(* Sequences of sequences. *)

(* g[i] is what the first i sequences of q are, one after the other. *)
Grown(q, g) == g[0] = <<>> /\ \A i \in 1 .. Len(q) : g[i] = g[i - 1] \o q[i]

(* FlattenSeq is the last of the partial concatenations. *)
LEMMA FlattenIs ==
  ASSUME NEW N, NEW q \in Seq(Seq(N))
  PROVE  \E g \in [0 .. Len(q) -> Seq(N)] : Grown(q, g) /\ FlattenSeq(q) = g[Len(q)]
<1> DEFINE n == Len(q)
           h == [p \in (1 .. n) \X Seq(N) |-> p[2] \o q[p[1]]]
           Flat(f) == f = [i \in 1 .. n |-> IF i = 1 THEN q[i] ELSE f[i - 1] \o q[i]]
           flat == CHOOSE f : Flat(f)
<1>1. n \in Nat /\ \A i \in 1 .. n : q[i] \in Seq(N)
  OBVIOUS
<1>2. <<>> \in Seq(N)
  OBVIOUS
<1>3. h \in [(1 .. n) \X Seq(N) -> Seq(N)]
  <2>1. \A p \in (1 .. n) \X Seq(N) : p[1] \in 1 .. n /\ p[2] \in Seq(N)
    OBVIOUS
  <2>2. \A v, w \in Seq(N) : v \o w \in Seq(N)
    OBVIOUS
  <2>3. \A p \in (1 .. n) \X Seq(N) : p[2] \o q[p[1]] \in Seq(N)
    BY <1>1, <2>1, <2>2
  <2> QED
    BY <2>3
<1>4. \A i \in 1 .. n : \A w \in Seq(N) : h[<<i, w>>] = w \o q[i]
  OBVIOUS
<1>5. PICK g \in [0 .. n -> Seq(N)] : g[0] = <<>> /\ \A i \in 1 .. n : g[i] = h[<<i, g[i - 1]>>]
  <2> HIDE DEF h, n
  <2>1. HasIterates(n, Seq(N), <<>>, h)
    BY <1>1, <1>2, <1>3, Iterated
  <2> QED
    BY <2>1 DEF HasIterates, Iterates
<1>6. \A i \in 1 .. n : g[i] = g[i - 1] \o q[i]
  <2> HIDE DEF h, n
  <2>1. \A i \in 1 .. n : i - 1 \in 0 .. n
    BY <1>1
  <2>2. \A i \in 1 .. n : g[i - 1] \in Seq(N)
    BY <1>5, <2>1
  <2> QED
    BY <1>4, <1>5, <2>2
<1>7. Grown(q, g)
  BY <1>5, <1>6 DEF Grown
<1>8. CASE n = 0
  <2>1. FlattenSeq(q) = q /\ q = <<>>
    BY <1>8 DEF FlattenSeq
  <2> QED
    BY <1>5, <1>7, <1>8, <2>1
<1>9. CASE n # 0
  <2> DEFINE e == [i \in 1 .. n |-> g[i]]
  <2>1. Flat(e)
    <3>1. \A i \in 1 .. n : e[i] = IF i = 1 THEN q[i] ELSE e[i - 1] \o q[i]
      <4> TAKE i \in 1 .. n
      <4>1. CASE i = 1
        <5>1. i - 1 = 0 /\ q[i] \in Seq(N) /\ e[i] = g[i]
          BY <1>1, <4>1
        <5>2. g[i] = <<>> \o q[i]
          <6>1. g[i] = g[i - 1] \o q[i]
            BY <1>6
          <6>2. g[i - 1] = <<>>
            BY <1>5, <5>1
          <6> QED
            BY <6>1, <6>2, Zenon
        <5>3. <<>> \o q[i] = q[i]
          BY <5>1, ConcatEmptySeq
        <5> HIDE DEF e
        <5> QED
          BY <4>1, <5>1, <5>2, <5>3
      <4>2. CASE i # 1
        <5>1. i - 1 \in 1 .. n
          BY <1>1, <4>2
        <5> QED
          BY <1>6, <4>2, <5>1
      <4> QED
        BY <4>1, <4>2
    <3> HIDE DEF e
    <3>2. e = [i \in 1 .. n |-> e[i]]
      BY DEF e
    <3> QED
      BY <3>1, <3>2
  <2>2. Flat(flat)
    <3> HIDE DEF e, Flat
    <3> QED
      BY <2>1
  <2>3. FlattenSeq(q) = flat[n]
    BY <1>9, Zenon DEF FlattenSeq
  <2> DEFINE same == {i \in 0 .. n : i = 0 \/ flat[i] = g[i]}
  <2>4. 0 \in same
    BY <1>1
  <2>5. ASSUME NEW i \in 1 .. n, i - 1 \in same
        PROVE  i \in same
    <3> HIDE DEF flat
    <3>1. flat[i] = IF i = 1 THEN q[i] ELSE flat[i - 1] \o q[i]
      BY <2>2
    <3>2. g[i] = g[i - 1] \o q[i]
      BY <1>6
    <3>3. CASE i = 1
      <4>1. q[i] \in Seq(N) /\ g[i - 1] = <<>>
        BY <1>1, <1>5, <3>3
      <4> QED
        BY <3>1, <3>2, <3>3, <4>1
    <3>4. CASE i # 1
      <4>1. flat[i - 1] = g[i - 1]
        BY <2>5, <3>4
      <4>2. flat[i] = flat[i - 1] \o q[i]
        BY <3>1, <3>4
      <4>3. flat[i] = g[i]
        BY <3>2, <4>1, <4>2, Zenon
      <4> QED
        BY <4>3
    <3> QED
      BY <3>3, <3>4
  <2>6. n \in same
    <3> HIDE DEF same, n
    <3> QED
      BY <1>1, <2>4, <2>5, UpTo
  <2>7. flat[n] = g[n]
    BY <1>9, <2>6
  <2> QED
    BY <1>7, <2>3, <2>7
<1> QED
  BY <1>8, <1>9

(* What q begins with, one element at a time, its concatenation begins with. *)
LEMMA FlattenStart ==
  ASSUME NEW N, NEW q \in Seq(Seq(N)), NEW x \in Seq(N), Len(x) <= Len(q),
         \A i \in 1 .. Len(x) : q[i] = <<x[i]>>
  PROVE  /\ FlattenSeq(q) \in Seq(N) /\ IsPrefix(x, FlattenSeq(q))
         /\ Len(x) = Len(q) => FlattenSeq(q) = x
<1> DEFINE n == Len(q)
           m == Len(x)
<1>1. PICK g \in [0 .. n -> Seq(N)] : Grown(q, g) /\ FlattenSeq(q) = g[n]
  BY FlattenIs
<1>2. n \in Nat /\ m \in Nat /\ m <= n
  OBVIOUS
<1>3. g[0] = <<>> /\ \A i \in 1 .. n : g[i] = g[i - 1] \o q[i]
  BY <1>1 DEF Grown
<1> DEFINE Starts(w) == IsPrefix(x, w)
           good == {i \in 0 .. n : IF i <= m THEN g[i] = SubSeq(x, 1, i) ELSE Starts(g[i])}
<1>4. 0 \in good
  <2>1. SubSeq(x, 1, 0) = <<>>
    BY SubSeqEmpty
  <2> QED
    BY <1>2, <1>3, <2>1
<1>5. SubSeq(x, 1, m) = x /\ Starts(x)
  BY SubSeqFull DEF IsPrefix
<1>6. ASSUME NEW w \in Seq(N), NEW v \in Seq(N), Starts(w)
      PROVE  Starts(w \o v)
  <2>1. m <= Len(w) /\ SubSeq(x, 1, m) = SubSeq(w, 1, m)
    BY <1>6 DEF IsPrefix
  <2>2. Len(w \o v) = Len(w) + Len(v) /\ Len(w) \in Nat /\ Len(v) \in Nat
    BY <1>6, ConcatProperties
  <2>3. SubSeq(w \o v, 1, m) = SubSeq(w, 1, m)
    <3>1. CASE m = 0
      BY <3>1, SubSeqEmpty
    <3>2. CASE m # 0
      <4>1. 1 \in 1 .. Len(w) /\ m \in 1 .. Len(w)
        BY <1>2, <2>1, <2>2, <3>2
      <4> HIDE DEF m
      <4> QED
        BY <1>6, <4>1, SubSeqOfConcat1
    <3> QED
      BY <3>1, <3>2
  <2> QED
    BY <1>2, <2>1, <2>2, <2>3 DEF IsPrefix
<1>7. ASSUME NEW i \in 1 .. n, i - 1 \in good
      PROVE  i \in good
  <2>1. g[i] = g[i - 1] \o q[i] /\ q[i] \in Seq(N) /\ g[i - 1] \in Seq(N)
    <3>1. i - 1 \in 0 .. n /\ q[i] \in Seq(N)
      BY <1>2
    <3> HIDE DEF n
    <3> QED
      BY <1>1, <1>3, <3>1
  <2>2. CASE i <= m
    <3>1. g[i - 1] = SubSeq(x, 1, i - 1) /\ q[i] = <<x[i]>>
      BY <1>2, <1>7, <2>2
    <3>2. 1 \in 1 .. m /\ i \in 1 .. m
      BY <1>2, <2>2
    <3>3. SubSeq(x, 1, i) = SubSeq(x, 1, i - 1) \o <<x[i]>>
      BY <3>2, SubSeqRecursiveSecond
    <3>4. g[i] = SubSeq(x, 1, i)
      BY <2>1, <3>1, <3>3, Zenon
    <3> QED
      BY <2>2, <3>4
  <2>3. CASE ~(i <= m)
    <3>1. Starts(g[i - 1])
      <4>1. CASE i - 1 <= m
        <5>1. i - 1 = m
          BY <1>2, <2>3, <4>1
        <5>2. g[i - 1] = SubSeq(x, 1, m)
          <6> HIDE DEF m
          <6> QED
            BY <1>2, <1>7, <5>1
        <5> QED
          BY <1>5, <5>2
      <4>2. CASE ~(i - 1 <= m)
        BY <1>7, <4>2
      <4> QED
        BY <4>1, <4>2
    <3>2. Starts(g[i])
      <4> HIDE DEF Starts
      <4> QED
        BY <1>6, <2>1, <3>1
    <3> QED
      BY <2>3, <3>2
  <2> QED
    BY <2>2, <2>3
<1>8. n \in good
  <2> HIDE DEF good, n
  <2> QED
    BY <1>2, <1>4, <1>7, UpTo
<1>9. g[n] \in Seq(N)
  <2>1. n \in 0 .. n
    BY <1>2
  <2> HIDE DEF n
  <2> QED
    BY <1>1, <2>1
<1>10. CASE n <= m
  <2>1. n = m
    BY <1>2, <1>10
  <2>2. g[n] = SubSeq(x, 1, n)
    BY <1>8, <1>10
  <2>3. g[n] = x
    <3> HIDE DEF m, n
    <3> QED
      BY <1>5, <2>1, <2>2
  <2> QED
    BY <1>1, <1>5, <1>9, <2>3
<1>11. CASE ~(n <= m)
  <2>1. Starts(g[n]) /\ n # m
    BY <1>2, <1>8, <1>11
  <2> QED
    BY <1>1, <1>9, <2>1
<1> QED
  BY <1>10, <1>11

(* A concatenation of sequences over N is one. *)
LEMMA FlattenType ==
  ASSUME NEW N, NEW q \in Seq(Seq(N))
  PROVE  FlattenSeq(q) \in Seq(N)
<1>1. PICK g \in [0 .. Len(q) -> Seq(N)] : FlattenSeq(q) = g[Len(q)]
  BY FlattenIs
<1>2. Len(q) \in 0 .. Len(q)
  OBVIOUS
<1> QED
  BY <1>1, <1>2

-----------------------------------------------------------------------------
(* Names and paths. *)

(* The provers do not know that a string they are shown is one. *)
Tokens == STRING \cup {Prefix}
Names == Seq(Tokens)
Paths == Seq(Names)

(* The paths of the shared directory are paths. *)
LEMMA PlacesArePaths == Places \subseteq Paths
<1>1. Seq(STRING) \subseteq Names
  BY SeqMonotonic DEF Names, Tokens
<1>2. Seq(Seq(STRING)) \subseteq Paths
  <2> HIDE DEF Names
  <2> QED
    BY <1>1, SeqMonotonic DEF Paths
<1> QED
  BY <1>2, SelectionPathsAssumption

(* The pieces of a name up to its i-th token, of those up to the one before. *)
Piece(n, i, w) == IF n[i] = Backslash THEN Append(w, <<>>)
                  ELSE [w EXCEPT ![Len(w)] = Append(@, n[i])]
Cut(n, g) == /\ g \in [0 .. Len(n) -> Paths \ {<<>>}] /\ g[0] = << <<>> >>
             /\ \A i \in 1 .. Len(n) : g[i] = Piece(n, i, g[i - 1])

(* Another token leaves pieces of a name. *)
LEMMA PieceType ==
  ASSUME NEW n \in Names, NEW i \in 1 .. Len(n), NEW w \in Paths \ {<<>>}
  PROVE  Piece(n, i, w) \in Paths \ {<<>>}
<1>1. w \in Paths /\ w # <<>> /\ Len(w) \in 1 .. Len(w) /\ n[i] \in Tokens
  BY DEF Names, Paths
<1>2. CASE n[i] = Backslash
  <2>1. <<>> \in Names
    BY DEF Names
  <2>2. Append(w, <<>>) \in Paths /\ Append(w, <<>>) # <<>>
    BY <1>1, <2>1, AppendProperties DEF Paths
  <2> QED
    BY <1>2, <2>2 DEF Piece
<1>3. CASE n[i] # Backslash
  <2> DEFINE l == Len(w)
             a == Append(w[l], n[i])
  <2>1. w[l] \in Names
    BY <1>1 DEF Paths
  <2>2. a \in Names
    BY <1>1, <2>1, AppendProperties DEF Names
  <2>3. [w EXCEPT ![l] = a] \in Paths /\ Len([w EXCEPT ![l] = a]) = l
    <3> HIDE DEF a
    <3> QED
      BY <1>1, <2>2, ExceptSeq DEF Paths
  <2>4. [w EXCEPT ![l] = a] # <<>>
    <3> HIDE DEF a
    <3>1. Len(<<>>) = 0 /\ l # 0
      BY <1>1
    <3> QED
      BY <2>3, <3>1
  <2>5. Piece(n, i, w) = [w EXCEPT ![l] = a]
    BY <1>3 DEF Piece
  <2> QED
    BY <2>3, <2>4, <2>5, Zenon
<1> QED
  BY <1>2, <1>3

(* The pieces of a name are the last of those up to each of its tokens. *)
LEMMA SplitIs ==
  ASSUME NEW n \in Names
  PROVE  \E g : Cut(n, g) /\ SplitName(n) = g[Len(n)]
<1> DEFINE m == Len(n)
           X == Paths \ {<<>>}
           h == [p \in (1 .. m) \X X |-> Piece(n, p[1], p[2])]
           Def(f) == f = [i \in 0 .. m |-> IF i = 0 THEN << <<>> >>
                            ELSE IF n[i] = Backslash THEN Append(f[i - 1], <<>>)
                            ELSE [f[i - 1] EXCEPT ![Len(f[i - 1])] = Append(@, n[i])]]
           pieces == CHOOSE f : Def(f)
<1>1. /\ m \in Nat /\ 0 \in 0 .. m /\ m \in 0 .. m
      /\ \A i \in 1 .. m : i \in 0 .. m /\ i # 0 /\ i - 1 \in 0 .. m
  BY DEF Names
<1>2. << <<>> >> \in X
  BY DEF Paths, Names
<1>3. h \in [(1 .. m) \X X -> X]
  <2>1. \A p \in (1 .. m) \X X : p[1] \in 1 .. m /\ p[2] \in X
    BY Zenon
  <2>2. \A i \in 1 .. m : \A w \in X : Piece(n, i, w) \in X
    BY PieceType
  <2>3. \A p \in (1 .. m) \X X : Piece(n, p[1], p[2]) \in X
    <3> HIDE DEF X, m
    <3> QED
      BY <2>1, <2>2
  <2> HIDE DEF X, m
  <2> QED
    BY <2>3
<1>4. \A i \in 1 .. m : \A w \in X : h[<<i, w>>] = Piece(n, i, w)
  <2> HIDE DEF X, m
  <2> QED
    OBVIOUS
<1>5. PICK g \in [0 .. m -> X] : g[0] = << <<>> >> /\ \A i \in 1 .. m : g[i] = h[<<i, g[i - 1]>>]
  <2> HIDE DEF h, m, X
  <2>1. HasIterates(m, X, << <<>> >>, h)
    BY <1>1, <1>2, <1>3, Iterated
  <2> QED
    BY <2>1 DEF HasIterates, Iterates
<1>6. \A i \in 1 .. m : g[i] = Piece(n, i, g[i - 1])
  <2> HIDE DEF h, m, X
  <2>1. \A i \in 1 .. m : g[i - 1] \in X
    BY <1>1, <1>5
  <2> QED
    BY <1>4, <1>5, <2>1
<1>7. Def(g)
  <2> HIDE DEF m, X
  <2>1. g = [i \in 0 .. m |-> g[i]]
    BY <1>5
  <2>2. \A i \in 0 .. m : g[i] = IF i = 0 THEN << <<>> >>
                            ELSE IF n[i] = Backslash THEN Append(g[i - 1], <<>>)
                            ELSE [g[i - 1] EXCEPT ![Len(g[i - 1])] = Append(@, n[i])]
    <3> TAKE i \in 0 .. m
    <3>1. CASE i = 0
      BY <1>5, <3>1
    <3>2. CASE i # 0
      <4>1. i \in 1 .. m
        BY <1>1, <3>2
      <4>2. g[i] = Piece(n, i, g[i - 1])
        BY <1>6, <4>1
      <4> QED
        BY <3>2, <4>2 DEF Piece
    <3> QED
      BY <3>1, <3>2
  <2> QED
    BY <2>1, <2>2
<1>8. Def(pieces)
  <2> HIDE DEF Def
  <2> QED
    BY <1>7
<1>9. SplitName(n) = pieces[m]
  BY DEF SplitName
<1> HIDE DEF pieces
<1>10. pieces[0] = << <<>> >> /\ \A i \in 1 .. m : pieces[i] = Piece(n, i, pieces[i - 1])
  <2> HIDE DEF m
  <2>1. pieces[0] = << <<>> >>
    BY <1>1, <1>8
  <2>2. ASSUME NEW i \in 1 .. m
        PROVE  pieces[i] = Piece(n, i, pieces[i - 1])
    <3>1. i \in 0 .. m /\ i # 0
      BY <1>1
    <3> QED
      BY <1>8, <3>1 DEF Piece
  <2> QED
    BY <2>1, <2>2
<1>11. DOMAIN pieces = 0 .. m /\ pieces = [i \in 0 .. m |-> pieces[i]]
  <2>1. DOMAIN pieces = 0 .. m
    BY <1>8
  <2>2. pieces = [i \in DOMAIN pieces |-> pieces[i]]
    BY <1>8
  <2> QED
    BY <2>1, <2>2
<1>12. \A k \in 0 .. m : pieces[k] \in X
  <2> DEFINE S == {k \in 0 .. m : pieces[k] \in X}
  <2>1. 0 \in S
    BY <1>1, <1>2, <1>10
  <2>2. ASSUME NEW k \in 1 .. m, k - 1 \in S
        PROVE  k \in S
    <3>1. pieces[k - 1] \in X /\ k \in 0 .. m
      BY <1>1, <2>2
    <3>2. Piece(n, k, pieces[k - 1]) \in X
      BY <3>1, PieceType
    <3> QED
      BY <1>10, <3>1, <3>2
  <2>3. \A k \in 0 .. m : k \in S
    <3> HIDE DEF S, m
    <3> QED
      BY <1>1, <2>1, <2>2, UpTo
  <2> QED
    BY <2>3
<1>13. pieces \in [0 .. m -> X]
  <2> HIDE DEF X, m
  <2> QED
    BY <1>11, <1>12
<1>14. Cut(n, pieces)
  BY <1>10, <1>13 DEF Cut
<1> QED
  BY <1>9, <1>14

(* A name is split into names, and one without backslashes not at all. *)
LEMMA SplitNames ==
  ASSUME NEW n \in Names
  PROVE  /\ SplitName(n) \in Paths
         /\ (\A j \in DOMAIN n : n[j] # Backslash) => SplitName(n) = <<n>>
<1> DEFINE m == Len(n)
<1>1. PICK g : Cut(n, g) /\ SplitName(n) = g[m]
  BY SplitIs
<1>2. m \in Nat /\ DOMAIN n = 1 .. m /\ \A i \in 1 .. m : n[i] \in Tokens
  BY DEF Names
<1>3. SplitName(n) \in Paths
  <2>1. m \in 0 .. m
    BY <1>2
  <2> QED
    BY <1>1, <2>1 DEF Cut
<1>4. ASSUME \A j \in DOMAIN n : n[j] # Backslash
      PROVE  SplitName(n) = <<n>>
  <2> DEFINE S == {k \in 0 .. m : g[k] = <<SubSeq(n, 1, k)>>}
  <2>1. 0 \in S
    <3>1. SubSeq(n, 1, 0) = <<>>
      BY SubSeqEmpty
    <3>2. g[0] = << <<>> >> /\ 0 \in 0 .. m
      BY <1>1, <1>2 DEF Cut
    <3> QED
      BY <3>1, <3>2, Zenon
  <2>2. ASSUME NEW k \in 1 .. m, k - 1 \in S
        PROVE  k \in S
    <3> DEFINE b == SubSeq(n, 1, k - 1)
    <3>1. g[k - 1] = <<b>> /\ n[k] # Backslash /\ n[k] \in Tokens
      BY <1>2, <1>4, <2>2
    <3>2. b \in Names
      BY <1>2, SubSeqProperties DEF Names
    <3>3. SubSeq(n, 1, k) = b \o <<n[k]>>
      BY <1>2, SubSeqRecursiveSecond DEF Names
    <3>4. Append(b, n[k]) = b \o <<n[k]>>
      <4> HIDE DEF b
      <4> QED
        BY <3>1, <3>2, AppendIsConcat DEF Names
    <3>5. g[k] = Piece(n, k, <<b>>)
      BY <1>1, <3>1 DEF Cut
    <3>6. Piece(n, k, <<b>>) = <<Append(b, n[k])>>
      <4> HIDE DEF b
      <4>1. Len(<<b>>) = 1 /\ <<b>>[1] = b
        OBVIOUS
      <4>2. [<<b>> EXCEPT ![1] = Append(@, n[k])] = <<Append(b, n[k])>>
        OBVIOUS
      <4> QED
        BY <3>1, <4>1, <4>2 DEF Piece
    <3>7. g[k] = <<SubSeq(n, 1, k)>>
      <4> HIDE DEF b
      <4> QED
        BY <3>3, <3>4, <3>5, <3>6
    <3> QED
      BY <3>7
  <2>3. m \in S
    <3> HIDE DEF S, m
    <3> QED
      BY <1>2, <2>1, <2>2, UpTo
  <2>4. SubSeq(n, 1, m) = n
    BY SubSeqFull DEF Names
  <2> QED
    BY <1>1, <2>3, <2>4
<1> QED
  BY <1>3, <1>4

(* A path of names has a protocol path; one without backslashes is its own,
   and what it leads, its protocol path leads. *)
LEMMA ProtocolPaths ==
  ASSUME NEW p \in Paths, NEW s \in Paths, IsPrefix(s, p)
  PROVE  /\ ProtocolPath(p) \in Paths
         /\ Plain(s) => IsPrefix(s, ProtocolPath(p))
         /\ Plain(p) => ProtocolPath(p) = p
<1> DEFINE q == [i \in DOMAIN p |-> SplitName(p[i])]
<1>1. /\ Len(p) \in Nat /\ DOMAIN p = 1 .. Len(p) /\ \A i \in 1 .. Len(p) : p[i] \in Names
      /\ Len(s) \in Nat /\ DOMAIN s = 1 .. Len(s) /\ \A i \in 1 .. Len(s) : s[i] \in Names
  BY DEF Paths
<1>2. q \in Seq(Seq(Names)) /\ Len(q) = Len(p)
  <2>1. \A i \in 1 .. Len(p) : SplitName(p[i]) \in Seq(Names)
    BY <1>1, SplitNames DEF Paths
  <2>2. q = [i \in 1 .. Len(p) |-> SplitName(p[i])]
    BY <1>1
  <2> HIDE DEF q
  <2> QED
    BY <1>1, <2>1, <2>2
<1>3. \A i \in 1 .. Len(p) : q[i] = SplitName(p[i])
  BY <1>1
<1>4. ProtocolPath(p) = FlattenSeq(q)
  BY DEF ProtocolPath
<1>5. \A i \in 1 .. Len(s) : i \in 1 .. Len(p) /\ s[i] = p[i]
  <2>1. Len(s) <= Len(p) /\ SubSeq(s, 1, Len(s)) = SubSeq(p, 1, Len(s))
    BY DEF IsPrefix
  <2>2. ASSUME NEW i \in 1 .. Len(s)
        PROVE  i \in 1 .. Len(p) /\ s[i] = p[i]
    <3>1. i \in 1 .. Len(p) /\ \A j \in 1 .. Len(s) : j \in 1 .. Len(p)
      BY <1>1, <2>1
    <3>2. SubSeq(s, 1, Len(s))[i] = s[i] /\ SubSeq(p, 1, Len(s))[i] = p[i]
      BY <1>1, <3>1
    <3> QED
      BY <2>1, <3>1, <3>2
  <2> QED
    BY <2>2
<1> HIDE DEF q
<1>6. ProtocolPath(p) \in Paths
  BY <1>2, <1>4, FlattenType DEF Paths
<1>7. ASSUME Plain(s)
      PROVE  IsPrefix(s, ProtocolPath(p))
  <2>1. \A i \in 1 .. Len(s) : q[i] = <<s[i]>>
    <3> TAKE i \in 1 .. Len(s)
    <3>1. s[i] \in Names /\ \A j \in DOMAIN s[i] : s[i][j] # Backslash
      BY <1>1, <1>7 DEF Plain
    <3>2. SplitName(s[i]) = <<s[i]>>
      BY <3>1, SplitNames
    <3> QED
      BY <1>3, <1>5, <3>2
  <2>2. Len(s) <= Len(q)
    BY <1>2 DEF IsPrefix
  <2>3. s \in Seq(Names)
    BY DEF Paths
  <2> QED
    BY <1>2, <1>4, <2>1, <2>2, <2>3, FlattenStart
<1>8. ASSUME Plain(p)
      PROVE  ProtocolPath(p) = p
  <2>1. \A i \in 1 .. Len(p) : q[i] = <<p[i]>>
    <3> TAKE i \in 1 .. Len(p)
    <3>1. p[i] \in Names /\ \A j \in DOMAIN p[i] : p[i][j] # Backslash
      BY <1>1, <1>8 DEF Plain
    <3>2. SplitName(p[i]) = <<p[i]>>
      BY <3>1, SplitNames
    <3> QED
      BY <1>3, <3>2
  <2>2. p \in Seq(Names) /\ Len(p) <= Len(q)
    BY <1>1, <1>2 DEF Paths
  <2> QED
    BY <1>2, <1>4, <2>1, <2>2, FlattenStart
<1> QED
  BY <1>6, <1>7, <1>8

(* The components of a protocol path, which begin with every path of names a
   directory can hold that the protocol path begins with. *)
LEMMA ComponentPaths ==
  ASSUME NEW k \in Paths, NEW s \in Paths
  PROVE  /\ Components(k) \in Paths
         /\ IsPrefix(s, k) /\ (\A i \in DOMAIN s : s[i] \notin {<<>>, Here})
              => IsPrefix(s, Components(k))
<1> DEFINE q == [i \in DOMAIN k |-> IF k[i] \in {<<>>, Here} THEN <<>> ELSE <<k[i]>>]
<1>1. /\ Len(k) \in Nat /\ DOMAIN k = 1 .. Len(k) /\ \A i \in 1 .. Len(k) : k[i] \in Names
      /\ Len(s) \in Nat /\ DOMAIN s = 1 .. Len(s) /\ s \in Seq(Names)
  BY DEF Paths
<1>2. q \in Seq(Seq(Names)) /\ Len(q) = Len(k)
  <2>1. \A i \in 1 .. Len(k) : (IF k[i] \in {<<>>, Here} THEN <<>> ELSE <<k[i]>>) \in Seq(Names)
    BY <1>1
  <2>2. q = [i \in 1 .. Len(k) |-> IF k[i] \in {<<>>, Here} THEN <<>> ELSE <<k[i]>>]
    BY <1>1
  <2>3. q \in [1 .. Len(k) -> Seq(Names)]
    BY <2>1, <2>2
  <2> HIDE DEF q
  <2> QED
    BY <1>1, <2>3
<1>3. \A i \in 1 .. Len(k) : k[i] \notin {<<>>, Here} => q[i] = <<k[i]>>
  BY <1>1
<1>4. Components(k) = FlattenSeq(q)
  BY DEF Components
<1> HIDE DEF q
<1>5. Components(k) \in Paths
  BY <1>2, <1>4, FlattenType DEF Paths
<1>6. ASSUME IsPrefix(s, k), \A i \in DOMAIN s : s[i] \notin {<<>>, Here}
      PROVE  IsPrefix(s, Components(k))
  <2>1. Len(s) <= Len(k) /\ SubSeq(s, 1, Len(s)) = SubSeq(k, 1, Len(s))
    BY <1>6 DEF IsPrefix
  <2>2. ASSUME NEW i \in 1 .. Len(s)
        PROVE  q[i] = <<s[i]>>
    <3>1. i \in 1 .. Len(k) /\ \A j \in 1 .. Len(s) : j \in 1 .. Len(k)
      BY <1>1, <2>1
    <3>2. SubSeq(s, 1, Len(s))[i] = s[i] /\ SubSeq(k, 1, Len(s))[i] = k[i]
      BY <1>1, <3>1
    <3>3. s[i] = k[i]
      BY <2>1, <3>2
    <3> QED
      BY <1>1, <1>3, <1>6, <3>1, <3>3
  <2>3. Len(s) <= Len(q)
    BY <1>2, <2>1
  <2>4. \A i \in 1 .. Len(s) : q[i] = <<s[i]>>
    BY <2>2
  <2>5. s \in Seq(Names)
    BY <1>1
  <2>6. IsPrefix(s, FlattenSeq(q))
    BY <1>2, <2>3, <2>4, <2>5, FlattenStart
  <2> QED
    BY <1>4, <2>6
<1> QED
  BY <1>5, <1>6

(* What a selected path without backslashes leads keeps its beginning all the
   way to the client. *)
LEMMA PlainSelectionKept ==
  ASSUME NEW p \in Places, NEW s \in Places, IsPrefix(s, p), Plain(s)
  PROVE  IsPrefix(s, Components(ProtocolPath(p)))
<1>1. p \in Paths /\ s \in Paths /\ \A i \in DOMAIN s : s[i] \notin {<<>>, Here}
  BY SelectionPathsAssumption, PlacesArePaths
<1>2. ProtocolPath(p) \in Paths /\ IsPrefix(s, ProtocolPath(p))
  BY <1>1, ProtocolPaths
<1> QED
  BY <1>1, <1>2, ComponentPaths

-----------------------------------------------------------------------------
(* Places at the destination. *)

(* The common prefix of some paths is a prefix of each. *)
LEMMA CommonPrefixLeads ==
  ASSUME NEW S \in SUBSET Paths, NEW p \in S
  PROVE  /\ CommonPrefixOf(S) \in Paths /\ Len(CommonPrefixOf(S)) <= Len(p)
         /\ CommonPrefixOf(S) = SubSeq(p, 1, Len(CommonPrefixOf(S)))
<1> DEFINE one == CHOOSE o \in S : TRUE
           Leads(n) == \A o \in S : IsPrefix(SubSeq(one, 1, n), o)
           Longest(n) == /\ Leads(n)
                         /\ \A m \in n + 1 .. Len(one) : \E o \in S : ~IsPrefix(SubSeq(one, 1, m), o)
           best == CHOOSE n \in 0 .. Len(one) : Longest(n)
<1>1. one \in S /\ one \in Paths /\ Len(one) \in Nat
  <2>1. one \in S
    OBVIOUS
  <2>2. one \in Paths
    BY <2>1
  <2> HIDE DEF one
  <2> QED
    BY <2>1, <2>2 DEF Paths
<1> HIDE DEF one
<1>2. \E n \in 0 .. Len(one) : Longest(n)
  <2> DEFINE T == {t \in 0 .. Len(one) : Leads(Len(one) - t)}
  <2>1. Leads(0)
    <3>1. SubSeq(one, 1, 0) = <<>>
      BY SubSeqEmpty
    <3>2. \A o \in S : IsPrefix(<<>>, o)
      <4> TAKE o \in S
      <4>1. SubSeq(o, 1, 0) = <<>> /\ Len(<<>>) = 0 /\ SubSeq(<<>>, 1, 0) = <<>>
        BY SubSeqEmpty
      <4>2. o \in Paths /\ Len(o) >= 0
        BY DEF Paths
      <4> QED
        BY <4>1, <4>2 DEF IsPrefix
    <3> QED
      BY <3>1, <3>2
  <2> HIDE DEF Leads
  <2>2. Len(one) \in T
    <3>1. Len(one) - Len(one) = 0 /\ Len(one) \in 0 .. Len(one)
      BY <1>1
    <3> QED
      BY <2>1, <3>1
  <2>3. T \in SUBSET Nat /\ IsFiniteSet(T)
    <3>1. IsFiniteSet(0 .. Len(one))
      BY <1>1, FS_Interval
    <3>2. T \subseteq 0 .. Len(one) /\ 0 .. Len(one) \subseteq Nat
      BY <1>1
    <3> HIDE DEF T
    <3>3. IsFiniteSet(T)
      BY <3>1, <3>2, FS_Subset
    <3> QED
      BY <3>2, <3>3
  <2>4. PICK t \in T : \A u \in T : ~(u < t)
    <3> HIDE DEF T
    <3> QED
      BY <2>2, <2>3, LeastOf
  <2> DEFINE n == Len(one) - t
  <2>5. n \in 0 .. Len(one) /\ Leads(n)
    BY <1>1
  <2>6. \A m \in n + 1 .. Len(one) : ~Leads(m)
    <3> TAKE m \in n + 1 .. Len(one)
    <3>1. Len(one) - m \in 0 .. Len(one) /\ Len(one) - m < t /\ Len(one) - (Len(one) - m) = m
      BY <1>1
    <3>2. Len(one) - m \notin T
      BY <2>4, <3>1
    <3> QED
      BY <3>1, <3>2
  <2> QED
    <3> HIDE DEF n
    <3>1. \A m \in n + 1 .. Len(one) : \E o \in S : ~IsPrefix(SubSeq(one, 1, m), o)
      BY <2>6 DEF Leads
    <3> QED
      BY <2>5, <3>1
<1>3. best \in 0 .. Len(one) /\ Leads(best)
  <2> HIDE DEF Leads
  <2> QED
    BY <1>2
<1>4. CommonPrefixOf(S) = SubSeq(one, 1, best)
  BY DEF CommonPrefixOf, one
<1> HIDE DEF best
<1>5. SubSeq(one, 1, best) \in Paths /\ Len(SubSeq(one, 1, best)) = best
  BY <1>1, <1>3, SubSeqProperties DEF Paths
<1>6. IsPrefix(SubSeq(one, 1, best), p)
  BY <1>3
<1>7. SubSeq(SubSeq(one, 1, best), 1, best) = SubSeq(one, 1, best)
  BY <1>5, SubSeqFull DEF Paths
<1> QED
  BY <1>4, <1>5, <1>6, <1>7 DEF IsPrefix

(* The parents of selected paths. *)
LEMMA ParentPaths ==
  ASSUME NEW s \in Places
  PROVE  /\ Parent(s) \in Paths /\ Len(Parent(s)) = Len(s) - 1
         /\ \A j \in 1 .. Len(s) - 1 : Parent(s)[j] = s[j]
<1>1. s \in Paths /\ Len(s) \in Nat \ {0} /\ \A i \in 1 .. Len(s) - 1 : s[i] \in Names
  <2>1. s \in Paths /\ Len(s) > 0
    BY SelectionPathsAssumption, PlacesArePaths
  <2> QED
    BY <2>1 DEF Paths
<1>2. /\ SubSeq(s, 1, Len(s) - 1) \in Seq(Names)
      /\ Len(SubSeq(s, 1, Len(s) - 1)) = IF 1 <= Len(s) - 1 THEN Len(s) - 1 - 1 + 1 ELSE 0
      /\ \A j \in 1 .. Len(s) - 1 - 1 + 1 : SubSeq(s, 1, Len(s) - 1)[j] = s[1 + j - 1]
  BY <1>1, SubSeqProperties
<1>3. \A n \in Nat \ {0} : /\ n - 1 = IF 1 <= n - 1 THEN n - 1 - 1 + 1 ELSE 0
                          /\ n - 1 - 1 + 1 = n - 1 /\ \A j \in Nat : 1 + j - 1 = j
  OBVIOUS
<1>4. Len(SubSeq(s, 1, Len(s) - 1)) = Len(s) - 1
  BY <1>1, <1>2, <1>3
<1>5. \A j \in 1 .. Len(s) - 1 : SubSeq(s, 1, Len(s) - 1)[j] = s[j]
  BY <1>1, <1>2
<1> QED
  BY <1>2, <1>4, <1>5 DEF Parent, Paths

(* What belongs to the selection is below the base, for any selection. *)
LEMMA BaseLeads ==
  ASSUME NEW k \in Paths, selected \subseteq Places, Belongs(k)
  PROVE  /\ Base \in Paths /\ Len(Base) <= Len(Components(k))
         /\ \A i \in 1 .. Len(Base) : Components(k)[i] = Base[i]
<1> DEFINE c == Components(k)
           b == Len(Base)
<1>1. PICK s \in selected : IsPrefix(s, c)
  BY DEF Belongs
<1>2. s \in Paths /\ c \in Paths /\ s \in Places
  BY PlacesArePaths, ComponentPaths
<1>3. /\ Base \in Paths /\ b <= Len(Parent(s))
      /\ Base = SubSeq(Parent(s), 1, b)
  <2> DEFINE S == {Parent(r) : r \in selected}
  <2>1. S \in SUBSET Paths /\ Parent(s) \in S
    BY ParentPaths
  <2> HIDE DEF S
  <2>2. /\ CommonPrefixOf(S) \in Paths /\ Len(CommonPrefixOf(S)) <= Len(Parent(s))
        /\ CommonPrefixOf(S) = SubSeq(Parent(s), 1, Len(CommonPrefixOf(S)))
    BY <2>1, CommonPrefixLeads
  <2> QED
    BY <2>2 DEF Base, S
<1> HIDE DEF c, b
<1>4. b \in Nat /\ Len(s) \in Nat /\ Len(c) \in Nat
  BY <1>2, <1>3 DEF Paths, b
<1>5. Len(s) <= Len(c) /\ SubSeq(s, 1, Len(s)) = SubSeq(c, 1, Len(s))
  BY <1>1 DEF IsPrefix
<1>6. b <= Len(s) - 1 /\ b <= Len(c)
  BY <1>2, <1>3, <1>4, <1>5, ParentPaths
<1>7. ASSUME NEW i \in 1 .. b
      PROVE  c[i] = Base[i]
  <2>1. i \in 1 .. Len(s) - 1 /\ i \in 1 .. Len(s)
    BY <1>4, <1>6
  <2>2. SubSeq(Parent(s), 1, b)[i] = Parent(s)[i]
    BY <1>4
  <2>3. Parent(s)[i] = s[i]
    BY <1>2, <2>1, ParentPaths
  <2>4. SubSeq(s, 1, Len(s))[i] = s[i] /\ SubSeq(c, 1, Len(s))[i] = c[i]
    BY <1>4, <2>1
  <2> QED
    BY <1>3, <1>5, <2>2, <2>3, <2>4
<1>8. \A i \in 1 .. b : c[i] = Base[i]
  BY <1>7
<1> QED
  BY <1>3, <1>6, <1>8 DEF b, c

(* No two names are written as one. *)
LEMMA NamesApart ==
  ASSUME NEW n \in Names, NEW m \in Names,
         SafeDestinationComponent(n) = SafeDestinationComponent(m)
  PROVE  n = m
<1> DEFINE Coded(w) == w \in Reserved \/ w = <<>> \/ Head(w) = Prefix
<1>1. Prefix \in Tokens
  BY DEF Tokens
<1>2. \A w \in Names : /\ Coded(w) => SafeDestinationComponent(w) = <<Prefix>> \o w
                       /\ ~Coded(w) => SafeDestinationComponent(w) = w
  BY DEF SafeDestinationComponent
<1>3. ASSUME NEW v \in Names, NEW w \in Names, ~Coded(w)
      PROVE  <<Prefix>> \o v # w
  <2>1. <<Prefix>> \in Seq(Tokens) /\ v \in Seq(Tokens)
    BY <1>1 DEF Names
  <2>2. Len(<<Prefix>> \o v) >= 1 /\ (<<Prefix>> \o v)[1] = Prefix
    BY <2>1
  <2>3. Head(w) = w[1]
    BY DEF Names
  <2> QED
    BY <1>3, <2>2, <2>3
<1>4. ASSUME <<Prefix>> \o n = <<Prefix>> \o m
      PROVE  n = m
  <2>1. <<Prefix>> \in Seq(Tokens) /\ n \in Seq(Tokens) /\ m \in Seq(Tokens)
    BY <1>1 DEF Names
  <2> QED
    BY <1>4, <2>1, ConcatSimplifications
<1> HIDE DEF Coded
<1> QED
  BY <1>2, <1>3, <1>4

(* Two files of the selection have one place just if they have the same
   components. *)
LEMMA PlacesApart ==
  ASSUME NEW k \in Paths, NEW l \in Paths, selected \subseteq Places, Belongs(k), Belongs(l)
  PROVE  SafeDestinationPath(Rebased(k)) = SafeDestinationPath(Rebased(l))
           <=> Components(k) = Components(l)
<1> DEFINE b == Len(Base)
           c == Components(k)
           d == Components(l)
<1>1. /\ Base \in Paths /\ b <= Len(c) /\ b <= Len(d)
      /\ \A i \in 1 .. b : c[i] = Base[i] /\ d[i] = Base[i]
  BY BaseLeads
<1>2. c \in Paths /\ d \in Paths
  BY ComponentPaths
<1>3. Rebased(k) = SubSeq(c, b + 1, Len(c)) /\ Rebased(l) = SubSeq(d, b + 1, Len(d))
  BY DEF Rebased
<1>4. c = d => SafeDestinationPath(Rebased(k)) = SafeDestinationPath(Rebased(l))
  BY <1>3
<1> HIDE DEF b, c, d
<1>5. b \in Nat /\ Len(c) \in Nat /\ Len(d) \in Nat
  BY <1>1, <1>2 DEF Paths, b
<1>6. /\ DOMAIN Rebased(k) = 1 .. Len(c) - b /\ DOMAIN Rebased(l) = 1 .. Len(d) - b
      /\ \A i \in 1 .. Len(c) - b : Rebased(k)[i] = c[b + i]
      /\ \A i \in 1 .. Len(d) - b : Rebased(l)[i] = d[b + i]
  <2>1. ASSUME NEW e \in Paths, NEW r, b <= Len(e), r = SubSeq(e, b + 1, Len(e))
        PROVE  DOMAIN r = 1 .. Len(e) - b /\ \A i \in 1 .. Len(e) - b : r[i] = e[b + i]
    <3>1. Len(e) \in Nat
      BY DEF Paths
    <3> QED
      BY <1>5, <2>1, <3>1
  <2> QED
    BY <1>1, <1>2, <1>3, <2>1
<1>7. ASSUME SafeDestinationPath(Rebased(k)) = SafeDestinationPath(Rebased(l))
      PROVE  c = d
  <2>1. DOMAIN SafeDestinationPath(Rebased(k)) = DOMAIN Rebased(k)
        /\ DOMAIN SafeDestinationPath(Rebased(l)) = DOMAIN Rebased(l)
    BY DEF SafeDestinationPath
  <2>2. Len(c) = Len(d)
    <3>1. 1 .. Len(c) - b = 1 .. Len(d) - b
      BY <1>6, <1>7, <2>1
    <3>2. Len(c) - b \in Nat /\ Len(d) - b \in Nat
      BY <1>1, <1>5
    <3>3. \A x, y \in Nat : 1 .. x = 1 .. y => x = y
      OBVIOUS
    <3>4. Len(c) - b = Len(d) - b
      BY <3>1, <3>2, <3>3
    <3> QED
      BY <1>5, <3>4
  <2>3. ASSUME NEW i \in 1 .. Len(c)
        PROVE  c[i] = d[i]
    <3>1. CASE i <= b
      <4>1. i \in 1 .. b
        BY <1>5, <3>1
      <4> QED
        BY <1>1, <4>1
    <3>2. CASE ~(i <= b)
      <4> DEFINE j == i - b
      <4>1. j \in 1 .. Len(c) - b /\ j \in 1 .. Len(d) - b /\ b + j = i /\ i \in 1 .. Len(d)
        BY <1>5, <2>2, <3>2
      <4>2. c[i] \in Names /\ d[i] \in Names
        BY <1>2, <4>1 DEF Paths
      <4> HIDE DEF j
      <4>3. SafeDestinationPath(Rebased(k))[j] = SafeDestinationComponent(c[i])
            /\ SafeDestinationPath(Rebased(l))[j] = SafeDestinationComponent(d[i])
        BY <1>6, <4>1 DEF SafeDestinationPath
      <4> QED
        BY <1>7, <4>2, <4>3, NamesApart
    <3> QED
      BY <3>1, <3>2
  <2> QED
    BY <1>2, <2>2, <2>3, SeqEqual DEF Paths
<1> QED
  BY <1>4, <1>7 DEF c, d

-----------------------------------------------------------------------------
(* The inductive invariant. *)

(* The selection is fixed with the first snapshot; nothing is left before. *)
Fixed ==
  /\ selected \subseteq Places /\ todo \subseteq selected
  /\ pc \in {"select", "idle", "scan", "stat", "manifest"}
  /\ pc = "select" => placed = {} /\ ~refused

(* What exists is in directories. *)
Rooted == \A p \in Places : tree[p] # "absent" /\ Len(p) > 1 => tree[Parent(p)] = "dir"

(* Whatever is found and offered has the name of a place, of one below the
   selection unless a walk has left it. *)
Named(k) == \E p \in Places : ProtocolPath(p) = k /\ (strayed \/ p \in Below(selected))
Walked ==
  /\ \A k \in DOMAIN found : Named(k)
  /\ \A k \in manifest : Named(k)
  /\ pc # "manifest" => manifest = {}

(* Every file that was placed is where its path and the selection put it. *)
Stored ==
  \A e \in placed : /\ e[1] \in {ProtocolPath(p) : p \in Places} /\ Belongs(e[1])
                    /\ e[2] = SafeDestinationPath(Rebased(e[1]))

(* While nothing is edited the map holds what is below the scanned paths. *)
Undisturbed == /\ calm /\ \A p \in Places : Ordinary(p) => Plain(p)
               /\ \A s \in selected : LinksOn(s) = {}
Swept ==
  /\ Undisturbed /\ pc \in {"scan", "stat"} =>
       /\ DOMAIN found = {p \in Below(selected \ todo) : Ordinary(p)}
       /\ \A k \in DOMAIN found : found[k] = k
  /\ pc = "stat" => todo = {}

IInv == Rooted /\ Fixed /\ Walked /\ Stored /\ Swept /\ ManifestAccepted /\ ManifestComplete

(* The entries of map i are those of map m or of some of the files. *)
Entries(i, files, m) ==
  \A k \in DOMAIN i : \/ i[k] \in files /\ ProtocolPath(i[k]) = k
                      \/ k \in DOMAIN m /\ i[k] = m[k]

(* What a scan puts into the map: what is on disk below s, under its protocol
   paths, over what was there. *)
LEMMA ScanInserts ==
  ASSUME NEW files \in SUBSET Places, NEW walked \in MapsOf(files), NEW m
  PROVE  /\ DOMAIN Inserted(walked, m) = {ProtocolPath(p) : p \in files} \cup DOMAIN m
         /\ Entries(Inserted(walked, m), files, m)
<1> DEFINE keys == {ProtocolPath(p) : p \in files}
<1>1. walked \in [keys -> files] /\ \A k \in keys : ProtocolPath(walked[k]) = k
  BY DEF MapsOf
<1>2. DOMAIN walked = keys
  BY <1>1
<1> HIDE DEF keys
<1>3. DOMAIN Inserted(walked, m) = keys \cup DOMAIN m
  BY <1>2 DEF Inserted
<1>4. \A k \in keys \cup DOMAIN m :
        Inserted(walked, m)[k] = IF k \in keys THEN walked[k] ELSE m[k]
  BY <1>2 DEF Inserted
<1>5. \A k \in keys \cup DOMAIN m :
        \/ Inserted(walked, m)[k] \in files /\ ProtocolPath(Inserted(walked, m)[k]) = k
        \/ k \in DOMAIN m /\ Inserted(walked, m)[k] = m[k]
  BY <1>1, <1>4
<1> QED
  BY <1>3, <1>5 DEF keys, Entries

(* A path without links on its way leads to itself. *)
LEMMA LocatedDirect ==
  ASSUME NEW p, LinksOn(p) = {}
  PROVE  Located(p) = p
<1> DEFINE Def(f) == f = [n \in 0 .. MaxLinks |-> IF n = 0 THEN p ELSE FollowLink(f[n - 1])]
           followed == CHOOSE f : Def(f)
           e == [n \in 0 .. MaxLinks |-> p]
<1>1. MaxLinks \in Nat /\ FollowLink(p) = p
  BY SelectionPathsAssumption DEF FollowLink
<1>2. Def(e)
  <2>1. \A n \in 0 .. MaxLinks : n # 0 => n - 1 \in 0 .. MaxLinks
    BY <1>1
  <2>2. \A n \in 0 .. MaxLinks : p = IF n = 0 THEN p ELSE FollowLink(e[n - 1])
    BY <1>1, <2>1
  <2> QED
    BY <2>2
<1>3. Def(followed)
  <2> HIDE DEF Def, e
  <2> QED
    BY <1>2
<1>4. Located(p) = followed[MaxLinks]
  BY DEF Located
<1> HIDE DEF followed, e
<1> DEFINE S == {n \in 0 .. MaxLinks : followed[n] = p}
<1>5. 0 \in S
  BY <1>1, <1>3
<1>6. ASSUME NEW k \in 1 .. MaxLinks, k - 1 \in S PROVE k \in S
  <2>1. k \in 0 .. MaxLinks /\ k # 0 /\ followed[k - 1] = p
    BY <1>1, <1>6
  <2>2. followed[k] = FollowLink(followed[k - 1])
    BY <1>3, <2>1
  <2> QED
    BY <1>1, <2>1, <2>2
<1>7. MaxLinks \in S
  <2> HIDE DEF S
  <2> QED
    BY <1>1, <1>5, <1>6, UpTo
<1> QED
  BY <1>4, <1>7

(* On the way to what exists there are directories only. *)
LEMMA DirectoriesAbove ==
  ASSUME Rooted, NEW p \in Places, tree[p] # "absent"
  PROVE  \A i \in 1 .. Len(p) - 1 : SubSeq(p, 1, i) \in Places /\ tree[SubSeq(p, 1, i)] = "dir"
<1> DEFINE n == Len(p)
           At(k) == SubSeq(p, 1, n - k)
           S == {k \in 0 .. n - 1 : At(k) \in Places /\ tree[At(k)] # "absent"
                                    /\ (k > 0 => tree[At(k)] = "dir")}
<1>1. p \in Paths /\ n \in Nat /\ n > 0
  BY PlacesArePaths, SelectionPathsAssumption DEF Paths
<1>2. 0 \in S
  <2>1. At(0) = p
    BY <1>1, SubSeqFull DEF Paths
  <2>2. 0 \in 0 .. n - 1 /\ ~(0 > 0)
    BY <1>1
  <2> HIDE DEF At, n
  <2> QED
    BY <2>1, <2>2
<1>3. ASSUME NEW k \in 1 .. n - 1, k - 1 \in S
      PROVE  k \in S
  <2> DEFINE q == At(k - 1)
  <2>1. q \in Places /\ tree[q] # "absent"
    BY <1>3
  <2>2. Len(q) = n - k + 1 /\ n - k \in 1 .. n /\ n - (k - 1) = n - k + 1
    <3>1. n - (k - 1) \in 1 .. n /\ \A i \in 1 .. n - (k - 1) : p[i] \in Names
      BY <1>1 DEF Paths
    <3> QED
      BY <1>1, <3>1, SubSeqProperties
  <2>3. Parent(q) = SubSeq(p, 1, n - k)
    <3>1. /\ 1 \in 1 .. n /\ n - k + 1 \in 1 .. n /\ n - k \in 1 .. n - k + 1 /\ 1 \in 1 .. n - k + 1
          /\ 1 + (n - k) - 1 = n - k /\ 1 + 1 - 1 = 1 /\ (n - k + 1) - 1 + 1 = n - k + 1
          /\ Len(q) - 1 = n - k
      BY <1>1, <2>2
    <3>2. SubSeq(SubSeq(p, 1, n - k + 1), 1, n - k) = SubSeq(p, 1 + 1 - 1, 1 + (n - k) - 1)
      <4> HIDE DEF n
      <4> QED
        BY <1>1, <3>1, SubSeqOfSubSeq DEF Paths, n
    <3> QED
      BY <2>2, <3>1, <3>2 DEF Parent
  <2>4. Len(q) > 1
    BY <1>1, <2>2
  <2>5. Parent(q) \in Places /\ tree[Parent(q)] = "dir"
    <3> HIDE DEF q
    <3> QED
      BY <2>1, <2>4, SelectionPathsAssumption DEF Rooted
  <2>6. Parent(q) = At(k)
    BY <2>3
  <2>7. k \in 0 .. n - 1
    BY <1>1
  <2>8. At(k) \in Places /\ tree[At(k)] = "dir"
    <3> HIDE DEF q, At
    <3> QED
      BY <2>5, <2>6
  <2> HIDE DEF q, At, n
  <2> QED
    BY <2>7, <2>8
<1>4. \A k \in 0 .. n - 1 : k \in S
  <2>1. n - 1 \in Nat
    BY <1>1
  <2> HIDE DEF S, n
  <2> QED
    BY <1>2, <1>3, <2>1, UpTo
<1>5. ASSUME NEW i \in 1 .. n - 1
      PROVE  SubSeq(p, 1, i) \in Places /\ tree[SubSeq(p, 1, i)] = "dir"
  <2>1. n - i \in 0 .. n - 1 /\ n - i > 0 /\ n - (n - i) = i
    BY <1>1
  <2>2. At(n - i) \in Places /\ tree[At(n - i)] = "dir"
    BY <1>4, <2>1
  <2> QED
    BY <2>1, <2>2
<1> QED
  BY <1>5

(* So what exists has no link on its way, and nothing is below a file. *)
LEMMA OrdinaryDirect ==
  ASSUME Rooted, NEW p \in Places, Ordinary(p)
  PROVE  /\ LinksOn(p) = {} /\ Located(p) = p
         /\ \A s \in Places : IsPrefix(s, p) /\ s # p => tree[s] = "dir"
<1>1. \A i \in 1 .. Len(p) - 1 : SubSeq(p, 1, i) \in Places /\ tree[SubSeq(p, 1, i)] = "dir"
  BY DirectoriesAbove DEF Ordinary
<1>2. LinksOn(p) = {}
  BY <1>1 DEF LinksOn
<1>3. ASSUME NEW s \in Places, IsPrefix(s, p), s # p
      PROVE  tree[s] = "dir"
  <2>1. s \in Paths /\ p \in Paths /\ Len(s) \in Nat /\ Len(p) \in Nat /\ Len(s) > 0
    BY PlacesArePaths, SelectionPathsAssumption DEF Paths
  <2>2. SubSeq(s, 1, Len(s)) = s /\ SubSeq(p, 1, Len(p)) = p
    BY <2>1, SubSeqFull DEF Paths
  <2>3. Len(s) <= Len(p) /\ s = SubSeq(p, 1, Len(s))
    BY <1>3, <2>2 DEF IsPrefix
  <2>4. Len(s) # Len(p)
    BY <1>3, <2>2, <2>3
  <2>5. Len(s) \in 1 .. Len(p) - 1
    BY <2>1, <2>3, <2>4
  <2> QED
    BY <1>1, <2>3, <2>5
<1> QED
  BY <1>2, <1>3, LocatedDirect

(* What leads to the directory a path is in leads to the path. *)
LEMMA ParentPrefix ==
  ASSUME NEW p \in Places, NEW q \in Places, Len(q) > 1, IsPrefix(p, Parent(q))
  PROVE  IsPrefix(p, q) /\ p # q
<1>1. q \in Paths /\ p \in Paths /\ Len(q) \in Nat /\ Len(p) \in Nat /\ Len(p) > 0
  BY PlacesArePaths, SelectionPathsAssumption DEF Paths
<1>2. Len(Parent(q)) = Len(q) - 1
  <2>1. Len(q) - 1 \in Int /\ \A i \in 1 .. Len(q) - 1 : q[i] \in Names
    BY <1>1 DEF Paths
  <2> QED
    BY <1>1, <2>1, SubSeqProperties DEF Parent
<1>3. Len(p) <= Len(q) - 1 /\ SubSeq(p, 1, Len(p)) = SubSeq(Parent(q), 1, Len(p))
  BY <1>2 DEF IsPrefix
<1>4. SubSeq(SubSeq(q, 1, Len(q) - 1), 1, Len(p)) = SubSeq(q, 1 + 1 - 1, 1 + Len(p) - 1)
  <2>1. /\ 1 \in 1 .. Len(q) /\ Len(q) - 1 \in 1 .. Len(q)
        /\ 1 \in 1 .. (Len(q) - 1) - 1 + 1 /\ Len(p) \in 1 .. (Len(q) - 1) - 1 + 1
    BY <1>1, <1>3
  <2> QED
    BY <1>1, <2>1, SubSeqOfSubSeq DEF Paths
<1>5. SubSeq(Parent(q), 1, Len(p)) = SubSeq(q, 1, Len(p))
  <2>1. 1 + 1 - 1 = 1 /\ 1 + Len(p) - 1 = Len(p)
    BY <1>1
  <2> QED
    BY <1>4, <2>1 DEF Parent
<1>6. Len(p) <= Len(q) /\ Len(p) # Len(q)
  BY <1>1, <1>3
<1>7. SubSeq(p, 1, Len(p)) = SubSeq(q, 1, Len(p))
  BY <1>3, <1>5
<1> QED
  BY <1>6, <1>7 DEF IsPrefix

(* IsPrefix is transitive on places. *)
LEMMA PrefixOfPrefix ==
  ASSUME NEW t \in Places, NEW s \in Places, NEW p \in Places, IsPrefix(t, s), IsPrefix(s, p)
  PROVE  IsPrefix(t, p)
<1>1. /\ t \in Paths /\ s \in Paths /\ p \in Paths
      /\ Len(t) \in Nat /\ Len(s) \in Nat /\ Len(p) \in Nat /\ Len(t) > 0
  BY PlacesArePaths, SelectionPathsAssumption DEF Paths
<1>2. /\ Len(t) <= Len(s) /\ Len(s) <= Len(p) /\ SubSeq(t, 1, Len(t)) = SubSeq(s, 1, Len(t))
      /\ SubSeq(s, 1, Len(s)) = SubSeq(p, 1, Len(s))
  BY DEF IsPrefix
<1>3. s = SubSeq(p, 1, Len(s))
  BY <1>1, <1>2, SubSeqFull DEF Paths
<1>4. SubSeq(SubSeq(p, 1, Len(s)), 1, Len(t)) = SubSeq(p, 1 + 1 - 1, 1 + Len(t) - 1)
  <2>1. /\ 1 \in 1 .. Len(p) /\ Len(s) \in 1 .. Len(p)
        /\ 1 \in 1 .. Len(s) - 1 + 1 /\ Len(t) \in 1 .. Len(s) - 1 + 1
    BY <1>1, <1>2
  <2> QED
    BY <1>1, <2>1, SubSeqOfSubSeq DEF Paths
<1>5. SubSeq(s, 1, Len(t)) = SubSeq(p, 1, Len(t))
  <2>1. 1 + 1 - 1 = 1 /\ 1 + Len(t) - 1 = Len(t)
    BY <1>1
  <2> QED
    BY <1>3, <1>4, <2>1
<1> QED
  BY <1>1, <1>2, <1>5 DEF IsPrefix

(* Before anything is selected the invariant holds. *)
LEMMA InitIInv == Init => IInv
<1> SUFFICES ASSUME Init PROVE IInv
  OBVIOUS
<1>1. DOMAIN <<>> = {}
  OBVIOUS
<1>2. /\ found = <<>> /\ manifest = {} /\ placed = {} /\ selected = {} /\ todo = {}
      /\ pc = "select" /\ refused = FALSE
  BY DEF Init
<1>3. Fixed /\ Walked /\ Stored /\ Swept
  BY <1>1, <1>2 DEF Fixed, Walked, Stored, Swept
<1>4. Rooted
  BY DEF Init, Rooted
<1> QED
  BY <1>2, <1>3, <1>4 DEF IInv, ManifestAccepted, ManifestComplete

(* Whoever changes the directory puts things into directories, and what is below
   a path goes with it. *)
LEMMA RootedStep == IInv /\ [Next]_vars => Rooted'
<1> SUFFICES ASSUME Rooted, [Next]_vars PROVE Rooted'
  BY DEF IInv
<1>1. CASE \E p \in Places : Edit(p)
  <2>1. PICK p \in Places : Edit(p)
    BY <1>1
  <2>2. PICK thing \in Things(p) :
          tree' = [q \in Places |-> IF q = p THEN thing[1]
                                   ELSE IF IsPrefix(p, q) THEN "absent" ELSE tree[q]]
    BY <2>1 DEF Edit
  <2>3. Len(p) > 1 => tree[Parent(p)] = "dir"
    BY <2>1 DEF Edit
  <2>4. ASSUME NEW q \in Places, tree'[q] # "absent", Len(q) > 1
        PROVE  tree'[Parent(q)] = "dir"
    <3>1. Parent(q) \in Places
      BY <2>4, SelectionPathsAssumption
    <3>2. IsPrefix(p, Parent(q)) => IsPrefix(p, q) /\ p # q
      BY <2>4, ParentPrefix
    <3>3. IsPrefix(p, p)
      BY PlacesArePaths DEF IsPrefix, Paths
    <3>4. q = p \/ ~IsPrefix(p, q)
      BY <2>2, <2>4
    <3>5. ~IsPrefix(p, Parent(q)) /\ Parent(q) # p
      BY <3>2, <3>3, <3>4
    <3>6. tree[Parent(q)] = "dir"
      BY <2>2, <2>3, <2>4, <3>4 DEF Rooted
    <3> QED
      BY <2>2, <3>1, <3>5, <3>6
  <2> QED
    BY <2>4 DEF Rooted
<1>2. CASE \E p \in Places : Select(p) \/ ScanSelected(p)
  BY <1>2 DEF Select, ScanSelected, shared, Rooted
<1>3. CASE CreateSnapshot \/ StatFound \/ Rebase \/ UNCHANGED vars
  BY <1>3 DEF CreateSnapshot, StatFound, Rebase, vars, shared, Rooted
<1> QED
  BY <1>1, <1>2, <1>3 DEF Next

(* Only Select changes the selection, and before there are places. *)
LEMMA FixedStep == IInv /\ [Next]_vars => Fixed'
<1> SUFFICES ASSUME Fixed, [Next]_vars PROVE Fixed'
  BY DEF IInv
<1> USE DEF Fixed
<1>1. CASE \E p \in Places : Select(p)
  BY <1>1 DEF Select
<1>2. CASE \E p \in Places : ScanSelected(p)
  BY <1>2 DEF ScanSelected
<1>3. CASE \E p \in Places : Edit(p)
  BY <1>3 DEF Edit
<1>4. CASE CreateSnapshot
  BY <1>4 DEF CreateSnapshot
<1>5. CASE StatFound
  BY <1>5 DEF StatFound
<1>6. CASE Rebase
  BY <1>6 DEF Rebase
<1>7. CASE UNCHANGED vars
  BY <1>7 DEF vars
<1> QED
  BY <1>1, <1>2, <1>3, <1>4, <1>5, <1>6, <1>7 DEF Next

(* A scan finds what is below a selected path; the look at the metadata leaves
   some of it out. *)
LEMMA WalkedStep == IInv /\ [Next]_vars => Walked'
<1> SUFFICES ASSUME Fixed, Walked, [Next]_vars PROVE Walked'
  BY DEF IInv
<1> USE DEF Named
<1>1. CASE \E p \in Places : Select(p)
  <2>1. found' = found /\ manifest' = manifest /\ pc' = pc /\ strayed' = strayed
        /\ selected \subseteq selected'
    BY <1>1 DEF Select
  <2>2. Below(selected) \subseteq Below(selected)'
    BY <2>1 DEF Below
  <2> QED
    BY <2>1, <2>2 DEF Walked
<1>2. ASSUME NEW s \in Places, ScanSelected(s)
      PROVE  Walked'
  <2> DEFINE at == Located(s)
  <2>1. /\ s \in todo /\ selected' = selected /\ manifest' = manifest /\ manifest = {}
        /\ pc' # "manifest"
    BY <1>2 DEF ScanSelected, Walked
  <2>2. CASE at \in Places /\ Ordinary(at)
    <3>1. PICK walked \in WalksOf(s, at) : found' = Inserted(walked, found)
      BY <1>2, <2>2 DEF ScanSelected
    <3>2. strayed' = (strayed \/ (tree[at] = "dir" /\ at \notin Below(selected)))
      BY <1>2, <2>2 DEF ScanSelected
    <3>3. \A k \in DOMAIN walked : Named(k)'
      <4>1. CASE tree[at] = "dir"
        <5> DEFINE here == {p \in Below({at}) : Ordinary(p)}
        <5>1. walked \in MapsOf(here) /\ here \subseteq Below({at})
          BY <3>1, <4>1 DEF WalksOf
        <5>2. \A k \in DOMAIN walked : \E p \in Below({at}) : ProtocolPath(p) = k
          BY <5>1 DEF MapsOf
        <5>3. ASSUME NEW p \in Below({at})
              PROVE  p \in Places /\ (strayed' \/ p \in Below(selected))
          <6>1. p \in Places /\ IsPrefix(at, p)
            BY DEF Below
          <6>2. CASE at \in Below(selected)
            <7>1. PICK t \in selected : IsPrefix(t, at)
              BY <6>2 DEF Below
            <7>2. t \in Places
              BY DEF Fixed
            <7>3. IsPrefix(t, p)
              BY <2>2, <6>1, <7>1, <7>2, PrefixOfPrefix
            <7> QED
              BY <6>1, <7>3 DEF Below
          <6>3. CASE at \notin Below(selected)
            BY <3>2, <4>1, <6>1, <6>3
          <6> QED
            BY <6>2, <6>3
        <5>4. Below(selected)' = Below(selected)
          BY <2>1 DEF Below
        <5> QED
          BY <5>2, <5>3, <5>4
      <4>2. CASE tree[at] # "dir"
        <5>1. DOMAIN walked = {ProtocolPath(s)}
          BY <3>1, <4>2 DEF WalksOf
        <5>2. s \in Below(selected)'
          <6>1. IsPrefix(s, s) /\ s \in selected'
            BY <2>1, PlacesArePaths DEF IsPrefix, Paths, Fixed
          <6> QED
            BY <6>1 DEF Below
        <5> QED
          BY <5>1, <5>2
      <4> QED
        BY <4>1, <4>2
    <3>4. \A k : Named(k) => Named(k)'
      <4>1. strayed => strayed'
        BY <3>2
      <4>2. Below(selected)' = Below(selected)
        BY <2>1 DEF Below
      <4> QED
        BY <4>1, <4>2
    <3>5. DOMAIN found' = DOMAIN walked \cup DOMAIN found
      BY <3>1 DEF Inserted
    <3> HIDE DEF Named
    <3>6. \A k \in DOMAIN found' : Named(k)'
      BY <3>3, <3>4, <3>5 DEF Walked
    <3> QED
      BY <2>1, <3>6 DEF Walked
  <2>3. CASE ~(at \in Places /\ Ordinary(at))
    <3>1. found' = <<>> /\ DOMAIN <<>> = {}
      BY <1>2, <2>3 DEF ScanSelected
    <3> QED
      BY <2>1, <3>1 DEF Walked
  <2> QED
    BY <2>2, <2>3
<1>3. CASE \E p \in Places : Edit(p)
  <2>1. UNCHANGED <<found, manifest, selected, strayed, pc>>
    BY <1>3 DEF Edit
  <2> QED
    BY <2>1 DEF Walked, Below
<1>4. CASE CreateSnapshot
  <2>1. found' = <<>> /\ DOMAIN <<>> = {} /\ manifest' = manifest /\ manifest = {}
    BY <1>4 DEF CreateSnapshot, Walked
  <2> QED
    BY <2>1 DEF Walked
<1>5. CASE StatFound
  <2>1. /\ found' = <<>> /\ DOMAIN <<>> = {} /\ UNCHANGED <<selected, strayed>>
        /\ \A k \in manifest' : k \in DOMAIN found
        /\ pc' # "manifest" => manifest' = {}
    BY <1>5 DEF StatFound
  <2>2. Below(selected)' = Below(selected)
    BY <2>1 DEF Below
  <2> QED
    BY <2>1, <2>2 DEF Walked
<1>6. CASE Rebase
  <2>1. UNCHANGED <<found, selected, strayed>> /\ manifest' = {}
    BY <1>6 DEF Rebase
  <2>2. Below(selected)' = Below(selected)
    BY <2>1 DEF Below
  <2> QED
    BY <2>1, <2>2 DEF Walked
<1>7. CASE UNCHANGED vars
  <2>1. UNCHANGED <<found, manifest, selected, strayed, pc>>
    BY <1>7 DEF vars
  <2> QED
    BY <2>1 DEF Walked, Below
<1> QED
  BY <1>1, <1>2, <1>3, <1>4, <1>5, <1>6, <1>7 DEF Next

(* The base, and with it every place, depends on the selection alone. *)
LEMMA StoredStep == IInv /\ [Next]_vars => Stored'
<1> SUFFICES ASSUME Fixed, Walked, Stored, [Next]_vars PROVE Stored'
  BY DEF IInv
<1>1. ASSUME selected' = selected
      PROVE  \A k : /\ Belongs(k)' <=> Belongs(k)
                    /\ SafeDestinationPath(Rebased(k))' = SafeDestinationPath(Rebased(k))
  BY <1>1 DEF Belongs, Rebased, Base
<1>2. ASSUME selected' = selected, placed' = placed
      PROVE  Stored'
  BY <1>1, <1>2 DEF Stored
<1>3. CASE \E p \in Places : Select(p)
  <2>1. placed' = {}
    BY <1>3 DEF Select, Fixed
  <2> QED
    BY <2>1 DEF Stored
<1>4. CASE Rebase
  <2>1. selected' = selected
    BY <1>4 DEF Rebase
  <2>2. CASE \A k \in manifest : Valid(k) /\ Belongs(k)
    <3> DEFINE new == {<<k, SafeDestinationPath(Rebased(k))>> : k \in manifest}
    <3>1. placed' = placed \cup new
      BY <1>4, <2>2 DEF Rebase
    <3>2. \A e \in new : /\ e[1] \in {ProtocolPath(p) : p \in Places} /\ Belongs(e[1])
                         /\ e[2] = SafeDestinationPath(Rebased(e[1]))
      <4>1. \A k \in manifest : k \in {ProtocolPath(p) : p \in Places}
        BY DEF Walked, Named
      <4>2. \A e \in new : e[1] \in manifest /\ e[2] = SafeDestinationPath(Rebased(e[1]))
        OBVIOUS
      <4> HIDE DEF new
      <4> QED
        BY <2>2, <4>1, <4>2
    <3> HIDE DEF new
    <3>3. \A e \in placed' : /\ e[1] \in {ProtocolPath(p) : p \in Places} /\ Belongs(e[1])
                             /\ e[2] = SafeDestinationPath(Rebased(e[1]))
      BY <3>1, <3>2 DEF Stored
    <3> QED
      BY <1>1, <2>1, <3>3 DEF Stored
  <2>3. CASE ~\A k \in manifest : Valid(k) /\ Belongs(k)
    <3>1. placed' = placed
      BY <1>4, <2>3 DEF Rebase
    <3> QED
      BY <1>2, <2>1, <3>1
  <2> QED
    BY <2>2, <2>3
<1>5. CASE \E p \in Places : ScanSelected(p) \/ Edit(p)
  BY <1>2, <1>5 DEF ScanSelected, Edit
<1>6. CASE CreateSnapshot \/ StatFound \/ UNCHANGED vars
  BY <1>2, <1>6 DEF CreateSnapshot, StatFound, vars
<1> QED
  BY <1>3, <1>4, <1>5, <1>6 DEF Next

(* A manifest with a path outside the selection is refused; below a selected
   path without backslashes nothing is outside. *)
LEMMA AcceptedStep == IInv /\ [Next]_vars => ManifestAccepted'
<1> SUFFICES ASSUME Fixed, Walked, ManifestAccepted, [Next]_vars PROVE ManifestAccepted'
  BY DEF IInv
<1>1. ASSUME selected' = selected, refused' = refused, strayed => strayed'
      PROVE  ManifestAccepted'
  BY <1>1 DEF ManifestAccepted, Below
<1>2. CASE \E p \in Places : Select(p)
  BY <1>2 DEF Select, Fixed, ManifestAccepted
<1>3. CASE Rebase
  <2>1. selected' = selected /\ strayed' = strayed
    BY <1>3 DEF Rebase
  <2>2. CASE \A k \in manifest : Valid(k) /\ Belongs(k)
    BY <1>1, <1>3, <2>1, <2>2 DEF Rebase
  <2>3. CASE ~\A k \in manifest : Valid(k) /\ Belongs(k)
    <3>1. PICK k \in manifest : ~Valid(k) \/ ~Belongs(k)
      BY <2>3
    <3>2. PICK p \in Places : ProtocolPath(p) = k /\ (strayed \/ p \in Below(selected))
      BY DEF Walked, Named
    <3>3. CASE strayed
      BY <2>1, <3>3 DEF ManifestAccepted
    <3>4. CASE ~strayed
      <4>1. PICK s \in selected : IsPrefix(s, p)
        BY <3>2, <3>4 DEF Below
      <4>2. CASE ~Plain(s)
        BY <2>1, <4>2 DEF ManifestAccepted
      <4>3. CASE Plain(s)
        <5>1. IsPrefix(s, Components(k))
          BY <3>2, <4>1, <4>3, PlainSelectionKept DEF Fixed
        <5>2. ~Valid(ProtocolPath(p))
          BY <3>1, <3>2, <5>1 DEF Belongs
        <5>3. p \in Below({s})
          BY <4>1 DEF Below
        <5> QED
          BY <2>1, <5>2, <5>3 DEF ManifestAccepted, Below
      <4> QED
        BY <4>2, <4>3
    <3> QED
      BY <3>3, <3>4
  <2> QED
    BY <2>2, <2>3
<1>4. CASE \E p \in Places : ScanSelected(p)
  <2>1. selected' = selected /\ refused' = refused
    BY <1>4 DEF ScanSelected
  <2>2. strayed => strayed'
    BY <1>4 DEF ScanSelected
  <2> QED
    BY <1>1, <2>1, <2>2
<1>5. CASE \E p \in Places : Edit(p)
  BY <1>1, <1>5 DEF Edit
<1>6. CASE CreateSnapshot
  BY <1>6 DEF CreateSnapshot, ManifestAccepted
<1>7. CASE StatFound \/ UNCHANGED vars
  BY <1>1, <1>7 DEF StatFound, vars
<1> QED
  BY <1>2, <1>3, <1>4, <1>5, <1>6, <1>7 DEF Next

(* Without edits and backslashes, what a scan adds is what is below its path. *)
LEMMA SweptStep == IInv /\ [Next]_vars => Swept'
<1> SUFFICES ASSUME Rooted, Fixed, Swept, [Next]_vars PROVE Swept'
  BY DEF IInv
<1>1. ASSUME pc' \notin {"scan", "stat"}
      PROVE  Swept'
  BY <1>1 DEF Swept
<1>2. CASE \E p \in Places : Select(p)
  BY <1>1, <1>2 DEF Select
<1>3. ASSUME NEW s \in Places, ScanSelected(s)
      PROVE  Swept'
  <2> DEFINE here == {p \in Below({s}) : Ordinary(p)}
  <2>1. CASE pc' = "idle"
    BY <1>1, <2>1
  <2>2. CASE pc' # "idle"
    <3>1. /\ pc = "scan" /\ s \in todo /\ todo' = todo \ {s} /\ selected' = selected
          /\ tree' = tree /\ calm' = calm /\ (pc' = "stat" => todo' = {})
      BY <1>3, <2>2 DEF ScanSelected, shared
    <3>3. SUFFICES ASSUME Undisturbed
                   PROVE  /\ DOMAIN found' = {p \in Below(selected \ todo') : Ordinary(p)}
                          /\ \A k \in DOMAIN found' : found'[k] = k
      <4>1. Undisturbed' = Undisturbed
        BY <3>1 DEF Undisturbed, Ordinary, LinksOn
      <4>2. {p \in Below(selected \ todo) : Ordinary(p)}' = {p \in Below(selected \ todo') : Ordinary(p)}
        BY <3>1 DEF Below, Ordinary
      <4> QED
        BY <3>1, <4>1, <4>2 DEF Swept
    <3>12. Located(s) = s
      BY <3>1, <3>3, LocatedDirect DEF Undisturbed, Fixed
    <3>13. Ordinary(s) /\ \E walked \in WalksOf(s, s) : found' = Inserted(walked, found)
      BY <1>3, <2>2, <3>12 DEF ScanSelected
    <3>2. PICK walked \in MapsOf(here) : found' = Inserted(walked, found)
      <4>1. CASE tree[s] = "dir"
        BY <3>13, <4>1 DEF WalksOf
      <4>2. CASE tree[s] # "dir"
        <5>1. here = {s}
          <6>1. IsPrefix(s, s)
            BY PlacesArePaths DEF IsPrefix, Paths
          <6>2. s \in here
            BY <3>13, <6>1 DEF Below
          <6>3. \A p \in here : p = s
            <7> TAKE p \in here
            <7>1. p \in Places /\ Ordinary(p) /\ IsPrefix(s, p)
              BY DEF Below
            <7> QED
              BY <4>2, <7>1, OrdinaryDirect
          <6> QED
            BY <6>2, <6>3
        <5>2. [k \in {ProtocolPath(s)} |-> s] \in MapsOf({s})
          BY DEF MapsOf
        <5>3. WalksOf(s, s) = {[k \in {ProtocolPath(s)} |-> s]}
          BY <4>2 DEF WalksOf
        <5> HIDE DEF here
        <5> QED
          BY <3>13, <5>1, <5>2, <5>3
      <4> QED
        BY <4>1, <4>2
    <3>4. \A p \in here : p \in Places /\ ProtocolPath(p) = p
      <4> TAKE p \in here
      <4>1. p \in Places /\ Plain(p) /\ p \in Paths
        BY <3>3, PlacesArePaths DEF Undisturbed, Below
      <4>2. IsPrefix(p, p)
        BY <4>1 DEF IsPrefix, Paths
      <4> QED
        BY <4>1, <4>2, ProtocolPaths
    <3>5. {ProtocolPath(p) : p \in here} = here
      <4> HIDE DEF here
      <4> QED
        BY <3>4
    <3>6. /\ DOMAIN found = {p \in Below(selected \ todo) : Ordinary(p)}
          /\ \A k \in DOMAIN found : found[k] = k
      BY <3>1, <3>3 DEF Swept
    <3>7. here \in SUBSET Places
      BY DEF Below
    <3>8. here \cup {p \in Below(selected \ todo) : Ordinary(p)}
            = {p \in Below(selected \ todo') : Ordinary(p)}
      <4>1. selected \ todo' = (selected \ todo) \cup {s}
        BY <3>1 DEF Fixed
      <4> QED
        BY <4>1 DEF Below
    <3> HIDE DEF here
    <3>9. DOMAIN found' = here \cup DOMAIN found
      BY <3>2, <3>5, <3>7, ScanInserts
    <3>10. Entries(found', here, found)
      BY <3>2, <3>7, ScanInserts
    <3>11. \A k \in DOMAIN found' : found'[k] = k
      BY <3>4, <3>6, <3>10 DEF Entries
    <3> QED
      BY <3>6, <3>8, <3>9, <3>11
  <2> QED
    BY <2>1, <2>2
<1>4. CASE \E p \in Places : Edit(p)
  BY <1>4 DEF Edit, Swept, Undisturbed
<1>5. CASE CreateSnapshot
  <2>1. /\ found' = <<>> /\ DOMAIN <<>> = {} /\ pc' = "scan"
        /\ todo' = selected /\ selected' = selected
    BY <1>5 DEF CreateSnapshot
  <2>2. Below(selected \ todo)' = {}
    BY <2>1 DEF Below
  <2> QED
    BY <2>1, <2>2 DEF Swept
<1>6. CASE StatFound \/ Rebase
  BY <1>1, <1>6 DEF StatFound, Rebase
<1>7. CASE UNCHANGED vars
  BY <1>7 DEF vars, shared, Swept, Undisturbed, Ordinary, LinksOn, Below
<1> QED
  BY <1>2, <1>3, <1>4, <1>5, <1>6, <1>7 DEF Next

(* The manifest of an undisturbed snapshot is all the scans have found. *)
LEMMA CompleteStep == IInv /\ [Next]_vars => ManifestComplete'
<1> SUFFICES ASSUME Rooted, Fixed, Swept, ManifestComplete, [Next]_vars PROVE ManifestComplete'
  BY DEF IInv
<1>1. ASSUME pc' # "manifest"
      PROVE  ManifestComplete'
  BY <1>1 DEF ManifestComplete
<1>2. CASE \E p \in Places : Select(p)
  BY <1>1, <1>2 DEF Select
<1>3. CASE \E p \in Places : ScanSelected(p)
  BY <1>1, <1>3 DEF ScanSelected
<1>4. CASE \E p \in Places : Edit(p)
  BY <1>4 DEF Edit, ManifestComplete
<1>5. CASE CreateSnapshot \/ Rebase
  BY <1>1, <1>5 DEF CreateSnapshot, Rebase
<1>6. CASE StatFound
  <2>1. pc = "stat" /\ selected' = selected /\ tree' = tree /\ calm' = calm
    BY <1>6 DEF StatFound, shared
  <2>2. SUFFICES ASSUME Undisturbed, pc' = "manifest"
                 PROVE  manifest' = {p \in Below(selected) : Ordinary(p)}
    BY <2>1 DEF ManifestComplete, Undisturbed, Ordinary, LinksOn, Below
  <2>3. /\ DOMAIN found = {p \in Below(selected) : Ordinary(p)}
        /\ \A k \in DOMAIN found : found[k] = k
    <3>1. todo = {} /\ selected \ todo = selected
      BY <2>1 DEF Swept
    <3> QED
      BY <2>1, <2>2, <3>1 DEF Swept
  <2>4. \A k \in DOMAIN found : Located(found[k]) = k /\ k \in Places /\ Ordinary(k)
    BY <2>3, OrdinaryDirect DEF Below
  <2>5. manifest' = DOMAIN found
    <3> DEFINE inside == {k \in DOMAIN found : Located(found[k]) \in Places}
    <3>1. PICK there \in SUBSET (DOMAIN found \ inside) :
            manifest' = {k \in inside : Ordinary(Located(found[k]))} \cup there
      BY <1>6, <2>2 DEF StatFound
    <3>2. inside = DOMAIN found
      BY <2>4
    <3> HIDE DEF inside
    <3> QED
      BY <2>4, <3>1, <3>2
  <2> QED
    BY <2>3, <2>5
<1>7. CASE UNCHANGED vars
  BY <1>7 DEF vars, shared, ManifestComplete, Ordinary, LinksOn, Below
<1> QED
  BY <1>2, <1>3, <1>4, <1>5, <1>6, <1>7 DEF Next

(* The invariant holds in every behaviour. *)
LEMMA IInvHolds == Spec => []IInv
<1>1. IInv /\ [Next]_vars => IInv'
  BY RootedStep, FixedStep, WalkedStep, StoredStep, AcceptedStep, SweptStep, CompleteStep DEF IInv
<1> QED
  BY InitIInv, <1>1, PTL DEF Spec

-----------------------------------------------------------------------------
(* The theorems. *)

(* Over all runs of a task, for any shared directory, selection and edits, a
   file has one place and a place one file: the encoding of names keeps names
   apart, and the base depends on the selection alone. *)
THEOREM PlacesUnique == Spec => []OnePlacePerFile
<1>1. IInv => OnePlacePerFile
  <2> SUFFICES ASSUME Fixed, Stored, NEW e \in placed, NEW f \in placed
               PROVE  Components(e[1]) = Components(f[1]) <=> e[2] = f[2]
    BY DEF IInv, OnePlacePerFile
  <2>1. \A p \in Places : ProtocolPath(p) \in Paths
    <3> TAKE p \in Places
    <3>1. p \in Paths /\ IsPrefix(p, p)
      <4>1. p \in Paths
        BY PlacesArePaths
      <4> QED
        BY <4>1 DEF IsPrefix, Paths
    <3> QED
      BY <3>1, ProtocolPaths
  <2>2. /\ e[1] \in Paths /\ Belongs(e[1]) /\ e[2] = SafeDestinationPath(Rebased(e[1]))
        /\ f[1] \in Paths /\ Belongs(f[1]) /\ f[2] = SafeDestinationPath(Rebased(f[1]))
    BY <2>1 DEF Stored
  <2>3. selected \subseteq Places
    BY DEF Fixed
  <2>4. SafeDestinationPath(Rebased(e[1])) = SafeDestinationPath(Rebased(f[1]))
          <=> Components(e[1]) = Components(f[1])
    BY <2>2, <2>3, PlacesApart
  <2> QED
    BY <2>2, <2>4
<1> QED
  BY <1>1, IInvHolds, PTL

(* For any shared directory, links in it and edits: the client refuses no
   manifest made for its selection, but for backslashes in names and for
   directories of the selection that are reached through a link that leads out
   of it. *)
THEOREM ManifestsAccepted == Spec => []ManifestAccepted
<1>1. IInv => ManifestAccepted
  BY DEF IInv
<1> QED
  BY <1>1, IInvHolds, PTL

(* However the selected paths overlap and in whatever order they are scanned,
   the manifest of an undisturbed snapshot, with no link on the way to the
   selection, is what is below them. *)
THEOREM ManifestsComplete == Spec => []ManifestComplete
<1>1. IInv => ManifestComplete
  BY DEF IInv
<1> QED
  BY <1>1, IInvHolds, PTL
=============================================================================
