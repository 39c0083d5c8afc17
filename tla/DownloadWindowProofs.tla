------------------------ MODULE DownloadWindowProofs ------------------------
(***************************************************************************)
(* The safety of DownloadWindow for every manifest, every size, every      *)
(* buffer and every number of streams.                                     *)
(*                                                                         *)
(* First the arithmetic of the limits, then what build_download_work makes *)
(* of a manifest (split is a recursive function: that a run of it exists   *)
(* and what it keeps at each file is shown with UpTo, from the             *)
(* well-founded order of the library).  Then the inductive invariant       *)
(*   Still   types, the work that was made, how far the files of an item   *)
(*           can be,                                                       *)
(*   Counts  each permit is free or has one holder; what has been counted, *)
(*   Asked   no batch is fetched that asks for nothing,                    *)
(* one lemma per action and part, and the theorems.  Placed holds where no *)
(* two files may end up under one name.  The last part shows what the end  *)
(* of a run needs besides fairness: that somebody can step until then, and *)
(* that the steps run out.                                                 *)
(***************************************************************************)
EXTENDS DownloadWindow, TLAPS, FiniteSetTheorems, WellFoundedInduction, SequenceTheorems

-----------------------------------------------------------------------------
(* The limits of run_task. *)

(* The window is as wide as its clamp allows. *)
LEMMA FileLimitBounds == FileLimit \in Nat \ {0} /\ FileLimit <= LimitHigh
  BY DownloadWindowAssumption DEF FileLimit, Clamp

(* A product with a quotient does not exceed what was divided. *)
LEMMA QuotientFits ==
  ASSUME NEW m \in Nat, NEW d \in Nat \ {0}
  PROVE  m \div d \in Nat /\ (m \div d) * d <= m
  OBVIOUS

(* A quotient that is at least s leaves room for s in each share. *)
LEMMA ShareHolds ==
  ASSUME NEW m \in Nat, NEW d \in Nat \ {0}, NEW s \in Nat, s * d <= m
  PROVE  s <= m \div d
<1>1. m \div d \in Nat /\ m < ((m \div d) + 1) * d
  OBVIOUS
<1>2. SUFFICES ASSUME m \div d < s PROVE FALSE
  BY <1>1
<1>3. (m \div d) + 1 <= s
  BY <1>1, <1>2
<1>4. ((m \div d) + 1) * d <= s * d
  BY <1>1, <1>3
<1> QED
  BY <1>1, <1>4

(* Whatever buffer and however many streams are set, the batches of a full
   window fit into the half of the buffer that is theirs: run_task's division
   by file_limit with its clamp from below never gives more than there is. *)
THEOREM BatchesFitBudget == BatchTarget * FileLimit <= SmallFileBudget
<1> DEFINE share == SmallFileBudget \div FileLimit
<1>1. SmallFileBudget \in Nat /\ FileLimit \in Nat \ {0} /\ FileLimit <= LimitHigh
  BY FileLimitBounds, DownloadWindowAssumption DEF SmallFileBudget
<1>2. share \in Nat /\ share * FileLimit <= SmallFileBudget
  BY <1>1, QuotientFits
<1>3. CASE SmallFileBudget = 0
  BY <1>1, <1>3 DEF BatchTarget
<1>4. CASE SmallFileBudget # 0
  <2>1. Memory > 0 /\ SmallFile * LimitHigh <= SmallFileBudget
    BY <1>4, DownloadWindowAssumption DEF SmallFileBudget
  <2>2. SmallFile \in Nat /\ LimitHigh \in Nat /\ BatchBytes \in Nat
    BY DownloadWindowAssumption
  <2>3. SmallFile * FileLimit <= SmallFile * LimitHigh
    BY <1>1, <2>2
  <2>4. SmallFile * FileLimit <= SmallFileBudget
    <3> HIDE DEF share
    <3> DEFINE x == SmallFile * FileLimit
               y == SmallFile * LimitHigh
    <3>1. x \in Int /\ y \in Int
      BY <1>1, <2>2
    <3>2. x <= y /\ y <= SmallFileBudget
      BY <2>1, <2>3
    <3> HIDE DEF x, y
    <3>3. x <= SmallFileBudget
      BY <1>1, <3>1, <3>2
    <3> QED
      BY <3>3 DEF x
  <2>5. SmallFile <= share
    BY <1>1, <2>2, <2>4, ShareHolds
  <2>6. BatchTarget \in Nat /\ BatchTarget <= share
    BY <1>2, <1>4, <2>2, <2>5, DownloadWindowAssumption DEF BatchTarget, Clamp
  <2>7. BatchTarget * FileLimit <= share * FileLimit
    <3> HIDE DEF share
    <3> QED
      BY <1>1, <1>2, <2>6
  <2> QED
    <3> DEFINE x == BatchTarget * FileLimit
               y == share * FileLimit
    <3>1. x \in Int /\ y \in Int
      BY <1>1, <1>2, <2>6
    <3>2. x <= y /\ y <= SmallFileBudget
      BY <1>2, <2>7
    <3> HIDE DEF x, y
    <3>3. x <= SmallFileBudget
      BY <1>1, <3>1, <3>2
    <3> QED
      BY <3>3 DEF x
<1> QED
  BY <1>3, <1>4

-----------------------------------------------------------------------------
(* Recursion without RECURSIVE: least elements, steps up to n, iterated functions. *)

(* A finite, non-empty set of numbers has a least element. *)
LEMMA LeastOf ==
  ASSUME NEW S \in SUBSET Nat, IsFiniteSet(S), S # {}
  PROVE  \E n \in S : \A m \in S : ~(m < n)
<1> DEFINE below(n) == {m \in S : m < n}
           T == {below(n) : n \in S}
<1>1. IsWellFoundedOn(StrictSubsetOrdering(S), FiniteSubsetsOf(S))
  BY FS_StrictSubsetOrderingWellFounded
<1>2. T \subseteq FiniteSubsetsOf(S) /\ T # {}
  <2>1. FiniteSubsetsOf(S) = SUBSET S
    BY FS_FiniteSubsetsOfFinite
  <2>2. T \subseteq SUBSET S /\ T # {}
    BY Zenon
  <2> QED
    BY <2>1, <2>2, Zenon
<1>3. PICK X \in T : \A Y \in T : ~(<<Y, X>> \in StrictSubsetOrdering(S))
  BY <1>1, <1>2, WFMin
<1>4. PICK n \in S : X = below(n)
  BY <1>3
<1>5. ASSUME NEW m \in S, m < n
      PROVE  FALSE
  <2>1. below(m) \in T
    BY Zenon
  <2>2. m \in S /\ m < n /\ ~(m < m) /\ \A l \in S : l < m => l < n
    BY <1>5
  <2>3. m \in below(n) /\ m \notin below(m) /\ below(m) \subseteq below(n)
    BY <2>2, Zenon
  <2>4. <<below(m), X>> \in StrictSubsetOrdering(S)
    BY <1>4, <2>3 DEF StrictSubsetOrdering
  <2> QED
    BY <1>3, <2>1, <2>4
<1> QED
  BY <1>5

(* What holds of 0 and passes on from each number to the next holds up to n. *)
LEMMA UpTo ==
  ASSUME NEW n \in Nat, NEW S, 0 \in S, \A k \in 1 .. n : k - 1 \in S => k \in S
  PROVE  n \in S /\ \A k \in 0 .. n : k \in S
<1> SUFFICES ASSUME (0 .. n) \ S # {} PROVE FALSE
  OBVIOUS
<1>1. (0 .. n) \ S \in SUBSET Nat /\ IsFiniteSet((0 .. n) \ S)
  <2>1. IsFiniteSet(0 .. n)
    BY FS_Interval
  <2>2. (0 .. n) \ S \in SUBSET (0 .. n)
    OBVIOUS
  <2>3. IsFiniteSet((0 .. n) \ S)
    BY <2>1, <2>2, FS_Subset, Zenon
  <2> QED
    BY <2>3
<1>2. PICK k \in (0 .. n) \ S : \A m \in (0 .. n) \ S : ~(m < k)
  BY <1>1, LeastOf
<1>3. k \in 1 .. n /\ k - 1 \in 0 .. n /\ k - 1 < k
  BY <1>2
<1> QED
  BY <1>2, <1>3

(* g is what the step h makes of x in n steps. *)
Iterates(n, x, h, g) == g[0] = x /\ \A k \in 1 .. n : g[k] = h[<<k, g[k - 1]>>]
HasIterates(n, X, x, h) == \E g \in [0 .. n -> X] : Iterates(n, x, h, g)

(* A function over 0 .. n can be defined by its first value and a step. *)
LEMMA Iterated ==
  ASSUME NEW n \in Nat, NEW X, NEW x \in X, NEW h \in [(1 .. n) \X X -> X]
  PROVE  HasIterates(n, X, x, h)
<1> DEFINE Upto(m) == \E g \in [0 .. m -> X] :
                        g[0] = x /\ \A k \in 1 .. m : g[k] = h[<<k, g[k - 1]>>]
           S == {m \in 0 .. n : Upto(m)}
<1>1. 0 \in S
  <2>1. [k \in 0 .. 0 |-> x] \in [0 .. 0 -> X] /\ [k \in 0 .. 0 |-> x][0] = x
    OBVIOUS
  <2>2. \A k \in 1 .. 0 : FALSE
    OBVIOUS
  <2>3. Upto(0)
    BY <2>1, <2>2, Zenon
  <2> QED
    BY <2>3
<1>2. ASSUME NEW m \in 1 .. n, m - 1 \in S
      PROVE  m \in S
  <2>1. PICK g \in [0 .. m - 1 -> X] :
          g[0] = x /\ \A k \in 1 .. m - 1 : g[k] = h[<<k, g[k - 1]>>]
    BY <1>2
  <2> DEFINE y == h[<<m, g[m - 1]>>]
             e == [k \in 0 .. m |-> IF k = m THEN y ELSE g[k]]
  <2>2. y \in X
    BY <2>1
  <2>3. e \in [0 .. m -> X]
    BY <2>2
  <2>4. e[0] = x
    BY <2>1
  <2>5. ASSUME NEW k \in 1 .. m
        PROVE  e[k] = h[<<k, e[k - 1]>>]
    <3>1. k - 1 \in 0 .. m - 1 /\ k - 1 # m /\ k \in 0 .. m /\ k - 1 \in 0 .. m
      OBVIOUS
    <3>2. e[k - 1] = g[k - 1]
      BY <3>1
    <3>3. CASE k = m
      <4>1. e[k] = y
        BY <3>3
      <4>2. h[<<k, e[k - 1]>>] = y
        <5> HIDE DEF e
        <5> QED
          BY <3>2, <3>3
      <4> QED
        BY <4>1, <4>2, Zenon
    <3>4. CASE k # m
      <4>1. e[k] = g[k] /\ k \in 1 .. m - 1
        BY <3>1, <3>4
      <4> QED
        BY <2>1, <3>2, <4>1
    <3> QED
      BY <3>3, <3>4
  <2>6. Upto(m)
    <3> HIDE DEF e
    <3> QED
      BY <2>3, <2>4, <2>5
  <2> QED
    BY <2>6
<1>3. n \in S
  <2> HIDE DEF S
  <2> QED
    BY <1>1, <1>2, UpTo
<1> QED
  BY <1>3 DEF HasIterates, Iterates

(* Total is the last of the partial sums. *)
LEMMA TotalIs ==
  ASSUME NEW n \in Nat, NEW v \in [1 .. n -> Nat]
  PROVE  \E g \in [0 .. n -> Nat] :
           /\ Total(v, n) = g[n] /\ g[0] = 0
           /\ \A k \in 1 .. n : g[k] = g[k - 1] + v[k]
<1> DEFINE h == [p \in (1 .. n) \X Nat |-> p[2] + v[p[1]]]
           Sum(s) == s = [k \in 0 .. n |-> IF k = 0 THEN 0 ELSE s[k - 1] + v[k]]
           sum == CHOOSE s : Sum(s)
<1>1. h \in [(1 .. n) \X Nat -> Nat] /\ \A k \in 1 .. n : \A a \in Nat : h[<<k, a>>] = a + v[k]
  <2>1. \A p \in (1 .. n) \X Nat : p[1] \in 1 .. n /\ p[2] \in Nat
    OBVIOUS
  <2>2. \A p \in (1 .. n) \X Nat : p[2] + v[p[1]] \in Nat
    BY <2>1
  <2>3. h \in [(1 .. n) \X Nat -> Nat]
    BY <2>2
  <2>4. \A k \in 1 .. n : \A a \in Nat : h[<<k, a>>] = a + v[k]
    OBVIOUS
  <2> QED
    BY <2>3, <2>4
<1>2. PICK g \in [0 .. n -> Nat] : g[0] = 0 /\ \A k \in 1 .. n : g[k] = h[<<k, g[k - 1]>>]
  <2> HIDE DEF h
  <2>1. HasIterates(n, Nat, 0, h)
    BY <1>1, Iterated
  <2> QED
    BY <2>1 DEF HasIterates, Iterates
<1>3. \A k \in 1 .. n : g[k] = g[k - 1] + v[k]
  <2> HIDE DEF h
  <2>1. \A k \in 1 .. n : k \in 1 .. n /\ k - 1 \in 0 .. n
    OBVIOUS
  <2>2. \A k \in 1 .. n : g[k - 1] \in Nat
    BY <1>2, <2>1
  <2> QED
    BY <1>1, <1>2, <2>2
<1>4. Sum(g)
  BY <1>2, <1>3
<1>5. Sum(sum)
  <2> HIDE DEF Sum
  <2> QED
    BY <1>4
<1>6. Total(v, n) = sum[n]
  BY DEF Total
<1>7. sum = g
  <2> HIDE DEF sum
  <2> DEFINE D == {k \in 0 .. n : sum[k] = g[k]}
  <2>1. sum[0] = 0 /\ \A k \in 1 .. n : sum[k] = sum[k - 1] + v[k]
    BY <1>5
  <2>2. 0 \in D /\ \A k \in 1 .. n : k - 1 \in D => k \in D
    BY <1>2, <1>3, <2>1
  <2>3. \A k \in 0 .. n : k \in D
    <3> HIDE DEF D
    <3> QED
      BY <2>2, UpTo
  <2>4. DOMAIN sum = 0 .. n
    BY <1>5
  <2>5. sum = [k \in DOMAIN sum |-> sum[k]]
    BY <1>5
  <2> QED
    BY <2>3, <2>4, <2>5
<1> QED
  BY <1>2, <1>3, <1>6, <1>7

-----------------------------------------------------------------------------
(* Totals. *)

(* A total is a number, and nothing adds up to 0. *)
LEMMA TotalTyped ==
  ASSUME NEW n \in Nat, NEW v \in [1 .. n -> Nat]
  PROVE  Total(v, n) \in Nat /\ (n = 0 => Total(v, n) = 0)
<1>1. PICK g \in [0 .. n -> Nat] :
        Total(v, n) = g[n] /\ g[0] = 0 /\ \A k \in 1 .. n : g[k] = g[k - 1] + v[k]
  BY TotalIs
<1> QED
  BY <1>1

(* One more number adds itself. *)
LEMMA TotalOneMore ==
  ASSUME NEW n \in Nat, NEW v \in [1 .. n -> Nat], NEW w \in [1 .. n + 1 -> Nat],
         \A k \in 1 .. n : w[k] = v[k]
  PROVE  Total(w, n + 1) = Total(v, n) + w[n + 1]
<1>1. PICK g \in [0 .. n -> Nat] :
        Total(v, n) = g[n] /\ g[0] = 0 /\ \A k \in 1 .. n : g[k] = g[k - 1] + v[k]
  BY TotalIs
<1>2. PICK h \in [0 .. n + 1 -> Nat] :
        Total(w, n + 1) = h[n + 1] /\ h[0] = 0 /\ \A k \in 1 .. n + 1 : h[k] = h[k - 1] + w[k]
  <2>1. n + 1 \in Nat
    OBVIOUS
  <2> QED
    BY <2>1, TotalIs
<1> DEFINE S == {k \in 0 .. n : g[k] = h[k]}
<1>3. 0 \in S
  BY <1>1, <1>2
<1>4. ASSUME NEW k \in 1 .. n, k - 1 \in S
      PROVE  k \in S
  BY <1>1, <1>2, <1>4
<1>5. n \in S
  <2> HIDE DEF S
  <2> QED
    BY <1>3, <1>4, UpTo
<1>6. h[n + 1] = h[n] + w[n + 1]
  BY <1>2
<1> QED
  BY <1>1, <1>2, <1>5, <1>6

(* Larger numbers, larger total. *)
LEMMA TotalOrder ==
  ASSUME NEW n \in Nat, NEW v \in [1 .. n -> Nat], NEW w \in [1 .. n -> Nat],
         \A k \in 1 .. n : v[k] <= w[k]
  PROVE  Total(v, n) <= Total(w, n)
<1>1. PICK g \in [0 .. n -> Nat] :
        Total(v, n) = g[n] /\ g[0] = 0 /\ \A k \in 1 .. n : g[k] = g[k - 1] + v[k]
  BY TotalIs
<1>2. PICK h \in [0 .. n -> Nat] :
        Total(w, n) = h[n] /\ h[0] = 0 /\ \A k \in 1 .. n : h[k] = h[k - 1] + w[k]
  BY TotalIs
<1> DEFINE S == {k \in 0 .. n : g[k] <= h[k]}
<1>3. 0 \in S
  BY <1>1, <1>2
<1>4. ASSUME NEW k \in 1 .. n, k - 1 \in S
      PROVE  k \in S
  <2>1. /\ g[k] = g[k - 1] + v[k] /\ h[k] = h[k - 1] + w[k] /\ g[k - 1] <= h[k - 1]
        /\ v[k] <= w[k] /\ k - 1 \in 0 .. n
    BY <1>1, <1>2, <1>4
  <2>2. g[k - 1] \in Nat /\ h[k - 1] \in Nat /\ v[k] \in Nat /\ w[k] \in Nat
    BY <2>1
  <2>3. \A a, b, c, d \in Nat : a <= b /\ c <= d => a + c <= b + d
    OBVIOUS
  <2>4. g[k - 1] + v[k] <= h[k - 1] + w[k]
    BY <2>1, <2>2, <2>3
  <2>5. g[k] <= h[k] /\ k \in 0 .. n
    BY <2>1, <2>4
  <2> QED
    BY <2>5
<1>5. n \in S
  <2> HIDE DEF S
  <2> QED
    BY <1>3, <1>4, UpTo
<1> QED
  BY <1>1, <1>2, <1>5

(* Adding to one of the numbers adds to the total. *)
LEMMA TotalRaised ==
  ASSUME NEW n \in Nat, NEW v \in [1 .. n -> Nat], NEW w \in [1 .. n -> Nat],
         NEW i \in 1 .. n, NEW x \in Nat, w[i] = v[i] + x,
         \A k \in 1 .. n : k # i => w[k] = v[k]
  PROVE  Total(w, n) = Total(v, n) + x
<1>1. PICK g \in [0 .. n -> Nat] :
        Total(v, n) = g[n] /\ g[0] = 0 /\ \A k \in 1 .. n : g[k] = g[k - 1] + v[k]
  BY TotalIs
<1>2. PICK h \in [0 .. n -> Nat] :
        Total(w, n) = h[n] /\ h[0] = 0 /\ \A k \in 1 .. n : h[k] = h[k - 1] + w[k]
  BY TotalIs
<1> DEFINE S == {k \in 0 .. n : h[k] = IF k < i THEN g[k] ELSE g[k] + x}
<1>3. 0 \in S
  BY <1>1, <1>2
<1>4. ASSUME NEW k \in 1 .. n, k - 1 \in S
      PROVE  k \in S
  <2>1. /\ g[k] = g[k - 1] + v[k] /\ h[k] = h[k - 1] + w[k]
        /\ h[k - 1] = IF k - 1 < i THEN g[k - 1] ELSE g[k - 1] + x
        /\ w[k] = IF k = i THEN v[k] + x ELSE v[k]
        /\ k - 1 \in 0 .. n
    BY <1>1, <1>2, <1>4
  <2>2. g[k - 1] \in Nat /\ h[k - 1] \in Nat /\ v[k] \in Nat /\ w[k] \in Nat
    BY <2>1
  <2>3. CASE k = i
    BY <2>1, <2>2, <2>3
  <2>4. CASE k < i
    BY <2>1, <2>2, <2>4
  <2>5. CASE k > i
    <3>1. h[k - 1] = g[k - 1] + x /\ w[k] = v[k] /\ ~(k < i)
      BY <2>1, <2>5
    <3>2. \A p, q \in Nat : (p + x) + q = (p + q) + x
      OBVIOUS
    <3>3. (g[k - 1] + x) + v[k] = (g[k - 1] + v[k]) + x
      BY <2>2, <3>2
    <3>4. h[k] = g[k] + x
      BY <2>1, <3>1, <3>3
    <3> QED
      BY <3>1, <3>4
  <2> QED
    BY <2>3, <2>4, <2>5
<1>5. n \in S
  <2> HIDE DEF S
  <2> QED
    BY <1>3, <1>4, UpTo
<1> QED
  BY <1>1, <1>2, <1>5

(* As many numbers as A has elements, none of them above t. *)
LEMMA TotalBounded ==
  ASSUME NEW n \in Nat, NEW v \in [1 .. n -> Nat], NEW A \in SUBSET (1 .. n), NEW t \in Nat,
         \A k \in 1 .. n : v[k] <= IF k \in A THEN t ELSE 0
  PROVE  Total(v, n) <= Cardinality(A) * t
<1>1. PICK g \in [0 .. n -> Nat] :
        Total(v, n) = g[n] /\ g[0] = 0 /\ \A k \in 1 .. n : g[k] = g[k - 1] + v[k]
  BY TotalIs
<1> DEFINE Low(k) == A \cap (1 .. k)
           S == {k \in 0 .. n : g[k] <= Cardinality(Low(k)) * t}
<1>2. ASSUME NEW k \in 0 .. n
      PROVE  IsFiniteSet(Low(k)) /\ Cardinality(Low(k)) \in Nat
  <2>0. Low(k) \in SUBSET (1 .. k) /\ 1 \in Int /\ k \in Int
    OBVIOUS
  <2>1. IsFiniteSet(1 .. k)
    BY <2>0, FS_Interval
  <2>2. IsFiniteSet(Low(k))
    BY <2>0, <2>1, FS_Subset
  <2> QED
    BY <2>2, FS_CardinalityType
<1>3. 0 \in S
  <2>1. Low(0) = {}
    OBVIOUS
  <2>2. Cardinality(Low(0)) = 0
    BY <2>1, FS_EmptySet, Zenon
  <2> QED
    BY <1>1, <2>2
<1>4. ASSUME NEW k \in 1 .. n, k - 1 \in S
      PROVE  k \in S
  <2> DEFINE c == Cardinality(Low(k - 1))
             d == Cardinality(Low(k))
  <2>1. g[k] = g[k - 1] + v[k] /\ g[k - 1] <= c * t
    BY <1>1, <1>4
  <2>2. k - 1 \in 0 .. n /\ k \in 0 .. n
    OBVIOUS
  <2>3. c \in Nat /\ d \in Nat /\ g[k - 1] \in Nat /\ v[k] \in Nat
    BY <1>2, <2>2
  <2>4. d = IF k \in A THEN c + 1 ELSE c
    <3>1. Low(k) = (IF k \in A THEN Low(k - 1) \cup {k} ELSE Low(k - 1)) /\ k \notin Low(k - 1)
      OBVIOUS
    <3>2. Cardinality(Low(k - 1) \cup {k}) = IF k \in Low(k - 1) THEN c ELSE c + 1
      BY <1>2, <2>2, FS_AddElement
    <3> HIDE DEF Low
    <3> QED
      BY <3>1, <3>2
  <2>5. g[k] <= d * t
    <3> HIDE DEF c, d
    <3>1. CASE k \in A
      <4>1. d * t = c * t + t
        BY <2>3, <2>4, <3>1
      <4>2. c * t \in Nat /\ v[k] <= t
        BY <2>3, <3>1
      <4> DEFINE p == c * t  q == d * t
      <4>3. q = p + t /\ p \in Nat /\ g[k - 1] <= p
        BY <2>1, <4>1, <4>2
      <4> HIDE DEF p, q
      <4>4. g[k] <= q
        BY <2>1, <2>3, <4>2, <4>3
      <4> QED
        BY <4>4 DEF q
    <3>2. CASE k \notin A
      <4>1. d = c /\ v[k] <= 0
        BY <2>4, <3>2
      <4>2. g[k] = g[k - 1]
        BY <2>1, <2>3, <4>1
      <4> QED
        BY <2>1, <4>1, <4>2
    <3> QED
      BY <3>1, <3>2
  <2> QED
    BY <2>2, <2>5
<1>5. n \in S
  <2> HIDE DEF S
  <2> QED
    BY <1>3, <1>4, UpTo
<1>6. Low(n) = A
  OBVIOUS
<1> QED
  BY <1>1, <1>5, <1>6

-----------------------------------------------------------------------------
(* build_download_work, file by file. *)

(* What the proofs use of the assumption. *)
LEMMA Constants ==
  /\ Len(Manifest) \in Nat /\ Manifest \in [1 .. Len(Manifest) -> Files]
  /\ \A j, k \in 1 .. Len(Manifest) : Manifest[j] = Manifest[k] => j = k
  /\ BatchCount \in Nat \ {0} /\ SmallFile \in Nat /\ MaxSmallFile \in Nat
  /\ MaxBatchBytes \in Nat /\ BatchBytes \in Nat
  /\ BatchTarget \in Nat /\ BatchTarget <= BatchBytes
  /\ BatchTarget > 0 => SmallFile <= BatchTarget
<1>1. Manifest \in Seq(Files) /\ IsInjective(Manifest)
  BY DownloadWindowAssumption
<1>2. /\ Len(Manifest) \in Nat /\ Manifest \in [1 .. Len(Manifest) -> Files]
      /\ DOMAIN Manifest = 1 .. Len(Manifest)
  BY <1>1, LenProperties
<1>3. \A j, k \in 1 .. Len(Manifest) : Manifest[j] = Manifest[k] => j = k
  BY <1>1, <1>2 DEF IsInjective
<1>4. /\ BatchCount \in Nat \ {0} /\ SmallFile \in Nat \ {0} /\ MaxSmallFile \in Nat
      /\ MaxBatchBytes \in Nat /\ BatchBytes \in Nat /\ SmallFile <= BatchBytes
  BY DownloadWindowAssumption
<1>5. SmallFileBudget \in Nat
  BY DownloadWindowAssumption DEF SmallFileBudget
<1>6. SmallFileBudget \div FileLimit \in Int
  BY <1>5, FileLimitBounds
<1>7. /\ BatchTarget \in Nat /\ BatchTarget <= BatchBytes
      /\ BatchTarget > 0 => SmallFile <= BatchTarget
  <2> DEFINE share == SmallFileBudget \div FileLimit
  <2>1. share \in Int
    BY <1>6
  <2> HIDE DEF share
  <2>2. /\ Clamp(share, SmallFile, BatchBytes) \in Nat
        /\ Clamp(share, SmallFile, BatchBytes) <= BatchBytes
        /\ SmallFile <= Clamp(share, SmallFile, BatchBytes)
    BY <1>4, <2>1 DEF Clamp
  <2>3. BatchTarget = IF SmallFileBudget = 0 THEN 0 ELSE Clamp(share, SmallFile, BatchBytes)
    BY DEF BatchTarget, share
  <2> HIDE DEF BatchTarget
  <2> QED
    BY <1>4, <2>2, <2>3
<1> QED
  BY <1>2, <1>3, <1>4, <1>7

Work == [kind : {"batch", "file"}, files : Seq(Files)]
Split == [work : Seq(Work), batch : Seq(Files), bytes : Nat]
Nothing == [work |-> <<>>, batch |-> <<>>, bytes |-> 0]

(* What Append does to a sequence. *)
LEMMA Appended ==
  ASSUME NEW S, NEW s \in Seq(S), NEW x \in S
  PROVE  /\ Append(s, x) \in Seq(S) /\ Len(Append(s, x)) = Len(s) + 1 /\ Len(s) \in Nat
         /\ Append(s, x)[Len(s) + 1] = x
         /\ \A k \in 1 .. Len(s) : Append(s, x)[k] = s[k]
  BY AppendProperties, LenProperties

(* A sequence of one. *)
LEMMA Single ==
  ASSUME NEW S, NEW x \in S
  PROVE  <<x>> \in Seq(S) /\ Len(<<x>>) = 1 /\ <<x>>[1] = x
  OBVIOUS

(* The three ways a file is taken in. *)
LEMMA AddFileIs ==
  ASSUME NEW acc \in Split, NEW f \in Files, NEW sz \in [Files -> Nat], NEW started
  PROVE  /\ ~Batched(f, sz, started) =>
              AddFile(acc, f, sz, started) =
                [work |-> Append(acc.work, SingleFile(f)), batch |-> acc.batch, bytes |-> acc.bytes]
         /\ Batched(f, sz, started) /\ Full(acc, sz[f]) =>
              AddFile(acc, f, sz, started) =
                [work |-> Append(acc.work, SmallBatch(acc.batch)), batch |-> <<f>>, bytes |-> sz[f]]
         /\ Batched(f, sz, started) /\ ~Full(acc, sz[f]) =>
              AddFile(acc, f, sz, started) =
                [work |-> acc.work, batch |-> Append(acc.batch, f), bytes |-> acc.bytes + sz[f]]
<1>1. acc = [work |-> acc.work, batch |-> acc.batch, bytes |-> acc.bytes]
  BY DEF Split
<1>2. CASE ~Batched(f, sz, started)
  <2>1. AddFile(acc, f, sz, started) = [acc EXCEPT !.work = Append(@, SingleFile(f))]
    BY <1>2 DEF AddFile
  <2> QED
    BY <1>1, <1>2, <2>1
<1>3. CASE Batched(f, sz, started) /\ Full(acc, sz[f])
  BY <1>3 DEF AddFile
<1>4. CASE Batched(f, sz, started) /\ ~Full(acc, sz[f])
  <2>1. AddFile(acc, f, sz, started) = [acc EXCEPT !.batch = Append(@, f), !.bytes = @ + sz[f]]
    BY <1>4 DEF AddFile
  <2> QED
    BY <1>1, <1>4, <2>1
<1> QED
  BY <1>2, <1>3, <1>4

(* A file added to a split gives a split. *)
LEMMA AddFileTyped ==
  ASSUME NEW acc \in Split, NEW f \in Files, NEW sz \in [Files -> Nat], NEW started
  PROVE  AddFile(acc, f, sz, started) \in Split
<1>1. SingleFile(f) \in Work /\ SmallBatch(acc.batch) \in Work
  BY Single DEF SingleFile, SmallBatch, Work, Split
<1>2. /\ acc.work \in Seq(Work) /\ acc.batch \in Seq(Files) /\ acc.bytes \in Nat /\ sz[f] \in Nat
      /\ <<f>> \in Seq(Files)
  BY Single DEF Split
<1>3. /\ Append(acc.work, SingleFile(f)) \in Seq(Work)
      /\ Append(acc.work, SmallBatch(acc.batch)) \in Seq(Work)
      /\ Append(acc.batch, f) \in Seq(Files)
  BY <1>1, <1>2, Appended
<1>4. acc.bytes + sz[f] \in Nat
  BY <1>2
<1> HIDE DEF Work
<1>5. \A w \in Seq(Work), b \in Seq(Files), n \in Nat : [work |-> w, batch |-> b, bytes |-> n] \in Split
  BY DEF Split
<1>6. CASE ~Batched(f, sz, started)
  <2>1. AddFile(acc, f, sz, started) =
          [work |-> Append(acc.work, SingleFile(f)), batch |-> acc.batch, bytes |-> acc.bytes]
    BY <1>6, AddFileIs
  <2> QED
    BY <1>2, <1>3, <1>5, <2>1, Zenon
<1>7. CASE Batched(f, sz, started) /\ Full(acc, sz[f])
  <2>1. AddFile(acc, f, sz, started) =
          [work |-> Append(acc.work, SmallBatch(acc.batch)), batch |-> <<f>>, bytes |-> sz[f]]
    BY <1>7, AddFileIs
  <2> QED
    BY <1>2, <1>3, <1>5, <2>1, Zenon
<1>8. CASE Batched(f, sz, started) /\ ~Full(acc, sz[f])
  <2>1. AddFile(acc, f, sz, started) =
          [work |-> acc.work, batch |-> Append(acc.batch, f), bytes |-> acc.bytes + sz[f]]
    BY <1>8, AddFileIs
  <2> QED
    BY <1>2, <1>3, <1>4, <1>5, <2>1, Zenon
<1> QED
  BY <1>6, <1>7, <1>8

(* The split is made file by file. *)
LEMMA SplitIs ==
  ASSUME NEW sz \in [Files -> Nat], NEW started
  PROVE  \E g \in [0 .. Len(Manifest) -> Split] :
           /\ g[0] = Nothing
           /\ \A k \in 1 .. Len(Manifest) : g[k] = AddFile(g[k - 1], Manifest[k], sz, started)
           /\ BuildDownloadWork(sz, started) =
                IF g[Len(Manifest)].batch = <<>> THEN g[Len(Manifest)].work
                ELSE Append(g[Len(Manifest)].work, SmallBatch(g[Len(Manifest)].batch))
<1> DEFINE n == Len(Manifest)
           h == [p \in (1 .. n) \X Split |-> AddFile(p[2], Manifest[p[1]], sz, started)]
           Is(s) == s = [k \in 0 .. n |-> IF k = 0 THEN [work |-> <<>>, batch |-> <<>>, bytes |-> 0]
                                          ELSE AddFile(s[k - 1], Manifest[k], sz, started)]
           split == CHOOSE s : Is(s)
<1>0. n \in Nat /\ Manifest \in [1 .. n -> Files]
  BY Constants
<1>1. Nothing \in Split
  BY EmptySeq DEF Nothing, Split
<1>2. h \in [(1 .. n) \X Split -> Split]
  <2>1. \A p \in (1 .. n) \X Split : AddFile(p[2], Manifest[p[1]], sz, started) \in Split
    <3>1. TAKE p \in (1 .. n) \X Split
    <3>2. p[2] \in Split /\ Manifest[p[1]] \in Files
      BY <1>0
    <3> QED
      BY <3>2, AddFileTyped
  <2> QED
    BY <2>1
<1>3. \A k \in 1 .. n : \A a \in Split : h[<<k, a>>] = AddFile(a, Manifest[k], sz, started)
  OBVIOUS
<1>4. PICK g \in [0 .. n -> Split] : g[0] = Nothing /\ \A k \in 1 .. n : g[k] = h[<<k, g[k - 1]>>]
  <2> HIDE DEF h, n
  <2>1. HasIterates(n, Split, Nothing, h)
    BY <1>0, <1>1, <1>2, Iterated
  <2> QED
    BY <2>1 DEF HasIterates, Iterates
<1>5. \A k \in 1 .. n : g[k] = AddFile(g[k - 1], Manifest[k], sz, started)
  <2> HIDE DEF h, n
  <2>1. \A k \in 1 .. n : k - 1 \in 0 .. n
    BY <1>0
  <2>2. \A k \in 1 .. n : g[k - 1] \in Split
    BY <1>4, <2>1
  <2> QED
    BY <1>3, <1>4, <2>2
<1>6. Is(g)
  <2> HIDE DEF h, n
  <2>1. g = [k \in 0 .. n |-> g[k]]
    OBVIOUS
  <2>2. \A k \in 0 .. n : k = 0 \/ k \in 1 .. n
    BY <1>0
  <2>3. \A k \in 0 .. n : g[k] = IF k = 0 THEN [work |-> <<>>, batch |-> <<>>, bytes |-> 0]
                                  ELSE AddFile(g[k - 1], Manifest[k], sz, started)
    BY <1>4, <1>5, <2>2 DEF Nothing
  <2> QED
    BY <2>1, <2>3
<1>7. Is(split)
  <2> HIDE DEF Is
  <2> QED
    BY <1>6
<1>8. BuildDownloadWork(sz, started) =
        IF split[n].batch = <<>> THEN split[n].work
        ELSE Append(split[n].work, SmallBatch(split[n].batch))
  BY DEF BuildDownloadWork
<1>9. split = g
  <2>1. DOMAIN split = 0 .. n /\ split = [k \in DOMAIN split |-> split[k]]
    BY <1>7
  <2>2. split[0] = Nothing /\ \A k \in 1 .. n : split[k] = AddFile(split[k - 1], Manifest[k], sz, started)
    <3>1. \A k \in 0 .. n : split[k] = IF k = 0 THEN [work |-> <<>>, batch |-> <<>>, bytes |-> 0]
                                      ELSE AddFile(split[k - 1], Manifest[k], sz, started)
      <4> HIDE DEF split
      <4> QED
        BY <1>7
    <3>2. 0 \in 0 .. n /\ \A k \in 1 .. n : k \in 0 .. n /\ k # 0
      BY <1>0
    <3> HIDE DEF split, n
    <3> QED
      BY <3>1, <3>2 DEF Nothing
  <2> HIDE DEF split, n, h
  <2> DEFINE D == {k \in 0 .. n : split[k] = g[k]}
  <2>3. 0 \in D
    BY <1>0, <1>4, <2>2
  <2>4. ASSUME NEW k \in 1 .. n, k - 1 \in D
        PROVE  k \in D
    <3>1. split[k - 1] = g[k - 1] /\ k \in 0 .. n
      BY <2>4
    <3>2. split[k] = g[k]
      BY <1>5, <2>2, <3>1
    <3> QED
      BY <3>1, <3>2
  <2>5. \A k \in 0 .. n : k \in D
    <3> HIDE DEF D
    <3> QED
      BY <1>0, <2>3, <2>4, UpTo
  <2> QED
    BY <2>1, <2>5
<1> QED
  BY <1>4, <1>5, <1>8, <1>9

-----------------------------------------------------------------------------
(* What the items made of the first k files are. *)

Sum(files, sz) == Total([k \in DOMAIN files |-> sz[files[k]]], Len(files))
Counted(W) == Total([i \in DOMAIN W |-> Len(W[i].files)], Len(W))

GoodItem(w, sz) ==
  /\ w.kind = "file" => Len(w.files) = 1
  /\ w.kind = "batch" => /\ Len(w.files) <= BatchCount
                         /\ \A k \in 1 .. Len(w.files) : sz[w.files[k]] <= MaxSmallFile
                         /\ Sum(w.files, sz) <= BatchTarget

First(k) == {Manifest[j] : j \in 1 .. k}

(* No file is in two places of the items. *)
Apart(W) ==
  \A i, j \in 1 .. Len(W) : \A a \in 1 .. Len(W[i].files), b \in 1 .. Len(W[j].files) :
    W[i].files[a] = W[j].files[b] => i = j /\ a = b

(* The items are made of the first k files. *)
Covers(W, k) ==
  /\ \A i \in 1 .. Len(W) : \A a \in 1 .. Len(W[i].files) : W[i].files[a] \in First(k)
  /\ \A f \in First(k) : \E i \in 1 .. Len(W) : \E a \in 1 .. Len(W[i].files) : W[i].files[a] = f

GoodItems(W, sz) == \A i \in 1 .. Len(W) : GoodItem(W[i], sz)

All(acc) == Append(acc.work, SmallBatch(acc.batch))

GoodSplit(acc, k, sz) ==
  /\ acc.bytes = Sum(acc.batch, sz)
  /\ GoodItems(All(acc), sz)
  /\ Apart(All(acc))
  /\ Covers(All(acc), k)
  /\ Counted(All(acc)) = k

(* One more item counts its files. *)
LEMMA CountedMore ==
  ASSUME NEW W \in Seq(Work), NEW x \in Work
  PROVE  Counted(Append(W, x)) = Counted(W) + Len(x.files) /\ Counted(W) \in Nat
<1> DEFINE n == Len(W)
           v == [i \in DOMAIN W |-> Len(W[i].files)]
           w == [i \in DOMAIN Append(W, x) |-> Len(Append(W, x)[i].files)]
<1>1. n \in Nat /\ DOMAIN W = 1 .. n /\ \A i \in 1 .. n : W[i] \in Work
  BY LenProperties
<1>2. /\ Append(W, x) \in Seq(Work) /\ Len(Append(W, x)) = n + 1
      /\ Append(W, x)[n + 1] = x /\ \A k \in 1 .. n : Append(W, x)[k] = W[k]
  BY Appended
<1>3. DOMAIN Append(W, x) = 1 .. n + 1 /\ \A i \in 1 .. n + 1 : Append(W, x)[i] \in Work
  BY <1>2, LenProperties
<1>4. \A y \in Work : Len(y.files) \in Nat
  BY LenProperties DEF Work
<1>5. v \in [1 .. n -> Nat] /\ w \in [1 .. n + 1 -> Nat]
  <2> HIDE DEF n
  <2> QED
    BY <1>1, <1>3, <1>4
<1>6. w[n + 1] = Len(x.files) /\ \A k \in 1 .. n : w[k] = v[k]
  <2> HIDE DEF n
  <2>1. n + 1 \in 1 .. n + 1 /\ \A k \in 1 .. n : k \in 1 .. n + 1
    BY <1>1
  <2> QED
    BY <1>1, <1>2, <1>3, <2>1
<1>7. Counted(W) = Total(v, n) /\ Counted(Append(W, x)) = Total(w, n + 1)
  BY <1>2 DEF Counted
<1>8. Total(w, n + 1) = Total(v, n) + w[n + 1] /\ Total(v, n) \in Nat
  <2> HIDE DEF n, v, w
  <2> QED
    BY <1>1, <1>5, <1>6, TotalOneMore, TotalTyped
<1> QED
  BY <1>6, <1>7, <1>8

(* One more file adds its size. *)
LEMMA SumMore ==
  ASSUME NEW F \in Seq(Files), NEW f \in Files, NEW sz \in [Files -> Nat]
  PROVE  Sum(Append(F, f), sz) = Sum(F, sz) + sz[f] /\ Sum(F, sz) \in Nat
<1> DEFINE n == Len(F)
           v == [i \in DOMAIN F |-> sz[F[i]]]
           w == [i \in DOMAIN Append(F, f) |-> sz[Append(F, f)[i]]]
<1>1. n \in Nat /\ DOMAIN F = 1 .. n /\ \A i \in 1 .. n : F[i] \in Files
  BY LenProperties
<1>2. /\ Append(F, f) \in Seq(Files) /\ Len(Append(F, f)) = n + 1
      /\ Append(F, f)[n + 1] = f /\ \A k \in 1 .. n : Append(F, f)[k] = F[k]
  BY Appended
<1>3. DOMAIN Append(F, f) = 1 .. n + 1 /\ \A i \in 1 .. n + 1 : Append(F, f)[i] \in Files
  BY <1>2, LenProperties
<1>5. v \in [1 .. n -> Nat] /\ w \in [1 .. n + 1 -> Nat]
  <2> HIDE DEF n
  <2> QED
    BY <1>1, <1>3
<1>6. w[n + 1] = sz[f] /\ \A k \in 1 .. n : w[k] = v[k]
  <2> HIDE DEF n
  <2>1. n + 1 \in 1 .. n + 1 /\ \A k \in 1 .. n : k \in 1 .. n + 1
    BY <1>1
  <2> QED
    BY <1>1, <1>2, <1>3, <2>1
<1>7. Sum(F, sz) = Total(v, n) /\ Sum(Append(F, f), sz) = Total(w, n + 1)
  BY <1>2 DEF Sum
<1>8. Total(w, n + 1) = Total(v, n) + w[n + 1] /\ Total(v, n) \in Nat
  <2> HIDE DEF n, v, w
  <2> QED
    BY <1>1, <1>5, <1>6, TotalOneMore, TotalTyped
<1> QED
  BY <1>6, <1>7, <1>8

(* No file, no bytes. *)
LEMMA SumNone == ASSUME NEW sz PROVE Sum(<<>>, sz) = 0
<1> DEFINE v == [k \in DOMAIN <<>> |-> sz[<<>>[k]]]
<1>1. DOMAIN <<>> = 1 .. 0 /\ Len(<<>>) = 0
  OBVIOUS
<1>2. v \in [1 .. 0 -> Nat]
  BY <1>1
<1>3. Total(v, 0) = 0
  <2> HIDE DEF v
  <2>1. 0 \in Nat
    OBVIOUS
  <2> QED
    BY <1>2, <2>1, TotalTyped
<1> QED
  BY <1>1, <1>3 DEF Sum

(* One file, its bytes. *)
LEMMA SumOne ==
  ASSUME NEW f \in Files, NEW sz \in [Files -> Nat]
  PROVE  Sum(<<f>>, sz) = sz[f]
<1>1. <<>> \in Seq(Files) /\ Append(<<>>, f) = <<f>>
  BY EmptySeq
<1>2. Sum(<<f>>, sz) = 0 + sz[f]
  BY <1>1, SumMore, SumNone
<1> QED
  BY <1>2

(* No item, no file counted. *)
LEMMA CountedNone == Counted(<<>>) = 0
<1> DEFINE v == [i \in DOMAIN <<>> |-> Len(<<>>[i].files)]
<1>1. DOMAIN <<>> = 1 .. 0 /\ Len(<<>>) = 0
  OBVIOUS
<1>2. v \in [1 .. 0 -> Nat]
  BY <1>1
<1>3. Total(v, 0) = 0
  <2> HIDE DEF v
  <2>1. 0 \in Nat
    OBVIOUS
  <2> QED
    BY <1>2, <2>1, TotalTyped
<1> QED
  BY <1>1, <1>3 DEF Counted

(* The k-th file is a new one. *)
LEMMA FirstMore ==
  ASSUME NEW k \in 1 .. Len(Manifest)
  PROVE  /\ First(k) = First(k - 1) \cup {Manifest[k]} /\ Manifest[k] \notin First(k - 1)
         /\ Manifest[k] \in Files
<1>1. k - 1 \in Int /\ 1 .. k = (1 .. k - 1) \cup {k} /\ k \notin 1 .. k - 1
  BY Constants
<1>2. \A j \in 1 .. k - 1 : Manifest[j] # Manifest[k]
  <2>1. \A j \in 1 .. k - 1 : j \in 1 .. Len(Manifest) /\ j # k
    BY Constants
  <2> QED
    BY <2>1, Constants
<1> QED
  BY <1>1, <1>2, Constants DEF First

(* An item of one more file joins the others, at any place. *)
LEMMA ItemPut ==
  ASSUME NEW W \in Seq(Work), NEW V \in Seq(Work), NEW k \in 1 .. Len(Manifest),
         Len(V) = Len(W) + 1, NEW q \in 1 .. Len(V), V[q].files = <<Manifest[k]>>,
         \A i \in 1 .. q - 1 : V[i] = W[i], \A i \in q + 1 .. Len(V) : V[i] = W[i - 1],
         Apart(W), Covers(W, k - 1)
  PROVE  Apart(V) /\ Covers(V, k)
<1> DEFINE f == Manifest[k]
           n == Len(W)
           P(i) == IF i < q THEN i ELSE i - 1
<1>1. n \in Nat /\ Len(V) = n + 1 /\ q \in 1 .. n + 1
  BY LenProperties
<1>2. f \notin First(k - 1) /\ First(k) = First(k - 1) \cup {f}
  BY FirstMore
<1>3. \A i \in 1 .. n + 1 : i # q => P(i) \in 1 .. n /\ V[i] = W[P(i)]
  <2> HIDE DEF f
  <2> SUFFICES ASSUME NEW i \in 1 .. n + 1, i # q
               PROVE  P(i) \in 1 .. n /\ V[i] = W[P(i)]
    OBVIOUS
  <2>1. CASE i < q
    BY <1>1, <2>1
  <2>2. CASE i > q
    BY <1>1, <2>2
  <2> QED
    BY <1>1, <2>1, <2>2
<1>4. \A i, j \in 1 .. n + 1 : i # q /\ j # q /\ P(i) = P(j) => i = j
  BY <1>1
<1>5. Len(V[q].files) = 1 /\ V[q].files[1] = f /\ \A a \in 1 .. 1 : a = 1
  OBVIOUS
<1>6. \A i \in 1 .. n + 1 : i # q =>
        \A a \in 1 .. Len(V[i].files) : V[i].files[a] \in First(k - 1)
  <2> HIDE DEF P, f, n
  <2> QED
    BY <1>3 DEF Covers, n
<1> HIDE DEF P, f, n
<1>7. Apart(V)
  <2> SUFFICES ASSUME NEW i \in 1 .. n + 1, NEW j \in 1 .. n + 1,
                      NEW a \in 1 .. Len(V[i].files), NEW b \in 1 .. Len(V[j].files),
                      V[i].files[a] = V[j].files[b]
               PROVE  i = j /\ a = b
    BY <1>1 DEF Apart
  <2>1. CASE i = q /\ j = q
    <3>1. a \in 1 .. 1 /\ b \in 1 .. 1
      BY <1>5, <2>1
    <3> QED
      BY <2>1, <3>1
  <2>2. CASE i = q /\ j # q
    <3>1. a = 1 /\ V[i].files[a] = f
      BY <1>5, <2>2
    <3>2. V[j].files[b] \in First(k - 1)
      BY <1>6, <2>2
    <3> QED
      BY <1>2, <3>1, <3>2
  <2>3. CASE i # q /\ j = q
    <3>1. b = 1 /\ V[j].files[b] = f
      BY <1>5, <2>3
    <3>2. V[i].files[a] \in First(k - 1)
      BY <1>6, <2>3
    <3> QED
      BY <1>2, <3>1, <3>2
  <2>4. CASE i # q /\ j # q
    <3>1. /\ P(i) \in 1 .. n /\ P(j) \in 1 .. n /\ V[i] = W[P(i)] /\ V[j] = W[P(j)]
      BY <1>3, <2>4
    <3> DEFINE c == P(i)  d == P(j)
    <3>2. /\ c \in 1 .. Len(W) /\ d \in 1 .. Len(W) /\ a \in 1 .. Len(W[c].files)
          /\ b \in 1 .. Len(W[d].files) /\ W[c].files[a] = W[d].files[b]
      BY <3>1 DEF n
    <3> HIDE DEF c, d
    <3>3. \A x, y \in 1 .. Len(W) : \A u \in 1 .. Len(W[x].files), w \in 1 .. Len(W[y].files) :
            W[x].files[u] = W[y].files[w] => x = y /\ u = w
      BY DEF Apart
    <3>4. c = d /\ a = b
      <4>1. \A u \in 1 .. Len(W[c].files), w \in 1 .. Len(W[d].files) :
              W[c].files[u] = W[d].files[w] => c = d /\ u = w
        BY <3>2, <3>3
      <4> QED
        BY <3>2, <4>1
    <3> QED
      BY <1>4, <2>4, <3>4 DEF c, d
  <2> QED
    BY <2>1, <2>2, <2>3, <2>4
<1>8. \A i \in 1 .. Len(V) : \A a \in 1 .. Len(V[i].files) : V[i].files[a] \in First(k)
  <2> SUFFICES ASSUME NEW i \in 1 .. n + 1, NEW a \in 1 .. Len(V[i].files)
               PROVE  V[i].files[a] \in First(k)
    BY <1>1
  <2>1. CASE i = q
    BY <1>2, <1>5, <2>1
  <2>2. CASE i # q
    BY <1>2, <1>6, <2>2
  <2> QED
    BY <2>1, <2>2
<1>9. ASSUME NEW g \in First(k)
      PROVE  \E i \in 1 .. Len(V) : \E a \in 1 .. Len(V[i].files) : V[i].files[a] = g
  <2>1. CASE g = f
    <3>1. 1 \in 1 .. Len(V[q].files) /\ V[q].files[1] = g
      BY <1>5, <2>1
    <3> QED
      BY <3>1
  <2>2. CASE g \in First(k - 1)
    <3>1. PICK i \in 1 .. n : \E a \in 1 .. Len(W[i].files) : W[i].files[a] = g
      BY <2>2 DEF Covers, n
    <3>2. PICK a \in 1 .. Len(W[i].files) : W[i].files[a] = g
      BY <3>1
    <3> DEFINE j == IF i < q THEN i ELSE i + 1
    <3>3. j \in 1 .. n + 1 /\ j # q /\ P(j) = i
      BY <1>1 DEF P
    <3>4. V[j] = W[i]
      BY <1>3, <3>3
    <3> HIDE DEF j
    <3>5. \E b \in 1 .. Len(V[j].files) : V[j].files[b] = g
      BY <3>2, <3>4
    <3> QED
      BY <1>1, <3>3, <3>5
  <2> QED
    BY <1>2, <2>1, <2>2
<1> QED
  BY <1>7, <1>8, <1>9 DEF Covers

(* The last item takes one more file. *)
LEMMA ItemGrown ==
  ASSUME NEW W \in Seq(Work), NEW V \in Seq(Work), NEW k \in 1 .. Len(Manifest),
         NEW n \in Nat, Len(V) = n + 1, Len(W) = n + 1, \A i \in 1 .. n : V[i] = W[i],
         V[n + 1].files = Append(W[n + 1].files, Manifest[k]),
         Apart(W), Covers(W, k - 1)
  PROVE  Apart(V) /\ Covers(V, k)
<1> DEFINE f == Manifest[k]
           F == W[n + 1].files
           m == Len(F)
<1>1. f \notin First(k - 1) /\ First(k) = First(k - 1) \cup {f} /\ f \in Files
  BY FirstMore
<1>2. /\ m \in Nat /\ Len(V[n + 1].files) = m + 1 /\ V[n + 1].files[m + 1] = f
      /\ \A a \in 1 .. m : V[n + 1].files[a] = W[n + 1].files[a]
  <2>1. W[n + 1] \in Work
    BY ElementOfSeq
  <2>2. F \in Seq(Files)
    BY <2>1 DEF Work
  <2> HIDE DEF F, f
  <2> QED
    BY <1>1, <2>2, Appended DEF F, f
<1>3. Len(W[n + 1].files) = m
  OBVIOUS
<1> DEFINE New(i, a) == i = n + 1 /\ a = m + 1
<1>4. ASSUME NEW i \in 1 .. n + 1, NEW a \in 1 .. Len(V[i].files)
      PROVE  /\ New(i, a) => V[i].files[a] = f
             /\ ~New(i, a) => /\ a \in 1 .. Len(W[i].files)
                              /\ V[i].files[a] = W[i].files[a]
                              /\ V[i].files[a] \in First(k - 1)
  <2>1. CASE New(i, a)
    BY <1>2, <2>1
  <2>2. CASE ~New(i, a) /\ i = n + 1
    <3>1. a \in 1 .. m
      BY <1>2, <2>2
    <3>2. a \in 1 .. Len(W[i].files) /\ V[i].files[a] = W[i].files[a]
      BY <1>2, <1>3, <2>2, <3>1
    <3>3. W[i].files[a] \in First(k - 1)
      BY <3>2 DEF Covers
    <3> QED
      BY <2>2, <3>2, <3>3
  <2>3. CASE i # n + 1
    <3>1. i \in 1 .. n /\ V[i] = W[i]
      BY <2>3
    <3>2. W[i].files[a] \in First(k - 1)
      BY <3>1 DEF Covers
    <3> QED
      BY <2>3, <3>1, <3>2
  <2> QED
    BY <2>1, <2>2, <2>3
<1>5. Apart(V)
  <2> SUFFICES ASSUME NEW i \in 1 .. n + 1, NEW j \in 1 .. n + 1,
                      NEW a \in 1 .. Len(V[i].files), NEW b \in 1 .. Len(V[j].files),
                      V[i].files[a] = V[j].files[b]
               PROVE  i = j /\ a = b
    BY DEF Apart
  <2> HIDE DEF New, f, m
  <2>1. CASE New(i, a) /\ New(j, b)
    BY <2>1 DEF New
  <2>2. CASE ~New(i, a) /\ ~New(j, b)
    <3>1. /\ a \in 1 .. Len(W[i].files) /\ b \in 1 .. Len(W[j].files)
          /\ W[i].files[a] = W[j].files[b]
      BY <1>4, <2>2
    <3>2. \A x, y \in 1 .. n + 1 : \A c \in 1 .. Len(W[x].files), d \in 1 .. Len(W[y].files) :
            W[x].files[c] = W[y].files[d] => x = y /\ c = d
      BY DEF Apart
    <3>3. \A c \in 1 .. Len(W[i].files), d \in 1 .. Len(W[j].files) :
            W[i].files[c] = W[j].files[d] => i = j /\ c = d
      BY <3>2
    <3> QED
      BY <3>1, <3>3
  <2>3. CASE ~(New(i, a) <=> New(j, b))
    BY <1>1, <1>4, <2>3
  <2> QED
    BY <2>1, <2>2, <2>3
<1>6. \A i \in 1 .. Len(V) : \A a \in 1 .. Len(V[i].files) : V[i].files[a] \in First(k)
  <2> HIDE DEF New, f, m
  <2> QED
    BY <1>1, <1>4
<1>7. ASSUME NEW g \in First(k)
      PROVE  \E i \in 1 .. Len(V) : \E a \in 1 .. Len(V[i].files) : V[i].files[a] = g
  <2>1. CASE g = f
    <3>1. m + 1 \in 1 .. Len(V[n + 1].files) /\ n + 1 \in 1 .. Len(V) /\ V[n + 1].files[m + 1] = g
      BY <1>2, <2>1
    <3> QED
      BY <3>1
  <2>2. CASE g \in First(k - 1)
    <3>1. PICK i \in 1 .. n + 1 : \E a \in 1 .. Len(W[i].files) : W[i].files[a] = g
      BY <2>2 DEF Covers
    <3>2. PICK a \in 1 .. Len(W[i].files) : W[i].files[a] = g
      BY <3>1
    <3>3. CASE i \in 1 .. n
      BY <3>2, <3>3
    <3>4. CASE i = n + 1
      <4>1. a \in 1 .. m /\ a \in 1 .. m + 1
        BY <1>2, <1>3, <3>2, <3>4
      <4>2. a \in 1 .. Len(V[i].files) /\ V[i].files[a] = g
        BY <1>2, <3>2, <3>4, <4>1
      <4> QED
        BY <4>2
    <3> QED
      BY <3>3, <3>4
  <2> QED
    BY <1>1, <2>1, <2>2
<1> QED
  BY <1>5, <1>6, <1>7 DEF Covers

(* The item of a file on its own. *)
LEMMA SingleIs ==
  ASSUME NEW f \in Files
  PROVE  /\ SingleFile(f) \in Work /\ SingleFile(f).kind = "file" /\ SingleFile(f).files = <<f>>
         /\ <<f>> \in Seq(Files) /\ Len(<<f>>) = 1 /\ <<f>>[1] = f
  BY Single DEF SingleFile, Work

(* The item of a batch. *)
LEMMA BatchIs ==
  ASSUME NEW B \in Seq(Files)
  PROVE  SmallBatch(B) \in Work /\ SmallBatch(B).kind = "batch" /\ SmallBatch(B).files = B
  BY DEF SmallBatch, Work

(* The items of a split, its open batch taken for the last one. *)
LEMMA AllIs ==
  ASSUME NEW acc \in Split
  PROVE  /\ acc.work \in Seq(Work) /\ acc.batch \in Seq(Files) /\ Len(acc.work) \in Nat
         /\ SmallBatch(acc.batch) \in Work
         /\ All(acc) \in Seq(Work) /\ Len(All(acc)) = Len(acc.work) + 1
         /\ All(acc)[Len(acc.work) + 1] = SmallBatch(acc.batch)
         /\ \A i \in 1 .. Len(acc.work) : All(acc)[i] = acc.work[i]
         /\ Counted(All(acc)) = Counted(acc.work) + Len(acc.batch)
         /\ Counted(acc.work) \in Nat /\ Len(acc.batch) \in Nat
<1>1. acc.work \in Seq(Work) /\ acc.batch \in Seq(Files)
  BY DEF Split
<1>2. SmallBatch(acc.batch) \in Work /\ SmallBatch(acc.batch).files = acc.batch
  BY <1>1 DEF SmallBatch, Work
<1> QED
  BY <1>1, <1>2, Appended, CountedMore, LenProperties DEF All

(* A file on its own. *)
LEMMA SplitSingle ==
  ASSUME NEW sz \in [Files -> Nat], NEW k \in 1 .. Len(Manifest),
         NEW acc \in Split, GoodSplit(acc, k - 1, sz), NEW acc2 \in Split,
         acc2.work = Append(acc.work, SingleFile(Manifest[k])),
         acc2.batch = acc.batch, acc2.bytes = acc.bytes
  PROVE  GoodSplit(acc2, k, sz)
<1> DEFINE f == Manifest[k]
           n == Len(acc.work)
           W == All(acc)
           V == All(acc2)
<1>1. f \in Files /\ k \in Int
  BY FirstMore
<1>2. /\ SingleFile(f) \in Work /\ SingleFile(f).kind = "file" /\ SingleFile(f).files = <<f>>
      /\ Len(<<f>>) = 1
  <2> HIDE DEF f
  <2> QED
    BY <1>1, SingleIs
<1>3. /\ acc.work \in Seq(Work) /\ n \in Nat /\ W \in Seq(Work) /\ Len(W) = n + 1
      /\ W[n + 1] = SmallBatch(acc.batch) /\ \A i \in 1 .. n : W[i] = acc.work[i]
      /\ Counted(W) = Counted(acc.work) + Len(acc.batch)
      /\ Counted(acc.work) \in Nat /\ Len(acc.batch) \in Nat
  BY AllIs
<1>4. /\ acc2.work \in Seq(Work) /\ Len(acc2.work) = n + 1 /\ acc2.work[n + 1] = SingleFile(f)
      /\ \A i \in 1 .. n : acc2.work[i] = acc.work[i]
      /\ Counted(acc2.work) = Counted(acc.work) + 1
  <2>1. acc2.work = Append(acc.work, SingleFile(f))
    OBVIOUS
  <2>2. Counted(acc2.work) = Counted(acc.work) + Len(SingleFile(f).files)
    <3> HIDE DEF f, n, W
    <3> QED
      BY <1>2, <1>3, <2>1, CountedMore
  <2>3. Len(SingleFile(f).files) = 1
    BY <1>2
  <2>4. /\ acc2.work \in Seq(Work) /\ Len(acc2.work) = Len(acc.work) + 1
        /\ acc2.work[Len(acc.work) + 1] = SingleFile(f)
        /\ \A i \in 1 .. Len(acc.work) : acc2.work[i] = acc.work[i]
    <3> HIDE DEF f, n, W
    <3> QED
      BY <1>2, <1>3, <2>1, Appended
  <2> QED
    BY <2>2, <2>3, <2>4
<1>5. /\ V \in Seq(Work) /\ Len(V) = n + 2
      /\ V[n + 2] = SmallBatch(acc.batch) /\ V[n + 1] = SingleFile(f)
      /\ \A i \in 1 .. n : V[i] = acc.work[i]
      /\ Counted(V) = Counted(acc.work) + 1 + Len(acc.batch)
  <2>1. /\ V \in Seq(Work) /\ Len(V) = Len(acc2.work) + 1
        /\ V[Len(acc2.work) + 1] = SmallBatch(acc.batch)
        /\ \A i \in 1 .. Len(acc2.work) : V[i] = acc2.work[i]
        /\ Counted(V) = Counted(acc2.work) + Len(acc.batch)
    BY AllIs
  <2> HIDE DEF V, n, f
  <2>2. n + 1 + 1 = n + 2 /\ n + 1 \in 1 .. n + 1 /\ \A i \in 1 .. n : i \in 1 .. n + 1
    BY <1>3
  <2> QED
    BY <1>4, <2>1, <2>2
<1>6. GoodItem(SingleFile(f), sz)
  BY <1>2 DEF GoodItem
<1> HIDE DEF W, V, n, f
<1>7. GoodItems(V, sz)
  <2>1. \A i \in 1 .. n + 1 : GoodItem(W[i], sz)
    BY <1>3 DEF GoodSplit, GoodItems, W
  <2> SUFFICES ASSUME NEW i \in 1 .. n + 2 PROVE GoodItem(V[i], sz)
    BY <1>5 DEF GoodItems
  <2>2. CASE i \in 1 .. n
    <3>1. V[i] = W[i] /\ i \in 1 .. n + 1
      BY <1>3, <1>5, <2>2
    <3> QED
      BY <2>1, <3>1
  <2>3. CASE i = n + 1
    BY <1>5, <1>6, <2>3
  <2>4. CASE i = n + 2
    <3>1. V[i] = W[n + 1] /\ n + 1 \in 1 .. n + 1
      BY <1>3, <1>5, <2>4
    <3> QED
      BY <2>1, <3>1
  <2> QED
    BY <1>3, <2>2, <2>3, <2>4
<1>8. Apart(V) /\ Covers(V, k)
  <2> DEFINE q == n + 1
  <2>1. Len(V) = Len(W) + 1 /\ q \in 1 .. Len(V) /\ V[q].files = <<Manifest[k]>>
    BY <1>2, <1>3, <1>5 DEF f
  <2>2. \A i \in 1 .. q - 1 : V[i] = W[i]
    BY <1>3, <1>5
  <2>3. \A i \in q + 1 .. Len(V) : V[i] = W[i - 1]
    <3>1. \A i \in q + 1 .. Len(V) : i = n + 2 /\ i - 1 = n + 1
      BY <1>3, <1>5
    <3> QED
      BY <1>3, <1>5, <3>1
  <2>4. Apart(W) /\ Covers(W, k - 1)
    BY DEF GoodSplit, W
  <2> HIDE DEF q
  <2> QED
    BY <1>3, <1>5, <2>1, <2>2, <2>3, <2>4, ItemPut
<1>9. Counted(V) = k
  <2>1. Counted(W) = k - 1
    BY DEF GoodSplit, W
  <2>2. Counted(acc.work) + Len(acc.batch) = k - 1
    BY <1>3, <2>1
  <2>3. Counted(acc.work) + 1 + Len(acc.batch) = k
    <3> DEFINE x == Counted(acc.work)
               y == Len(acc.batch)
    <3>1. x \in Int /\ y \in Int /\ k \in Int /\ x + y = k - 1
      BY <1>1, <1>3, <2>2
    <3> HIDE DEF x, y
    <3>2. x + 1 + y = k
      BY <3>1
    <3> QED
      BY <3>2 DEF x, y
  <2> QED
    BY <1>5, <2>3
<1> QED
  BY <1>7, <1>8, <1>9 DEF GoodSplit, V

(* The batch is full and is followed by another. *)
LEMMA SplitFull ==
  ASSUME NEW sz \in [Files -> Nat], NEW started, NEW k \in 1 .. Len(Manifest),
         NEW acc \in Split, GoodSplit(acc, k - 1, sz), NEW acc2 \in Split,
         Batched(Manifest[k], sz, started),
         acc2.work = Append(acc.work, SmallBatch(acc.batch)),
         acc2.batch = <<Manifest[k]>>, acc2.bytes = sz[Manifest[k]]
  PROVE  GoodSplit(acc2, k, sz)
<1> DEFINE f == Manifest[k]
           n == Len(acc.work)
           W == All(acc)
           V == All(acc2)
<1>1. f \in Files /\ k \in Int
  BY FirstMore
<1>2. /\ SmallBatch(<<f>>) \in Work /\ SmallBatch(<<f>>).kind = "batch"
      /\ SmallBatch(<<f>>).files = <<f>>
      /\ Len(<<f>>) = 1 /\ <<f>>[1] = f
  <2> HIDE DEF f
  <2>1. <<f>> \in Seq(Files) /\ Len(<<f>>) = 1 /\ <<f>>[1] = f
    BY <1>1, SingleIs
  <2> QED
    BY <2>1, BatchIs
<1>3. n \in Nat /\ W \in Seq(Work) /\ Len(W) = n + 1 /\ acc2.work = W
  BY AllIs DEF All
<1>4. /\ V \in Seq(Work) /\ Len(V) = n + 2 /\ V[n + 2] = SmallBatch(<<f>>)
      /\ \A i \in 1 .. n + 1 : V[i] = W[i]
      /\ Counted(V) = Counted(W) + 1
  <2>1. /\ V \in Seq(Work) /\ Len(V) = Len(acc2.work) + 1
        /\ V[Len(acc2.work) + 1] = SmallBatch(acc2.batch)
        /\ \A i \in 1 .. Len(acc2.work) : V[i] = acc2.work[i]
        /\ Counted(V) = Counted(acc2.work) + Len(acc2.batch)
    BY AllIs
  <2> HIDE DEF V, W, n, f
  <2>2. n + 1 + 1 = n + 2
    BY <1>3
  <2> QED
    BY <1>2, <1>3, <2>1, <2>2 DEF f
<1>5. sz[f] \in Nat /\ acc2.bytes = Sum(acc2.batch, sz) /\ Sum(<<f>>, sz) = sz[f]
  BY <1>1, SumOne
<1>6. GoodItem(SmallBatch(<<f>>), sz)
  <2>1. /\ BatchTarget > 0 /\ sz[f] <= SmallFile /\ sz[f] <= MaxSmallFile
    BY DEF Batched
  <2>2. Sum(<<f>>, sz) <= BatchTarget /\ 1 <= BatchCount
    <3> HIDE DEF f
    <3> QED
      BY <1>5, <2>1, Constants
  <2>3. \A j \in 1 .. Len(<<f>>) : sz[<<f>>[j]] <= MaxSmallFile
    BY <1>2, <2>1
  <2> HIDE DEF f
  <2> QED
    BY <1>2, <2>2, <2>3 DEF GoodItem
<1> HIDE DEF W, V, n, f
<1>7. GoodItems(V, sz)
  <2>1. \A i \in 1 .. n + 1 : GoodItem(W[i], sz)
    BY <1>3 DEF GoodSplit, GoodItems, W
  <2> SUFFICES ASSUME NEW i \in 1 .. n + 2 PROVE GoodItem(V[i], sz)
    BY <1>4 DEF GoodItems
  <2>2. CASE i \in 1 .. n + 1
    BY <1>4, <2>1, <2>2
  <2>3. CASE i = n + 2
    BY <1>4, <1>6, <2>3
  <2> QED
    BY <1>3, <2>2, <2>3
<1>8. Apart(V) /\ Covers(V, k)
  <2> DEFINE q == n + 2
  <2>1. Len(V) = Len(W) + 1 /\ q \in 1 .. Len(V) /\ V[q].files = <<Manifest[k]>>
    BY <1>2, <1>3, <1>4 DEF f
  <2>2. \A i \in 1 .. q - 1 : V[i] = W[i]
    <3>1. q - 1 = n + 1
      BY <1>3
    <3> QED
      BY <1>4, <3>1
  <2>3. \A i \in q + 1 .. Len(V) : V[i] = W[i - 1]
    BY <1>3, <1>4
  <2>4. Apart(W) /\ Covers(W, k - 1)
    BY DEF GoodSplit, W
  <2> HIDE DEF q
  <2> QED
    BY <1>3, <1>4, <2>1, <2>2, <2>3, <2>4, ItemPut
<1>9. Counted(V) = k
  <2>1. Counted(W) = k - 1
    BY DEF GoodSplit, W
  <2> QED
    BY <1>1, <1>4, <2>1
<1> QED
  BY <1>5, <1>7, <1>8, <1>9 DEF GoodSplit, V

(* The file joins the batch. *)
LEMMA SplitJoin ==
  ASSUME NEW sz \in [Files -> Nat], NEW started, NEW k \in 1 .. Len(Manifest),
         NEW acc \in Split, GoodSplit(acc, k - 1, sz), NEW acc2 \in Split,
         Batched(Manifest[k], sz, started), ~Full(acc, sz[Manifest[k]]),
         acc2.work = acc.work,
         acc2.batch = Append(acc.batch, Manifest[k]), acc2.bytes = acc.bytes + sz[Manifest[k]]
  PROVE  GoodSplit(acc2, k, sz)
<1> DEFINE f == Manifest[k]
           n == Len(acc.work)
           B == acc.batch
           C == Append(B, f)
           W == All(acc)
           V == All(acc2)
<1>1. f \in Files /\ k \in Int /\ B \in Seq(Files) /\ sz[f] \in Nat
  <2>1. f \in Files
    BY FirstMore
  <2>2. B \in Seq(Files)
    BY AllIs
  <2> HIDE DEF f, B
  <2> QED
    BY <2>1, <2>2
<1>2. /\ C \in Seq(Files) /\ Len(C) = Len(B) + 1 /\ Len(B) \in Nat /\ C[Len(B) + 1] = f
      /\ \A i \in 1 .. Len(B) : C[i] = B[i]
  <2> HIDE DEF B, f
  <2> QED
    BY <1>1, Appended
<1>3. /\ SmallBatch(B).kind = "batch" /\ SmallBatch(B).files = B
      /\ SmallBatch(C).kind = "batch" /\ SmallBatch(C).files = C
  BY DEF SmallBatch
<1>4. /\ n \in Nat /\ W \in Seq(Work) /\ Len(W) = n + 1 /\ W[n + 1] = SmallBatch(B)
      /\ \A i \in 1 .. n : W[i] = acc.work[i]
      /\ Counted(W) = Counted(acc.work) + Len(B) /\ Counted(acc.work) \in Nat
  BY AllIs
<1>5. /\ V \in Seq(Work) /\ Len(V) = n + 1 /\ V[n + 1] = SmallBatch(C)
      /\ \A i \in 1 .. n : V[i] = acc.work[i]
      /\ Counted(V) = Counted(acc.work) + Len(C)
  BY AllIs
<1>6. Sum(C, sz) = Sum(B, sz) + sz[f] /\ Sum(B, sz) \in Nat
  <2> HIDE DEF B, f
  <2> QED
    BY <1>1, SumMore
<1>7. acc2.bytes = Sum(acc2.batch, sz)
  BY <1>6 DEF GoodSplit
<1>8. GoodItem(SmallBatch(C), sz)
  <2>1. /\ sz[f] <= MaxSmallFile /\ ~(Len(B) >= BatchCount) /\ ~(acc.bytes + sz[f] > BatchTarget)
        /\ acc.bytes = Sum(B, sz)
    BY DEF Batched, Full, GoodSplit
  <2> HIDE DEF f, B, C
  <2>2. Sum(C, sz) <= BatchTarget /\ Len(C) <= BatchCount
    BY <1>1, <1>2, <1>6, <2>1, Constants
  <2>3. \A j \in 1 .. Len(B) : sz[B[j]] <= MaxSmallFile
    <3>1. n + 1 \in 1 .. Len(W)
      BY <1>4
    <3>2. GoodItem(W[n + 1], sz)
      <4> HIDE DEF n
      <4> QED
        BY <3>1 DEF GoodSplit, GoodItems
    <3> QED
      BY <1>3, <1>4, <3>2 DEF GoodItem
  <2>4. ASSUME NEW j \in 1 .. Len(C)
        PROVE  sz[C[j]] <= MaxSmallFile
    <3>1. CASE j \in 1 .. Len(B)
      BY <1>2, <2>3, <3>1
    <3>2. CASE j = Len(B) + 1
      BY <1>2, <2>1, <3>2
    <3> QED
      BY <1>2, <3>1, <3>2
  <2> QED
    BY <1>3, <2>2, <2>4 DEF GoodItem
<1> HIDE DEF W, V, n, f, B, C
<1>9. GoodItems(V, sz)
  <2>1. \A i \in 1 .. n + 1 : GoodItem(W[i], sz)
    BY <1>4 DEF GoodSplit, GoodItems, W
  <2> SUFFICES ASSUME NEW i \in 1 .. n + 1 PROVE GoodItem(V[i], sz)
    BY <1>5 DEF GoodItems
  <2>2. CASE i \in 1 .. n
    <3>1. V[i] = W[i] /\ i \in 1 .. n + 1
      BY <1>4, <1>5, <2>2
    <3> QED
      BY <2>1, <3>1
  <2>3. CASE i = n + 1
    BY <1>5, <1>8, <2>3
  <2> QED
    BY <1>4, <2>2, <2>3
<1>10. Apart(V) /\ Covers(V, k)
  <2>1. Apart(W) /\ Covers(W, k - 1)
    BY DEF GoodSplit, W
  <2>2. \A i \in 1 .. n : V[i] = W[i]
    BY <1>4, <1>5
  <2>3. V[n + 1].files = Append(W[n + 1].files, Manifest[k])
    BY <1>3, <1>4, <1>5 DEF C, f
  <2>4. Len(V) = n + 1 /\ Len(W) = n + 1 /\ n \in Nat /\ V \in Seq(Work) /\ W \in Seq(Work)
    BY <1>4, <1>5
  <2> QED
    BY <2>1, <2>2, <2>3, <2>4, ItemGrown
<1>11. Counted(V) = k
  <2>1. Counted(W) = k - 1
    BY DEF GoodSplit, W
  <2>2. Counted(acc.work) + Len(B) = k - 1
    BY <1>4, <2>1
  <2>3. Counted(acc.work) + (Len(B) + 1) = k
    <3> DEFINE x == Counted(acc.work)
               y == Len(B)
    <3>1. x \in Int /\ y \in Int /\ k \in Int /\ x + y = k - 1
      BY <1>1, <1>2, <1>4, <2>2
    <3> HIDE DEF x, y
    <3>2. x + (y + 1) = k
      BY <3>1
    <3> QED
      BY <3>2 DEF x, y
  <2> QED
    BY <1>2, <1>5, <2>3
<1> QED
  BY <1>7, <1>9, <1>10, <1>11 DEF GoodSplit, V

GoodWork(W, sz) ==
  /\ W \in Seq(Work) /\ GoodItems(W, sz)
  /\ Apart(W) /\ Covers(W, Len(Manifest)) /\ Counted(W) = Len(Manifest)

(* Each file of the manifest keeps the split good ... *)
LEMMA SplitStep ==
  ASSUME NEW sz \in [Files -> Nat], NEW started, NEW k \in 1 .. Len(Manifest),
         NEW acc \in Split, GoodSplit(acc, k - 1, sz)
  PROVE  GoodSplit(AddFile(acc, Manifest[k], sz, started), k, sz)
<1> DEFINE f == Manifest[k]
           acc2 == AddFile(acc, f, sz, started)
<1>1. f \in Files
  BY FirstMore
<1>2. acc2 \in Split
  <2> HIDE DEF f
  <2> QED
    BY <1>1, AddFileTyped
<1>3. CASE ~Batched(f, sz, started)
  <2>1. acc2 = [work |-> Append(acc.work, SingleFile(f)), batch |-> acc.batch, bytes |-> acc.bytes]
    <3> HIDE DEF f
    <3> QED
      BY <1>1, <1>3, AddFileIs
  <2>2. /\ acc2.work = Append(acc.work, SingleFile(Manifest[k]))
        /\ acc2.batch = acc.batch /\ acc2.bytes = acc.bytes
    BY <2>1
  <2> HIDE DEF acc2
  <2>3. GoodSplit(acc2, k, sz)
    BY <1>2, <2>2, SplitSingle
  <2> QED
    BY <2>3 DEF acc2
<1>4. CASE Batched(f, sz, started) /\ Full(acc, sz[f])
  <2>1. acc2 = [work |-> Append(acc.work, SmallBatch(acc.batch)), batch |-> <<f>>, bytes |-> sz[f]]
    <3> HIDE DEF f
    <3> QED
      BY <1>1, <1>4, AddFileIs
  <2>2. /\ acc2.work = Append(acc.work, SmallBatch(acc.batch))
        /\ acc2.batch = <<Manifest[k]>> /\ acc2.bytes = sz[Manifest[k]]
    BY <2>1
  <2> HIDE DEF acc2
  <2>3. GoodSplit(acc2, k, sz)
    BY <1>2, <1>4, <2>2, SplitFull
  <2> QED
    BY <2>3 DEF acc2
<1>5. CASE Batched(f, sz, started) /\ ~Full(acc, sz[f])
  <2>1. acc2 = [work |-> acc.work, batch |-> Append(acc.batch, f), bytes |-> acc.bytes + sz[f]]
    <3> HIDE DEF f
    <3> QED
      BY <1>1, <1>5, AddFileIs
  <2>2. /\ acc2.work = acc.work
        /\ acc2.batch = Append(acc.batch, Manifest[k]) /\ acc2.bytes = acc.bytes + sz[Manifest[k]]
    BY <2>1
  <2> HIDE DEF acc2
  <2>3. GoodSplit(acc2, k, sz)
    BY <1>2, <1>5, <2>2, SplitJoin
  <2> QED
    BY <2>3 DEF acc2
<1> QED
  BY <1>3, <1>4, <1>5

(* ... which the empty one is. *)
LEMMA SplitStart ==
  ASSUME NEW sz \in [Files -> Nat]
  PROVE  GoodSplit(Nothing, 0, sz)
<1> DEFINE B == SmallBatch(<<>>)
           V == All(Nothing)
<1>1. Nothing.work = <<>> /\ Nothing.batch = <<>> /\ Nothing.bytes = 0
  BY DEF Nothing
<1>2. <<>> \in Seq(Files) /\ Len(<<>>) = 0 /\ <<>> \in Seq(Work)
  BY EmptySeq
<1>3. B \in Work /\ B.kind = "batch" /\ B.files = <<>>
  BY <1>2, BatchIs
<1>4. V = Append(<<>>, B)
  BY <1>1 DEF All
<1>5. V \in Seq(Work) /\ Len(V) = 1 /\ V[1] = B /\ Counted(V) = 0
  <2> HIDE DEF B
  <2>1. /\ V \in Seq(Work) /\ Len(V) = Len(<<>>) + 1 /\ V[Len(<<>>) + 1] = B
    <3> HIDE DEF V
    <3> QED
      BY <1>2, <1>3, <1>4, Appended
  <2>2. Counted(V) = Counted(<<>>) + Len(B.files)
    <3> HIDE DEF V
    <3> QED
      BY <1>2, <1>3, <1>4, CountedMore
  <2> HIDE DEF V
  <2>3. Counted(V) = 0 + 0
    BY <1>2, <1>3, <2>2, CountedNone
  <2> QED
    BY <1>2, <2>1, <2>3
<1>6. First(0) = {}
  BY DEF First
<1>7. Sum(<<>>, sz) = 0
  BY SumNone
<1> HIDE DEF B, V
<1>8. GoodItem(B, sz)
  <2>1. 0 <= BatchCount /\ 0 <= BatchTarget
    BY Constants
  <2>2. \A k \in 1 .. 0 : FALSE
    OBVIOUS
  <2> QED
    BY <1>2, <1>3, <1>7, <2>1, <2>2 DEF GoodItem
<1>9. \A i \in 1 .. Len(V) : i = 1 /\ Len(V[i].files) = 0
  BY <1>2, <1>3, <1>5
<1>10. GoodItems(V, sz)
  BY <1>5, <1>8, <1>9 DEF GoodItems
<1>11. \A i \in 1 .. Len(V) : \A a \in 1 .. Len(V[i].files) : FALSE
  BY <1>9
<1>12. Apart(V) /\ Covers(V, 0)
  BY <1>6, <1>11 DEF Apart, Covers
<1> QED
  BY <1>1, <1>5, <1>7, <1>10, <1>12 DEF GoodSplit, V

(* Whatever the sizes: every file of the manifest is in one place of one
   item, and every batch is within the limits. *)
LEMMA BuildDownloadWorkIsGood ==
  ASSUME NEW sz \in [Files -> Nat], NEW started
  PROVE  GoodWork(BuildDownloadWork(sz, started), sz)
<1> DEFINE n == Len(Manifest)
<1>0. n \in Nat
  BY Constants
<1>1. PICK g \in [0 .. n -> Split] :
        /\ g[0] = Nothing
        /\ \A k \in 1 .. n : g[k] = AddFile(g[k - 1], Manifest[k], sz, started)
        /\ BuildDownloadWork(sz, started) = IF g[n].batch = <<>> THEN g[n].work
                                            ELSE Append(g[n].work, SmallBatch(g[n].batch))
  BY SplitIs
<1> DEFINE S == {k \in 0 .. n : GoodSplit(g[k], k, sz)}
<1>2. 0 \in S
  BY <1>0, <1>1, SplitStart
<1>3. ASSUME NEW k \in 1 .. n, k - 1 \in S
      PROVE  k \in S
  <2>1. k - 1 \in 0 .. n /\ k \in 0 .. n /\ g[k - 1] \in Split /\ GoodSplit(g[k - 1], k - 1, sz)
    BY <1>1, <1>3
  <2>2. GoodSplit(AddFile(g[k - 1], Manifest[k], sz, started), k, sz)
    BY <2>1, SplitStep
  <2> QED
    BY <1>1, <2>1, <2>2
<1>4. n \in S
  <2> HIDE DEF S, n
  <2> QED
    BY <1>0, <1>2, <1>3, UpTo
<1> DEFINE acc == g[n]
           V == All(acc)
           W == acc.work
<1>5. acc \in Split /\ GoodSplit(acc, n, sz)
  BY <1>0, <1>1, <1>4
<1>6. BuildDownloadWork(sz, started) = IF acc.batch = <<>> THEN W ELSE V
  BY <1>1 DEF All
<1> HIDE DEF acc
<1>7. /\ W \in Seq(Work) /\ Len(W) \in Nat /\ V \in Seq(Work) /\ Len(V) = Len(W) + 1
      /\ V[Len(W) + 1] = SmallBatch(acc.batch) /\ \A i \in 1 .. Len(W) : V[i] = W[i]
      /\ Counted(V) = Counted(W) + Len(acc.batch) /\ Counted(W) \in Nat
      /\ SmallBatch(acc.batch).files = acc.batch
  BY <1>5, AllIs DEF SmallBatch
<1>8. GoodItems(V, sz) /\ Apart(V) /\ Covers(V, n) /\ Counted(V) = n
  BY <1>5 DEF GoodSplit
<1> HIDE DEF V, W, n
<1>9. CASE acc.batch = <<>>
  <2>1. Len(acc.batch) = 0
    BY <1>9
  <2>2. Counted(W) = n
    BY <1>7, <1>8, <2>1
  <2>3. \A i \in 1 .. Len(W) : i \in 1 .. Len(V) /\ V[i] = W[i]
    BY <1>7
  <2>4. GoodItems(W, sz)
    BY <1>8, <2>3 DEF GoodItems
  <2>5. Apart(W)
    <3>1. \A i, j \in 1 .. Len(V) : \A a \in 1 .. Len(V[i].files), b \in 1 .. Len(V[j].files) :
            V[i].files[a] = V[j].files[b] => i = j /\ a = b
      BY <1>8 DEF Apart
    <3> SUFFICES ASSUME NEW i \in 1 .. Len(W), NEW j \in 1 .. Len(W),
                        NEW a \in 1 .. Len(W[i].files), NEW b \in 1 .. Len(W[j].files),
                        W[i].files[a] = W[j].files[b]
                 PROVE  i = j /\ a = b
      BY DEF Apart
    <3>2. i \in 1 .. Len(V) /\ j \in 1 .. Len(V) /\ V[i] = W[i] /\ V[j] = W[j]
      BY <2>3
    <3>3. \A x \in 1 .. Len(V[i].files), y \in 1 .. Len(V[j].files) :
            V[i].files[x] = V[j].files[y] => i = j /\ x = y
      BY <3>1, <3>2
    <3> QED
      BY <3>2, <3>3
  <2>6. Covers(W, n)
    <3>1. \A i \in 1 .. Len(W) : \A a \in 1 .. Len(W[i].files) : W[i].files[a] \in First(n)
      BY <1>8, <2>3 DEF Covers
    <3>2. ASSUME NEW f \in First(n)
          PROVE  \E i \in 1 .. Len(W) : \E a \in 1 .. Len(W[i].files) : W[i].files[a] = f
      <4>1. PICK i \in 1 .. Len(V) : \E a \in 1 .. Len(V[i].files) : V[i].files[a] = f
        BY <1>8 DEF Covers
      <4>2. i # Len(W) + 1
        BY <1>7, <2>1, <4>1
      <4>3. i \in 1 .. Len(W)
        BY <1>7, <4>2
      <4> QED
        BY <2>3, <4>1, <4>3
    <3> QED
      BY <3>1, <3>2 DEF Covers
  <2>7. BuildDownloadWork(sz, started) = W
    BY <1>6, <1>9
  <2> QED
    BY <1>7, <2>2, <2>4, <2>5, <2>6, <2>7 DEF GoodWork, n
<1>10. CASE acc.batch # <<>>
  <2>1. BuildDownloadWork(sz, started) = V
    BY <1>6, <1>10
  <2> QED
    BY <1>7, <1>8, <2>1 DEF GoodWork, n
<1> QED
  BY <1>9, <1>10

-----------------------------------------------------------------------------
(* The shape of a run, and how far the files of an item can be. *)

ItemStates == {"new", "file_io", "prepare", "fetch", "write", "done"}
WriteStates == {"no", "file_io", "write", "remove", "rename", "done"}
Early == {"new", "file_io", "prepare", "fetch"}

FilesIn(W, i) == ToSet(W[i].files)

(* The variables but for the counters. *)
Shape ==
  /\ policy \in Policies /\ size \in [Files -> Nat] /\ GoodWork(work, size)
  /\ item \in [Items -> ItemStates]
  /\ todo \in [Items -> Seq(Files)]
  /\ target \in [Files -> Names \cup {None}] /\ write \in [Files -> WriteStates]
  /\ part \subseteq Files /\ disk \in [Names -> Files \cup {None, Foreign}]
  /\ result \in {"running", "completed", "failed"} /\ cancelled \in BOOLEAN

(* How far the files of an item can be. *)
InStep ==
  /\ \A i \in Items : \A a \in 1 .. Len(todo[i]) : todo[i][a] \in FilesOf(i)
  /\ \A f \in Files : write[f] # "no" => target[f] # None
  /\ \A i \in Items : item[i] = "file_io" => work[i].kind = "file"
  /\ \A i \in Items : \A f \in FilesOf(i) :
       /\ item[i] \in Early => write[f] = "no"
       /\ item[i] = "done" => write[f] \in {"no", "done"}
       /\ work[i].kind = "file" => write[f] \notin {"file_io", "write"}

(* The parts of a work that was made, by their types. *)
LEMMA WorkFacts ==
  ASSUME NEW W, NEW sz, GoodWork(W, sz)
  PROVE  /\ Len(W) \in Nat /\ DOMAIN W = 1 .. Len(W)
         /\ \A i \in 1 .. Len(W) : W[i] \in Work /\ W[i].files \in Seq(Files)
                                   /\ DOMAIN W[i].files = 1 .. Len(W[i].files)
                                   /\ Len(W[i].files) \in Nat
                                   /\ W[i].kind \in {"batch", "file"}
                                   /\ FilesIn(W, i) \subseteq Files
<1>1. W \in Seq(Work)
  BY DEF GoodWork
<1>2. Len(W) \in Nat /\ DOMAIN W = 1 .. Len(W) /\ \A i \in 1 .. Len(W) : W[i] \in Work
  BY <1>1, LenProperties
<1>3. \A x \in Work : x.files \in Seq(Files) /\ x.kind \in {"batch", "file"}
  BY DEF Work
<1>4. \A s \in Seq(Files) : /\ DOMAIN s = 1 .. Len(s) /\ Len(s) \in Nat
                            /\ ToSet(s) \subseteq Files
  BY LenProperties DEF ToSet
<1> QED
  BY <1>2, <1>3, <1>4 DEF FilesIn

(* No file is in two items ... *)
LEMMA OneItem ==
  ASSUME NEW W, NEW sz, GoodWork(W, sz), NEW i \in 1 .. Len(W), NEW j \in 1 .. Len(W),
         NEW f \in FilesIn(W, i), f \in FilesIn(W, j)
  PROVE  i = j
<1>1. PICK a \in 1 .. Len(W[i].files) : W[i].files[a] = f
  BY WorkFacts DEF FilesIn, ToSet
<1>2. PICK b \in 1 .. Len(W[j].files) : W[j].files[b] = f
  BY WorkFacts DEF FilesIn, ToSet
<1>3. Apart(W)
  BY DEF GoodWork
<1>4. \A x, y \in 1 .. Len(W) : \A u \in 1 .. Len(W[x].files), w \in 1 .. Len(W[y].files) :
        W[x].files[u] = W[y].files[w] => x = y /\ u = w
  BY <1>3 DEF Apart
<1> QED
  BY <1>1, <1>2, <1>4

(* ... and each is in one. *)
LEMMA HasItem ==
  ASSUME NEW W, NEW sz, GoodWork(W, sz), NEW f \in Files
  PROVE  \E i \in 1 .. Len(W) : f \in FilesIn(W, i)
<1>1. Covers(W, Len(Manifest))
  BY DEF GoodWork
<1>2. f \in First(Len(Manifest))
  BY DEF Files, First
<1>3. PICK i \in 1 .. Len(W) : \E a \in 1 .. Len(W[i].files) : W[i].files[a] = f
  BY <1>1, <1>2 DEF Covers
<1>4. DOMAIN W[i].files = 1 .. Len(W[i].files)
  BY WorkFacts
<1> QED
  BY <1>3, <1>4 DEF FilesIn, ToSet

(* The facts about items that steps rely on. *)
LEMMA ItemFacts ==
  ASSUME Shape
  PROVE  /\ Items = 1 .. Len(work) /\ Len(work) \in Nat
         /\ \A i \in Items : /\ FilesOf(i) \subseteq Files /\ work[i].kind \in {"batch", "file"}
                             /\ Prepared(i) \subseteq FilesOf(i)
         /\ \A i, j \in Items : \A f \in FilesOf(i) : f \in FilesOf(j) => i = j
         /\ \A f \in Files : ItemOf(f) \in Items /\ f \in FilesOf(ItemOf(f))
<1>1. GoodWork(work, size) /\ \A i : FilesOf(i) = FilesIn(work, i)
  BY DEF Shape, FilesOf, FilesIn
<1>2. Items = 1 .. Len(work) /\ Len(work) \in Nat
  BY <1>1, WorkFacts DEF Items
<1>3. \A i, j \in Items : \A f \in FilesOf(i) : f \in FilesOf(j) => i = j
  BY <1>1, <1>2, OneItem
<1>4. ASSUME NEW f \in Files
      PROVE  ItemOf(f) \in Items /\ f \in FilesOf(ItemOf(f))
  <2>1. \E i \in Items : f \in FilesOf(i)
    BY <1>1, <1>2, HasItem
  <2> QED
    BY <2>1 DEF ItemOf
<1>5. ASSUME NEW i \in Items
      PROVE  /\ FilesOf(i) \subseteq Files /\ work[i].kind \in {"batch", "file"}
             /\ Prepared(i) \subseteq FilesOf(i)
  BY <1>1, <1>2, WorkFacts DEF Prepared
<1> QED
  BY <1>2, <1>3, <1>4, <1>5

(* keep_both_path gives one of the candidates, the last when none is free. *)
LEMMA CopyPicked ==
  ASSUME NEW n \in Targets
  PROVE  KeepBothPath(n) \in ToSet(Copies[n]) /\ KeepBothPath(n) \in Names
<1> DEFINE s == Copies[n]
           free == {k \in DOMAIN s : ~Exists(s[k])} \cup {Len(s)}
<1>1. s \in Seq(Names) /\ s # <<>>
  BY DownloadWindowAssumption
<1>2. Len(s) \in Nat \ {0} /\ DOMAIN s = 1 .. Len(s)
  <2> HIDE DEF s
  <2>1. Len(s) \in Nat /\ DOMAIN s = 1 .. Len(s)
    BY <1>1, LenProperties
  <2>2. Len(s) # 0
    BY <1>1
  <2> QED
    BY <2>1, <2>2
<1>3. free \in SUBSET (1 .. Len(s)) /\ free # {}
  BY <1>2
<1>4. free \in SUBSET Nat /\ IsFiniteSet(free)
  <2> HIDE DEF free
  <2>1. IsFiniteSet(1 .. Len(s))
    <3>1. 1 \in Int /\ Len(s) \in Int
      BY <1>2
    <3> QED
      BY <3>1, FS_Interval
  <2>2. IsFiniteSet(free)
    BY <1>3, <2>1, FS_Subset, Zenon
  <2>3. free \subseteq Nat
    BY <1>2, <1>3
  <2> QED
    BY <2>2, <2>3
<1>5. \E k \in free : \A j \in free : k <= j
  <2> HIDE DEF free
  <2>1. PICK k \in free : \A j \in free : ~(j < k)
    BY <1>3, <1>4, LeastOf
  <2> QED
    BY <1>4, <2>1
<1> DEFINE k == CHOOSE k \in free : \A j \in free : k <= j
<1>6. k \in free
  <2> HIDE DEF free
  <2> QED
    BY <1>5
<1>7. k \in DOMAIN s
  <2> HIDE DEF k, free
  <2> QED
    BY <1>2, <1>3, <1>6
<1>8. KeepBothPath(n) = s[k]
  BY DEF KeepBothPath
<1>9. s[k] \in ToSet(s) /\ s[k] \in Names
  <2> HIDE DEF k, s
  <2> QED
    BY <1>1, <1>2, <1>7, LenProperties DEF ToSet
<1> QED
  BY <1>8, <1>9

(* A run starts in shape. *)
LEMMA InitShape == ASSUME Init PROVE Shape /\ InStep
<1>1. PICK started : work = BuildDownloadWork(size, started)
  BY DEF Init
<1>2. size \in [Files -> Nat] /\ policy \in Policies
  BY DownloadWindowAssumption DEF Init
<1>3. GoodWork(work, size)
  BY <1>1, <1>2, BuildDownloadWorkIsGood
<1>4. Items = 1 .. Len(work) /\ \A i \in Items : work[i].files \in Seq(Files) /\ FilesOf(i) = ToSet(work[i].files)
  BY <1>3, WorkFacts DEF Items, FilesOf
<1>5. /\ item = [i \in Items |-> "new"] /\ todo = [i \in Items |-> work[i].files]
      /\ target = [f \in Files |-> None] /\ write = [f \in Files |-> "no"] /\ part = {}
      /\ result = "running" /\ cancelled = FALSE
  BY DEF Init
<1>6. disk \in [Names -> Files \cup {None, Foreign}]
  <2>1. PICK there \in [Files -> {None, Foreign, "own"}], copied \in SUBSET Numbered :
          disk = [n \in Names |->
                 IF n \in Targets
                 THEN LET f == CHOOSE f \in Files : Name[f] = n
                      IN IF there[f] = "own" THEN f ELSE there[f]
                 ELSE IF n \in copied THEN Foreign ELSE None]
    BY DEF Init
  <2> DEFINE at(n) == CHOOSE f \in Files : Name[f] = n
  <2>2. ASSUME NEW n \in Targets PROVE at(n) \in Files
    BY DEF Targets
  <2>3. ASSUME NEW n \in Targets
        PROVE  (IF there[at(n)] = "own" THEN at(n) ELSE there[at(n)]) \in Files \cup {None, Foreign}
    <3>1. at(n) \in Files
      BY <2>2
    <3> HIDE DEF at
    <3>2. there[at(n)] \in {None, Foreign, "own"}
      BY <3>1
    <3> QED
      BY <3>1, <3>2
  <2>4. disk = [n \in Names |-> IF n \in Targets
                                THEN IF there[at(n)] = "own" THEN at(n) ELSE there[at(n)]
                                ELSE IF n \in copied THEN Foreign ELSE None]
    BY <2>1
  <2> HIDE DEF at
  <2> QED
    BY <2>3, <2>4
<1>7. Shape
  BY <1>2, <1>3, <1>4, <1>5, <1>6 DEF Shape, ItemStates, WriteStates
<1>8. InStep
  <2>1. \A i \in Items : \A a \in 1 .. Len(todo[i]) : todo[i][a] \in FilesOf(i)
    <3>1. \A s \in Seq(Files) : \A a \in 1 .. Len(s) : s[a] \in ToSet(s)
      BY LenProperties DEF ToSet
    <3> QED
      BY <1>4, <1>5, <3>1
  <2> QED
    BY <1>4, <1>5, <2>1, <1>3, WorkFacts, ItemFacts, <1>7 DEF InStep, Early
<1> QED
  BY <1>7, <1>8

-----------------------------------------------------------------------------
(* Each action keeps the shape. *)

Still == Shape /\ InStep

(* A step that leaves the work as it is needs to keep the rest in shape. *)
LEMMA ShapeKept ==
  ASSUME Shape, UNCHANGED fixed,
         item' \in [Items -> ItemStates], todo' \in [Items -> Seq(Files)],
         target' \in [Files -> Names \cup {None}], write' \in [Files -> WriteStates],
         part' \subseteq Files, disk' \in [Names -> Files \cup {None, Foreign}],
         result' \in {"running", "completed", "failed"}, cancelled' \in BOOLEAN
  PROVE  Shape' /\ Items' = Items /\ \A i : FilesOf(i)' = FilesOf(i)
  BY DEF Shape, fixed, Items, FilesOf

(* One lemma per action. *)
LEMMA StartItemStill ==
  ASSUME Still, NEW i \in Items, StartItem(i)
  PROVE  Still'
<1> DEFINE s == IF work[i].kind = "file" THEN "file_io" ELSE "prepare"
<1>0. UNCHANGED <<fixed, todo, target, write, part, disk, result, cancelled>>
  BY DEF StartItem
<1>1. item' = [item EXCEPT ![i] = s] /\ item[i] = "new"
  BY DEF StartItem
<1>2. s \in ItemStates /\ s \in Early /\ (s = "file_io" => work[i].kind = "file")
  BY DEF ItemStates, Early
<1> HIDE DEF s
<1>3. item' \in [Items -> ItemStates]
  BY <1>1, <1>2 DEF Still, Shape
<1>4. Shape' /\ Items' = Items /\ \A j : FilesOf(j)' = FilesOf(j)
  BY <1>0, <1>3, ShapeKept DEF Still, Shape
<1>5. \A j \in Items : item'[j] = IF j = i THEN s ELSE item[j]
  BY <1>1 DEF Still, Shape
<1>6. InStep'
  BY <1>0, <1>1, <1>2, <1>4, <1>5 DEF Still, InStep, Early, fixed
<1> QED
  BY <1>4, <1>6 DEF Still

LEMMA AcquireFileIoStill ==
  ASSUME Still, NEW i \in Items, AcquireFileIo(i)
  PROVE  Still'
<1>0. UNCHANGED <<fixed, todo, target, write, part, disk, result, cancelled>>
  BY DEF AcquireFileIo
<1>1. item' = [item EXCEPT ![i] = "prepare"] /\ item[i] = "file_io"
  BY DEF AcquireFileIo
<1>3. item' \in [Items -> ItemStates]
  BY <1>1 DEF Still, Shape, ItemStates
<1>4. Shape' /\ Items' = Items /\ \A j : FilesOf(j)' = FilesOf(j)
  BY <1>0, <1>3, ShapeKept DEF Still, Shape
<1>5. \A j \in Items : item'[j] = IF j = i THEN "prepare" ELSE item[j]
  BY <1>1 DEF Still, Shape
<1>6. InStep'
  BY <1>0, <1>1, <1>4, <1>5 DEF Still, InStep, Early, fixed
<1> QED
  BY <1>4, <1>6 DEF Still

(* What the lookup of a file changes. *)
LEMMA PrepareFileIs ==
  ASSUME Still, NEW i \in Items, PrepareFile(i)
  PROVE  /\ UNCHANGED <<fixed, item, write, part, disk, streams, fileIo, completed, result, cancelled>>
         /\ Running /\ item[i] = "prepare" /\ todo[i] \in Seq(Files) /\ todo[i] # <<>>
         /\ todo' = [todo EXCEPT ![i] = Tail(todo[i])]
         /\ \E f \in FilesOf(i) :
              /\ f = Head(todo[i]) /\ f \in Files
              /\ \/ /\ target' = target
                    /\ (disk[Name[f]] = f \/ (disk[Name[f]] # None /\ policy = "skip"))
                 \/ \E n \in {Name[f]} \cup ToSet(Copies[Name[f]]) :
                      n \in Names /\ target' = [target EXCEPT ![f] = n]
<1> DEFINE f == Head(todo[i])
           n == Name[f]
<1>1. /\ todo[i] \in Seq(Files) /\ todo[i] # <<>>
  BY DEF PrepareFile, Still, Shape
<1>2. f \in FilesOf(i)
  <2>1. f = todo[i][1] /\ 1 \in 1 .. Len(todo[i])
    BY <1>1
  <2> QED
    BY <2>1 DEF Still, InStep
<1>3. f \in Files /\ n \in Targets /\ n \in Names
  BY <1>2, ItemFacts DEF Still, Targets, Names
<1>4. target' = IF disk[n] = f \/ (Exists(n) /\ policy = "skip") THEN target
                ELSE [target EXCEPT ![f] = IF Exists(n) /\ policy = "keep_both"
                                           THEN KeepBothPath(n) ELSE n]
  BY DEF PrepareFile
<1>5. KeepBothPath(n) \in ToSet(Copies[n]) /\ KeepBothPath(n) \in Names
  BY <1>3, CopyPicked
<1>6. CASE disk[n] = f \/ (Exists(n) /\ policy = "skip")
  <2>1. target' = target
    BY <1>4, <1>6
  <2> QED
    BY <1>1, <1>2, <1>3, <1>6, <2>1 DEF PrepareFile, Exists
<1>7. CASE ~(disk[n] = f \/ (Exists(n) /\ policy = "skip"))
  <2> DEFINE m == IF Exists(n) /\ policy = "keep_both" THEN KeepBothPath(n) ELSE n
  <2>1. target' = [target EXCEPT ![f] = m]
    BY <1>4, <1>7
  <2>2. m \in {Name[f]} \cup ToSet(Copies[Name[f]]) /\ m \in Names
    BY <1>3, <1>5
  <2> HIDE DEF m, f
  <2> QED
    BY <1>1, <1>2, <1>3, <2>1, <2>2 DEF PrepareFile, f
<1> QED
  BY <1>6, <1>7

LEMMA PrepareFileStill ==
  ASSUME Still, NEW i \in Items, PrepareFile(i)
  PROVE  Still'
<1>0. UNCHANGED <<fixed, item, write, part, disk, result, cancelled>>
  BY PrepareFileIs
<1>1. /\ todo[i] \in Seq(Files) /\ todo[i] # <<>>
      /\ todo' = [todo EXCEPT ![i] = Tail(todo[i])]
  BY PrepareFileIs
<1>2. /\ Tail(todo[i]) \in Seq(Files) /\ Len(Tail(todo[i])) = Len(todo[i]) - 1
      /\ \A a \in 1 .. Len(Tail(todo[i])) : Tail(todo[i])[a] = todo[i][a + 1]
      /\ Len(todo[i]) \in Nat
  BY <1>1, HeadTailProperties, LenProperties
<1>3. todo' \in [Items -> Seq(Files)]
  BY <1>1, <1>2 DEF Still, Shape
<1>4. /\ target' \in [Files -> Names \cup {None}]
      /\ \A f \in Files : target[f] # None => target'[f] # None
  <2>1. target \in [Files -> Names \cup {None}] /\ None \notin Names
    BY DownloadWindowAssumption DEF Still, Shape
  <2>2. PICK f \in Files : target' = target \/ \E n \in Names : target' = [target EXCEPT ![f] = n]
    BY PrepareFileIs
  <2> QED
    BY <2>1, <2>2
<1>5. Shape' /\ Items' = Items /\ \A j : FilesOf(j)' = FilesOf(j)
  BY <1>0, <1>3, <1>4, ShapeKept DEF Still, Shape
<1>6. ASSUME NEW j \in Items, NEW a \in 1 .. Len(todo'[j])
      PROVE  todo'[j][a] \in FilesOf(j)
  <2>1. CASE j = i
    <3>1. todo'[j] = Tail(todo[i])
      BY <1>1, <2>1 DEF Still, Shape
    <3>2. a + 1 \in 1 .. Len(todo[i]) /\ todo'[j][a] = todo[i][a + 1]
      BY <1>2, <3>1
    <3> QED
      BY <2>1, <3>2 DEF Still, InStep
  <2>2. CASE j # i
    <3>1. todo'[j] = todo[j]
      BY <1>1, <2>2 DEF Still, Shape
    <3> QED
      BY <3>1 DEF Still, InStep
  <2> QED
    BY <2>1, <2>2
<1>7. InStep'
  BY <1>0, <1>4, <1>5, <1>6 DEF Still, InStep, fixed
<1> QED
  BY <1>5, <1>7 DEF Still

LEMMA AcquireStreamStill ==
  ASSUME Still, NEW i \in Items, AcquireStream(i)
  PROVE  Still'
<1>0. UNCHANGED <<fixed, todo, target, write, part, disk, result, cancelled>>
  BY DEF AcquireStream
<1>1. item' = [item EXCEPT ![i] = "fetch"] /\ item[i] = "prepare"
  BY DEF AcquireStream
<1>3. item' \in [Items -> ItemStates]
  BY <1>1 DEF Still, Shape, ItemStates
<1>4. Shape' /\ Items' = Items /\ \A j : FilesOf(j)' = FilesOf(j)
  BY <1>0, <1>3, ShapeKept DEF Still, Shape
<1>5. \A j \in Items : item'[j] = IF j = i THEN "fetch" ELSE item[j]
  BY <1>1 DEF Still, Shape
<1>6. InStep'
  BY <1>0, <1>1, <1>4, <1>5 DEF Still, InStep, Early, fixed
<1> QED
  BY <1>4, <1>6 DEF Still

(* What is common to a fetch and to its being skipped: the files of the item
   are on their way to their places. *)
Gathered(i) ==
  /\ UNCHANGED <<fixed, todo, target, disk, fileIo, completed, result, cancelled>>
  /\ Running /\ item[i] \in {"prepare", "fetch"} /\ item' = [item EXCEPT ![i] = "write"]
  /\ part' \subseteq Files /\ write' \in [Files -> WriteStates]
  /\ \A f \in Files : f \notin Prepared(i) => write'[f] = write[f]
  /\ \A f \in Prepared(i) :
       /\ write[f] = "no"
       /\ work[i].kind = "batch" => write'[f] = "file_io"
       /\ work[i].kind = "file" => write'[f] \in {"remove", "rename"}

LEMMA PlaceIs == \A f : Place(f) \in {"remove", "rename"}
  BY DEF Place

LEMMA FetchIs ==
  ASSUME Still, NEW i \in Items, Fetch(i)
  PROVE  Gathered(i) /\ item[i] = "fetch" /\ streams' = streams + 1
<1>1. Prepared(i) \subseteq FilesOf(i) /\ FilesOf(i) \subseteq Files /\ work[i].kind \in {"batch", "file"}
  BY ItemFacts DEF Still
<1>2. /\ UNCHANGED <<fixed, todo, target, disk, fileIo, completed, result, cancelled>>
      /\ Running /\ item[i] = "fetch" /\ item' = [item EXCEPT ![i] = "write"]
      /\ streams' = streams + 1
  BY DEF Fetch, FetchTo
<1>3. \A f \in Prepared(i) : write[f] = "no"
  BY <1>1, <1>2 DEF Still, InStep, Early
<1>4. CASE work[i].kind = "batch"
  <2>1. /\ write' = [f \in Files |-> IF f \in Prepared(i) THEN "file_io" ELSE write[f]]
        /\ part' = part
    BY <1>4 DEF Fetch, FetchTo
  <2> QED
    BY <1>1, <1>2, <1>3, <1>4, <2>1 DEF Still, Shape, WriteStates, Gathered
<1>5. CASE work[i].kind = "file"
  <2>1. /\ write' = [f \in Files |-> IF f \in Prepared(i) THEN Place(f) ELSE write[f]]
        /\ part' = part \cup Prepared(i)
    BY <1>5 DEF Fetch, FetchTo
  <2> QED
    BY <1>1, <1>2, <1>3, <1>5, <2>1, PlaceIs DEF Still, Shape, WriteStates, Gathered
<1> QED
  BY <1>1, <1>4, <1>5

LEMMA SkipIs ==
  ASSUME Still, NEW i \in Items, SkipFetch(i)
  PROVE  /\ Gathered(i) /\ item[i] = "prepare" /\ streams' = streams
         /\ todo[i] = <<>> /\ work[i].kind = "file"
<1>1. Prepared(i) \subseteq FilesOf(i) /\ FilesOf(i) \subseteq Files
  BY ItemFacts DEF Still
<1>2. /\ UNCHANGED <<fixed, todo, target, disk, streams, fileIo, completed, result, cancelled>>
      /\ Running /\ item[i] = "prepare" /\ item' = [item EXCEPT ![i] = "write"]
      /\ todo[i] = <<>> /\ work[i].kind = "file"
      /\ write' = [f \in Files |-> IF f \in Prepared(i) THEN Place(f) ELSE write[f]]
      /\ part' = part \cup Prepared(i)
  BY DEF SkipFetch, HasAllChunks
<1>3. \A f \in Prepared(i) : write[f] = "no"
  BY <1>1, <1>2 DEF Still, InStep, Early
<1> QED
  BY <1>1, <1>2, <1>3, PlaceIs DEF Still, Shape, WriteStates, Gathered

LEMMA GatheredStill ==
  ASSUME Still, NEW i \in Items, Gathered(i)
  PROVE  Still'
<1>0. UNCHANGED <<fixed, todo, target, disk, result, cancelled>> /\ part' \subseteq Files
  BY DEF Gathered
<1>1. item' = [item EXCEPT ![i] = "write"] /\ write' \in [Files -> WriteStates]
  BY DEF Gathered
<1>3. item' \in [Items -> ItemStates]
  BY <1>1 DEF Still, Shape, ItemStates
<1>4. Shape' /\ Items' = Items /\ \A j : FilesOf(j)' = FilesOf(j)
  BY <1>0, <1>1, <1>3, ShapeKept DEF Still, Shape
<1>5. \A j \in Items : item'[j] = IF j = i THEN "write" ELSE item[j]
  BY <1>1 DEF Still, Shape
<1>6. /\ \A f \in Files : f \notin Prepared(i) => write'[f] = write[f]
      /\ \A f \in Prepared(i) :
           /\ work[i].kind = "batch" => write'[f] = "file_io"
           /\ work[i].kind = "file" => write'[f] \in {"remove", "rename"}
           /\ target[f] # None
      /\ Prepared(i) \subseteq FilesOf(i) /\ work[i].kind \in {"batch", "file"}
  BY ItemFacts DEF Gathered, Still, Prepared
<1>7. \A f \in Files : write'[f] # "no" => target'[f] # None
  BY <1>0, <1>6 DEF Still, InStep
<1>8. ASSUME NEW j \in Items, NEW f \in FilesOf(j)
      PROVE  /\ item'[j] \in Early => write'[f] = "no"
             /\ item'[j] = "done" => write'[f] \in {"no", "done"}
             /\ work[j].kind = "file" => write'[f] \notin {"file_io", "write"}
  <2>1. f \in Files /\ (f \in Prepared(i) => j = i)
    BY <1>6, ItemFacts DEF Still
  <2>2. CASE f \in Prepared(i)
    BY <1>5, <1>6, <2>1, <2>2 DEF Early
  <2>3. CASE f \notin Prepared(i)
    BY <1>5, <1>6, <2>1, <2>3 DEF Still, InStep, Early
  <2> QED
    BY <2>2, <2>3
<1>9. InStep'
  BY <1>0, <1>4, <1>5, <1>7, <1>8 DEF Still, InStep, fixed
<1> QED
  BY <1>4, <1>9 DEF Still

(* A file on its way goes one step further, or is given up. *)
LEMMA FileMoves ==
  ASSUME Still, NEW f \in Files, NEW s \in WriteStates,
         UNCHANGED <<fixed, item, todo, target, result, cancelled>>,
         write' = [write EXCEPT ![f] = s], write[f] \in {"file_io", "write", "remove", "rename"},
         part' \subseteq Files, disk' \in [Names -> Files \cup {None, Foreign}],
         s = "write" => write[f] = "file_io", s # "file_io"
  PROVE  Still'
<1>1. write' \in [Files -> WriteStates] /\ \A g \in Files : write'[g] = IF g = f THEN s ELSE write[g]
  BY DEF Still, Shape
<1>2. Shape' /\ Items' = Items /\ \A j : FilesOf(j)' = FilesOf(j)
  BY <1>1, ShapeKept DEF Still, Shape
<1>3. \A j \in Items : FilesOf(j) \subseteq Files
  BY ItemFacts DEF Still
<1>4. \A g \in Files : write'[g] # "no" => target'[g] # None
  BY <1>1 DEF Still, InStep
<1>5. ASSUME NEW j \in Items, NEW g \in FilesOf(j)
      PROVE  /\ item'[j] \in Early => write'[g] = "no"
             /\ item'[j] = "done" => write'[g] \in {"no", "done"}
             /\ work[j].kind = "file" => write'[g] \notin {"file_io", "write"}
  <2>1. /\ item[j] \in Early => write[g] = "no"
        /\ item[j] = "done" => write[g] \in {"no", "done"}
        /\ work[j].kind = "file" => write[g] \notin {"file_io", "write"}
        /\ g \in Files
    BY <1>3 DEF Still, InStep
  <2> QED
    BY <1>1, <2>1
<1>6. InStep'
  BY <1>2, <1>4, <1>5 DEF Still, InStep, fixed
<1> QED
  BY <1>2, <1>6 DEF Still

(* After its .part, a file is removed or renamed next. *)
LEMMA StartWriteStill ==
  ASSUME Still, NEW f \in Files, StartWrite(f)
  PROVE  Still'
<1>1. /\ UNCHANGED <<fixed, item, todo, target, part, disk, result, cancelled>>
      /\ write[f] = "file_io" /\ write' = [write EXCEPT ![f] = "write"]
  BY DEF StartWrite
<1>2. part' \subseteq Files /\ disk' \in [Names -> Files \cup {None, Foreign}] /\ "write" \in WriteStates
  BY <1>1 DEF Still, Shape, WriteStates
<1> QED
  BY <1>1, <1>2, FileMoves

LEMMA WritePartStill ==
  ASSUME Still, NEW f \in Files, WritePart(f)
  PROVE  Still'
<1>1. /\ UNCHANGED <<fixed, item, todo, target, disk, result, cancelled>>
      /\ write[f] = "write" /\ write' = [write EXCEPT ![f] = Place(f)] /\ part' = part \cup {f}
  BY DEF WritePart
<1>2. /\ part' \subseteq Files /\ disk' \in [Names -> Files \cup {None, Foreign}]
      /\ Place(f) \in WriteStates /\ Place(f) \notin {"write", "file_io"}
  BY <1>1, PlaceIs DEF Still, Shape, WriteStates
<1> QED
  BY <1>1, <1>2, FileMoves

(* A file on its way has a place. *)
LEMMA DiskAt ==
  ASSUME Still, NEW f \in Files, write[f] # "no", NEW x \in Files \cup {None, Foreign}
  PROVE  [disk EXCEPT ![target[f]] = x] \in [Names -> Files \cup {None, Foreign}]
  BY DEF Still, Shape

LEMMA RemoveExistingStill ==
  ASSUME Still, NEW f \in Files, RemoveExisting(f)
  PROVE  Still'
<1>1. /\ UNCHANGED <<fixed, item, todo, target, part, result, cancelled>>
      /\ write[f] = "remove" /\ write' = [write EXCEPT ![f] = "rename"]
      /\ disk' = [disk EXCEPT ![target[f]] = None]
  BY DEF RemoveExisting
<1>2. /\ part' \subseteq Files /\ disk' \in [Names -> Files \cup {None, Foreign}]
      /\ "rename" \in WriteStates
  BY <1>1, DiskAt DEF Still, Shape, WriteStates
<1> QED
  BY <1>1, <1>2, FileMoves

LEMMA RenamePartialStill ==
  ASSUME Still, NEW f \in Files, RenamePartial(f)
  PROVE  Still'
<1>1. /\ UNCHANGED <<fixed, item, todo, target, result, cancelled>>
      /\ write[f] = "rename" /\ write' = [write EXCEPT ![f] = "done"]
      /\ disk' = [disk EXCEPT ![target[f]] = f] /\ part' = part \ {f}
  BY DEF RenamePartial
<1>2. /\ part' \subseteq Files /\ disk' \in [Names -> Files \cup {None, Foreign}]
      /\ "done" \in WriteStates
  BY <1>1, DiskAt DEF Still, Shape, WriteStates
<1> QED
  BY <1>1, <1>2, FileMoves

LEMMA FinishItemStill ==
  ASSUME Still, NEW i \in Items, FinishItem(i)
  PROVE  Still'
<1>0. UNCHANGED <<fixed, todo, target, write, part, disk, result, cancelled>>
  BY DEF FinishItem
<1>1. item' = [item EXCEPT ![i] = "done"] /\ Finished(i)
  BY DEF FinishItem
<1>3. item' \in [Items -> ItemStates]
  BY <1>1 DEF Still, Shape, ItemStates
<1>4. Shape' /\ Items' = Items /\ \A j : FilesOf(j)' = FilesOf(j)
  BY <1>0, <1>3, ShapeKept DEF Still, Shape
<1>5. \A j \in Items : item'[j] = IF j = i THEN "done" ELSE item[j]
  BY <1>1 DEF Still, Shape
<1>6. \A f \in FilesOf(i) : write[f] \in {"no", "done"}
  <2>1. CASE item[i] = "prepare"
    BY <2>1 DEF Still, InStep, Early
  <2>2. CASE \A f \in Prepared(i) : write[f] = "done"
    <3>1. FilesOf(i) \subseteq Files
      BY ItemFacts DEF Still
    <3> QED
      BY <2>2, <3>1 DEF Prepared, Still, InStep
  <2> QED
    BY <1>1, <2>1, <2>2 DEF Finished
<1>7. InStep'
  BY <1>0, <1>4, <1>5, <1>6 DEF Still, InStep, Early, fixed
<1> QED
  BY <1>4, <1>7 DEF Still

(* The end of the run, its cancellation and its failure. *)
LEMMA EndStill ==
  ASSUME Still, UNCHANGED <<fixed, item, todo, target, write, part, disk>>,
         result' \in {"running", "completed", "failed"}, cancelled' \in BOOLEAN
  PROVE  Still'
<1>1. Shape' /\ Items' = Items /\ \A j : FilesOf(j)' = FilesOf(j)
  BY ShapeKept DEF Still, Shape
<1>2. InStep'
  BY <1>1 DEF Still, InStep, fixed
<1> QED
  BY <1>1, <1>2 DEF Still

LEMMA LateOperationStill ==
  ASSUME Still, NEW f \in Files, LateOperation(f)
  PROVE  Still'
<1>1. /\ UNCHANGED <<fixed, item, todo, target, result, cancelled>>
      /\ write' = [write EXCEPT ![f] = "no"] /\ "no" \in WriteStates
  BY DEF LateOperation, WriteStates
<1>2. /\ write[f] \in {"write", "remove", "rename"}
      /\ part' \subseteq Files /\ disk' \in [Names -> Files \cup {None, Foreign}]
  <2>1. CASE write[f] = "write"
    <3>1. part' = part \cup {f} /\ UNCHANGED disk
      BY <2>1 DEF LateOperation
    <3> QED
      BY <2>1, <3>1 DEF Still, Shape
  <2>2. CASE write[f] = "remove"
    <3>1. disk' = [disk EXCEPT ![target[f]] = None] /\ UNCHANGED part
      BY <2>2 DEF LateOperation
    <3> QED
      BY <2>2, <3>1, DiskAt DEF Still, Shape
  <2>3. CASE write[f] = "rename"
    <3>1. disk' = [disk EXCEPT ![target[f]] = f] /\ part' = part \ {f}
      BY <2>3 DEF LateOperation
    <3> QED
      BY <2>3, <3>1, DiskAt DEF Still, Shape
  <2>4. CASE write[f] \notin {"write", "remove", "rename"}
    BY <2>4 DEF LateOperation
  <2> QED
    BY <2>1, <2>2, <2>3, <2>4
<1> QED
  BY <1>1, <1>2, FileMoves

(* Every step keeps the shape. *)
LEMMA NextStill ==
  ASSUME Still, [Next]_vars
  PROVE  Still'
<1>1. ASSUME NEW i \in Items, ItemStep(i) PROVE Still'
  BY <1>1, StartItemStill, AcquireFileIoStill, PrepareFileStill, AcquireStreamStill, FetchIs,
     SkipIs, GatheredStill, FinishItemStill DEF ItemStep
<1>2. ASSUME NEW f \in Files, FileStep(f) PROVE Still'
  BY <1>2, StartWriteStill, WritePartStill, RemoveExistingStill, RenamePartialStill DEF FileStep
<1>3. CASE Complete
  BY <1>3, EndStill DEF Complete, Still, Shape
<1>4. CASE Cancel \/ RunFails
  BY <1>4, EndStill DEF Cancel, RunFails, Still, Shape
<1>5. ASSUME NEW i \in Items, ItemFails(i) PROVE Still'
  BY <1>5, EndStill DEF ItemFails, Still, Shape
<1>6. ASSUME NEW f \in Files, LateOperation(f) PROVE Still'
  BY <1>6, LateOperationStill
<1>7. CASE UNCHANGED vars
  BY <1>7, EndStill DEF vars, fixed, Still, Shape
<1> QED
  BY <1>1, <1>2, <1>3, <1>4, <1>5, <1>6, <1>7 DEF Next, RunStep

-----------------------------------------------------------------------------
(* Who holds which permit. *)

FetchingIn(it) == {i \in DOMAIN it : it[i] = "fetch"}
ActiveIn(it) == {i \in DOMAIN it : it[i] \notin {"new", "done"}}
HoldingIn(W, it) == {i \in DOMAIN it : W[i].kind = "file" /\ it[i] \in {"prepare", "fetch", "write"}}
InBatch(W, f) == \E i \in DOMAIN W : W[i].kind = "batch" /\ f \in FilesIn(W, i)
WritingIn(W, wr) == {f \in Files : wr[f] \in {"write", "remove", "rename"} /\ InBatch(W, f)}
CountIn(W, it) == Total([i \in DOMAIN W |-> IF it[i] = "done" THEN Len(W[i].files) ELSE 0], Len(W))

(* Every permit is free or held, by an item that fetches, by a single file
   from its lookup to its end, by a file of a batch while it is written. *)
StreamPermits == streams \in Nat /\ streams + Cardinality(FetchingIn(item)) = StreamLimit
FileIoPermits ==
  /\ fileIo \in 0 .. FileLimit
  /\ Running => fileIo + Cardinality(HoldingIn(work, item)) + Cardinality(WritingIn(work, write))
                  = FileLimit

(* The window, and what has been counted. *)
Window ==
  /\ Cardinality(ActiveIn(item)) <= FileLimit
  /\ completed = CountIn(work, item)

Counts == StreamPermits /\ FileIoPermits /\ Window

(* A manifest is finite ... *)
LEMMA FilesFinite == IsFiniteSet(Files)
<1>1. Len(Manifest) \in Nat /\ Manifest \in [1 .. Len(Manifest) -> Files]
  BY Constants
<1>2. IsFiniteSet(1 .. Len(Manifest))
  <2>1. 1 \in Int /\ Len(Manifest) \in Int
    BY <1>1
  <2> QED
    BY <2>1, FS_Interval
<1>3. Manifest \in Surjection(1 .. Len(Manifest), Files)
  BY <1>1 DEF Files, Surjection
<1> QED
  BY <1>2, <1>3, FS_Surjection

(* ... and so is every set of holders. *)
LEMMA Finite ==
  ASSUME Shape
  PROVE  /\ IsFiniteSet(FetchingIn(item)) /\ Cardinality(FetchingIn(item)) \in Nat
         /\ IsFiniteSet(ActiveIn(item)) /\ Cardinality(ActiveIn(item)) \in Nat
         /\ IsFiniteSet(HoldingIn(work, item)) /\ Cardinality(HoldingIn(work, item)) \in Nat
         /\ IsFiniteSet(WritingIn(work, write)) /\ Cardinality(WritingIn(work, write)) \in Nat
<1>1. DOMAIN item = 1 .. Len(work) /\ Len(work) \in Int /\ 1 \in Int
  BY ItemFacts DEF Shape
<1>2. IsFiniteSet(DOMAIN item)
  BY <1>1, FS_Interval
<1>3. \A S \in SUBSET (DOMAIN item) : IsFiniteSet(S) /\ Cardinality(S) \in Nat
  BY <1>2, FS_Subset, FS_CardinalityType
<1>4. \A S \in SUBSET Files : IsFiniteSet(S) /\ Cardinality(S) \in Nat
  BY FilesFinite, FS_Subset, FS_CardinalityType
<1>5. /\ FetchingIn(item) \in SUBSET (DOMAIN item) /\ ActiveIn(item) \in SUBSET (DOMAIN item)
      /\ HoldingIn(work, item) \in SUBSET (DOMAIN item) /\ WritingIn(work, write) \in SUBSET Files
  BY DEF FetchingIn, ActiveIn, HoldingIn, WritingIn
<1> QED
  BY <1>3, <1>4, <1>5

(* One more holder. *)
LEMMA OneMore ==
  ASSUME NEW S, IsFiniteSet(S), NEW T, NEW x, x \notin S, T = S \cup {x}
  PROVE  Cardinality(T) = Cardinality(S) + 1
  BY FS_AddElement

(* One holder less. *)
LEMMA OneLess ==
  ASSUME NEW S, IsFiniteSet(S), NEW T, NEW x, x \in S, T = S \ {x}
  PROVE  Cardinality(S) = Cardinality(T) + 1 /\ Cardinality(T) \in Nat
<1>1. IsFiniteSet(T) /\ Cardinality(T) = Cardinality(S) - 1
  BY FS_RemoveElement
<1>2. Cardinality(S) \in Nat /\ Cardinality(T) \in Nat
  BY <1>1, FS_CardinalityType
<1> QED
  BY <1>1, <1>2

(* A step of one item, told by the states it leaves and enters. *)
LEMMA ItemMoves ==
  ASSUME Shape, NEW i \in Items, NEW s \in ItemStates, item' = [item EXCEPT ![i] = s]
  PROVE  /\ DOMAIN item' = Items /\ \A j \in Items : item'[j] = IF j = i THEN s ELSE item[j]
         /\ s # "fetch" /\ item[i] # "fetch" => FetchingIn(item') = FetchingIn(item)
         /\ s # "fetch" /\ item[i] = "fetch" => FetchingIn(item') = FetchingIn(item) \ {i}
         /\ s = "fetch" /\ item[i] # "fetch" => FetchingIn(item') = FetchingIn(item) \cup {i}
         /\ s \notin {"new", "done"} /\ item[i] \notin {"new", "done"} => ActiveIn(item') = ActiveIn(item)
         /\ s \in {"new", "done"} /\ item[i] \notin {"new", "done"} => ActiveIn(item') = ActiveIn(item) \ {i}
         /\ s \notin {"new", "done"} /\ item[i] \in {"new", "done"} => ActiveIn(item') = ActiveIn(item) \cup {i}
<1>1. item \in [Items -> ItemStates]
  BY DEF Shape
<1>2. DOMAIN item' = Items /\ DOMAIN item = Items /\ \A j \in Items : item'[j] = IF j = i THEN s ELSE item[j]
  BY <1>1
<1> QED
  BY <1>2 DEF FetchingIn, ActiveIn

(* The same of the single files that hold a file-I/O permit. *)
LEMMA HoldersMove ==
  ASSUME Shape, NEW i \in Items, NEW s \in ItemStates, item' = [item EXCEPT ![i] = s]
  PROVE  /\ work[i].kind # "file" => HoldingIn(work, item') = HoldingIn(work, item)
         /\ s \in {"prepare", "fetch", "write"} /\ item[i] \in {"prepare", "fetch", "write"} =>
              HoldingIn(work, item') = HoldingIn(work, item)
         /\ s \notin {"prepare", "fetch", "write"} /\ item[i] \notin {"prepare", "fetch", "write"} =>
              HoldingIn(work, item') = HoldingIn(work, item)
         /\ work[i].kind = "file" /\ s \in {"prepare", "fetch", "write"}
              /\ item[i] \notin {"prepare", "fetch", "write"} =>
              HoldingIn(work, item') = HoldingIn(work, item) \cup {i} /\ i \notin HoldingIn(work, item)
         /\ work[i].kind = "file" /\ s \notin {"prepare", "fetch", "write"}
              /\ item[i] \in {"prepare", "fetch", "write"} =>
              HoldingIn(work, item') = HoldingIn(work, item) \ {i} /\ i \in HoldingIn(work, item)
<1>1. item \in [Items -> ItemStates]
  BY DEF Shape
<1>2. DOMAIN item' = Items /\ DOMAIN item = Items /\ \A j \in Items : item'[j] = IF j = i THEN s ELSE item[j]
  BY <1>1
<1> QED
  BY <1>2 DEF HoldingIn

(* The count grows by the files of the item that is done. *)
LEMMA CountMoves ==
  ASSUME Shape, NEW i \in Items, NEW s \in ItemStates, item' = [item EXCEPT ![i] = s],
         item[i] # "done"
  PROVE  CountIn(work, item') = IF s = "done" THEN CountIn(work, item) + Len(work[i].files)
                                ELSE CountIn(work, item)
<1> DEFINE n == Len(work)
           v == [j \in DOMAIN work |-> IF item[j] = "done" THEN Len(work[j].files) ELSE 0]
           w == [j \in DOMAIN work |-> IF item'[j] = "done" THEN Len(work[j].files) ELSE 0]
           x == IF s = "done" THEN Len(work[i].files) ELSE 0
<1>1. /\ n \in Nat /\ DOMAIN work = 1 .. n /\ Items = 1 .. n
      /\ \A j \in 1 .. n : Len(work[j].files) \in Nat
  BY WorkFacts DEF Shape, Items
<1>2. \A j \in Items : item'[j] = IF j = i THEN s ELSE item[j]
  BY ItemMoves
<1>3. v \in [1 .. n -> Nat] /\ w \in [1 .. n -> Nat] /\ i \in 1 .. n /\ x \in Nat
  <2> HIDE DEF n
  <2> QED
    BY <1>1
<1>4. w[i] = v[i] + x /\ \A j \in 1 .. n : j # i => w[j] = v[j]
  <2> HIDE DEF n
  <2>1. v[i] = 0 /\ w[i] = x
    BY <1>1, <1>2
  <2>2. \A j \in 1 .. n : j # i => w[j] = v[j]
    BY <1>1, <1>2
  <2> QED
    BY <1>3, <2>1, <2>2
<1>5. Total(w, n) = Total(v, n) + x /\ Total(v, n) \in Nat
  <2> HIDE DEF n, v, w, x
  <2> QED
    BY <1>1, <1>3, <1>4, TotalRaised, TotalTyped
<1>6. CountIn(work, item') = Total(w, n) /\ CountIn(work, item) = Total(v, n)
  BY DEF CountIn
<1> QED
  BY <1>5, <1>6

(* A run starts with every permit free and nothing counted. *)
LEMMA InitCounts == ASSUME Init, Shape PROVE Counts
<1>1. /\ Items = 1 .. Len(work) /\ item = [i \in Items |-> "new"] /\ write = [f \in Files |-> "no"]
      /\ streams = StreamLimit /\ fileIo = FileLimit /\ completed = 0 /\ Len(work) \in Nat
      /\ DOMAIN work = Items
  BY ItemFacts DEF Init, Items
<1>2. /\ FetchingIn(item) = {} /\ ActiveIn(item) = {} /\ HoldingIn(work, item) = {}
      /\ WritingIn(work, write) = {}
  BY <1>1 DEF FetchingIn, ActiveIn, HoldingIn, WritingIn
<1>3. Cardinality({}) = 0
  BY FS_EmptySet
<1>4. StreamLimit \in Nat /\ FileLimit \in Nat
  BY FileLimitBounds, DownloadWindowAssumption
<1>5. CountIn(work, item) = 0
  <2> DEFINE n == Len(work)
             v == [i \in DOMAIN work |-> IF item[i] = "done" THEN Len(work[i].files) ELSE 0]
             z == [i \in 1 .. n |-> 0]
  <2>1. v = z /\ n \in Nat /\ z \in [1 .. n -> Nat]
    BY <1>1
  <2>2. {} \in SUBSET (1 .. n) /\ 0 \in Nat /\ \A k \in 1 .. n : z[k] <= IF k \in {} THEN 0 ELSE 0
    OBVIOUS
  <2>3. Total(z, n) <= Cardinality({}) * 0 /\ Total(z, n) \in Nat
    <3> HIDE DEF n, z
    <3> QED
      BY <2>1, <2>2, TotalBounded, TotalTyped
  <2>4. Total(z, n) = 0
    <3> HIDE DEF n, z
    <3> QED
      BY <1>3, <2>3
  <2> QED
    BY <2>1, <2>4 DEF CountIn
<1>6. StreamPermits
  <2>1. Cardinality(FetchingIn(item)) = 0
    BY <1>2, <1>3
  <2> QED
    BY <1>1, <1>4, <2>1 DEF StreamPermits
<1>7. FileIoPermits
  <2>1. Cardinality(HoldingIn(work, item)) = 0 /\ Cardinality(WritingIn(work, write)) = 0
    BY <1>2, <1>3
  <2> HIDE DEF FileLimit
  <2> QED
    BY <1>1, <1>4, <2>1 DEF FileIoPermits
<1>8. Window
  <2>1. Cardinality(ActiveIn(item)) = 0
    BY <1>2, <1>3
  <2> HIDE DEF FileLimit
  <2>2. Cardinality(ActiveIn(item)) <= FileLimit
    BY <1>4, <2>1
  <2> QED
    BY <1>1, <1>5, <2>2 DEF Window
<1> QED
  BY <1>6, <1>7, <1>8 DEF Counts

-----------------------------------------------------------------------------
(* Each action keeps the counts. *)

(* The semaphores are made with numbers of permits. *)
LEMMA Limits == StreamLimit \in Nat /\ FileLimit \in Nat
  BY FileLimitBounds, DownloadWindowAssumption

(* Steps that change no count. *)
LEMMA CountsKept ==
  ASSUME Counts, streams' = streams, fileIo' = fileIo, completed' = completed,
         Running' => Running,
         FetchingIn(item') = FetchingIn(item), HoldingIn(work', item') = HoldingIn(work, item),
         WritingIn(work', write') = WritingIn(work, write), ActiveIn(item') = ActiveIn(item),
         CountIn(work', item') = CountIn(work, item)
  PROVE  Counts'
<1>1. StreamPermits'
  BY DEF Counts, StreamPermits
<1>2. FileIoPermits'
  BY DEF Counts, FileIoPermits
<1>3. Window'
  BY DEF Counts, Window
<1> QED
  BY <1>1, <1>2, <1>3 DEF Counts

(* One lemma per action. *)
LEMMA StartItemCounts ==
  ASSUME Still, Counts, NEW i \in Items, StartItem(i)
  PROVE  Counts'
<1> DEFINE s == IF work[i].kind = "file" THEN "file_io" ELSE "prepare"
<1>1. /\ item' = [item EXCEPT ![i] = s] /\ item[i] = "new" /\ Running
      /\ UNCHANGED <<fixed, write, streams, fileIo, completed, result>>
      /\ Cardinality(Active) < FileLimit
  BY DEF StartItem
<1>2. work' = work /\ s \in ItemStates /\ s \notin {"new", "done", "fetch"}
      /\ (work[i].kind = "file" => s = "file_io")
  BY <1>1 DEF fixed, ItemStates
<1> HIDE DEF s
<1>3. /\ FetchingIn(item') = FetchingIn(item) /\ ActiveIn(item') = ActiveIn(item) \cup {i}
      /\ HoldingIn(work, item') = HoldingIn(work, item) /\ CountIn(work, item') = CountIn(work, item)
  <2>1. /\ FetchingIn(item') = FetchingIn(item) /\ ActiveIn(item') = ActiveIn(item) \cup {i}
    BY <1>1, <1>2, ItemMoves DEF Still
  <2>2. HoldingIn(work, item') = HoldingIn(work, item)
    BY <1>1, <1>2, HoldersMove DEF Still
  <2>3. CountIn(work, item') = CountIn(work, item)
    BY <1>1, <1>2, CountMoves DEF Still
  <2> QED
    BY <2>1, <2>2, <2>3
<1>4. Cardinality(ActiveIn(item')) = Cardinality(ActiveIn(item)) + 1
  <2>1. i \notin ActiveIn(item)
    BY <1>1 DEF ActiveIn
  <2> QED
    BY <1>3, <2>1, OneMore, Finite DEF Still
<1>5. Cardinality(ActiveIn(item')) <= FileLimit
  <2>1. Active = ActiveIn(item)
    BY DEF Active, ActiveIn, Still, Shape
  <2>2. Cardinality(ActiveIn(item)) \in Nat
    BY Finite DEF Still
  <2> QED
    BY <1>1, <1>4, <2>1, <2>2, Limits
<1>6. StreamPermits'
  BY <1>1, <1>3 DEF Counts, StreamPermits
<1>7. FileIoPermits'
  BY <1>1, <1>2, <1>3 DEF Counts, FileIoPermits, Running
<1>8. Window'
  BY <1>1, <1>2, <1>3, <1>5 DEF Counts, Window
<1> QED
  BY <1>6, <1>7, <1>8 DEF Counts

LEMMA AcquireFileIoCounts ==
  ASSUME Still, Counts, NEW i \in Items, AcquireFileIo(i)
  PROVE  Counts'
<1>1. /\ item' = [item EXCEPT ![i] = "prepare"] /\ item[i] = "file_io" /\ Running
      /\ fileIo > 0 /\ fileIo' = fileIo - 1
      /\ UNCHANGED <<fixed, write, streams, completed, result>>
  BY DEF AcquireFileIo
<1>2. work' = work /\ "prepare" \in ItemStates /\ work[i].kind = "file"
  BY <1>1 DEF fixed, ItemStates, Still, InStep
<1>3. /\ FetchingIn(item') = FetchingIn(item) /\ ActiveIn(item') = ActiveIn(item)
  BY <1>1, <1>2, ItemMoves DEF Still
<1>4. HoldingIn(work, item') = HoldingIn(work, item) \cup {i} /\ i \notin HoldingIn(work, item)
  BY <1>1, <1>2, HoldersMove DEF Still
<1>5. CountIn(work, item') = CountIn(work, item)
  BY <1>1, <1>2, CountMoves DEF Still
<1>6. Cardinality(HoldingIn(work, item')) = Cardinality(HoldingIn(work, item)) + 1
  BY <1>4, OneMore, Finite DEF Still
<1>7. FileIoPermits'
  <2>1. /\ fileIo \in 0 .. FileLimit
        /\ fileIo + Cardinality(HoldingIn(work, item)) + Cardinality(WritingIn(work, write)) = FileLimit
    BY <1>1 DEF Counts, FileIoPermits
  <2>2. Cardinality(HoldingIn(work, item)) \in Nat /\ Cardinality(WritingIn(work, write)) \in Nat
    BY Finite DEF Still
  <2>3. /\ fileIo' \in 0 .. FileLimit
        /\ fileIo' + Cardinality(HoldingIn(work, item')) + Cardinality(WritingIn(work, write)) = FileLimit
    BY <1>1, <1>6, <2>1, <2>2, Limits
  <2> QED
    BY <1>1, <1>2, <2>3 DEF FileIoPermits
<1>8. StreamPermits' /\ Window'
  BY <1>1, <1>2, <1>3, <1>5 DEF Counts, StreamPermits, Window
<1> QED
  BY <1>7, <1>8 DEF Counts

LEMMA AcquireStreamCounts ==
  ASSUME Still, Counts, NEW i \in Items, AcquireStream(i)
  PROVE  Counts'
<1>1. /\ item' = [item EXCEPT ![i] = "fetch"] /\ item[i] = "prepare" /\ Running
      /\ streams > 0 /\ streams' = streams - 1
      /\ UNCHANGED <<fixed, write, fileIo, completed, result>>
  BY DEF AcquireStream
<1>2. work' = work /\ "fetch" \in ItemStates
  BY <1>1 DEF fixed, ItemStates
<1>3. /\ FetchingIn(item') = FetchingIn(item) \cup {i} /\ ActiveIn(item') = ActiveIn(item)
      /\ i \notin FetchingIn(item)
  BY <1>1, <1>2, ItemMoves DEF Still, FetchingIn
<1>4. HoldingIn(work, item') = HoldingIn(work, item)
  BY <1>1, <1>2, HoldersMove DEF Still
<1>5. CountIn(work, item') = CountIn(work, item)
  BY <1>1, <1>2, CountMoves DEF Still
<1>6. Cardinality(FetchingIn(item')) = Cardinality(FetchingIn(item)) + 1
  BY <1>3, OneMore, Finite DEF Still
<1>7. StreamPermits'
  <2>1. streams \in Nat /\ streams + Cardinality(FetchingIn(item)) = StreamLimit
    BY DEF Counts, StreamPermits
  <2>2. Cardinality(FetchingIn(item)) \in Nat
    BY Finite DEF Still
  <2>3. streams' \in Nat /\ streams' + Cardinality(FetchingIn(item')) = StreamLimit
    BY <1>1, <1>6, <2>1, <2>2, Limits
  <2> QED
    BY <2>3 DEF StreamPermits
<1>8. FileIoPermits' /\ Window'
  BY <1>1, <1>2, <1>3, <1>4, <1>5 DEF Counts, FileIoPermits, Window, Running
<1> QED
  BY <1>7, <1>8 DEF Counts

(* The files that are gathered write nothing yet, or under the permit of
   their item. *)
LEMMA GatheredWriting ==
  ASSUME Still, NEW i \in Items, Gathered(i)
  PROVE  WritingIn(work, write') = WritingIn(work, write)
<1>1. ASSUME NEW f \in Files, InBatch(work, f)
      PROVE  write'[f] \in {"write", "remove", "rename"} <=> write[f] \in {"write", "remove", "rename"}
  <2>1. CASE f \in Prepared(i)
    <3>1. PICK j \in Items : work[j].kind = "batch" /\ f \in FilesOf(j)
      BY <1>1 DEF InBatch, FilesOf, FilesIn, Items
    <3>2. j = i
      BY <2>1, <3>1, ItemFacts DEF Still
    <3>3. write[f] = "no" /\ write'[f] = "file_io"
      BY <2>1, <3>1, <3>2 DEF Gathered
    <3> QED
      BY <3>3
  <2>2. CASE f \notin Prepared(i)
    BY <2>2 DEF Gathered
  <2> QED
    BY <2>1, <2>2
<1> QED
  BY <1>1 DEF WritingIn

LEMMA SkipFetchCounts ==
  ASSUME Still, Counts, NEW i \in Items, SkipFetch(i)
  PROVE  Counts'
<1>1. /\ item' = [item EXCEPT ![i] = "write"] /\ item[i] = "prepare" /\ Running
      /\ streams' = streams
      /\ UNCHANGED <<fixed, fileIo, completed, result>>
  BY SkipIs DEF Gathered
<1>2. work' = work /\ "write" \in ItemStates
  BY <1>1 DEF fixed, ItemStates
<1>3. /\ FetchingIn(item') = FetchingIn(item) /\ ActiveIn(item') = ActiveIn(item)
  BY <1>1, <1>2, ItemMoves DEF Still, FetchingIn
<1>4. HoldingIn(work, item') = HoldingIn(work, item)
  BY <1>1, <1>2, HoldersMove DEF Still
<1>5. CountIn(work, item') = CountIn(work, item)
  BY <1>1, <1>2, CountMoves DEF Still
<1>6. WritingIn(work, write') = WritingIn(work, write)
  BY SkipIs, GatheredWriting
<1> QED
  BY <1>1, <1>2, <1>3, <1>4, <1>5, <1>6 DEF Counts, StreamPermits, FileIoPermits, Window, Running

LEMMA FetchCounts ==
  ASSUME Still, Counts, NEW i \in Items, Fetch(i)
  PROVE  Counts'
<1>1. /\ item' = [item EXCEPT ![i] = "write"] /\ item[i] = "fetch" /\ Running
      /\ streams' = streams + 1
      /\ UNCHANGED <<fixed, fileIo, completed, result>>
  BY FetchIs DEF Gathered
<1>2. work' = work /\ "write" \in ItemStates
  BY <1>1 DEF fixed, ItemStates
<1>3. /\ FetchingIn(item') = FetchingIn(item) \ {i} /\ ActiveIn(item') = ActiveIn(item)
      /\ i \in FetchingIn(item)
  BY <1>1, <1>2, ItemMoves DEF Still, Shape, FetchingIn
<1>4. HoldingIn(work, item') = HoldingIn(work, item)
  BY <1>1, <1>2, HoldersMove DEF Still
<1>5. CountIn(work, item') = CountIn(work, item)
  BY <1>1, <1>2, CountMoves DEF Still
<1>6. Cardinality(FetchingIn(item)) = Cardinality(FetchingIn(item')) + 1
      /\ Cardinality(FetchingIn(item')) \in Nat
  BY <1>3, OneLess, Finite DEF Still
<1>7. WritingIn(work, write') = WritingIn(work, write)
  BY FetchIs, GatheredWriting
<1>8. StreamPermits'
  <2>1. streams \in Nat /\ streams + Cardinality(FetchingIn(item)) = StreamLimit
    BY DEF Counts, StreamPermits
  <2>2. streams' \in Nat /\ streams' + Cardinality(FetchingIn(item')) = StreamLimit
    BY <1>1, <1>6, <2>1, Limits
  <2> QED
    BY <2>2 DEF StreamPermits
<1>9. FileIoPermits' /\ Window'
  BY <1>1, <1>2, <1>3, <1>4, <1>5, <1>7 DEF Counts, FileIoPermits, Window, Running
<1> QED
  BY <1>8, <1>9 DEF Counts

(* A file is of a batch if its item is one. *)
LEMMA BatchOf ==
  ASSUME Still, NEW f \in Files
  PROVE  InBatch(work, f) <=> work[ItemOf(f)].kind = "batch"
<1>1. ItemOf(f) \in Items /\ f \in FilesOf(ItemOf(f))
  BY ItemFacts DEF Still
<1>2. \A j \in Items : f \in FilesOf(j) => j = ItemOf(f)
  BY <1>1, ItemFacts DEF Still
<1> HIDE DEF ItemOf
<1> QED
  BY <1>1, <1>2 DEF InBatch, FilesOf, FilesIn, Items

LEMMA StartWriteCounts ==
  ASSUME Still, Counts, NEW f \in Files, StartWrite(f)
  PROVE  Counts'
<1>1. /\ write' = [write EXCEPT ![f] = "write"] /\ write[f] = "file_io" /\ Running
      /\ fileIo > 0 /\ fileIo' = fileIo - 1
      /\ UNCHANGED <<fixed, item, streams, completed, result>>
  BY DEF StartWrite
<1>2. work' = work /\ \A g \in Files : write'[g] = IF g = f THEN "write" ELSE write[g]
  BY <1>1 DEF fixed, Still, Shape
<1>3. InBatch(work, f)
  <2>1. ItemOf(f) \in Items /\ f \in FilesOf(ItemOf(f)) /\ work[ItemOf(f)].kind \in {"batch", "file"}
    BY ItemFacts DEF Still
  <2>2. work[ItemOf(f)].kind # "file"
    BY <1>1, <2>1 DEF Still, InStep
  <2> QED
    BY <2>1, <2>2, BatchOf
<1>4. WritingIn(work, write') = WritingIn(work, write) \cup {f} /\ f \notin WritingIn(work, write)
  BY <1>1, <1>2, <1>3 DEF WritingIn
<1>5. Cardinality(WritingIn(work, write')) = Cardinality(WritingIn(work, write)) + 1
  BY <1>4, OneMore, Finite DEF Still
<1>6. FileIoPermits'
  <2>1. /\ fileIo \in 0 .. FileLimit
        /\ fileIo + Cardinality(HoldingIn(work, item)) + Cardinality(WritingIn(work, write)) = FileLimit
    BY <1>1 DEF Counts, FileIoPermits
  <2>2. Cardinality(HoldingIn(work, item)) \in Nat /\ Cardinality(WritingIn(work, write)) \in Nat
    BY Finite DEF Still
  <2>3. /\ fileIo' \in 0 .. FileLimit
        /\ fileIo' + Cardinality(HoldingIn(work, item)) + Cardinality(WritingIn(work, write')) = FileLimit
    BY <1>1, <1>5, <2>1, <2>2, Limits
  <2> QED
    BY <1>1, <1>2, <2>3 DEF FileIoPermits
<1>7. StreamPermits' /\ Window'
  BY <1>1, <1>2 DEF Counts, StreamPermits, Window
<1> QED
  BY <1>6, <1>7 DEF Counts

(* A file that keeps its permit. *)
LEMMA WriterGoesOn ==
  ASSUME Still, Counts, NEW f \in Files, NEW s \in WriteStates,
         UNCHANGED <<fixed, item, streams, fileIo, completed, result>>,
         write' = [write EXCEPT ![f] = s], write[f] \in {"write", "remove", "rename"},
         s \in {"write", "remove", "rename"} \/ ~InBatch(work, f)
  PROVE  Counts'
<1>1. work' = work /\ \A g \in Files : write'[g] = IF g = f THEN s ELSE write[g]
  BY DEF fixed, Still, Shape
<1>2. WritingIn(work, write') = WritingIn(work, write)
  BY <1>1 DEF WritingIn
<1> QED
  BY <1>1, <1>2, CountsKept DEF Running

LEMMA WritePartCounts ==
  ASSUME Still, Counts, NEW f \in Files, WritePart(f)
  PROVE  Counts'
<1>1. /\ write' = [write EXCEPT ![f] = Place(f)] /\ write[f] = "write"
      /\ UNCHANGED <<fixed, item, streams, fileIo, completed, result>>
      /\ Place(f) \in WriteStates /\ Place(f) \in {"write", "remove", "rename"}
  BY PlaceIs DEF WritePart, WriteStates
<1> QED
  BY <1>1, WriterGoesOn

LEMMA RemoveExistingCounts ==
  ASSUME Still, Counts, NEW f \in Files, RemoveExisting(f)
  PROVE  Counts'
<1>1. /\ write' = [write EXCEPT ![f] = "rename"] /\ write[f] = "remove"
      /\ UNCHANGED <<fixed, item, streams, fileIo, completed, result>>
      /\ "rename" \in WriteStates
  BY DEF RemoveExisting, WriteStates
<1> QED
  BY <1>1, WriterGoesOn

LEMMA RenamePartialCounts ==
  ASSUME Still, Counts, NEW f \in Files, RenamePartial(f)
  PROVE  Counts'
<1>1. /\ write' = [write EXCEPT ![f] = "done"] /\ write[f] = "rename" /\ Running
      /\ UNCHANGED <<fixed, item, streams, completed, result>>
      /\ fileIo' = IF work[ItemOf(f)].kind = "batch" THEN fileIo + 1 ELSE fileIo
  BY DEF RenamePartial
<1>2. CASE ~InBatch(work, f)
  <2>1. fileIo' = fileIo /\ "done" \in WriteStates
    BY <1>1, <1>2, BatchOf DEF WriteStates
  <2> QED
    BY <1>1, <1>2, <2>1, WriterGoesOn
<1>3. CASE InBatch(work, f)
  <2>1. work' = work /\ \A g \in Files : write'[g] = IF g = f THEN "done" ELSE write[g]
    BY <1>1 DEF fixed, Still, Shape
  <2>2. fileIo' = fileIo + 1
    BY <1>1, <1>3, BatchOf
  <2>3. WritingIn(work, write') = WritingIn(work, write) \ {f} /\ f \in WritingIn(work, write)
    BY <1>1, <1>3, <2>1 DEF WritingIn
  <2>4. Cardinality(WritingIn(work, write)) = Cardinality(WritingIn(work, write')) + 1
        /\ Cardinality(WritingIn(work, write')) \in Nat
    BY <2>3, OneLess, Finite DEF Still
  <2>5. FileIoPermits'
    <3>1. /\ fileIo \in 0 .. FileLimit
          /\ fileIo + Cardinality(HoldingIn(work, item)) + Cardinality(WritingIn(work, write)) = FileLimit
      BY <1>1 DEF Counts, FileIoPermits
    <3>2. Cardinality(HoldingIn(work, item)) \in Nat
      BY Finite DEF Still
    <3>3. /\ fileIo' \in 0 .. FileLimit
          /\ fileIo' + Cardinality(HoldingIn(work, item)) + Cardinality(WritingIn(work, write')) = FileLimit
      BY <2>2, <2>4, <3>1, <3>2, Limits
    <3> QED
      BY <1>1, <2>1, <3>3 DEF FileIoPermits
  <2>6. StreamPermits' /\ Window'
    BY <1>1, <2>1 DEF Counts, StreamPermits, Window
  <2> QED
    BY <2>5, <2>6 DEF Counts
<1> QED
  BY <1>2, <1>3

LEMMA FinishItemCounts ==
  ASSUME Still, Counts, NEW i \in Items, FinishItem(i)
  PROVE  Counts'
<1>1. /\ item' = [item EXCEPT ![i] = "done"] /\ item[i] \in {"prepare", "write"} /\ Running
      /\ completed' = completed + Len(work[i].files)
      /\ fileIo' = IF work[i].kind = "file" THEN fileIo + 1 ELSE fileIo
      /\ UNCHANGED <<fixed, write, streams, result>>
  BY DEF FinishItem, Finished
<1>2. work' = work /\ "done" \in ItemStates
  BY <1>1 DEF fixed, ItemStates
<1>3. /\ FetchingIn(item') = FetchingIn(item) /\ ActiveIn(item') = ActiveIn(item) \ {i}
      /\ i \in ActiveIn(item)
  BY <1>1, <1>2, ItemMoves DEF Still, Shape, ActiveIn
<1>4. CountIn(work, item') = CountIn(work, item) + Len(work[i].files)
  BY <1>1, <1>2, CountMoves DEF Still
<1>5. StreamPermits'
  BY <1>1, <1>3 DEF Counts, StreamPermits
<1>6. Window'
  <2>1. Cardinality(ActiveIn(item)) = Cardinality(ActiveIn(item')) + 1
        /\ Cardinality(ActiveIn(item')) \in Nat
    BY <1>3, OneLess, Finite DEF Still
  <2>2. Cardinality(ActiveIn(item)) <= FileLimit /\ completed = CountIn(work, item)
    BY DEF Counts, Window
  <2>3. Cardinality(ActiveIn(item')) <= FileLimit
    BY <2>1, <2>2, Limits
  <2> QED
    BY <1>1, <1>2, <1>4, <2>2, <2>3 DEF Window
<1>7. FileIoPermits'
  <2>1. /\ fileIo \in 0 .. FileLimit
        /\ fileIo + Cardinality(HoldingIn(work, item)) + Cardinality(WritingIn(work, write)) = FileLimit
    BY <1>1 DEF Counts, FileIoPermits
  <2>2. Cardinality(WritingIn(work, write)) \in Nat
    BY Finite DEF Still
  <2>3. CASE work[i].kind = "file"
    <3>1. HoldingIn(work, item') = HoldingIn(work, item) \ {i} /\ i \in HoldingIn(work, item)
      BY <1>1, <1>2, <2>3, HoldersMove DEF Still
    <3>2. Cardinality(HoldingIn(work, item)) = Cardinality(HoldingIn(work, item')) + 1
          /\ Cardinality(HoldingIn(work, item')) \in Nat
      BY <3>1, OneLess, Finite DEF Still
    <3>3. /\ fileIo' \in 0 .. FileLimit
          /\ fileIo' + Cardinality(HoldingIn(work, item')) + Cardinality(WritingIn(work, write)) = FileLimit
      BY <1>1, <2>1, <2>2, <2>3, <3>2, Limits
    <3> QED
      BY <1>1, <1>2, <3>3 DEF FileIoPermits
  <2>4. CASE work[i].kind # "file"
    <3>1. HoldingIn(work, item') = HoldingIn(work, item) /\ fileIo' = fileIo
      BY <1>1, <1>2, <2>4, HoldersMove DEF Still
    <3> QED
      BY <1>1, <1>2, <2>1, <3>1 DEF FileIoPermits
  <2> QED
    BY <2>3, <2>4
<1> QED
  BY <1>5, <1>6, <1>7 DEF Counts

LEMMA LateOperationCounts ==
  ASSUME Still, Counts, NEW f \in Files, LateOperation(f)
  PROVE  Counts'
<1>1. /\ UNCHANGED <<fixed, item, streams, fileIo, completed, result>> /\ ~Running
  BY DEF LateOperation, Running
<1>2. work' = work /\ ~Running'
  BY <1>1 DEF fixed, Running
<1> QED
  BY <1>1, <1>2 DEF Counts, StreamPermits, FileIoPermits, Window

(* Every step keeps the counts. *)
LEMMA NextCounts ==
  ASSUME Still, Counts, [Next]_vars
  PROVE  Counts'
<1>0. ASSUME UNCHANGED <<fixed, item, write, streams, fileIo, completed>>, Running' => Running
      PROVE  Counts'
  BY <1>0, CountsKept DEF fixed
<1>1. ASSUME NEW i \in Items, ItemStep(i) PROVE Counts'
  <2>1. CASE PrepareFile(i)
    BY <1>0, <2>1, PrepareFileIs DEF Running
  <2> QED
    BY <1>1, <2>1, StartItemCounts, AcquireFileIoCounts, AcquireStreamCounts, SkipFetchCounts, FetchCounts,
       FinishItemCounts DEF ItemStep
<1>2. ASSUME NEW f \in Files, FileStep(f) PROVE Counts'
  BY <1>2, StartWriteCounts, WritePartCounts, RemoveExistingCounts, RenamePartialCounts DEF FileStep
<1>3. CASE Complete
  BY <1>0, <1>3 DEF Complete, Running
<1>4. CASE Cancel \/ RunFails
  BY <1>0, <1>4 DEF Cancel, RunFails, Running
<1>5. ASSUME NEW i \in Items, ItemFails(i) PROVE Counts'
  BY <1>0, <1>5 DEF ItemFails, Running
<1>6. ASSUME NEW f \in Files, LateOperation(f) PROVE Counts'
  BY <1>6, LateOperationCounts
<1>7. CASE UNCHANGED vars
  BY <1>0, <1>7 DEF vars, fixed, Running
<1> QED
  BY <1>1, <1>2, <1>3, <1>4, <1>5, <1>6, <1>7 DEF Next, RunStep

-----------------------------------------------------------------------------
(* The inductive invariant and what follows from it. *)

(* What is asked of the sharing side is never nothing. *)
Asked == \A i \in Items : item[i] = "fetch" => Prepared(i) # {}

IInv == Still /\ Counts /\ Asked

(* An item fetches only what it has prepared, and nothing is unprepared. *)
LEMMA NextAsked ==
  ASSUME Still, Asked, [Next]_vars
  PROVE  Asked'
<1>0. Items' = Items /\ (\A i : FilesOf(i)' = FilesOf(i)) /\ item \in [Items -> ItemStates]
  <2>1. UNCHANGED fixed
    BY DEF Next, RunStep, ItemStep, FileStep, StartItem, AcquireFileIo, PrepareFile, AcquireStream,
           SkipFetch, Fetch, FetchTo, FinishItem, StartWrite, WritePart, RemoveExisting, RenamePartial,
           Complete, Cancel, RunFails, ItemFails, LateOperation, vars
  <2> QED
    BY <2>1 DEF fixed, Items, FilesOf, Still, Shape
<1>1. ASSUME \A f \in Files : target[f] # None => target'[f] # None,
             NEW i \in Items, NEW s \in ItemStates, s # "fetch" \/ Prepared(i) # {},
             item' = [item EXCEPT ![i] = s] \/ item' = item
      PROVE  Asked'
  <2>1. \A j \in Items : Prepared(j) \subseteq Prepared(j)'
    BY <1>0, <1>1, ItemFacts DEF Still, Prepared
  <2>2. \A j \in Items : item'[j] = "fetch" => Prepared(j) # {}
    BY <1>0, <1>1 DEF Asked
  <2> QED
    BY <1>0, <2>1, <2>2 DEF Asked
<1>2. ASSUME UNCHANGED <<item, target>>
      PROVE  Asked'
  <2>1. \A j \in Items : Prepared(j)' = Prepared(j)
    BY <1>0, <1>2 DEF Prepared
  <2> QED
    BY <1>0, <1>2, <2>1 DEF Asked
<1>3. ASSUME NEW i \in Items, ItemStep(i) PROVE Asked'
  <2>1. CASE StartItem(i)
    <3> DEFINE s == IF work[i].kind = "file" THEN "file_io" ELSE "prepare"
    <3>1. item' = [item EXCEPT ![i] = s] /\ target' = target /\ s \in ItemStates /\ s # "fetch"
      BY <2>1 DEF StartItem, ItemStates
    <3> HIDE DEF s
    <3> QED
      BY <1>1, <3>1
  <2>2. CASE AcquireFileIo(i)
    <3>1. item' = [item EXCEPT ![i] = "prepare"] /\ target' = target /\ "prepare" \in ItemStates
      BY <2>2 DEF AcquireFileIo, ItemStates
    <3> QED
      BY <1>1, <3>1
  <2>3. CASE PrepareFile(i)
    <3>1. item' = item /\ "new" \in ItemStates
      BY <2>3 DEF PrepareFile, ItemStates
    <3>2. \A f \in Files : target[f] # None => target'[f] # None
      <4>1. target \in [Files -> Names \cup {None}] /\ None \notin Names
        BY DownloadWindowAssumption DEF Still, Shape
      <4>2. PICK f \in Files : target' = target \/ \E n \in Names : target' = [target EXCEPT ![f] = n]
        BY <2>3, PrepareFileIs
      <4> QED
        BY <4>1, <4>2
    <3> QED
      BY <1>1, <3>1, <3>2
  <2>4. CASE AcquireStream(i)
    <3>1. /\ item' = [item EXCEPT ![i] = "fetch"] /\ target' = target /\ "fetch" \in ItemStates
          /\ Prepared(i) # {}
      BY <2>4 DEF AcquireStream, ItemStates
    <3> QED
      BY <1>1, <3>1
  <2>5. CASE SkipFetch(i) \/ Fetch(i)
    <3>1. item' = [item EXCEPT ![i] = "write"] /\ target' = target /\ "write" \in ItemStates
      BY <2>5 DEF SkipFetch, Fetch, FetchTo, ItemStates
    <3> QED
      BY <1>1, <3>1
  <2>6. CASE FinishItem(i)
    <3>1. item' = [item EXCEPT ![i] = "done"] /\ target' = target /\ "done" \in ItemStates
      BY <2>6 DEF FinishItem, ItemStates
    <3> QED
      BY <1>1, <3>1
  <2> QED
    BY <1>3, <2>1, <2>2, <2>3, <2>4, <2>5, <2>6 DEF ItemStep
<1>4. ASSUME NEW f \in Files, FileStep(f) \/ LateOperation(f) PROVE Asked'
  BY <1>2, <1>4 DEF FileStep, StartWrite, WritePart, RemoveExisting, RenamePartial, LateOperation
<1>5. ASSUME Complete \/ Cancel \/ RunFails \/ UNCHANGED vars \/ \E i \in Items : ItemFails(i)
      PROVE  Asked'
  BY <1>2, <1>5 DEF Complete, Cancel, RunFails, ItemFails, vars
<1> QED
  BY <1>3, <1>4, <1>5 DEF Next, RunStep

(* The inductive invariant holds at first ... *)
LEMMA InitIInv == ASSUME Init PROVE IInv
<1>1. Still /\ Counts
  BY InitShape, InitCounts DEF Still
<1>2. Asked
  BY DEF Init, Asked
<1> QED
  BY <1>1, <1>2 DEF IInv

(* ... is kept by every step ... *)
LEMMA NextIInv == ASSUME IInv, [Next]_vars PROVE IInv'
  BY NextStill, NextCounts, NextAsked DEF IInv

(* ... and so always holds. *)
LEMMA IInvHolds == Spec => []IInv
<1>1. Init => IInv
  BY InitIInv
<1>2. IInv /\ [Next]_vars => IInv'
  BY NextIInv
<1> QED
  BY <1>1, <1>2, PTL DEF Spec

(* No more files are counted than there are. *)
LEMMA CountLimited ==
  ASSUME Shape
  PROVE  CountIn(work, item) \in 0 .. Len(Manifest)
<1> DEFINE n == Len(work)
           v == [i \in DOMAIN work |-> IF item[i] = "done" THEN Len(work[i].files) ELSE 0]
           w == [i \in DOMAIN work |-> Len(work[i].files)]
<1>1. /\ n \in Nat /\ DOMAIN work = 1 .. n /\ \A j \in 1 .. n : Len(work[j].files) \in Nat
      /\ Total(w, n) = Len(Manifest)
  BY WorkFacts DEF Shape, GoodWork, Counted
<1>2. v \in [1 .. n -> Nat] /\ w \in [1 .. n -> Nat] /\ \A j \in 1 .. n : v[j] <= w[j]
  <2> HIDE DEF n
  <2> QED
    BY <1>1
<1>3. Total(v, n) <= Total(w, n) /\ Total(v, n) \in Nat /\ Total(w, n) \in Nat
  <2> HIDE DEF n, v, w
  <2> QED
    BY <1>1, <1>2, TotalOrder, TotalTyped
<1> QED
  BY <1>1, <1>3 DEF CountIn

(* The invariant gives the types. *)
LEMMA IInvTyped == ASSUME IInv PROVE TypeOK
<1>1. streams \in 0 .. StreamLimit
  <2>1. streams \in Nat /\ streams + Cardinality(FetchingIn(item)) = StreamLimit
    BY DEF IInv, Counts, StreamPermits
  <2>2. Cardinality(FetchingIn(item)) \in Nat
    BY Finite DEF IInv, Still
  <2> QED
    BY <2>1, <2>2, Limits
<1>2. fileIo \in 0 .. FileLimit
  BY DEF IInv, Counts, FileIoPermits
<1>3. completed \in 0 .. Len(Manifest)
  BY CountLimited DEF IInv, Counts, Window, Still
<1> QED
  BY <1>1, <1>2, <1>3 DEF TypeOK, IInv, Still, Shape, ItemStates, WriteStates

(* Permits are only given back by who has one: whatever the limits and the
   order of events, neither semaphore of run_task ever holds more permits than
   it was made with, nor does completed_files exceed the manifest. *)
THEOREM WindowTypeCorrect == Spec => []TypeOK
<1>1. IInv => TypeOK
  BY IInvTyped
<1> QED
  BY <1>1, IInvHolds, PTL

(* What is sent of a batch is at most what the split has put into it. *)
LEMMA BytesLimited ==
  ASSUME Shape, NEW i \in Items
  PROVE  /\ Bytes(i) \in Nat
         /\ work[i].kind = "batch" => Bytes(i) <= BatchTarget
<1> DEFINE F == work[i].files
           n == Len(F)
           v == [k \in DOMAIN F |-> IF F[k] \in Prepared(i) THEN size[F[k]] ELSE 0]
           w == [k \in DOMAIN F |-> size[F[k]]]
<1>1. F \in Seq(Files) /\ n \in Nat /\ DOMAIN F = 1 .. n
  BY WorkFacts, ItemFacts DEF Shape
<1>2. \A k \in 1 .. n : F[k] \in Files /\ size[F[k]] \in Nat
  <2> HIDE DEF F
  <2> QED
    BY <1>1, LenProperties DEF Shape
<1>3. v \in [1 .. n -> Nat] /\ w \in [1 .. n -> Nat] /\ \A k \in 1 .. n : v[k] <= w[k]
  <2> HIDE DEF F, n
  <2> QED
    BY <1>1, <1>2
<1>4. Total(v, n) <= Total(w, n) /\ Total(v, n) \in Nat /\ Total(w, n) \in Nat
  <2> HIDE DEF n, v, w
  <2> QED
    BY <1>1, <1>3, TotalOrder, TotalTyped
<1>5. Bytes(i) = Total(v, n) /\ Sum(F, size) = Total(w, n)
  BY DEF Bytes, Sum
<1>6. work[i].kind = "batch" => Sum(F, size) <= BatchTarget
  <2>1. GoodItem(work[i], size)
    BY ItemFacts DEF Shape, GoodWork, GoodItems
  <2> QED
    BY <2>1 DEF GoodItem
<1>7. BatchTarget \in Nat
  BY Constants
<1> HIDE DEF v, w, n, F
<1> QED
  BY <1>4, <1>5, <1>6, <1>7

(* At most file_limit items are active, each with at most batch_target bytes. *)
LEMMA IInvBudget == ASSUME IInv PROVE BufferWithinBudget
<1> DEFINE n == Len(work)
           v == [i \in Items |-> IF i \in InMemory THEN Bytes(i) ELSE 0]
           A == ActiveIn(item)
<1>1. Shape /\ Items = 1 .. n /\ n \in Nat /\ BatchTarget \in Nat
  BY ItemFacts, Constants DEF IInv, Still
<1>2. A \in SUBSET (1 .. n)
  BY <1>1 DEF ActiveIn, Shape
<1>3. v \in [1 .. n -> Nat]
  <2> HIDE DEF n
  <2> QED
    BY <1>1, BytesLimited
<1>4. \A k \in 1 .. n : v[k] <= IF k \in A THEN BatchTarget ELSE 0
  <2> SUFFICES ASSUME NEW k \in Items PROVE v[k] <= IF k \in A THEN BatchTarget ELSE 0
    BY <1>1
  <2>1. CASE k \in InMemory
    <3>1. v[k] = Bytes(k) /\ Bytes(k) <= BatchTarget
      BY <1>1, <2>1, BytesLimited DEF InMemory
    <3>2. k \in A
      BY <1>1, <2>1 DEF InMemory, ActiveIn, Shape
    <3> QED
      BY <3>1, <3>2
  <2>2. CASE k \notin InMemory
    <3>1. v[k] = 0
      BY <2>2
    <3> HIDE DEF v, A
    <3> QED
      BY <1>1, <3>1
  <2> QED
    BY <2>1, <2>2
<1>5. Total(v, n) <= Cardinality(A) * BatchTarget /\ Total(v, n) \in Nat
  <2> HIDE DEF n, v, A
  <2> QED
    BY <1>1, <1>2, <1>3, <1>4, TotalBounded, TotalTyped
<1>6. Cardinality(A) \in Nat /\ Cardinality(A) <= FileLimit /\ FileLimit \in Nat
  BY Finite, Limits DEF IInv, Still, Counts, Window
<1>7. Cardinality(A) * BatchTarget <= BatchTarget * FileLimit
  <2> DEFINE c == Cardinality(A)
  <2> HIDE DEF c
  <2>1. \A x, y, t \in Nat : x <= y => x * t <= t * y
    OBVIOUS
  <2> QED
    BY <1>1, <1>6, <2>1
<1>8. BatchTarget * FileLimit <= SmallFileBudget /\ SmallFileBudget \in Nat
  BY BatchesFitBudget, DownloadWindowAssumption DEF SmallFileBudget
<1>9. Total(v, n) <= SmallFileBudget
  <2> DEFINE x == Cardinality(A) * BatchTarget
             y == BatchTarget * FileLimit
             z == Total(v, n)
  <2>1. x \in Int /\ y \in Int /\ z \in Int
    BY <1>1, <1>5, <1>6
  <2>2. z <= x /\ x <= y /\ y <= SmallFileBudget
    BY <1>5, <1>7, <1>8
  <2> HIDE DEF x, y, z
  <2>3. z <= SmallFileBudget
    BY <1>8, <2>1, <2>2
  <2> QED
    BY <2>3 DEF z
<1> QED
  BY <1>9 DEF BufferWithinBudget

(* Whatever the settings, the manifest and the sizes: the batches that are in
   memory at one time, fetched or being written, fit into their half of the
   buffer. *)
THEOREM BufferIsWithinBudget == Spec => []BufferWithinBudget
<1>1. IInv => BufferWithinBudget
  BY IInvBudget
<1> QED
  BY <1>1, IInvHolds, PTL

(* Each limit the sharing side looks at is kept by the split. *)
LEMMA IInvAccepted == ASSUME IInv PROVE BatchesAccepted
<1> SUFFICES ASSUME NEW i \in Items, work[i].kind = "batch", item[i] = "fetch"
             PROVE  AcceptsBatch(i)
  BY DEF BatchesAccepted
<1> DEFINE F == work[i].files
           n == Len(F)
<1>1. Shape /\ Prepared(i) # {} /\ Prepared(i) \subseteq FilesOf(i) /\ GoodItem(work[i], size)
  BY ItemFacts DEF IInv, Still, Asked, Shape, GoodWork, GoodItems
<1>2. F \in Seq(Files) /\ n \in Nat /\ DOMAIN F = 1 .. n /\ FilesOf(i) = ToSet(F)
  BY <1>1, WorkFacts, ItemFacts DEF Shape, FilesOf
<1>3. n <= BatchCount /\ (\A k \in 1 .. n : size[F[k]] <= MaxSmallFile)
  BY <1>1 DEF GoodItem
<1>4. Cardinality(Prepared(i)) <= BatchCount
  <2>1. IsFiniteSet(1 .. n) /\ Cardinality(1 .. n) = n
    <3>1. 1 \in Int /\ n \in Int
      BY <1>2
    <3>2. IsFiniteSet(1 .. n) /\ Cardinality(1 .. n) = IF 1 > n THEN 0 ELSE n - 1 + 1
      BY <3>1, FS_Interval
    <3> QED
      BY <1>2, <3>2
  <2>2. F \in Surjection(1 .. n, ToSet(F))
    <3>1. F \in [1 .. n -> ToSet(F)] /\ \A f \in ToSet(F) : \E k \in 1 .. n : F[k] = f
      <4> HIDE DEF F, n
      <4>1. F = [k \in 1 .. n |-> F[k]]
        BY <1>2, LenProperties DEF n
      <4> QED
        BY <1>2, <4>1 DEF ToSet
    <3> HIDE DEF F, n
    <3> QED
      BY <3>1 DEF Surjection
  <2>3. IsFiniteSet(ToSet(F)) /\ Cardinality(ToSet(F)) <= n
    <3> HIDE DEF F, n
    <3> QED
      BY <2>1, <2>2, FS_Surjection
  <2>4. Prepared(i) \in SUBSET ToSet(F)
    BY <1>1, <1>2
  <2>5. Cardinality(Prepared(i)) <= Cardinality(ToSet(F))
    <3> HIDE DEF F
    <3> QED
      BY <2>3, <2>4, FS_Subset
  <2>6. Cardinality(Prepared(i)) \in Nat /\ Cardinality(ToSet(F)) \in Nat /\ BatchCount \in Nat
    <3> HIDE DEF F
    <3> QED
      BY <2>3, <2>4, FS_Subset, FS_CardinalityType, Constants
  <2> HIDE DEF F, n
  <2> QED
    BY <1>2, <1>3, <2>3, <2>5, <2>6
<1>5. \A f \in Prepared(i) : size[f] <= MaxSmallFile
  <2> HIDE DEF F, n
  <2> QED
    BY <1>1, <1>2, <1>3 DEF ToSet
<1>6. Bytes(i) <= MaxBatchBytes
  <2>1. Bytes(i) \in Nat /\ Bytes(i) <= BatchTarget
    BY <1>1, BytesLimited
  <2>2. BatchTarget \in Nat /\ BatchTarget <= BatchBytes /\ BatchBytes \in Nat
        /\ BatchBytes <= MaxBatchBytes /\ MaxBatchBytes \in Nat
    BY Constants, DownloadWindowAssumption
  <2> HIDE DEF BatchTarget
  <2> QED
    BY <2>1, <2>2
<1> QED
  BY <1>1, <1>4, <1>5, <1>6 DEF AcceptsBatch

(* Whatever the settings, the manifest and the sizes: no batch that is asked
   for is refused by prepare_small_file_batch of the sharing side. *)
THEOREM BatchesAreAccepted == Spec => []BatchesAccepted
<1>1. IInv => BatchesAccepted
  BY IInvAccepted
<1> QED
  BY <1>1, IInvHolds, PTL

-----------------------------------------------------------------------------
(* Where the files end up. *)

(* The names a file may end up under, apart from those of every other file. *)
Own(f) == {Name[f]} \cup ToSet(Copies[Name[f]])
NamesApart == \A f, g \in Files : f # g => Own(f) \cap Own(g) = {}

(* The file is there already, or the policy leaves what is there. *)
Kept(f) == disk[Name[f]] = f \/ (policy = "skip" /\ disk[Name[f]] # None)

OwnPlaces ==
  \A f \in Files : /\ target[f] # None => target[f] \in Own(f)
                   /\ \A n \in Own(f) : disk[n] \in {None, Foreign, f}
                   /\ write[f] = "done" => disk[target[f]] = f
LookedUp ==
  /\ \A i \in Items : item[i] \in {"fetch", "write", "done"} => todo[i] = <<>>
  /\ \A i \in Items : \A f \in FilesOf(i) :
       target[f] # None \/ Kept(f) \/ f \in ToSet(todo[i])
Landed == \A i \in Items : item[i] = "done" => \A f \in Prepared(i) : write[f] = "done"
AllDone == result = "completed" => \A i \in Items : item[i] = "done"

Placed == OwnPlaces /\ LookedUp /\ Landed /\ AllDone

(* The places of a file are names. *)
LEMMA OwnNames == ASSUME NEW f \in Files PROVE Own(f) \subseteq Names /\ Name[f] \in Own(f)
  BY DEF Own, Names, Targets

(* At first nothing has a place yet and every file is to be looked up. *)
LEMMA InitPlaced == ASSUME Init, NamesApart PROVE Placed
<1>1. Shape
  BY InitShape
<1>2. /\ item = [i \in Items |-> "new"] /\ todo = [i \in Items |-> work[i].files]
      /\ target = [f \in Files |-> None] /\ write = [f \in Files |-> "no"] /\ result = "running"
  BY DEF Init
<1>3. ASSUME NEW f \in Files, NEW n \in Own(f)
      PROVE  disk[n] \in {None, Foreign, f}
  <2>1. PICK there \in [Files -> {None, Foreign, "own"}], copied \in SUBSET Numbered :
          disk = [m \in Names |->
                 IF m \in Targets
                 THEN LET g == CHOOSE g \in Files : Name[g] = m
                      IN IF there[g] = "own" THEN g ELSE there[g]
                 ELSE IF m \in copied THEN Foreign ELSE None]
    BY DEF Init
  <2> DEFINE g == CHOOSE g \in Files : Name[g] = n
  <2>2. n \in Names
    BY OwnNames
  <2>3. CASE n \in Targets
    <3>1. g \in Files /\ Name[g] = n
      BY <2>3 DEF Targets
    <3>2. g = f
      <4> HIDE DEF g
      <4> QED
        BY <3>1, OwnNames DEF NamesApart
    <3>3. disk[n] = IF there[g] = "own" THEN g ELSE there[g]
      BY <2>1, <2>2, <2>3
    <3> HIDE DEF g
    <3>4. there[g] \in {None, Foreign, "own"}
      BY <3>1
    <3> QED
      BY <3>2, <3>3, <3>4
  <2>4. CASE n \notin Targets
    BY <2>1, <2>2, <2>4
  <2> QED
    BY <2>3, <2>4
<1>4. OwnPlaces
  BY <1>2, <1>3 DEF OwnPlaces
<1>5. LookedUp
  BY <1>2 DEF LookedUp, FilesOf
<1>6. Landed /\ AllDone
  BY <1>2 DEF Landed, AllDone
<1> QED
  BY <1>4, <1>5, <1>6 DEF Placed

(* Steps that leave the destination alone and open nothing that is done. *)
LEMMA PlacedKept ==
  ASSUME Still, Placed, UNCHANGED <<fixed, todo, target, disk>>, result' # "completed",
         \A f \in Files : write'[f] = "done" <=> write[f] = "done",
         \A i \in Items : item'[i] \in {"fetch", "write", "done"} => todo[i] = <<>>,
         \A i \in Items : item'[i] = "done" =>
            item[i] = "done" \/ \A f \in Prepared(i) : write[f] = "done"
  PROVE  Placed'
<1>1. Items' = Items /\ (\A i : FilesOf(i)' = FilesOf(i)) /\ (\A i : Prepared(i)' = Prepared(i))
      /\ \A f : Kept(f)' = Kept(f)
  BY DEF fixed, Items, FilesOf, Prepared, Kept
<1>2. \A i \in Items : Prepared(i) \subseteq Files
  BY ItemFacts DEF Still
<1>3. OwnPlaces'
  BY DEF Placed, OwnPlaces
<1>4. LookedUp'
  BY <1>1 DEF Placed, LookedUp
<1>5. Landed'
  BY <1>1, <1>2 DEF Placed, Landed
<1>6. AllDone'
  BY DEF AllDone
<1> QED
  BY <1>3, <1>4, <1>5, <1>6 DEF Placed

(* A file changes what is under its own place, and no other file's. *)
LEMMA DiskChanges ==
  ASSUME Still, Placed, NamesApart, NEW f \in Files, NEW x \in {None, f},
         UNCHANGED <<fixed, item, todo, target>>, result' = result \/ result' # "completed",
         write[f] \in {"remove", "rename"}, disk' = [disk EXCEPT ![target[f]] = x],
         \A g \in Files : g # f => write'[g] = write[g],
         write'[f] = "done" => x = f
  PROVE  Placed'
<1>1. Items' = Items /\ (\A i : FilesOf(i)' = FilesOf(i)) /\ \A i : Prepared(i)' = Prepared(i)
  BY DEF fixed, Items, FilesOf, Prepared
<1>2. target[f] # None /\ target[f] \in Own(f) /\ target[f] \in Names
  BY OwnNames DEF Still, InStep, Placed, OwnPlaces
<1>3. \A n \in Names : disk'[n] = IF n = target[f] THEN x ELSE disk[n]
  BY DEF Still, Shape
<1>4. \A g \in Files : \A n \in Own(g) : g # f => disk'[n] = disk[n]
  BY <1>2, <1>3, OwnNames DEF NamesApart
<1>5. OwnPlaces'
  <2> SUFFICES ASSUME NEW g \in Files
               PROVE  /\ target[g] # None => target[g] \in Own(g)
                      /\ \A n \in Own(g) : disk'[n] \in {None, Foreign, g}
                      /\ write'[g] = "done" => disk'[target[g]] = g
    BY DEF OwnPlaces
  <2>1. /\ target[g] # None => target[g] \in Own(g)
        /\ \A n \in Own(g) : disk[n] \in {None, Foreign, g}
        /\ write[g] = "done" => disk[target[g]] = g /\ target[g] # None
    BY DEF Placed, OwnPlaces, Still, InStep
  <2>2. CASE g = f
    <3>1. \A n \in Own(g) : disk'[n] \in {None, Foreign, g}
      BY <1>3, <2>1, <2>2, OwnNames
    <3>2. write'[g] = "done" => disk'[target[g]] = g
      BY <1>2, <1>3, <2>2
    <3> QED
      BY <2>1, <3>1, <3>2
  <2>3. CASE g # f
    BY <1>4, <2>1, <2>3
  <2> QED
    BY <2>2, <2>3
<1>6. LookedUp'
  <2>1. ASSUME NEW i \in Items, NEW g \in FilesOf(i)
        PROVE  target[g] # None \/ Kept(g)' \/ g \in ToSet(todo[i])
    <3>1. g \in Files /\ (target[g] # None \/ Kept(g) \/ g \in ToSet(todo[i]))
      BY ItemFacts DEF Still, Placed, LookedUp
    <3>2. g # f => Kept(g)' = Kept(g)
      BY <1>4, <3>1, OwnNames DEF Kept, fixed
    <3> QED
      BY <1>2, <3>1, <3>2
  <2> QED
    BY <1>1, <2>1 DEF Placed, LookedUp
<1>7. ASSUME NEW i \in Items, item[i] = "done", NEW g \in Prepared(i)
      PROVE  write'[g] = "done"
  <2>1. g \in Files /\ write[g] = "done"
    BY <1>7, ItemFacts DEF Still, Placed, Landed
  <2> QED
    BY <2>1
<1>8. Landed' /\ AllDone'
  BY <1>1, <1>7 DEF Landed, AllDone, Placed
<1> QED
  BY <1>5, <1>6, <1>8 DEF Placed

(* A lookup finds the file kept or gives it a place. *)
LEMMA PrepareFilePlaced ==
  ASSUME Still, Placed, NEW i \in Items, PrepareFile(i)
  PROVE  Placed'
<1>1. /\ UNCHANGED <<fixed, item, write, disk, result>>
      /\ Running /\ item[i] = "prepare" /\ todo[i] \in Seq(Files) /\ todo[i] # <<>>
      /\ todo' = [todo EXCEPT ![i] = Tail(todo[i])]
  BY PrepareFileIs
<1>2. PICK f \in FilesOf(i) :
        /\ f = Head(todo[i]) /\ f \in Files
        /\ \/ /\ target' = target
              /\ (disk[Name[f]] = f \/ (disk[Name[f]] # None /\ policy = "skip"))
           \/ \E n \in {Name[f]} \cup ToSet(Copies[Name[f]]) :
                n \in Names /\ target' = [target EXCEPT ![f] = n]
  BY PrepareFileIs
<1>3. Items' = Items /\ (\A j : FilesOf(j)' = FilesOf(j)) /\ (\A g : Kept(g)' = Kept(g))
  BY <1>1 DEF fixed, Items, FilesOf, Kept
<1>4. target \in [Files -> Names \cup {None}] /\ None \notin Names /\ write[f] = "no"
  BY <1>1, DownloadWindowAssumption DEF Still, Shape, InStep, Early
<1>5. /\ \A g \in Files : g # f => target'[g] = target[g]
      /\ \/ target'[f] = target[f] /\ Kept(f)
         \/ target'[f] # None /\ target'[f] \in Own(f)
  BY <1>2, <1>4 DEF Kept, Own
<1>6. OwnPlaces'
  <2> SUFFICES ASSUME NEW g \in Files
               PROVE  /\ target'[g] # None => target'[g] \in Own(g)
                      /\ \A n \in Own(g) : disk[n] \in {None, Foreign, g}
                      /\ write[g] = "done" => disk[target'[g]] = g
    BY <1>1 DEF OwnPlaces
  <2>1. /\ target[g] # None => target[g] \in Own(g)
        /\ \A n \in Own(g) : disk[n] \in {None, Foreign, g}
        /\ write[g] = "done" => disk[target[g]] = g
    BY DEF Placed, OwnPlaces
  <2>2. CASE g = f
    BY <1>4, <1>5, <2>1, <2>2
  <2>3. CASE g # f
    BY <1>5, <2>1, <2>3
  <2> QED
    BY <2>2, <2>3
<1>7. ToSet(todo[i]) \subseteq {f} \cup ToSet(Tail(todo[i]))
  <2>1. /\ Tail(todo[i]) \in Seq(Files) /\ Len(Tail(todo[i])) = Len(todo[i]) - 1
        /\ \A a \in 1 .. Len(Tail(todo[i])) : Tail(todo[i])[a] = todo[i][a + 1]
        /\ Len(todo[i]) \in Nat /\ Head(todo[i]) = todo[i][1]
    BY <1>1, HeadTailProperties, LenProperties
  <2>2. DOMAIN todo[i] = 1 .. Len(todo[i]) /\ DOMAIN Tail(todo[i]) = 1 .. Len(Tail(todo[i]))
    BY <1>1, <2>1, LenProperties
  <2>3. ASSUME NEW a \in 1 .. Len(todo[i])
        PROVE  todo[i][a] = f \/ \E k \in 1 .. Len(Tail(todo[i])) : Tail(todo[i])[k] = todo[i][a]
    <3>1. CASE a = 1
      BY <1>2, <2>1, <3>1
    <3>2. CASE a # 1
      <4>1. a - 1 \in 1 .. Len(Tail(todo[i])) /\ (a - 1) + 1 = a
        BY <2>1, <3>2
      <4> QED
        BY <2>1, <4>1
    <3> QED
      BY <3>1, <3>2
  <2> QED
    BY <2>2, <2>3 DEF ToSet
<1>8. \A j \in Items : todo'[j] = IF j = i THEN Tail(todo[i]) ELSE todo[j]
  BY <1>1 DEF Still, Shape
<1>9. ASSUME NEW j \in Items, NEW g \in FilesOf(j)
      PROVE  target'[g] # None \/ Kept(g) \/ g \in ToSet(todo'[j])
  <2>1. g \in Files /\ (target[g] # None \/ Kept(g) \/ g \in ToSet(todo[j]))
    BY ItemFacts DEF Still, Placed, LookedUp
  <2>2. CASE g = f
    BY <1>5, <2>2
  <2>3. CASE g # f /\ j = i
    BY <1>5, <1>7, <1>8, <2>1, <2>3
  <2>4. CASE g # f /\ j # i
    BY <1>5, <1>8, <2>1, <2>4
  <2> QED
    BY <2>2, <2>3, <2>4
<1>10. LookedUp'
  <2>1. \A j \in Items : item[j] \in {"fetch", "write", "done"} => todo'[j] = <<>>
    BY <1>1, <1>8 DEF Placed, LookedUp
  <2> QED
    BY <1>1, <1>3, <1>9, <2>1 DEF LookedUp
<1>11. ASSUME NEW j \in Items, item[j] = "done", NEW g \in FilesOf(j), target'[g] # None
       PROVE  write[g] = "done"
  <2>1. g \in Files /\ g # f
    BY <1>1, <1>11, ItemFacts DEF Still
  <2>2. target[g] # None
    BY <1>5, <1>11, <2>1
  <2> QED
    BY <1>11, <2>2 DEF Placed, Landed, Prepared
<1>12. Landed' /\ AllDone'
  BY <1>1, <1>3, <1>11 DEF Landed, AllDone, Prepared, Running
<1> QED
  BY <1>6, <1>10, <1>12 DEF Placed

(* An item goes one step further. *)
LEMMA ItemPlaced ==
  ASSUME Still, Placed, NEW i \in Items, NEW s \in ItemStates, item' = [item EXCEPT ![i] = s],
         UNCHANGED <<fixed, todo, target, disk>>, result' # "completed",
         \A f \in Files : write'[f] = "done" <=> write[f] = "done",
         s \in {"fetch", "write", "done"} => todo[i] = <<>>,
         s = "done" => \A f \in Prepared(i) : write[f] = "done"
  PROVE  Placed'
<1>1. \A j \in Items : item'[j] = IF j = i THEN s ELSE item[j]
  BY DEF Still, Shape
<1>2. \A j \in Items : item'[j] \in {"fetch", "write", "done"} => todo[j] = <<>>
  BY <1>1 DEF Placed, LookedUp
<1>3. \A j \in Items : item'[j] = "done" =>
        item[j] = "done" \/ \A f \in Prepared(j) : write[f] = "done"
  BY <1>1
<1> QED
  BY <1>2, <1>3, PlacedKept

(* The steps of an item. *)
LEMMA StepPlaced ==
  ASSUME Still, Placed, NamesApart, NEW i \in Items, ItemStep(i)
  PROVE  Placed'
<1>1. CASE StartItem(i)
  <2> DEFINE s == IF work[i].kind = "file" THEN "file_io" ELSE "prepare"
  <2>1. /\ item' = [item EXCEPT ![i] = s] /\ s \in ItemStates /\ s \notin {"fetch", "write", "done"}
        /\ UNCHANGED <<fixed, todo, target, write, disk>> /\ result' # "completed"
    BY <1>1 DEF StartItem, ItemStates, Running
  <2> HIDE DEF s
  <2> QED
    BY <2>1, ItemPlaced
<1>2. CASE AcquireFileIo(i)
  <2>1. /\ item' = [item EXCEPT ![i] = "prepare"] /\ "prepare" \in ItemStates
        /\ UNCHANGED <<fixed, todo, target, write, disk>> /\ result' # "completed"
    BY <1>2 DEF AcquireFileIo, ItemStates, Running
  <2> QED
    BY <2>1, ItemPlaced
<1>3. CASE PrepareFile(i)
  BY <1>3, PrepareFilePlaced
<1>4. CASE AcquireStream(i)
  <2>1. /\ item' = [item EXCEPT ![i] = "fetch"] /\ "fetch" \in ItemStates /\ todo[i] = <<>>
        /\ UNCHANGED <<fixed, todo, target, write, disk>> /\ result' # "completed"
    BY <1>4 DEF AcquireStream, ItemStates, Running
  <2> QED
    BY <2>1, ItemPlaced
<1>5. CASE SkipFetch(i) \/ Fetch(i)
  <2>0. Gathered(i) /\ todo[i] = <<>>
    BY <1>5, SkipIs, FetchIs DEF Placed, LookedUp
  <2>1. /\ item' = [item EXCEPT ![i] = "write"] /\ "write" \in ItemStates
        /\ UNCHANGED <<fixed, todo, target, disk>> /\ result' # "completed"
    BY <2>0 DEF Gathered, ItemStates, Running
  <2>2. \A f \in Files : write'[f] = "done" <=> write[f] = "done"
    <3>1. /\ \A f \in Files : f \notin Prepared(i) => write'[f] = write[f]
          /\ \A f \in Prepared(i) :
               /\ write[f] = "no"
               /\ work[i].kind = "batch" => write'[f] = "file_io"
               /\ work[i].kind = "file" => write'[f] \in {"remove", "rename"}
          /\ work[i].kind \in {"batch", "file"}
      BY <2>0, ItemFacts DEF Gathered, Still
    <3> QED
      BY <3>1
  <2> QED
    BY <2>0, <2>1, <2>2, ItemPlaced
<1>6. CASE FinishItem(i)
  <2>1. /\ item' = [item EXCEPT ![i] = "done"] /\ "done" \in ItemStates
        /\ UNCHANGED <<fixed, todo, target, write, disk>> /\ result' # "completed" /\ Finished(i)
    BY <1>6 DEF FinishItem, ItemStates, Running
  <2>2. todo[i] = <<>> /\ \A f \in Prepared(i) : write[f] = "done"
    BY <2>1 DEF Finished, Placed, LookedUp
  <2> QED
    BY <2>1, <2>2, ItemPlaced
<1> QED
  BY <1>1, <1>2, <1>3, <1>4, <1>5, <1>6 DEF ItemStep

(* The steps of a file, in time or too late. *)
LEMMA FilePlaced ==
  ASSUME Still, Placed, NamesApart, NEW f \in Files, FileStep(f) \/ LateOperation(f)
  PROVE  Placed'
<1>0. \A s : \A g \in Files :
        write' = [write EXCEPT ![f] = s] => write'[g] = IF g = f THEN s ELSE write[g]
  BY DEF Still, Shape
<1>1. ASSUME NEW s \in WriteStates \ {"done"}, write[f] # "done", write' = [write EXCEPT ![f] = s],
             UNCHANGED <<fixed, item, todo, target, disk, result>>, result # "completed"
      PROVE  Placed'
  <2>1. \A g \in Files : write'[g] = "done" <=> write[g] = "done"
    BY <1>0, <1>1
  <2>2. \A i \in Items : /\ item'[i] \in {"fetch", "write", "done"} => todo[i] = <<>>
                         /\ item'[i] = "done" => item[i] = "done"
    BY <1>1 DEF Placed, LookedUp
  <2> QED
    BY <1>1, <2>1, <2>2, PlacedKept
<1>2. CASE StartWrite(f)
  <2>1. /\ "write" \in WriteStates \ {"done"} /\ write[f] # "done" /\ result # "completed"
        /\ write' = [write EXCEPT ![f] = "write"]
        /\ UNCHANGED <<fixed, item, todo, target, disk, result>>
    BY <1>2 DEF StartWrite, WriteStates, Running
  <2> QED
    BY <1>1, <2>1
<1>3. CASE WritePart(f)
  <2>1. /\ Place(f) \in WriteStates \ {"done"} /\ write[f] # "done" /\ result # "completed"
        /\ write' = [write EXCEPT ![f] = Place(f)]
        /\ UNCHANGED <<fixed, item, todo, target, disk, result>>
    BY <1>3, PlaceIs DEF WritePart, WriteStates, Running
  <2> QED
    BY <1>1, <2>1
<1>4. CASE RemoveExisting(f)
  <2>1. /\ UNCHANGED <<fixed, item, todo, target>> /\ result' = result /\ write[f] = "remove"
        /\ disk' = [disk EXCEPT ![target[f]] = None] /\ write' = [write EXCEPT ![f] = "rename"]
    BY <1>4 DEF RemoveExisting
  <2>2. (\A g \in Files : g # f => write'[g] = write[g]) /\ write'[f] = "rename"
    BY <1>0, <2>1
  <2>3. None \in {None, f}
    OBVIOUS
  <2> QED
    BY <2>1, <2>2, <2>3, DiskChanges
<1>5. CASE RenamePartial(f)
  <2>1. /\ UNCHANGED <<fixed, item, todo, target>> /\ result' = result /\ write[f] = "rename"
        /\ disk' = [disk EXCEPT ![target[f]] = f] /\ write' = [write EXCEPT ![f] = "done"]
    BY <1>5 DEF RenamePartial
  <2>2. (\A g \in Files : g # f => write'[g] = write[g]) /\ f \in {None, f}
    BY <1>0, <2>1
  <2> QED
    BY <2>1, <2>2, DiskChanges
<1>6. CASE LateOperation(f)
  <2>1. /\ UNCHANGED <<fixed, item, todo, target, result>> /\ result = "failed"
        /\ write' = [write EXCEPT ![f] = "no"] /\ "no" \in WriteStates \ {"done"}
    BY <1>6 DEF LateOperation, WriteStates
  <2>2. /\ \A g \in Files : g # f => write'[g] = write[g]
        /\ write'[f] # "done" /\ result' # "completed" /\ {None, f} = {None} \cup {f}
    BY <1>0, <2>1
  <2>3. CASE write[f] = "write"
    <3>1. UNCHANGED disk
      BY <1>6, <2>3 DEF LateOperation
    <3> QED
      BY <1>1, <2>1, <2>3, <3>1
  <2>4. CASE write[f] = "remove"
    <3>1. disk' = [disk EXCEPT ![target[f]] = None]
      BY <1>6, <2>4 DEF LateOperation
    <3> QED
      BY <2>1, <2>4, <2>2, <3>1, DiskChanges
  <2>5. CASE write[f] = "rename"
    <3>1. disk' = [disk EXCEPT ![target[f]] = f]
      BY <1>6, <2>5 DEF LateOperation
    <3> QED
      BY <2>1, <2>5, <2>2, <3>1, DiskChanges
  <2>6. CASE write[f] \notin {"write", "remove", "rename"}
    BY <1>6, <2>6 DEF LateOperation
  <2> QED
    BY <2>3, <2>4, <2>5, <2>6
<1> QED
  BY <1>2, <1>3, <1>4, <1>5, <1>6 DEF FileStep

(* Every step. *)
LEMMA NextPlaced ==
  ASSUME Still, Placed, NamesApart, [Next]_vars
  PROVE  Placed'
<1>1. ASSUME UNCHANGED <<fixed, item, todo, target, write, disk>>,
             result' = "completed" => \A i \in Items : item[i] = "done"
      PROVE  Placed'
  <2>1. Items' = Items /\ (\A i : FilesOf(i)' = FilesOf(i)) /\ (\A i : Prepared(i)' = Prepared(i))
        /\ \A f : Kept(f)' = Kept(f)
    BY <1>1 DEF fixed, Items, FilesOf, Prepared, Kept
  <2> QED
    BY <1>1, <2>1 DEF Placed, OwnPlaces, LookedUp, Landed, AllDone
<1>2. CASE Complete
  BY <1>1, <1>2 DEF Complete
<1>3. CASE Cancel \/ RunFails
  BY <1>1, <1>3 DEF Cancel, RunFails, Running
<1>4. ASSUME NEW i \in Items, ItemFails(i) PROVE Placed'
  BY <1>1, <1>4 DEF ItemFails
<1>5. CASE UNCHANGED vars
  BY <1>1, <1>5 DEF vars, Placed, AllDone
<1> QED
  BY <1>2, <1>3, <1>4, <1>5, StepPlaced, FilePlaced DEF Next, RunStep

(* When all items are done, all files are counted and in their places. *)
LEMMA PlacedStored ==
  ASSUME IInv, Placed
  PROVE  CompletedMeansStored
<1> SUFFICES ASSUME result = "completed" PROVE CompletedMeansStored
  BY DEF CompletedMeansStored
<1>1. Still /\ \A i \in Items : item[i] = "done"
  BY DEF IInv, Placed, AllDone
<1>2. completed = Len(Manifest)
  <2>1. Items = DOMAIN work /\ completed = CountIn(work, item) /\ Counted(work) = Len(Manifest)
    BY DEF Items, IInv, Counts, Window, Still, Shape, GoodWork
  <2>2. [i \in DOMAIN work |-> IF item[i] = "done" THEN Len(work[i].files) ELSE 0]
          = [i \in DOMAIN work |-> Len(work[i].files)]
    BY <1>1, <2>1
  <2> QED
    BY <2>1, <2>2 DEF CountIn, Counted
<1>3. ASSUME NEW f \in Files
      PROVE  (\E n \in Names : disk[n] = f) \/ (policy = "skip" /\ disk[Name[f]] = Foreign)
  <2> DEFINE i == ItemOf(f)
  <2>1. i \in Items /\ f \in FilesOf(i)
    BY <1>1, ItemFacts DEF Still
  <2>2. item[i] = "done" /\ todo[i] = <<>> /\ (target[f] # None \/ Kept(f) \/ f \in ToSet(<<>>))
    <3> HIDE DEF i
    <3> QED
      BY <1>1, <2>1 DEF Placed, LookedUp
  <2>3. f \notin ToSet(<<>>)
    BY DEF ToSet
  <2>4. CASE target[f] # None
    <3>1. write[f] = "done"
      <4> HIDE DEF i
      <4> QED
        BY <2>1, <2>2, <2>4 DEF Placed, Landed, Prepared
    <3>2. disk[target[f]] = f /\ target[f] \in Names
      BY <2>4, <3>1, OwnNames DEF Placed, OwnPlaces
    <3> QED
      BY <3>2
  <2>5. CASE Kept(f)
    <3>1. Name[f] \in Names /\ disk[Name[f]] \in {None, Foreign, f}
      BY OwnNames DEF Placed, OwnPlaces
    <3> QED
      BY <2>5, <3>1 DEF Kept
  <2> QED
    BY <2>2, <2>3, <2>4, <2>5
<1> QED
  BY <1>2, <1>3 DEF CompletedMeansStored

(* Where no two files of the manifest may end up under one name: a run that
   ends as completed has counted every file once, and each is in the
   destination, or the policy has left the one that was there. *)
THEOREM CompletedIsStored == ASSUME NamesApart PROVE Spec => []CompletedMeansStored
<1>1. Init => Placed
  BY InitPlaced
<1>2. IInv /\ Placed /\ [Next]_vars => Placed'
  BY NextPlaced DEF IInv
<1>3. IInv /\ Placed => CompletedMeansStored
  BY PlacedStored
<1> QED
  BY <1>1, <1>2, <1>3, IInvHolds, PTL DEF Spec

-----------------------------------------------------------------------------
(* A run gets on: it is never blocked, and its steps are numbered. *)

(* The files that an item has fetched are on their way to their places. *)
Underway == Running => \A i \in Items : item[i] = "write" => \A f \in Prepared(i) : write[f] # "no"

(* It is enough to look at the items that enter "write" and the files that
   fall back. *)
LEMMA UnderwayKept ==
  ASSUME Still, Underway, UNCHANGED <<fixed, target>>, Running,
         \A i \in Items : item'[i] = "write" =>
           item[i] = "write" \/ \A f \in Prepared(i) : write'[f] # "no",
         \A f \in Files : write[f] # "no" => write'[f] # "no"
  PROVE  Underway'
<1>1. Items' = Items /\ \A i \in Items : Prepared(i)' = Prepared(i) /\ Prepared(i) \subseteq Files
  BY ItemFacts DEF Still, fixed, Items, Prepared, FilesOf
<1> QED
  BY <1>1 DEF Underway

LEMMA NextUnderway ==
  ASSUME Still, Underway, [Next]_vars
  PROVE  Underway'
<1>0. item \in [Items -> ItemStates] /\ write \in [Files -> WriteStates]
  BY DEF Still, Shape
<1>1. ASSUME NEW i \in Items, NEW s \in ItemStates, s # "write", item' = [item EXCEPT ![i] = s],
             UNCHANGED <<fixed, target, write>>, Running
      PROVE  Underway'
  <2>1. \A j \in Items : item'[j] = "write" => item[j] = "write"
    BY <1>0, <1>1
  <2> QED
    BY <1>1, <2>1, UnderwayKept
<1>2. ASSUME NEW f \in Files, NEW s \in WriteStates, s # "no", write' = [write EXCEPT ![f] = s],
             UNCHANGED <<fixed, target, item>>, Running
      PROVE  Underway'
  <2>1. \A g \in Files : write[g] # "no" => write'[g] # "no"
    BY <1>0, <1>2
  <2> QED
    BY <1>2, <2>1, UnderwayKept
<1>3. ASSUME NEW i \in Items, ItemStep(i) PROVE Underway'
  <2>1. CASE StartItem(i)
    <3> DEFINE s == IF work[i].kind = "file" THEN "file_io" ELSE "prepare"
    <3>1. /\ item' = [item EXCEPT ![i] = s] /\ s \in ItemStates /\ s # "write"
          /\ UNCHANGED <<fixed, target, write>> /\ Running
      BY <2>1 DEF StartItem, ItemStates
    <3> HIDE DEF s
    <3> QED
      BY <1>1, <3>1
  <2>2. CASE AcquireFileIo(i)
    <3>1. /\ item' = [item EXCEPT ![i] = "prepare"] /\ "prepare" \in ItemStates
          /\ UNCHANGED <<fixed, target, write>> /\ Running
      BY <2>2 DEF AcquireFileIo, ItemStates
    <3> QED
      BY <1>1, <3>1
  <2>3. CASE PrepareFile(i)
    <3>1. /\ UNCHANGED <<fixed, item, write, result>> /\ Running /\ item[i] = "prepare"
          /\ \E f \in FilesOf(i) : target' = target \/ \E n : target' = [target EXCEPT ![f] = n]
      BY <2>3, PrepareFileIs
    <3>2. ASSUME NEW j \in Items, item[j] = "write"
          PROVE  Prepared(j)' = Prepared(j)
      <4>1. FilesOf(j)' = FilesOf(j) /\ j # i /\ FilesOf(j) \subseteq Files
        BY <3>1, <3>2, ItemFacts DEF Still, fixed, FilesOf
      <4>2. \A f \in FilesOf(j) : target'[f] = target[f]
        BY <3>1, <4>1, ItemFacts DEF Still, Shape
      <4> QED
        BY <4>1, <4>2 DEF Prepared
    <3> QED
      BY <3>1, <3>2 DEF Underway, fixed, Items
  <2>4. CASE AcquireStream(i)
    <3>1. /\ item' = [item EXCEPT ![i] = "fetch"] /\ "fetch" \in ItemStates
          /\ UNCHANGED <<fixed, target, write>> /\ Running
      BY <2>4 DEF AcquireStream, ItemStates
    <3> QED
      BY <1>1, <3>1
  <2>5. CASE SkipFetch(i) \/ Fetch(i)
    <3>1. /\ UNCHANGED <<fixed, target>> /\ Running /\ item' = [item EXCEPT ![i] = "write"]
          /\ \A f \in Files : f \notin Prepared(i) => write'[f] = write[f]
          /\ \A f \in Prepared(i) :
               /\ work[i].kind = "batch" => write'[f] = "file_io"
               /\ work[i].kind = "file" => write'[f] \in {"remove", "rename"}
      BY <2>5, SkipIs, FetchIs DEF Gathered
    <3>2. work[i].kind \in {"batch", "file"}
      BY ItemFacts DEF Still
    <3>3. \A f \in Prepared(i) : write'[f] # "no"
      BY <3>1, <3>2
    <3>4. \A f \in Files : write[f] # "no" => write'[f] # "no"
      BY <3>1, <3>3
    <3>5. \A j \in Items : item'[j] = "write" => item[j] = "write" \/ j = i
      BY <1>0, <3>1
    <3> QED
      BY <3>1, <3>3, <3>4, <3>5, UnderwayKept
  <2>6. CASE FinishItem(i)
    <3>1. /\ item' = [item EXCEPT ![i] = "done"] /\ "done" \in ItemStates
          /\ UNCHANGED <<fixed, target, write>> /\ Running
      BY <2>6 DEF FinishItem, ItemStates
    <3> QED
      BY <1>1, <3>1
  <2> QED
    BY <1>3, <2>1, <2>2, <2>3, <2>4, <2>5, <2>6 DEF ItemStep
<1>4. ASSUME NEW f \in Files, FileStep(f) PROVE Underway'
  <2>1. PICK s \in WriteStates : s # "no" /\ write' = [write EXCEPT ![f] = s]
    <3>1. Place(f) \in WriteStates /\ Place(f) # "no"
      BY PlaceIs DEF WriteStates
    <3>2. "write" \in WriteStates /\ "rename" \in WriteStates /\ "done" \in WriteStates
      BY DEF WriteStates
    <3> QED
      BY <1>4, <3>1, <3>2 DEF FileStep, StartWrite, WritePart, RemoveExisting, RenamePartial
  <2>2. UNCHANGED <<fixed, target, item>> /\ Running
    BY <1>4 DEF FileStep, StartWrite, WritePart, RemoveExisting, RenamePartial
  <2> QED
    BY <1>2, <2>1, <2>2
<1>5. ASSUME Complete \/ RunFails \/ (\E i \in Items : ItemFails(i)) \/ (\E f \in Files : LateOperation(f))
      PROVE  Underway'
  BY <1>5 DEF Complete, RunFails, ItemFails, LateOperation, Underway, Running
<1>6. CASE Cancel \/ UNCHANGED vars
  BY <1>6 DEF Cancel, vars, fixed, Underway, Running, Items, Prepared, FilesOf
<1> QED
  BY <1>3, <1>4, <1>5, <1>6 DEF Next, RunStep

(* The guards of an item's actions, of a file's, and of RunStep. *)
ItemReady(i) ==
  \/ /\ item[i] = "new" /\ \A j \in 1 .. i - 1 : item[j] # "new"
     /\ Cardinality(Active) < FileLimit
  \/ item[i] = "file_io" /\ fileIo > 0
  \/ item[i] = "prepare" /\ todo[i] # <<>> /\ (work[i].kind = "batch" => ~cancelled)
  \/ item[i] = "prepare" /\ todo[i] = <<>> /\ Prepared(i) # {} /\ HasChunks(i) /\ streams > 0
  \/ item[i] = "prepare" /\ todo[i] = <<>> /\ Prepared(i) # {} /\ HasAllChunks(i)
  \/ item[i] = "fetch"
  \/ Finished(i)
FileReady(f) ==
  \/ write[f] = "file_io" /\ fileIo > 0
  \/ write[f] \in {"write", "remove", "rename"}
CanStep ==
  \/ \A i \in Items : item[i] = "done"
  \/ \E i \in Items : ItemReady(i)
  \/ \E f \in Files : FileReady(f)

(* A batch that finds its run cancelled fails. *)
MustFail(i) == cancelled /\ item[i] = "prepare" /\ work[i].kind = "batch"

Unblocked == Running => CanStep \/ \E i \in Items : MustFail(i)

(* The permits are free when nobody can be holding one. *)
LEMMA PermitsFree ==
  ASSUME IInv
  PROVE  /\ FetchingIn(item) = {} => streams > 0
         /\ Running /\ HoldingIn(work, item) = {} /\ WritingIn(work, write) = {} => fileIo > 0
         /\ Active = {} => Cardinality(Active) < FileLimit
<1>1. StreamLimit \in Nat \ {0} /\ FileLimit \in Nat \ {0}
  BY DownloadWindowAssumption, FileLimitBounds
<1>2. \A S : S = {} => Cardinality(S) = 0
  BY FS_EmptySet
<1>3. streams \in Nat /\ streams + Cardinality(FetchingIn(item)) = StreamLimit
  BY DEF IInv, Counts, StreamPermits
<1>4. /\ fileIo \in Nat
      /\ Running => fileIo + Cardinality(HoldingIn(work, item)) + Cardinality(WritingIn(work, write))
                      = FileLimit
  BY <1>1 DEF IInv, Counts, FileIoPermits
<1>5. FetchingIn(item) = {} => streams > 0
  BY <1>1, <1>2, <1>3
<1>6. Running /\ HoldingIn(work, item) = {} /\ WritingIn(work, write) = {} => fileIo > 0
  <2> HAVE Running /\ HoldingIn(work, item) = {} /\ WritingIn(work, write) = {}
  <2>1. Cardinality(HoldingIn(work, item)) = 0 /\ Cardinality(WritingIn(work, write)) = 0
    BY <1>2
  <2> QED
    BY <1>1, <1>4, <2>1
<1> QED
  BY <1>1, <1>2, <1>5, <1>6

(* The first item of those not started. *)
LEMMA FirstNew ==
  ASSUME Still, NEW i \in Items, item[i] = "new"
  PROVE  \E k \in Items : item[k] = "new" /\ \A j \in 1 .. k - 1 : item[j] # "new"
<1> DEFINE S == {k \in Items : item[k] = "new"}
<1>1. Items = 1 .. Len(work) /\ Len(work) \in Nat
  BY ItemFacts DEF Still
<1>2. S \in SUBSET Nat /\ S # {} /\ IsFiniteSet(S)
  <2>1. IsFiniteSet(Items)
    <3>1. 1 \in Int /\ Len(work) \in Int
      BY <1>1
    <3> QED
      BY <1>1, <3>1, FS_Interval
  <2> QED
    BY <1>1, <2>1, FS_Subset
<1>3. PICK k \in S : \A m \in S : ~(m < k)
  <2> HIDE DEF S
  <2> QED
    BY <1>2, LeastOf
<1>4. \A j \in 1 .. k - 1 : j \in Items /\ j < k
  BY <1>1
<1> QED
  BY <1>3, <1>4

(* Whoever waits for a permit waits for someone who can step. *)
LEMMA IInvUnblocked ==
  ASSUME IInv, Underway
  PROVE  Unblocked
<1> SUFFICES ASSUME Running, ~CanStep, \A i \in Items : ~MustFail(i)
             PROVE  FALSE
  BY DEF Unblocked
<1>0. /\ item \in [Items -> ItemStates] /\ write \in [Files -> WriteStates]
      /\ \A i \in Items : ~ItemReady(i)
      /\ \A f \in Files : ~FileReady(f)
  BY DEF CanStep, IInv, Still, Shape
<1>1. \A f \in Files : write[f] \in {"no", "file_io", "done"} /\ (write[f] = "file_io" => ~(fileIo > 0))
  BY <1>0 DEF FileReady, WriteStates
<1>2. \A i \in Items : item[i] # "fetch"
  BY <1>0 DEF ItemReady
<1>3. \A i \in Items : item[i] # "prepare"
  <2> SUFFICES ASSUME NEW i \in Items, item[i] = "prepare"
               PROVE  FALSE
    OBVIOUS
  <2>1. FetchingIn(item) = {}
    BY <1>0, <1>2 DEF FetchingIn
  <2>2. todo[i] = <<>>
    BY <1>0 DEF ItemReady, MustFail
  <2>3. Prepared(i) # {}
    BY <1>0, <2>2 DEF ItemReady, Finished
  <2>4. HasChunks(i) \/ HasAllChunks(i)
    <3>1. work[i].kind \in {"batch", "file"} /\ Prepared(i) \subseteq Files
      BY ItemFacts DEF IInv, Still
    <3>2. \A f \in Files : size[f] \in Nat
      BY DownloadWindowAssumption DEF IInv, Still, Shape
    <3> QED
      BY <3>1, <3>2 DEF HasChunks, HasAllChunks
  <2> QED
    BY <1>0, <2>1, <2>2, <2>3, <2>4, PermitsFree DEF ItemReady
<1>4. WritingIn(work, write) = {}
  BY <1>1 DEF WritingIn
<1>5. HoldingIn(work, item) = {}
  <2> SUFFICES ASSUME NEW i \in Items, work[i].kind = "file", item[i] = "write"
               PROVE  FALSE
    BY <1>0, <1>2, <1>3 DEF HoldingIn
  <2>1. \A f \in Prepared(i) : f \in Files /\ write[f] \notin {"file_io", "no"}
    BY ItemFacts DEF IInv, Still, InStep, Underway
  <2>2. Finished(i)
    BY <1>1, <2>1 DEF Finished
  <2> QED
    BY <1>0, <2>2 DEF ItemReady
<1>6. fileIo > 0
  BY <1>4, <1>5, PermitsFree
<1>7. \A i \in Items : item[i] # "write"
  <2> SUFFICES ASSUME NEW i \in Items, item[i] = "write"
               PROVE  FALSE
    OBVIOUS
  <2>1. \A f \in Prepared(i) : f \in Files /\ write[f] # "no"
    BY ItemFacts DEF IInv, Still, Underway
  <2>2. Finished(i)
    BY <1>1, <1>6, <2>1 DEF Finished
  <2> QED
    BY <1>0, <2>2 DEF ItemReady
<1>8. \A i \in Items : item[i] # "file_io"
  BY <1>0, <1>6 DEF ItemReady
<1>9. \A i \in Items : item[i] \in {"new", "done"}
  BY <1>0, <1>2, <1>3, <1>7, <1>8 DEF ItemStates
<1>10. PICK i \in Items : item[i] = "new"
  BY <1>9 DEF CanStep
<1>11. PICK k \in Items : item[k] = "new" /\ \A j \in 1 .. k - 1 : item[j] # "new"
  BY <1>10, FirstNew DEF IInv
<1>12. Active = {}
  BY <1>9 DEF Active
<1> QED
  BY <1>0, <1>11, <1>12, PermitsFree DEF ItemReady

LEMMA UnderwayHolds == Spec => []Underway
<1>1. Init => Underway
  BY DEF Init, Underway
<1>2. IInv /\ Underway /\ [Next]_vars => Underway'
  BY NextUnderway DEF IInv
<1> QED
  BY <1>1, <1>2, IInvHolds, PTL DEF Spec

(* A run is never blocked: batches give a stream permit back before they ask
   for file-I/O permits, single files hold one while they ask for a stream,
   items wait for the window, and still, in every state of a run, for any
   manifest and any limits, run_task or one of its items or files can go on,
   or a batch has to notice that the run is cancelled. *)
THEOREM RunIsNeverBlocked == Spec => []Unblocked
<1>1. IInv /\ Underway => Unblocked
  BY IInvUnblocked
<1> QED
  BY <1>1, IInvHolds, UnderwayHolds, PTL

(* The stages that an item, or a file, has still before it. *)
ItemStages(s) == CASE s = "new" -> 5 [] s = "file_io" -> 4 [] s = "prepare" -> 3
                   [] s = "fetch" -> 2 [] s = "write" -> 1 [] OTHER -> 0
FileStages(s) == CASE s = "no" -> 5 [] s = "file_io" -> 4 [] s = "write" -> 3
                   [] s = "remove" -> 2 [] s = "rename" -> 1 [] OTHER -> 0

(* What is ahead of a run, with its end and its cancellation. *)
ItemsAhead == {p \in Items \X (1 .. 5) : p[2] <= ItemStages(item[p[1]])}
FilesAhead == {p \in Files \X (1 .. 5) : p[2] <= FileStages(write[p[1]])}
LookupsAhead == {p \in Items \X Nat : p[2] \in DOMAIN todo[p[1]]}
StepsLeft ==
  IF ~Running THEN 0
  ELSE Cardinality(ItemsAhead) + Cardinality(FilesAhead) + Cardinality(LookupsAhead)
         + (IF cancelled THEN 1 ELSE 2)

LEMMA AheadFinite ==
  ASSUME Shape
  PROVE  IsFiniteSet(ItemsAhead) /\ IsFiniteSet(FilesAhead) /\ IsFiniteSet(LookupsAhead)
<1>1. Items = 1 .. Len(work) /\ Len(work) \in Int /\ todo \in [Items -> Seq(Files)]
  BY ItemFacts DEF Shape
<1>2. IsFiniteSet(Items) /\ IsFiniteSet(1 .. 5) /\ IsFiniteSet(Files)
  <2>1. 1 \in Int /\ 5 \in Int
    OBVIOUS
  <2> QED
    BY <1>1, <2>1, FS_Interval, FilesFinite
<1>3. IsFiniteSet(Items \X (1 .. 5)) /\ IsFiniteSet(Files \X (1 .. 5))
  BY <1>2, FS_Product
<1>4. IsFiniteSet(ItemsAhead) /\ IsFiniteSet(FilesAhead)
  <2>1. ItemsAhead \in SUBSET (Items \X (1 .. 5)) /\ FilesAhead \in SUBSET (Files \X (1 .. 5))
    BY DEF ItemsAhead, FilesAhead
  <2> QED
    BY <1>3, <2>1, FS_Subset
<1>5. IsFiniteSet(LookupsAhead)
  <2> DEFINE of == [i \in Items |-> {i} \X DOMAIN todo[i]]
             T == {of[i] : i \in Items}
  <2>1. IsFiniteSet(T)
    <3>1. of \in Surjection(Items, T)
      BY DEF Surjection
    <3> HIDE DEF of, T
    <3> QED
      BY <1>2, <3>1, FS_Surjection
  <2>2. \A X \in T : IsFiniteSet(X)
    <3> SUFFICES ASSUME NEW i \in Items PROVE IsFiniteSet({i} \X DOMAIN todo[i])
      OBVIOUS
    <3>1. DOMAIN todo[i] = 1 .. Len(todo[i]) /\ Len(todo[i]) \in Int /\ 1 \in Int
      BY <1>1
    <3> DEFINE d == DOMAIN todo[i]
               n == Len(todo[i])
               one == {i}
    <3>2. IsFiniteSet(d) /\ IsFiniteSet(one)
      <4>1. d = 1 .. n /\ n \in Int /\ 1 \in Int
        BY <3>1
      <4>2. IsFiniteSet(one)
        BY FS_Singleton
      <4> HIDE DEF d, n, one
      <4>3. IsFiniteSet(1 .. n)
        BY <4>1, FS_Interval
      <4> QED
        BY <4>1, <4>2, <4>3
    <3>3. IsFiniteSet(one \X d)
      <4> HIDE DEF d, one
      <4> QED
        BY <3>2, FS_Product
    <3> QED
      BY <3>3
  <2>3. LookupsAhead \in SUBSET UNION T
    BY DEF LookupsAhead
  <2>4. IsFiniteSet(UNION T)
    <3> HIDE DEF T
    <3> QED
      BY <2>1, <2>2, FS_UNION
  <2> QED
    BY <2>3, <2>4, FS_Subset
<1> QED
  BY <1>4, <1>5

(* Part of a finite set has no more elements, and fewer unless it is all of it. *)
LEMMA Shrunk ==
  ASSUME NEW S, IsFiniteSet(S), NEW T, T \subseteq S
  PROVE  /\ Cardinality(T) \in Nat /\ Cardinality(S) \in Nat /\ Cardinality(T) <= Cardinality(S)
         /\ T # S => Cardinality(T) < Cardinality(S)
<1>1. T \in SUBSET S
  OBVIOUS
<1>2. IsFiniteSet(T) /\ Cardinality(T) <= Cardinality(S) /\ (Cardinality(S) = Cardinality(T) => S = T)
  BY <1>1, FS_Subset
<1>3. Cardinality(T) \in Nat /\ Cardinality(S) \in Nat
  BY <1>2, FS_CardinalityType
<1> QED
  BY <1>2, <1>3

(* A step that leaves nothing more ahead, and less of something, is counted. *)
LEMMA OneFewer ==
  ASSUME Shape, Running, UNCHANGED cancelled,
         ItemsAhead' \subseteq ItemsAhead, FilesAhead' \subseteq FilesAhead,
         LookupsAhead' \subseteq LookupsAhead,
         ItemsAhead' # ItemsAhead \/ FilesAhead' # FilesAhead \/ LookupsAhead' # LookupsAhead
  PROVE  StepsLeft' < StepsLeft
<1> DEFINE a == Cardinality(ItemsAhead)
           b == Cardinality(FilesAhead)
           c == Cardinality(LookupsAhead)
           x == Cardinality(ItemsAhead')
           y == Cardinality(FilesAhead')
           z == Cardinality(LookupsAhead')
           t == IF cancelled THEN 1 ELSE 2
<1>1. /\ a \in Nat /\ x \in Nat /\ x <= a /\ (ItemsAhead' # ItemsAhead => x < a)
      /\ b \in Nat /\ y \in Nat /\ y <= b /\ (FilesAhead' # FilesAhead => y < b)
      /\ c \in Nat /\ z \in Nat /\ z <= c /\ (LookupsAhead' # LookupsAhead => z < c)
  BY AheadFinite, Shrunk
<1>2. t \in {1, 2} /\ StepsLeft = a + b + c + t /\ StepsLeft' \in {0, x + y + z + t}
  BY DEF StepsLeft
<1> HIDE DEF a, b, c, x, y, z, t
<1> QED
  BY <1>1, <1>2

(* An item that goes a stage further ... *)
LEMMA ItemNearer ==
  ASSUME Shape, UNCHANGED fixed, NEW i \in Items, NEW s \in ItemStates,
         item' = [item EXCEPT ![i] = s], ItemStages(s) < ItemStages(item[i])
  PROVE  ItemsAhead' \subseteq ItemsAhead /\ ItemsAhead' # ItemsAhead
<1>1. Items' = Items /\ \A j \in Items : item'[j] = IF j = i THEN s ELSE item[j]
  BY ItemMoves DEF fixed, Items
<1>2. \A r : ItemStages(r) \in 0 .. 5
  BY DEF ItemStages
<1>3. ItemsAhead' \subseteq ItemsAhead
  <2> SUFFICES ASSUME NEW j \in Items, NEW k \in 1 .. 5, k <= ItemStages(item'[j])
               PROVE  k <= ItemStages(item[j])
    BY <1>1 DEF ItemsAhead
  <2> QED
    BY <1>1, <1>2
<1>4. <<i, ItemStages(item[i])>> \in ItemsAhead /\ <<i, ItemStages(item[i])>> \notin ItemsAhead'
  <2> DEFINE k == ItemStages(item[i])
  <2>1. k \in 1 .. 5 /\ k <= ItemStages(item[i]) /\ ~(k <= ItemStages(s))
    BY <1>2
  <2> HIDE DEF k
  <2>2. <<i, k>> \in ItemsAhead
    BY <2>1 DEF ItemsAhead
  <2>3. item'[i] = s
    BY <1>1
  <2>4. <<i, k>> \notin ItemsAhead'
    BY <2>1, <2>3 DEF ItemsAhead
  <2>5. k = ItemStages(item[i])
    BY DEF k
  <2> QED
    BY <2>2, <2>4, <2>5
<1> QED
  BY <1>3, <1>4

(* ... and files none of which falls back, as one or more go further. *)
LEMMA FilesNearer ==
  ASSUME Shape, \A f \in Files : FileStages(write'[f]) <= FileStages(write[f])
  PROVE  /\ FilesAhead' \subseteq FilesAhead
         /\ (\E f \in Files : FileStages(write'[f]) < FileStages(write[f])) => FilesAhead' # FilesAhead
<1>1. \A r : FileStages(r) \in 0 .. 5
  BY DEF FileStages
<1>2. FilesAhead' \subseteq FilesAhead
  <2> SUFFICES ASSUME NEW f \in Files, NEW k \in 1 .. 5, k <= FileStages(write'[f])
               PROVE  k <= FileStages(write[f])
    BY DEF FilesAhead
  <2> QED
    BY <1>1
<1>3. ASSUME NEW f \in Files, FileStages(write'[f]) < FileStages(write[f])
      PROVE  FilesAhead' # FilesAhead
  <2> DEFINE k == FileStages(write[f])
  <2>1. k \in 1 .. 5 /\ k <= FileStages(write[f]) /\ ~(k <= FileStages(write'[f]))
    BY <1>1, <1>3
  <2> HIDE DEF k
  <2>2. <<f, k>> \in FilesAhead /\ <<f, k>> \notin FilesAhead'
    BY <2>1 DEF FilesAhead
  <2> QED
    BY <2>2
<1> QED
  BY <1>2, <1>3

(* A lookup that is done is no longer ahead. *)
LEMMA LookupDone ==
  ASSUME Shape, UNCHANGED fixed, NEW i \in Items, todo[i] # <<>>,
         todo' = [todo EXCEPT ![i] = Tail(todo[i])]
  PROVE  LookupsAhead' \subseteq LookupsAhead /\ LookupsAhead' # LookupsAhead
<1>1. todo \in [Items -> Seq(Files)] /\ Items' = Items
  BY DEF Shape, fixed, Items
<1>2. \A j \in Items : todo'[j] = IF j = i THEN Tail(todo[i]) ELSE todo[j]
  BY <1>1
<1> DEFINE n == Len(todo[i])
<1>3. /\ n \in Nat \ {0} /\ DOMAIN todo[i] = 1 .. n /\ DOMAIN Tail(todo[i]) = 1 .. n - 1
  <2>1. todo[i] \in Seq(Files)
    BY <1>1
  <2> QED
    BY <2>1
<1> HIDE DEF n
<1>4. LookupsAhead' \subseteq LookupsAhead
  BY <1>1, <1>2, <1>3 DEF LookupsAhead
<1>5. <<i, n>> \in LookupsAhead /\ <<i, n>> \notin LookupsAhead'
  BY <1>1, <1>2, <1>3 DEF LookupsAhead
<1> QED
  BY <1>4, <1>5

(* Each step of a run leaves fewer. *)
LEMMA ItemStepFewer ==
  ASSUME Still, NEW i \in Items, ItemStep(i)
  PROVE  StepsLeft' < StepsLeft
<1>0. Shape
  BY DEF Still
<1>1. ASSUME NEW s \in ItemStates, item' = [item EXCEPT ![i] = s],
             ItemStages(s) < ItemStages(item[i]), Running,
             UNCHANGED <<fixed, todo, cancelled>>,
             \A f \in Files : FileStages(write'[f]) <= FileStages(write[f])
      PROVE  StepsLeft' < StepsLeft
  <2>1. ItemsAhead' \subseteq ItemsAhead /\ ItemsAhead' # ItemsAhead
    BY <1>0, <1>1, ItemNearer
  <2>2. FilesAhead' \subseteq FilesAhead
    BY <1>0, <1>1, FilesNearer
  <2>3. LookupsAhead' = LookupsAhead
    BY <1>1 DEF LookupsAhead, fixed, Items
  <2> QED
    BY <1>0, <1>1, <2>1, <2>2, <2>3, OneFewer
<1>2. \A r : FileStages(r) \in 0 .. 5 /\ FileStages(r) <= FileStages(r)
  BY DEF FileStages
<1>3. CASE StartItem(i)
  <2> DEFINE s == IF work[i].kind = "file" THEN "file_io" ELSE "prepare"
  <2>1. /\ item' = [item EXCEPT ![i] = s] /\ UNCHANGED <<fixed, todo, write, cancelled>> /\ Running
        /\ item[i] = "new"
    BY <1>3 DEF StartItem
  <2>2. s \in ItemStates /\ ItemStages(s) < 5 /\ ItemStages("new") = 5
    BY DEF ItemStates, ItemStages
  <2> HIDE DEF s
  <2> QED
    BY <1>1, <1>2, <2>1, <2>2
<1>4. CASE AcquireFileIo(i)
  <2>1. /\ item' = [item EXCEPT ![i] = "prepare"] /\ item[i] = "file_io"
        /\ UNCHANGED <<fixed, todo, write, cancelled>> /\ Running
    BY <1>4 DEF AcquireFileIo
  <2>2. "prepare" \in ItemStates /\ ItemStages("prepare") < ItemStages("file_io")
    BY DEF ItemStates, ItemStages
  <2> QED
    BY <1>1, <1>2, <2>1, <2>2
<1>5. CASE PrepareFile(i)
  <2>1. /\ UNCHANGED <<fixed, item, write, cancelled>> /\ Running /\ todo[i] # <<>>
        /\ todo' = [todo EXCEPT ![i] = Tail(todo[i])]
    BY <1>5, PrepareFileIs
  <2>2. LookupsAhead' \subseteq LookupsAhead /\ LookupsAhead' # LookupsAhead
    BY <1>0, <2>1, LookupDone
  <2>3. ItemsAhead' = ItemsAhead /\ FilesAhead' = FilesAhead
    BY <2>1 DEF ItemsAhead, FilesAhead, fixed, Items
  <2> QED
    BY <1>0, <2>1, <2>2, <2>3, OneFewer
<1>6. CASE AcquireStream(i)
  <2>1. /\ item' = [item EXCEPT ![i] = "fetch"] /\ item[i] = "prepare"
        /\ UNCHANGED <<fixed, todo, write, cancelled>> /\ Running
    BY <1>6 DEF AcquireStream
  <2>2. "fetch" \in ItemStates /\ ItemStages("fetch") < ItemStages("prepare")
    BY DEF ItemStates, ItemStages
  <2> QED
    BY <1>1, <1>2, <2>1, <2>2
<1>7. CASE SkipFetch(i) \/ Fetch(i)
  <2>1. /\ item' = [item EXCEPT ![i] = "write"] /\ item[i] \in {"prepare", "fetch"}
        /\ UNCHANGED <<fixed, todo, cancelled>> /\ Running
        /\ \A f \in Files : f \notin Prepared(i) => write'[f] = write[f]
        /\ \A f \in Prepared(i) : write[f] = "no"
    BY <1>7, SkipIs, FetchIs DEF Gathered
  <2>2. /\ "write" \in ItemStates /\ FileStages("no") = 5
        /\ ItemStages("write") < ItemStages("fetch") /\ ItemStages("write") < ItemStages("prepare")
    BY DEF ItemStates, ItemStages, FileStages
  <2>3. \A f \in Files : FileStages(write'[f]) <= FileStages(write[f])
    BY <1>2, <2>1, <2>2
  <2> QED
    BY <1>1, <2>1, <2>2, <2>3
<1>8. CASE FinishItem(i)
  <2>1. /\ item' = [item EXCEPT ![i] = "done"] /\ item[i] \in {"prepare", "write"}
        /\ UNCHANGED <<fixed, todo, write, cancelled>> /\ Running
    BY <1>8 DEF FinishItem, Finished
  <2>2. /\ "done" \in ItemStates /\ ItemStages("done") < ItemStages("prepare")
        /\ ItemStages("done") < ItemStages("write")
    BY DEF ItemStates, ItemStages
  <2> QED
    BY <1>1, <1>2, <2>1, <2>2
<1> QED
  BY <1>3, <1>4, <1>5, <1>6, <1>7, <1>8 DEF ItemStep

LEMMA FileStepFewer ==
  ASSUME Still, NEW f \in Files, FileStep(f)
  PROVE  StepsLeft' < StepsLeft
<1>0. Shape
  BY DEF Still
<1>1. UNCHANGED <<fixed, item, todo, cancelled>> /\ Running
  BY DEF FileStep, StartWrite, WritePart, RemoveExisting, RenamePartial
<1>2. PICK s \in WriteStates : write' = [write EXCEPT ![f] = s] /\ FileStages(s) < FileStages(write[f])
  <2>1. /\ FileStages("file_io") = 4 /\ FileStages("write") = 3 /\ FileStages("remove") = 2
        /\ FileStages("rename") = 1 /\ FileStages("done") = 0
        /\ "write" \in WriteStates /\ "rename" \in WriteStates /\ "done" \in WriteStates
    BY DEF FileStages, WriteStates
  <2>2. Place(f) \in WriteStates /\ FileStages(Place(f)) < 3
    BY <2>1, PlaceIs DEF WriteStates
  <2> QED
    BY <2>1, <2>2 DEF FileStep, StartWrite, WritePart, RemoveExisting, RenamePartial
<1>3. \A g \in Files : write'[g] = IF g = f THEN s ELSE write[g]
  BY <1>0, <1>2 DEF Shape
<1>4. \A r : FileStages(r) \in 0 .. 5
  BY DEF FileStages
<1>5. \A g \in Files : FileStages(write'[g]) <= FileStages(write[g])
  BY <1>2, <1>3, <1>4
<1>6. FileStages(write'[f]) < FileStages(write[f])
  BY <1>2, <1>3
<1>7. FilesAhead' \subseteq FilesAhead /\ FilesAhead' # FilesAhead
  BY <1>0, <1>5, <1>6, FilesNearer
<1>8. ItemsAhead' = ItemsAhead /\ LookupsAhead' = LookupsAhead
  BY <1>1 DEF ItemsAhead, LookupsAhead, fixed, Items
<1> QED
  BY <1>0, <1>1, <1>7, <1>8, OneFewer

LEMMA NextFewer ==
  ASSUME Still, Next, Running
  PROVE  StepsLeft \in Nat /\ StepsLeft' < StepsLeft
<1> DEFINE a == Cardinality(ItemsAhead)
           b == Cardinality(FilesAhead)
           c == Cardinality(LookupsAhead)
<1>1. a \in Nat /\ b \in Nat /\ c \in Nat
  BY AheadFinite, FS_CardinalityType DEF Still
<1>2. StepsLeft = a + b + c + (IF cancelled THEN 1 ELSE 2)
  BY DEF StepsLeft
<1>3. CASE Cancel
  <2>1. ItemsAhead' = ItemsAhead /\ FilesAhead' = FilesAhead /\ LookupsAhead' = LookupsAhead
    BY <1>3 DEF Cancel, ItemsAhead, FilesAhead, LookupsAhead, fixed, Items
  <2>2. ~cancelled /\ cancelled' = TRUE /\ Running'
    BY <1>3 DEF Cancel, Running
  <2>3. StepsLeft' = a + b + c + 1 /\ StepsLeft = a + b + c + 2
    BY <1>2, <2>1, <2>2 DEF StepsLeft
  <2> HIDE DEF a, b, c
  <2> QED
    BY <1>1, <2>3
<1>4. CASE ~Running'
  <2>1. StepsLeft' = 0
    BY <1>4 DEF StepsLeft
  <2> HIDE DEF a, b, c
  <2> QED
    BY <1>1, <1>2, <2>1
<1>5. StepsLeft \in Nat
  <2> HIDE DEF a, b, c
  <2> QED
    BY <1>1, <1>2
<1>6. Complete \/ RunFails \/ (\E i \in Items : ItemFails(i)) \/ (\E f \in Files : LateOperation(f))
        => ~Running'
  BY DEF Complete, RunFails, ItemFails, LateOperation, Running
<1> QED
  BY <1>3, <1>4, <1>5, <1>6, ItemStepFewer, FileStepFewer DEF Next, RunStep

(* Every step of a run brings it nearer to its end, so a run has no more steps
   than it has left at its start: the stages of its items and files, the
   lookups, one cancellation and the end.  With RunIsNeverBlocked, a run whose
   items are polled ends, whatever the manifest and the limits. *)
THEOREM StepsBringTheEnd ==
  Spec => [][Running => StepsLeft \in Nat /\ StepsLeft' < StepsLeft]_vars
<1>1. IInv /\ [Next]_vars => [Running => StepsLeft \in Nat /\ StepsLeft' < StepsLeft]_vars
  BY NextFewer DEF IInv
<1> QED
  BY <1>1, IInvHolds, PTL DEF Spec
=============================================================================
