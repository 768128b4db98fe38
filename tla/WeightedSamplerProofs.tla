------------------------- MODULE WeightedSamplerProofs -------------------------
(***************************************************************************)
(* Proofs about WeightedSampler, for any number of elements and weights.   *)
(* A least counterexample (the lemma LeastNatural) takes the place   *)
(* of induction over the list of totals.                                   *)
(***************************************************************************)
EXTENDS WeightedSampler, FiniteSetTheorems, SequenceTheorems, TLAPS

\* The strengthening: a call draws no more than is left.
SamplerInv ==
    /\ SamplerTypeOK
    /\ TotalsAreOfTheRest
    /\ quantity <= length
    /\ length = N - (Len(drawn) - samples)

\* Every nonempty set of naturals has a least element.
LEMMA LeastNatural ==
    ASSUME NEW S \in SUBSET Nat, S # {}
    PROVE  \E n \in S : \A m \in S : n <= m
<1> DEFINE T == {1..n : n \in S}
<1>1. IsWellFoundedOn(StrictSubsetOrdering(Nat), FiniteSubsetsOf(Nat))
  BY FS_StrictSubsetOrderingWellFounded
<1>2. T \subseteq FiniteSubsetsOf(Nat) /\ T # {}
  <2>1. ASSUME NEW n \in Nat PROVE 1..n \in SUBSET Nat /\ IsFiniteSet(1..n)
    BY FS_Interval
  <2> QED
    BY <2>1, Zenon DEF FiniteSubsetsOf
<1> HIDE DEF T
<1>3. PICK x \in T : \A y \in T : ~(<<y, x>> \in StrictSubsetOrdering(Nat))
  BY <1>1, <1>2, WFMin
<1> USE DEF T
<1>4. PICK n \in S : x = 1..n
  BY <1>3
<1>5. ASSUME NEW m \in S, m < n PROVE FALSE
  <2>1. 1..m \subseteq 1..n /\ n \in 1..n /\ n \notin 1..m
    BY <1>5
  <2>2. 1..m \in SUBSET Nat /\ 1..n \in SUBSET Nat /\ 1..m # 1..n
    BY <2>1
  <2>3. <<1..m, 1..n>> \in StrictSubsetOrdering(Nat)
    BY <2>1, <2>2 DEF StrictSubsetOrdering
  <2> QED
    BY <1>3, <1>4, <2>3, Zenon
<1> QED
  BY <1>5

\* Totals that never step down are sorted.
LEMMA StepsUpSorted ==
    ASSUME NEW n \in Nat, NEW t \in [1..n -> Int],
           \A i \in 2..n : t[i - 1] <= t[i]
    PROVE  \A i, j \in 1..n : i <= j => t[i] <= t[j]
<1> SUFFICES ASSUME NEW i \in 1..n
             PROVE  \A j \in 1..n : i <= j => t[i] <= t[j]
  OBVIOUS
<1> DEFINE Bad == {j \in 1..n : i <= j /\ ~(t[i] <= t[j])}
<1>0. Bad \in SUBSET Nat
  OBVIOUS
<1>1. CASE Bad = {}
  BY <1>1, Zenon
<1>2. CASE Bad # {}
  <2>1. PICK j \in Bad : \A m \in Bad : j <= m
    <3> HIDE DEF Bad
    <3> QED
      BY <1>0, <1>2, LeastNatural
  <2>2. j \in 1..n /\ i < j /\ ~(t[i] <= t[j])
    BY <2>1
  <2>3. j - 1 \in 1..n /\ i <= j - 1 /\ j - 1 \notin Bad
    BY <2>1, <2>2
  <2>4. t[i] <= t[j - 1]
    BY <2>3
  <2>5. t[j - 1] <= t[j]
    BY <2>2
  <2> QED
    BY <2>2, <2>3, <2>4, <2>5
<1> QED
  BY <1>1, <1>2

\* bisect_right() finds, for every position below the last total, the element whose
\* range of positions holds it.
LEMMA BisectRightIs ==
    ASSUME SamplerTypeOK, NEW p \in Nat, N > 0, p < totals[N]
    PROVE  /\ BisectRight(p) \in 1..N
           /\ totals[BisectRight(p)] > p
           /\ \A j \in 1..(BisectRight(p) - 1) : totals[j] <= p
<1> DEFINE Above == {i \in 1..N : totals[i] > p}
<1>0. N \in Nat /\ totals \in [1..N -> Nat]
  BY DEF SamplerTypeOK, N
<1>1. N \in Above /\ Above \in SUBSET Nat
  BY <1>0
<1>2. PICK i \in Above : \A m \in Above : i <= m
  <2> HIDE DEF Above
  <2> QED
    BY <1>1, LeastNatural
<1>3. i \in 1..N /\ totals[i] > p /\ \A j \in 1..(i - 1) : totals[j] <= p
  <2>1. i \in 1..N /\ totals[i] > p
    BY <1>2
  <2>2. ASSUME NEW j \in 1..(i - 1) PROVE totals[j] <= p
    <3>1. j \in 1..N /\ j \notin Above
      BY <1>0, <1>2, <2>1
    <3> QED
      BY <1>0, <3>1
  <2> QED
    BY <2>1, <2>2
<1> QED
  BY <1>3 DEF BisectRight

\* The totals are sorted, which bisect_right() relies on.
LEMMA Sorted ==
    ASSUME SamplerTypeOK, TotalsAreOfTheRest
    PROVE  \A i, j \in 1..N : i <= j => totals[i] <= totals[j]
<1>0. N \in Nat /\ totals \in [1..N -> Nat] /\ weights \in [1..N -> 1..MaxWeight]
  BY DEF SamplerTypeOK, N
<1>1. ASSUME NEW i \in 2..N PROVE totals[i - 1] <= totals[i]
  <2>1. i \in 1..N /\ i - 1 \in 1..N /\ Before(totals, i) = totals[i - 1]
    BY <1>0 DEF Before
  <2>2. totals[i] = totals[i - 1] + (IF i \in Drawn THEN 0 ELSE weights[i])
    BY <2>1 DEF TotalsAreOfTheRest
  <2>3. weights[i] \in Nat /\ totals[i - 1] \in Nat /\ totals[i] \in Nat
    BY <1>0, <2>1, BoundsAssumption
  <2> QED
    BY <2>2, <2>3
<1>2. totals \in [1..N -> Int]
  BY <1>0
<1> QED
  BY <1>0, <1>1, <1>2, StepsUpSorted, Zenon

\* The element at a position was not drawn before, and its weight is what its total
\* adds to the one before.
LEMMA HitsAreLeft ==
    ASSUME SamplerInv, NEW p \in Nat, N > 0, p < totals[N]
    PROVE  LET i == BisectRight(p) IN
           /\ i \in 1..N
           /\ i \in Left
           /\ Before(totals, i) <= p /\ p < totals[i]
           /\ Before(totals, i) \in Nat
           /\ totals[i] - Before(totals, i) = weights[i]
<1> DEFINE i == BisectRight(p)
<1>0. /\ N \in Nat /\ totals \in [1..N -> Nat] /\ weights \in [1..N -> 1..MaxWeight]
      /\ SamplerTypeOK /\ TotalsAreOfTheRest
  BY DEF SamplerInv, SamplerTypeOK, N
<1>1. i \in 1..N /\ totals[i] > p /\ \A j \in 1..(i - 1) : totals[j] <= p
  BY <1>0, BisectRightIs
<1> HIDE DEF i
<1>2. Before(totals, i) <= p /\ Before(totals, i) \in Nat
  <2>1. CASE i = 1
    BY <2>1 DEF Before
  <2>2. CASE i # 1
    <3>1. i - 1 \in 1..(i - 1) /\ i - 1 \in 1..N
      BY <1>0, <1>1, <2>2
    <3> QED
      BY <1>0, <1>1, <2>2, <3>1 DEF Before
  <2> QED
    BY <2>1, <2>2
<1>3. totals[i] = Before(totals, i) + (IF i \in Drawn THEN 0 ELSE weights[i])
  BY <1>0, <1>1 DEF TotalsAreOfTheRest
<1>4. i \notin Drawn
  BY <1>0, <1>1, <1>2, <1>3
<1>5. weights[i] \in Nat /\ totals[i] \in Nat
  BY <1>0, <1>1, BoundsAssumption
<1>6. totals[i] - Before(totals, i) = weights[i]
  BY <1>2, <1>3, <1>4, <1>5
<1>7. i \in Left
  BY <1>0, <1>1, <1>4 DEF Left
<1> QED
  BY <1>1, <1>2, <1>6, <1>7 DEF i

LEMMA SamplerInitInv == SamplerInit => SamplerInv
<1> SUFFICES ASSUME SamplerInit PROVE SamplerInv
  OBVIOUS
<1>1. PICK n \in 0..MaxElements : weights \in [1..n -> 1..MaxWeight]
  BY DEF SamplerInit
<1>2. n \in Nat /\ Len(weights) = n /\ n <= MaxElements
  BY <1>1, BoundsAssumption
<1>3. N = n /\ DOMAIN weights = 1..N
  BY <1>1, <1>2 DEF N
<1>4. totals \in [1..N -> Nat]
  <2>1. totals \in [1..N -> 0..(MaxElements * MaxWeight)]
    BY <1>3 DEF SamplerInit
  <2> QED
    BY <2>1
<1>5. drawn = <<>> /\ drawn \in Seq(1..N) /\ Len(drawn) = 0 /\ DOMAIN drawn = {}
  BY EmptySeq DEF SamplerInit
<1>6. SamplerTypeOK
  BY <1>1, <1>2, <1>3, <1>4, <1>5 DEF SamplerTypeOK, SamplerInit
<1>7. Drawn = {}
  BY <1>5 DEF Drawn
<1>8. TotalsAreOfTheRest
  BY <1>3, <1>7 DEF TotalsAreOfTheRest, SamplerInit, Accumulated
<1>9. quantity <= length /\ length = N - (Len(drawn) - samples)
  BY <1>2, <1>3, <1>5 DEF SamplerInit
<1> QED
  BY <1>6, <1>8, <1>9 DEF SamplerInv

Elements(s) == {s[k] : k \in DOMAIN s}

\* Drawing an element adds it to the drawn ones.
LEMMA DrawnGrows ==
    ASSUME NEW S, NEW s \in Seq(S), NEW i \in S
    PROVE  /\ Append(s, i) \in Seq(S) /\ Len(Append(s, i)) = Len(s) + 1
           /\ Elements(Append(s, i)) = Elements(s) \cup {i}
<1> DEFINE u == Append(s, i)
<1>1. /\ u \in Seq(S) /\ Len(u) = Len(s) + 1
      /\ \A k \in 1..Len(s) : u[k] = s[k]
      /\ u[Len(s) + 1] = i
  BY AppendProperties
<1>2. DOMAIN s = 1..Len(s) /\ DOMAIN u = 1..(Len(s) + 1) /\ Len(s) \in Nat
  BY <1>1, LenProperties
<1> HIDE DEF u
<1>3. \A k \in DOMAIN u : u[k] \in {s[m] : m \in DOMAIN s} \cup {i}
  <2> SUFFICES ASSUME NEW k \in DOMAIN u PROVE u[k] \in {s[m] : m \in DOMAIN s} \cup {i}
    OBVIOUS
  <2>1. k \in DOMAIN s \/ k = Len(s) + 1
    BY <1>2
  <2>2. CASE k \in DOMAIN s
    <3>1. u[k] = s[k]
      BY <1>1, <1>2, <2>2
    <3> QED
      BY ONLY <2>2, <3>1, Zenon
  <2>3. CASE k = Len(s) + 1
    BY ONLY <1>1, <2>3, Zenon
  <2> QED
    BY ONLY <2>1, <2>2, <2>3, Zenon
<1>4. \A k \in DOMAIN s : k \in DOMAIN u /\ u[k] = s[k]
  BY <1>1, <1>2
<1>5. Len(s) + 1 \in DOMAIN u
  BY <1>2
<1>6. {u[k] : k \in DOMAIN u} = {s[k] : k \in DOMAIN s} \cup {i}
  BY <1>1, <1>3, <1>4, <1>5
<1> QED
  BY <1>1, <1>6 DEF u, Elements

\* An iteration of the loop takes the weight of the element it draws out of the
\* totals, and of no other.
LEMMA DrawOneInv ==
    ASSUME SamplerInv, NEW p \in Nat, DrawOne(p)
    PROVE  SamplerInv'
<1> DEFINE i == BisectRight(p)
           w == totals[i] - Before(totals, i)
<1>0. /\ N \in Nat /\ totals \in [1..N -> Nat] /\ weights \in [1..N -> 1..MaxWeight]
      /\ SamplerTypeOK /\ TotalsAreOfTheRest /\ drawn \in Seq(1..N)
      /\ length \in Nat /\ quantity \in Nat /\ samples \in 0..quantity
      /\ Len(drawn) \in Nat /\ samples < quantity
  BY LenProperties DEF SamplerInv, SamplerTypeOK, N, DrawOne
<1>1. N > 0
  BY <1>0 DEF SamplerInv
<1>2. i \in 1..N /\ i \in Left /\ Before(totals, i) \in Nat /\ w = weights[i]
  BY <1>1, HitsAreLeft DEF DrawOne
<1>3. /\ weights' = weights /\ N' = N /\ length' = length /\ quantity' = quantity
      /\ samples' = samples + 1 /\ drawn' = Append(drawn, i)
      /\ totals' = [j \in 1..N |-> IF j >= i THEN totals[j] - w ELSE totals[j]]
  BY DEF DrawOne, Adjusted, N
<1>4. drawn' \in Seq(1..N) /\ Len(drawn') = Len(drawn) + 1 /\ Drawn' = Drawn \cup {i}
  <2>1. N \in Nat /\ drawn \in Seq(1..N) /\ i \in 1..N
    BY <1>0, <1>2
  <2> HIDE DEF i
  <2>2. /\ Append(drawn, i) \in Seq(1..N) /\ Len(Append(drawn, i)) = Len(drawn) + 1
        /\ Elements(Append(drawn, i)) = Elements(drawn) \cup {i}
    BY ONLY <2>1, DrawnGrows
  <2>3. Elements(drawn') = Elements(drawn) \cup {i}
    BY ONLY <1>3, <2>2, Zenon
  <2>4. drawn' \in Seq(1..N) /\ Len(drawn') = Len(drawn) + 1
    BY ONLY <1>3, <2>2, Zenon
  <2> QED
    BY ONLY <2>3, <2>4, Zenon DEF Drawn, Elements
<1>5. w \in Nat
  BY <1>0, <1>2, BoundsAssumption
<1> HIDE DEF w, i
<1>6. ASSUME NEW j \in 1..N, j >= i PROVE totals[j] >= w
  <2>1. totals[i] <= totals[j]
    BY <1>0, <1>2, <1>6, Sorted
  <2>2. totals[i] \in Nat /\ totals[j] \in Nat /\ totals[i] >= w
    BY <1>0, <1>2, <1>6 DEF w
  <2> QED
    BY <1>5, <2>1, <2>2
<1>7. totals' \in [1..N -> Nat]
  <2>1. ASSUME NEW j \in 1..N
        PROVE  (IF j >= i THEN totals[j] - w ELSE totals[j]) \in Nat
    BY <1>0, <1>5, <1>6
  <2> QED
    BY ONLY <1>3, <2>1
<1>8. SamplerTypeOK'
  BY <1>0, <1>3, <1>4, <1>7 DEF SamplerTypeOK
<1>9. TotalsAreOfTheRest'
  <2> SUFFICES ASSUME NEW j \in 1..N
               PROVE  totals'[j] = Before(totals', j) + (IF j \in Drawn' THEN 0 ELSE weights[j])
    BY <1>3 DEF TotalsAreOfTheRest
  <2>1. totals[j] = Before(totals, j) + (IF j \in Drawn THEN 0 ELSE weights[j])
    BY <1>0 DEF TotalsAreOfTheRest
  <2>2. totals[j] \in Nat /\ weights[j] \in Nat /\ Before(totals, j) \in Nat
    <3>1. CASE j = 1
      BY <1>0, <3>1, BoundsAssumption DEF Before
    <3>2. CASE j # 1
      <4>1. j - 1 \in 1..N
        BY <1>0, <3>2
      <4> QED
        BY <1>0, <3>2, <4>1, BoundsAssumption DEF Before
    <3> QED
      BY <3>1, <3>2
  <2>3. CASE j < i
    <3>1. totals'[j] = totals[j] /\ Before(totals', j) = Before(totals, j)
      <4>1. CASE j = 1
        BY <1>0, <1>2, <1>3, <2>3, <4>1 DEF Before
      <4>2. CASE j # 1
        <5>1. j - 1 \in 1..N /\ ~(j - 1 >= i) /\ ~(j >= i)
          BY <1>0, <1>2, <2>3, <4>2
        <5> QED
          BY <1>3, <4>2, <5>1 DEF Before
      <4> QED
        BY <4>1, <4>2
    <3>2. j \in Drawn' <=> j \in Drawn
      BY <1>2, <1>4, <2>3
    <3> QED
      BY <2>1, <3>1, <3>2
  <2>4. CASE j = i
    <3>1. totals'[j] = totals[i] - w
      BY <1>2, <1>3, <2>4
    <3>2. Before(totals', j) = Before(totals, i)
      <4>1. CASE i = 1
        BY <2>4, <4>1 DEF Before
      <4>2. CASE i # 1
        <5>1. i - 1 \in 1..N /\ ~(i - 1 >= i)
          BY <1>0, <1>2, <4>2
        <5> QED
          BY <1>3, <2>4, <4>2, <5>1 DEF Before
      <4> QED
        BY <4>1, <4>2
    <3>3. totals[i] - w = Before(totals, i)
      BY <2>2, <2>4 DEF w
    <3> QED
      BY <1>4, <2>2, <2>4, <3>1, <3>2, <3>3
  <2>5. CASE j > i
    <3>1. j - 1 \in 1..N /\ j - 1 >= i /\ j >= i /\ j # 1
      BY <1>0, <1>2, <2>5
    <3>2. totals'[j] = totals[j] - w /\ Before(totals', j) = Before(totals, j) - w
      BY <1>3, <3>1 DEF Before
    <3>3. j \in Drawn' <=> j \in Drawn
      BY <1>2, <1>4, <2>5
    <3> QED
      BY <1>5, <2>1, <2>2, <3>2, <3>3
  <2> QED
    BY <1>0, <1>2, <2>3, <2>4, <2>5
<1>10. quantity' <= length' /\ length' = N' - (Len(drawn') - samples')
  BY <1>0, <1>3, <1>4 DEF SamplerInv
<1> QED
  BY <1>8, <1>9, <1>10 DEF SamplerInv

LEMMA SamplerStepInv == SamplerInv /\ [SamplerNext]_samplerVars => SamplerInv'
<1> SUFFICES ASSUME SamplerInv, [SamplerNext]_samplerVars PROVE SamplerInv'
  OBVIOUS
<1>0. /\ N \in Nat /\ Len(drawn) \in Nat
      /\ length \in Nat /\ quantity \in Nat /\ samples \in 0..quantity
  BY LenProperties DEF SamplerInv, SamplerTypeOK, N
<1>1. CASE \E n \in 1..MaxElements : Draw(n)
  <2>1. PICK n \in 1..MaxElements : Draw(n)
    BY <1>1
  <2>2. /\ UNCHANGED <<weights, totals, length, samples, drawn>>
        /\ n \in 1..length /\ quantity' = n /\ quantity = 0
    BY <2>1 DEF Draw
  <2>3. SamplerTypeOK' /\ quantity' <= length' /\ samples = 0
    BY <1>0, <2>2 DEF SamplerInv, SamplerTypeOK, N
  <2>4. TotalsAreOfTheRest' /\ length' = N' - (Len(drawn') - samples')
    BY <2>2 DEF SamplerInv, TotalsAreOfTheRest, Before, Drawn, N
  <2> QED
    BY <2>3, <2>4 DEF SamplerInv
<1>2. CASE \E p \in 0..(MaxElements * MaxWeight) : DrawOne(p)
  <2>1. PICK p \in Nat : DrawOne(p)
    BY <1>2
  <2> QED
    BY <2>1, DrawOneInv
<1>3. CASE Return
  <2>1. /\ UNCHANGED <<weights, totals, drawn>>
        /\ length' = length - quantity /\ quantity' = 0 /\ samples' = 0
        /\ samples = quantity
    BY <1>3 DEF Return
  <2>2. length' \in Nat /\ quantity' <= length' /\ length' = N' - (Len(drawn') - samples')
    BY <1>0, <2>1 DEF SamplerInv, N
  <2>3. SamplerTypeOK'
    BY <2>1, <2>2 DEF SamplerInv, SamplerTypeOK, N
  <2>4. TotalsAreOfTheRest'
    BY <2>1 DEF SamplerInv, TotalsAreOfTheRest, Before, Drawn, N
  <2> QED
    BY <2>2, <2>3, <2>4 DEF SamplerInv
<1>4. CASE UNCHANGED samplerVars
  <2>1. SamplerTypeOK' /\ TotalsAreOfTheRest'
    BY <1>4 DEF samplerVars, SamplerInv, SamplerTypeOK, TotalsAreOfTheRest, Before, Drawn, N
  <2>2. quantity' <= length' /\ length' = N' - (Len(drawn') - samples')
    BY <1>4 DEF samplerVars, SamplerInv, N
  <2> QED
    BY <2>1, <2>2 DEF SamplerInv
<1> QED
  BY <1>1, <1>2, <1>3, <1>4 DEF SamplerNext

\* The reservoir's representation is right through any sequence of draws: its totals
\* are the running totals of the weights of what was not drawn (the loop of
\* sample_no_replacement).
THEOREM SamplerTotals == SamplerSpec => []TotalsAreOfTheRest
<1>1. SamplerInv => TotalsAreOfTheRest
  BY DEF SamplerInv
<1> QED
  BY <1>1, SamplerInitInv, SamplerStepInv, PTL DEF SamplerSpec

\* An object that has not drawn all its elements has one left, by counting.
LEMMA SomeLeft ==
    ASSUME SamplerInv, Len(drawn) < N
    PROVE  \E i \in 1..N : i \notin Drawn
<1>0. N \in Nat /\ drawn \in Seq(1..N) /\ Len(drawn) \in Nat /\ DOMAIN drawn = 1..Len(drawn)
  BY LenProperties DEF SamplerInv, SamplerTypeOK, N
<1>1. drawn \in Surjection(1..Len(drawn), Drawn)
  BY <1>0 DEF Surjection, Drawn
<1>2. Cardinality(Drawn) <= Len(drawn) /\ IsFiniteSet(Drawn)
  <2>1. IsFiniteSet(1..Len(drawn)) /\ Cardinality(1..Len(drawn)) = Len(drawn)
    <3>1. 1 \in Int /\ Len(drawn) \in Int
      BY <1>0
    <3>2. /\ IsFiniteSet(1..Len(drawn))
          /\ Cardinality(1..Len(drawn)) = IF 1 > Len(drawn) THEN 0 ELSE Len(drawn) - 1 + 1
      BY <3>1, FS_Interval, Zenon
    <3> QED
      BY <1>0, <3>2
  <2> QED
    BY <1>1, <2>1, FS_Surjection
<1>3. IsFiniteSet(1..N) /\ Cardinality(1..N) = N
  BY <1>0, FS_Interval
<1>4. CASE 1..N \subseteq Drawn
  <2>1. N <= Cardinality(Drawn)
    <3>1. Cardinality(1..N) <= Cardinality(Drawn)
      BY <1>2, <1>4, FS_Subset, Zenon
    <3> QED
      BY <1>3, <3>1
  <2>2. Cardinality(Drawn) \in Nat
    BY <1>2, FS_CardinalityType
  <2> QED
    BY <1>0, <1>2, <2>1, <2>2
<1> QED
  BY <1>4

\* __len__() counts what is left, and randint() is never called with an empty range.
THEOREM SamplerLength == SamplerSpec => []LengthIsRight
<1>1. ASSUME SamplerInv PROVE LengthIsRight
  <2>0. /\ N \in Nat /\ totals \in [1..N -> Nat] /\ weights \in [1..N -> 1..MaxWeight]
        /\ Len(drawn) \in Nat /\ length \in Nat /\ quantity \in Nat /\ samples \in 0..quantity
    BY <1>1, LenProperties DEF SamplerInv, SamplerTypeOK, N
  <2>1. ASSUME samples < quantity PROVE totals[N] > 0
    <3>1. Len(drawn) < N
      BY <1>1, <2>0, <2>1 DEF SamplerInv
    <3>2. PICK i \in 1..N : i \notin Drawn
      BY <1>1, <3>1, SomeLeft
    <3>3. totals[i] = Before(totals, i) + weights[i]
      BY <1>1, <3>2 DEF SamplerInv, TotalsAreOfTheRest
    <3>4. Before(totals, i) \in Nat
      <4>1. CASE i = 1
        BY <4>1 DEF Before
      <4>2. CASE i # 1
        <5>1. i - 1 \in 1..N
          BY <2>0, <4>2
        <5> QED
          BY <2>0, <4>2, <5>1 DEF Before
      <4> QED
        BY <4>1, <4>2
    <3>5. weights[i] \in 1..MaxWeight /\ totals[i] > 0
      <4>1. weights[i] \in 1..MaxWeight
        BY <2>0
      <4>2. weights[i] \in Nat /\ weights[i] > 0
        BY ONLY <4>1, BoundsAssumption
      <4> QED
        BY ONLY <3>3, <3>4, <4>1, <4>2
    <3>6. N \in 1..N /\ i <= N
      BY <2>0
    <3>7. totals[i] <= totals[N]
      BY <1>1, <3>6, Sorted DEF SamplerInv
    <3> QED
      BY <2>0, <3>5, <3>6, <3>7
  <2> QED
    BY <1>1, <2>1 DEF LengthIsRight, SamplerInv
<1> QED
  BY <1>1, SamplerInitInv, SamplerStepInv, PTL DEF SamplerSpec

\* Each element left is hit by as many of the positions randint() chooses from as its
\* weight, and a drawn one by none: the probability is proportional to the weight.
THEOREM SamplerProportional == SamplerSpec => []Proportional
<1>1. ASSUME SamplerInv PROVE Proportional
  <2>0. /\ N \in Nat /\ totals \in [1..N -> Nat] /\ weights \in [1..N -> 1..MaxWeight]
        /\ SamplerTypeOK /\ TotalsAreOfTheRest /\ DOMAIN weights = 1..N
    BY <1>1 DEF SamplerInv, SamplerTypeOK, N
  <2> SUFFICES ASSUME N > 0, NEW i \in 1..N
               PROVE  Cardinality({p \in 0..(totals[N] - 1) :
                                      p < totals[N] /\ BisectRight(p) = i})
                          = IF i \in Left THEN weights[i] ELSE 0
    BY DEF Proportional
  <2> DEFINE b == Before(totals, i)
             Hits == {p \in 0..(totals[N] - 1) : p < totals[N] /\ BisectRight(p) = i}
  <2>1. b \in Nat /\ totals[i] \in Nat /\ totals[N] \in Nat /\ weights[i] \in Nat
    <3>1. CASE i = 1
      BY <2>0, <3>1, BoundsAssumption DEF Before
    <3>2. CASE i # 1
      <4>1. i - 1 \in 1..N
        BY <2>0, <3>2
      <4> QED
        BY <2>0, <3>2, <4>1, BoundsAssumption DEF Before
    <3> QED
      BY <3>1, <3>2
  <2>2. totals[i] <= totals[N]
    <3>1. N \in 1..N /\ i <= N
      BY <2>0
    <3> QED
      BY <2>0, <3>1, Sorted
  <2>3. ASSUME NEW p \in Hits PROVE p \in b..(totals[i] - 1)
    <3>1. p \in Nat /\ p < totals[N] /\ BisectRight(p) = i
      BY <2>1
    <3>2. b <= p /\ p < totals[i]
      BY <1>1, <3>1, HitsAreLeft
    <3> QED
      BY <2>1, <3>1, <3>2
  <2>4. ASSUME NEW p \in b..(totals[i] - 1) PROVE p \in Hits
    <3>1. p \in Nat /\ p < totals[i] /\ b <= p /\ p < totals[N] /\ p \in 0..(totals[N] - 1)
      BY <2>1, <2>2
    <3> DEFINE k == BisectRight(p)
    <3>2. k \in 1..N /\ totals[k] > p /\ \A j \in 1..(k - 1) : totals[j] <= p
      BY <2>0, <3>1, BisectRightIs
    <3> HIDE DEF k
    <3>3. ~(i < k)
      <4>1. i < k => i \in 1..(k - 1)
        BY <2>0, <3>2
      <4> QED
        BY <2>1, <3>1, <3>2, <4>1
    <3>4. ~(k < i)
      <4>1. SUFFICES ASSUME k < i PROVE FALSE
        OBVIOUS
      <4>2. i # 1 /\ i - 1 \in 1..N /\ k <= i - 1 /\ b = totals[i - 1]
        BY <2>0, <3>2, <4>1 DEF Before
      <4>3. totals[k] <= totals[i - 1]
        BY <2>0, <3>2, <4>2, Sorted
      <4> QED
        <5>1. totals[k] \in Nat /\ totals[i - 1] \in Nat
          BY <2>0, <3>2, <4>2
        <5>2. p \in Nat /\ b <= p /\ totals[k] > p
          BY <3>1, <3>2
        <5> QED
          BY ONLY <4>2, <4>3, <5>1, <5>2
    <3>5. k = i
      BY <2>0, <3>2, <3>3, <3>4
    <3> QED
      BY <3>1, <3>5 DEF k
  <2>5. Hits = b..(totals[i] - 1)
    BY <2>3, <2>4
  <2>6. totals[i] = b + (IF i \in Left THEN weights[i] ELSE 0)
    BY <2>0 DEF TotalsAreOfTheRest, Left
  <2> HIDE DEF b, Hits
  <2>7. Cardinality(b..(totals[i] - 1)) = IF b > totals[i] - 1 THEN 0 ELSE totals[i] - 1 - b + 1
    <3>1. b \in Int /\ totals[i] - 1 \in Int
      BY <2>1
    <3> QED
      BY <3>1, FS_Interval, Zenon
  <2>8. Cardinality(Hits) = IF i \in Left THEN weights[i] ELSE 0
    BY <2>1, <2>5, <2>6, <2>7
  <2> QED
    BY <2>8 DEF Hits
<1> QED
  BY <1>1, SamplerInitInv, SamplerStepInv, PTL DEF SamplerSpec

\* sample_no_replacement(), called any number of times, draws each element at most once.
THEOREM SamplerImplementsDraws == SamplerSpec => DrawsUnique
<1>1. SamplerInit => Abstract!DrawsInit
  <2> SUFFICES ASSUME SamplerInit PROVE Abstract!DrawsInit
    OBVIOUS
  <2>1. PICK n \in 0..MaxElements : weights \in [1..n -> 1..MaxWeight]
    BY DEF SamplerInit
  <2>2. Left \subseteq 1..MaxElements
    BY <2>1, BoundsAssumption DEF Left
  <2> QED
    BY <2>2 DEF SamplerInit, Abstract!DrawsInit
<1>2. ASSUME SamplerInv, [SamplerNext]_samplerVars
      PROVE  [\E e \in 1..MaxElements : Abstract!DrawAny(e)]_<<Left, drawn>>
  <2>1. CASE \E p \in 0..(MaxElements * MaxWeight) : DrawOne(p)
    <3>1. PICK p \in Nat : DrawOne(p)
      BY <2>1
    <3> DEFINE i == BisectRight(p)
    <3>2. N \in Nat /\ N > 0 /\ N <= MaxElements /\ drawn \in Seq(1..N)
      BY <1>2, <3>1, LenProperties DEF SamplerInv, SamplerTypeOK, N, DrawOne
    <3>3. i \in 1..N /\ i \in Left
      BY <1>2, <3>1, <3>2, HitsAreLeft DEF DrawOne
    <3>4. drawn' = Append(drawn, i) /\ weights' = weights
      BY <3>1 DEF DrawOne
    <3> HIDE DEF i
    <3>5. Drawn' = Drawn \cup {i}
      <4>1. Elements(Append(drawn, i)) = Elements(drawn) \cup {i}
        BY ONLY <3>2, <3>3, DrawnGrows
      <4>2. Elements(drawn') = Elements(drawn) \cup {i}
        BY ONLY <3>4, <4>1, Zenon
      <4> QED
        BY ONLY <4>2 DEF Drawn, Elements
    <3>6. Left' = Left \ {i}
      BY <3>4, <3>5 DEF Left
    <3>7. i \in 1..MaxElements
      BY <3>2, <3>3, BoundsAssumption
    <3> QED
      BY <3>3, <3>4, <3>6, <3>7 DEF Abstract!DrawAny
  <2>2. CASE \E n \in 1..MaxElements : Draw(n)
    BY <2>2 DEF Draw, Left, Drawn
  <2>3. CASE Return
    BY <2>3 DEF Return, Left, Drawn
  <2>4. CASE UNCHANGED samplerVars
    BY <2>4 DEF samplerVars, Left, Drawn
  <2> QED
    BY <1>2, <2>1, <2>2, <2>3, <2>4 DEF SamplerNext
<1> QED
  BY <1>1, <1>2, SamplerInitInv, SamplerStepInv, PTL DEF SamplerSpec, DrawsUnique, Abstract!DrawsSpec
=============================================================================
