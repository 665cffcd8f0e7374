------------------------- MODULE ElkanKmeansProofs -------------------------
(***************************************************************************)
(* The bounds of the k-means of ElkanKmeans are sound, and what they leave *)
(* out never matters, for every sample, number of centers and iterations:  *)
(* it implements Lloyd's iteration.                                        *)
(***************************************************************************)
EXTENDS ElkanLloyd, WellFoundedInduction, FiniteSetTheorems, TLAPS

(* Distances, and the least of a set of distances.                         *)

LEMMA Metric ==
    ASSUME NEW p \in Int, NEW q \in Int, NEW r \in Int
    PROVE  /\ Distance(p, q) \in Nat
           /\ Distance(p, p) = 0
           /\ Distance(p, q) = Distance(q, p)
           /\ Distance(p, r) <= Distance(p, q) + Distance(q, r)
BY DEF Distance, Abs

\* Nothing is nearer than a point that is within half the way to all others.
LEMMA HalfwayIsNearest ==
    ASSUME NEW x \in Int, NEW a \in Int, NEW b \in Int,
           2 * Distance(x, a) <= Distance(a, b)
    PROVE  Distance(x, a) <= Distance(x, b)
BY DEF Distance, Abs

LEMMA MinIsLeast ==
    ASSUME NEW S \in SUBSET Nat, S # {}
    PROVE  Min(S) \in S /\ \A y \in S : Min(S) <= y
<1> DEFINE R == {ss \in Nat \X Nat : ss[1] < ss[2]}
<1>1. IsWellFoundedOn(R, Nat)
  BY NatLessThanWellFounded DEF OpToRel
<1>2. \A x, y \in Nat : x < y => <<x, y>> \in R
  OBVIOUS
<1> HIDE DEF R
<1>3. PICK x \in S : \A y \in S : ~ (<<y, x>> \in R)
  BY <1>1, WFMin
<1>4. ASSUME NEW y \in S PROVE x <= y
  <2>1. ~(y < x)
    BY <1>2, <1>3
  <2> QED BY <2>1
<1> QED BY <1>4 DEF Min

LEMMA SquareIsNat ==
    ASSUME NEW d \in Nat
    PROVE  d * d \in Nat
OBVIOUS

\* Samples and centers are numbers, and their distances natural numbers.
LEMMA ToCenterType ==
    ASSUME TypeOK, NEW k \in Samples, NEW c \in Centers
    PROVE  sample[k] \in Int /\ centers[c] \in Int /\ ToCenter(k, c) \in Nat
<1>1. sample[k] \in Points /\ centers[c] \in Points
  BY DEF TypeOK
<1>2. sample[k] \in Int /\ centers[c] \in Int
  BY <1>1, KmeansAssumption
<1> QED BY <1>2, Metric DEF ToCenter

-----------------------------------------------------------------------------
(* Every step preserves the invariant.                                     *)

LEMMA KmeansInit ==
    ASSUME Init
    PROVE  KmeansInv
<1>1. PICK k \in Samples : centers = [c \in Centers |-> sample[k]]
  BY DEF Init
<1>2. sample[k] \in Points
  BY <1>1 DEF Init
<1>3. centers \in [Centers -> Points]
  BY <1>1, <1>2
<1>4. TypeOK
  <2>1. /\ lower \in [Samples -> [Centers -> Nat]] /\ upper \in [Samples -> Nat]
        /\ between \in [Centers -> [Centers -> Nat]] /\ s \in [Centers -> Nat]
    BY DEF Init
  <2>2. closest \in [Samples -> Centers] /\ weight \in [Samples -> 0 .. FltMax]
    BY KmeansAssumption DEF Init, Centers
  <2>3. j \in 1 .. NumSamples + 1 /\ i \in Centers /\ iteration \in 0 .. MaxIterations
    BY KmeansAssumption DEF Init, Centers
  <2> QED BY <1>3, <2>1, <2>2, <2>3 DEF Init, TypeOK
<1>5. BoundsSound /\ AssignedToNearest /\ AroundInv /\ ExactInv /\ VisitedInv
  BY DEF Init, BoundsSound, AssignedToNearest, AroundInv, ExactInv, VisitedInv
<1>6. SeedInv
  BY DEF Init, SeedInv, Centers
<1> QED BY <1>4, <1>5, <1>6, KmeansAssumption DEF Init, KmeansInv

LEMMA SeedStep ==
    ASSUME KmeansInv, Seed
    PROVE  KmeansInv'
<1> DEFINE far(k) == ToCenter(k, i)
           w == [k \in Samples |-> IF far(k) * far(k) < weight[k] THEN far(k) * far(k)
                                                                ELSE weight[k]]
<1>1. TypeOK /\ SeedInv /\ pc = "seed" /\ i \in Centers
  BY DEF KmeansInv, Seed, TypeOK
<1>2. ASSUME NEW k \in Samples
      PROVE  far(k) \in Nat /\ far(k) * far(k) \in Nat
  BY <1>1, <1>2, ToCenterType, SquareIsNat
<1> HIDE DEF far
<1>3. w \in [Samples -> 0 .. FltMax]
  <2>1. ASSUME NEW k \in Samples PROVE weight[k] \in 0 .. FltMax
    BY <1>1, <2>1 DEF TypeOK
  <2>2. FltMax \in Nat
    BY KmeansAssumption
  <2>3. ASSUME NEW k \in Samples PROVE w[k] \in 0 .. FltMax
    <3> DEFINE sq == far(k) * far(k)
    <3>1. sq \in Nat
      BY <1>2, <2>3
    <3>2. w[k] = IF sq < weight[k] THEN sq ELSE weight[k]
      BY <2>3
    <3> HIDE DEF w, sq
    <3> QED BY <2>1, <2>2, <2>3, <3>1, <3>2
  <2> QED BY <2>3
<1>4. weight' = w /\ UNCHANGED <<sample, upper, closest, between, s, j, jreset, changes, iteration>>
  BY DEF Seed, far, around
<1>5. lower' = [k \in Samples |-> [lower[k] EXCEPT ![i] = far(k)]]
  BY DEF Seed, far
<1>6. lower' \in [Samples -> [Centers -> Nat]]
  <2>1. ASSUME NEW k \in Samples PROVE [lower[k] EXCEPT ![i] = far(k)] \in [Centers -> Nat]
    BY <1>1, <1>2, <2>1 DEF TypeOK
  <2> QED BY <1>5, <2>1
<1>7. /\ i = NumCenters => pc' = "assign" /\ i' = 1 /\ UNCHANGED centers
      /\ i # NumCenters => /\ pc' = "seed" /\ i' = i + 1
                          /\ \E k \in Samples : centers' = [centers EXCEPT ![i + 1] = sample[k]]
  <2>1. \A v : NextSeeds(v) \subseteq Samples
    BY KmeansAssumption DEF NextSeeds, Samples
  <2> QED BY <1>1, <2>1 DEF Seed
<1> HIDE DEF w
<1>8. centers' \in [Centers -> Points] /\ i' \in Centers /\ pc' \in {"seed", "assign"}
  <2>1. CASE i = NumCenters
    BY <1>1, <1>7, <2>1, KmeansAssumption DEF TypeOK, Centers
  <2>2. CASE i # NumCenters
    <3>1. PICK k \in Samples : centers' = [centers EXCEPT ![i + 1] = sample[k]]
      BY <1>7, <2>2
    <3>2. sample[k] \in Points /\ centers \in [Centers -> Points]
      BY <1>1 DEF TypeOK
    <3> QED BY <1>1, <1>7, <2>2, <3>1, <3>2, KmeansAssumption DEF Centers
  <2> QED BY <2>1, <2>2
<1>9. TypeOK'
  BY <1>1, <1>3, <1>4, <1>6, <1>8 DEF TypeOK
<1>10. ASSUME NEW k \in Samples, NEW c \in Centers, pc' = "seed" => c < i'
       PROVE  lower'[k][c] = ToCenter(k, c)'
  <2>1. c <= i
    BY <1>1, <1>7, <1>10, KmeansAssumption DEF Centers
  <2>2. centers'[c] = centers[c]
    <3>1. CASE i = NumCenters
      BY <1>7, <3>1
    <3>2. CASE i # NumCenters
      <4>1. PICK e \in Samples : centers' = [centers EXCEPT ![i + 1] = sample[e]]
        BY <1>7, <3>2
      <4>2. c # i + 1 /\ centers \in [Centers -> Points]
        BY <1>1, <2>1 DEF TypeOK, Centers
      <4> QED BY <4>1, <4>2
    <3> QED BY <3>1, <3>2
  <2>3. ToCenter(k, c)' = ToCenter(k, c)
    BY <1>4, <2>2 DEF ToCenter
  <2>4. CASE c = i
    BY <1>1, <1>5, <2>3, <2>4 DEF TypeOK, far
  <2>5. CASE c # i
    <3>1. lower'[k][c] = lower[k][c]
      BY <1>1, <1>5, <2>5 DEF TypeOK
    <3>2. c < i
      BY <1>1, <2>1, <2>5 DEF Centers
    <3> QED BY <1>1, <2>3, <3>1, <3>2 DEF SeedInv
  <2> QED BY <2>4, <2>5
<1>11. SeedInv'
  BY <1>10 DEF SeedInv
<1>12. (BoundsSound /\ AssignedToNearest /\ AroundInv /\ ExactInv /\ VisitedInv)'
  BY <1>8 DEF BoundsSound, AssignedToNearest, AroundInv, ExactInv, VisitedInv
<1> QED BY <1>1, <1>4, <1>9, <1>11, <1>12 DEF KmeansInv

LEMMA AssignAllStep ==
    ASSUME KmeansInv, AssignAll
    PROVE  KmeansInv'
<1>1. TypeOK /\ SeedInv /\ pc = "assign"
  BY DEF KmeansInv, AssignAll
<1>2. UNCHANGED <<sample, centers, lower, between, s, weight, j, i, jreset, changes, iteration>>
  BY DEF AssignAll, around
<1>3. ASSUME NEW k \in Samples
      PROVE  /\ closest'[k] \in Centers
             /\ \A d \in Centers : lower[k][closest'[k]] <= lower[k][d]
  <2> DEFINE S == {lower[k][c] : c \in Centers}
             N == {c \in Centers : \A d \in Centers : lower[k][c] <= lower[k][d]}
  <2>1. S \in SUBSET Nat /\ S # {}
    <3>1. \A c \in Centers : lower[k][c] \in Nat
      BY <1>1, <1>3 DEF TypeOK
    <3>2. 1 \in Centers
      BY KmeansAssumption DEF Centers
    <3> QED BY <3>1, <3>2
  <2>2. Min(S) \in S /\ \A y \in S : Min(S) <= y
    BY <2>1, MinIsLeast
  <2>3. N # {} /\ N \in SUBSET Nat
    <3>1. PICK c \in Centers : lower[k][c] = Min(S)
      BY <2>2
    <3>2. c \in N
      BY <2>2, <3>1
    <3> QED BY <3>2 DEF Centers
  <2>4. Min(N) \in N
    BY <2>3, MinIsLeast
  <2>5. closest'[k] = Min(N)
    BY <1>3 DEF AssignAll
  <2> QED BY <2>4, <2>5
<1>4. /\ closest' \in [Samples -> Centers]
      /\ upper' = [k \in Samples |-> lower[k][closest'[k]]]
      /\ pc' = "centers"
  BY <1>3 DEF AssignAll
<1>5. upper' \in [Samples -> Nat]
  BY <1>1, <1>3, <1>4 DEF TypeOK
<1>6. TypeOK'
  BY <1>1, <1>2, <1>4, <1>5 DEF TypeOK
<1>7. ASSUME NEW k \in Samples, NEW c \in Centers
      PROVE  ToCenter(k, c)' = lower[k][c]
  BY <1>1, <1>2, <1>7 DEF SeedInv, ToCenter
<1>8. ASSUME NEW k \in Samples
      PROVE  upper'[k] = ToCenter(k, closest[k])'
  <2>1. upper'[k] = lower[k][closest'[k]]
    BY <1>4, <1>8
  <2>2. ToCenter(k, closest[k])' = lower[k][closest'[k]]
    <3>1. PICK c \in Centers : c = closest'[k]
      BY <1>3, <1>8
    <3>2. ToCenter(k, c)' = lower[k][c]
      BY <1>7, <1>8
    <3> QED BY <3>1, <3>2 DEF ToCenter
  <2> QED BY <2>1, <2>2
<1>9. BoundsSound'
  <2>1. ASSUME NEW k \in Samples
        PROVE  (ToCenter(k, closest[k]) <= upper[k])'
    BY <1>5, <1>8, <2>1
  <2>2. ASSUME NEW k \in Samples, NEW c \in Centers
        PROVE  (lower[k][c] <= ToCenter(k, c))'
    <3>1. lower'[k][c] = ToCenter(k, c)' /\ lower[k][c] \in Nat
      BY <1>1, <1>2, <1>7, <2>2 DEF TypeOK
    <3> QED BY <1>2, <3>1
  <2> QED BY <2>1, <2>2 DEF BoundsSound
<1>10. (AssignedToNearest /\ SeedInv /\ AroundInv /\ ExactInv /\ VisitedInv)'
  BY <1>4, <1>8 DEF AssignedToNearest, SeedInv, AroundInv, ExactInv, VisitedInv
<1> QED BY <1>1, <1>2, <1>6, <1>9, <1>10 DEF KmeansInv

LEMMA MeasureCentersStep ==
    ASSUME KmeansInv, MeasureCenters
    PROVE  KmeansInv'
<1>1. TypeOK /\ BoundsSound /\ ExactInv /\ pc = "centers"
  BY DEF KmeansInv, MeasureCenters
<1>2. UNCHANGED <<sample, centers, lower, upper, closest, weight, i, jreset, iteration>>
  BY DEF MeasureCenters, bounds
<1>3. /\ between' = [c \in Centers |-> [d \in Centers |-> Distance(centers[c], centers[d])]]
      /\ changes' = 0 /\ pc' = "sample" /\ j' = 1
  BY DEF MeasureCenters
<1>4. ASSUME NEW c \in Centers, NEW d \in Centers
      PROVE  between'[c][d] = Distance(centers[c], centers[d]) /\ between'[c][d] \in Nat
  <2>1. centers[c] \in Int /\ centers[d] \in Int
    BY <1>1, <1>4, KmeansAssumption DEF TypeOK
  <2> QED BY <1>3, <1>4, <2>1, Metric
<1>5. ASSUME NEW c \in Centers
      PROVE  s'[c] \in Nat /\ \A d \in Centers \ {c} : s'[c] <= between'[c][d]
  <2> DEFINE S == {2 * FltMax} \cup {between'[c][d] : d \in Centers \ {c}}
  <2>1. S \in SUBSET Nat /\ S # {}
    BY <1>4, KmeansAssumption
  <2>2. s'[c] = Min(S)
    BY <1>5 DEF MeasureCenters
  <2>3. Min(S) \in S /\ \A y \in S : Min(S) <= y
    BY <2>1, MinIsLeast
  <2>4. s'[c] \in S /\ \A y \in S : s'[c] <= y
    BY <2>2, <2>3
  <2> QED BY <2>1, <2>4
<1>6. between' \in [Centers -> [Centers -> Nat]] /\ s' \in [Centers -> Nat]
  <2>1. s' = [c \in Centers |-> s'[c]]
    BY DEF MeasureCenters
  <2> QED BY <1>3, <1>4, <1>5, <2>1
<1>7. TypeOK'
  BY <1>1, <1>2, <1>3, <1>6, KmeansAssumption DEF TypeOK
<1>8. AroundInv'
  BY <1>2, <1>4, <1>5 DEF AroundInv
<1>9. BoundsSound' /\ ExactInv'
  BY <1>1, <1>2, <1>3 DEF BoundsSound, ExactInv, ToCenter
<1>10. (AssignedToNearest /\ SeedInv /\ VisitedInv)'
  BY <1>3 DEF AssignedToNearest, SeedInv, VisitedInv
<1> QED BY <1>1, <1>2, <1>3, <1>7, <1>8, <1>9, <1>10 DEF KmeansInv

\* A sample whose center is as near as s allows has no nearer center.
LEMMA SkipSampleSafe ==
    ASSUME KmeansInv, pc = "sample", j \in Samples,
           WithinHalf(upper[j], s[closest[j]])
    PROVE  NoneNearer(j, Centers)
<1> DEFINE a == closest[j]
<1>1. TypeOK /\ BoundsSound /\ AroundInv /\ a \in Centers
  BY DEF KmeansInv, TypeOK
<1>2. upper[j] \in Nat /\ s[a] \in Nat /\ ToCenter(j, a) \in Nat /\ ToCenter(j, a) <= upper[j]
  BY <1>1, ToCenterType DEF TypeOK, BoundsSound
<1>3. ASSUME NEW c \in Centers, c # a
      PROVE  ToCenter(j, a) <= ToCenter(j, c)
  <2>1. between[a][c] = Distance(centers[a], centers[c]) /\ s[a] <= between[a][c]
        /\ between[a][c] \in Nat
    BY <1>1, <1>3 DEF AroundInv, TypeOK
  <2>2. 2 * upper[j] <= s[a]
    BY DEF WithinHalf
  <2>3. 2 * ToCenter(j, a) <= Distance(centers[a], centers[c])
    BY <1>2, <2>1, <2>2
  <2>4. sample[j] \in Int /\ centers[a] \in Int /\ centers[c] \in Int
    BY <1>1, <1>3, ToCenterType
  <2> QED BY <2>3, <2>4, HalfwayIsNearest DEF ToCenter
<1>4. ASSUME NEW c \in Centers, c = a
      PROVE  ToCenter(j, a) <= ToCenter(j, c)
  BY <1>2, <1>4
<1> QED BY <1>3, <1>4 DEF NoneNearer

LEMMA SkipSampleStep ==
    ASSUME KmeansInv, SkipSample
    PROVE  KmeansInv'
<1>1. TypeOK /\ BoundsSound /\ AssignedToNearest /\ AroundInv /\ ExactInv /\ pc = "sample"
  BY DEF KmeansInv, SkipSample
<1>0. j \in Samples
  <2>1. j \in 1 .. NumSamples + 1 /\ j <= NumSamples
    BY <1>1 DEF TypeOK, SkipSample
  <2> QED BY <2>1, KmeansAssumption DEF Samples
<1>2. /\ UNCHANGED <<sample, centers, lower, upper, closest, between, s, weight, pc, i, jreset,
                     changes, iteration>>
      /\ j' = j + 1
  BY DEF SkipSample, bounds, around
<1>3. NoneNearer(j, Centers)
  BY <1>1, <1>0, SkipSampleSafe DEF SkipSample
<1>4. TypeOK'
  <2>1. j' \in 1 .. NumSamples + 1
    BY <1>2, <1>0, KmeansAssumption DEF Samples
  <2> QED BY <1>1, <1>2, <2>1 DEF TypeOK
<1>5. AssignedToNearest'
  <2>1. ASSUME NEW k \in 1 .. j' - 1 PROVE NoneNearer(k, Centers)
    <3>1. k \in 1 .. j - 1 \/ k = j
      BY <1>2, <1>0, <2>1 DEF Samples
    <3> QED BY <1>1, <1>3, <3>1 DEF AssignedToNearest
  <2>2. \A k : NoneNearer(k, Centers)' <=> NoneNearer(k, Centers)
    BY <1>2 DEF NoneNearer, ToCenter
  <2> QED BY <2>1, <2>2 DEF AssignedToNearest
<1>6. BoundsSound' /\ AroundInv' /\ ExactInv'
  BY <1>1, <1>2 DEF BoundsSound, AroundInv, ExactInv, ToCenter
<1>7. SeedInv' /\ VisitedInv'
  BY <1>1, <1>2 DEF SeedInv, VisitedInv
<1> QED BY <1>1, <1>2, <1>4, <1>5, <1>6, <1>7 DEF KmeansInv

LEMMA VisitSampleStep ==
    ASSUME KmeansInv, VisitSample
    PROVE  KmeansInv'
<1>1. TypeOK /\ BoundsSound /\ AssignedToNearest /\ AroundInv /\ ExactInv /\ pc = "sample"
  BY DEF KmeansInv, VisitSample
<1>0. j \in Samples
  <2>1. j \in 1 .. NumSamples + 1 /\ j <= NumSamples
    BY <1>1 DEF TypeOK, VisitSample
  <2> QED BY <2>1, KmeansAssumption DEF Samples
<1>2. /\ UNCHANGED <<sample, centers, lower, upper, closest, between, s, weight, j, changes, iteration>>
      /\ pc' = "center" /\ i' = 1 /\ jreset' = (iteration # 0)
  BY DEF VisitSample, Reset, bounds, around
<1>3. TypeOK'
  <2>1. i' \in Centers /\ jreset' \in BOOLEAN
    BY <1>2, KmeansAssumption DEF Centers
  <2> QED BY <1>1, <1>2, <1>0, <2>1 DEF TypeOK
<1>4. VisitedInv'
  <2>1. \A k \in 1 .. j - 1 : NoneNearer(k, Centers)'
    BY <1>1, <1>2 DEF AssignedToNearest, NoneNearer, ToCenter
  <2>2. NoneNearer(j, 1 .. i - 1)'
    BY <1>2 DEF NoneNearer
  <2> QED BY <1>2, <2>1, <2>2 DEF VisitedInv
<1>5. BoundsSound' /\ AroundInv'
  BY <1>1, <1>2 DEF BoundsSound, AroundInv, ToCenter
<1>6. ExactInv'
  <2>1. ASSUME iteration = 0, NEW k \in Samples
        PROVE  upper'[k] = ToCenter(k, closest[k])'
    BY <1>1, <1>2, <2>1 DEF ExactInv, ToCenter
  <2>2. jreset' = FALSE => iteration = 0
    BY <1>2
  <2> QED BY <1>0, <1>2, <2>1, <2>2 DEF ExactInv
<1>7. SeedInv' /\ AssignedToNearest'
  BY <1>2 DEF SeedInv, AssignedToNearest
<1> QED BY <1>1, <1>2, <1>3, <1>4, <1>5, <1>6, <1>7 DEF KmeansInv

\* What the loop over the centers of sample j owes when it goes on from center i.
LEMMA NextCenterStep ==
    ASSUME TypeOK, pc = "center", NextCenter, UNCHANGED <<sample, centers>>,
           \A k \in 1 .. j, c \in Centers :
               (k < j \/ c <= i) => (ToCenter(k, closest[k]) <= ToCenter(k, c))'
    PROVE  /\ pc' \in {"center", "sample"} /\ (pc' = "center" => j' = j)
           /\ j' \in 1 .. NumSamples + 1 /\ i' \in Centers /\ (pc' = "center" => j' \in Samples)
           /\ AssignedToNearest' /\ VisitedInv'
<1>1. j \in Samples /\ i \in Centers /\ NumCenters \in Nat \ {0} /\ NumSamples \in Nat \ {0}
  BY KmeansAssumption DEF TypeOK
<1>2. CASE i < NumCenters
  <2>1. i' = i + 1 /\ pc' = pc /\ j' = j
    BY <1>2 DEF NextCenter
  <2>2. i' \in Centers /\ j' \in 1 .. NumSamples + 1
    BY <1>1, <1>2, <2>1 DEF Centers, Samples
  <2>3. VisitedInv'
    <3>1. ASSUME NEW k \in 1 .. j - 1 PROVE NoneNearer(k, Centers)'
      <4>1. k \in 1 .. j /\ k < j
        BY <1>1, <3>1 DEF Samples
      <4> QED BY <4>1 DEF NoneNearer, Centers
    <3>2. ASSUME NEW c \in 1 .. i PROVE (ToCenter(j, closest[j]) <= ToCenter(j, c))'
      <4>1. c \in Centers /\ c <= i /\ j \in 1 .. j
        BY <1>1, <3>2 DEF Centers, Samples
      <4>2. PICK k \in 1 .. j : k = j
        BY <4>1
      <4>3. (ToCenter(k, closest[k]) <= ToCenter(k, c))'
        BY <4>1, <4>2
      <4> QED BY <2>1, <4>2, <4>3 DEF ToCenter
    <3>3. i' - 1 = i
      BY <1>1, <2>1 DEF Centers
    <3> QED BY <2>1, <3>1, <3>2, <3>3 DEF VisitedInv, NoneNearer
  <2> QED BY <1>1, <2>1, <2>2, <2>3 DEF AssignedToNearest
<1>3. CASE ~(i < NumCenters)
  <2>1. i' = 1 /\ pc' = "sample" /\ j' = j + 1 /\ i = NumCenters
    BY <1>1, <1>3 DEF NextCenter, Centers
  <2>2. i' \in Centers /\ j' \in 1 .. NumSamples + 1
    BY <1>1, <2>1 DEF Centers, Samples
  <2>3. AssignedToNearest'
    <3>1. ASSUME NEW k \in 1 .. j, NEW c \in Centers
          PROVE  (ToCenter(k, closest[k]) <= ToCenter(k, c))'
      BY <2>1, <3>1 DEF Centers
    <3>2. j' - 1 = j
      BY <1>1, <2>1 DEF Samples
    <3> QED BY <3>1, <3>2 DEF AssignedToNearest, NoneNearer, Centers
  <2> QED BY <2>1, <2>2, <2>3 DEF VisitedInv
<1> QED BY <1>2, <1>3

\* Each of the three reasons to leave center i out is a good one.
LEMMA SkipCenterSafe ==
    ASSUME KmeansInv, pc = "center", CanSkip
    PROVE  ToCenter(j, closest[j]) <= ToCenter(j, i)
<1> DEFINE a == closest[j]
<1>1. TypeOK /\ BoundsSound /\ AroundInv
  BY DEF KmeansInv
<1>2. j \in Samples /\ i \in Centers /\ a \in Centers
  BY <1>1 DEF TypeOK
<1>3. /\ upper[j] \in Nat /\ ToCenter(j, a) \in Nat /\ ToCenter(j, a) <= upper[j]
      /\ lower[j][i] \in Nat /\ ToCenter(j, i) \in Nat /\ lower[j][i] <= ToCenter(j, i)
  BY <1>1, <1>2, ToCenterType DEF TypeOK, BoundsSound
<1>4. CASE i = a
  BY <1>3, <1>4
<1>5. CASE upper[j] <= lower[j][i]
  BY <1>3, <1>5
<1>6. CASE WithinHalf(upper[j], between[a][i])
  <2>1. between[a][i] = Distance(centers[a], centers[i]) /\ between[a][i] \in Nat
    BY <1>1, <1>2 DEF AroundInv, TypeOK
  <2>2. 2 * upper[j] <= between[a][i]
    BY <1>6 DEF WithinHalf
  <2>3. 2 * ToCenter(j, a) <= Distance(centers[a], centers[i])
    BY <1>3, <2>1, <2>2
  <2>4. sample[j] \in Int /\ centers[a] \in Int /\ centers[i] \in Int
    BY <1>1, <1>2, ToCenterType
  <2> QED BY <2>3, <2>4, HalfwayIsNearest DEF ToCenter
<1> QED BY <1>4, <1>5, <1>6 DEF CanSkip

LEMMA SkipCenterStep ==
    ASSUME KmeansInv, SkipCenter
    PROVE  KmeansInv'
<1>1. TypeOK /\ BoundsSound /\ AroundInv /\ ExactInv /\ VisitedInv /\ pc = "center"
  BY DEF KmeansInv, SkipCenter
<1>2. UNCHANGED <<sample, centers, lower, upper, closest, between, s, weight, jreset, changes,
                  iteration>>
  BY DEF SkipCenter, bounds, around
<1>3. j \in Samples /\ i \in Centers
  BY <1>1 DEF TypeOK
<1>4. ASSUME NEW k \in 1 .. j, NEW c \in Centers, k < j \/ c <= i
      PROVE  (ToCenter(k, closest[k]) <= ToCenter(k, c))'
  <2>1. CASE k < j
    <3>1. k \in 1 .. j - 1
      BY <1>3, <1>4, <2>1 DEF Samples
    <3> QED BY <1>1, <1>2, <3>1 DEF VisitedInv, NoneNearer, ToCenter
  <2>2. CASE k = j /\ c < i
    <3>1. c \in 1 .. i - 1
      BY <1>3, <1>4, <2>2 DEF Centers
    <3> QED BY <1>1, <1>2, <2>2, <3>1 DEF VisitedInv, NoneNearer, ToCenter
  <2>3. CASE k = j /\ c = i
    BY <1>1, <1>2, <2>3, SkipCenterSafe DEF SkipCenter, ToCenter
  <2> QED BY <1>3, <1>4, <2>1, <2>2, <2>3 DEF Centers, Samples
<1>5. /\ pc' \in {"center", "sample"} /\ (pc' = "center" => j' = j)
      /\ j' \in 1 .. NumSamples + 1 /\ i' \in Centers /\ (pc' = "center" => j' \in Samples)
      /\ AssignedToNearest' /\ VisitedInv'
  BY <1>1, <1>2, <1>4, NextCenterStep DEF SkipCenter
<1>6. TypeOK'
  BY <1>1, <1>2, <1>5 DEF TypeOK
<1>7. BoundsSound' /\ AroundInv' /\ SeedInv'
  BY <1>1, <1>2, <1>5 DEF BoundsSound, AroundInv, SeedInv, ToCenter
<1>8. ExactInv'
  BY <1>1, <1>2, <1>5 DEF ExactInv, ToCenter
<1> QED BY <1>1, <1>2, <1>5, <1>6, <1>7, <1>8 DEF KmeansInv

LEMMA VisitCenterStep ==
    ASSUME KmeansInv, VisitCenter
    PROVE  KmeansInv'
<1> DEFINE a == closest[j]
           d == IF jreset THEN ToCenter(j, a) ELSE upper[j]
           low == IF jreset THEN [lower[j] EXCEPT ![a] = d] ELSE lower[j]
           d2 == ToCenter(j, i)
           look == d > low[i] \/ ~WithinHalf(d, between[a][i])
           moves == look /\ d2 < d
           b == IF moves THEN i ELSE a
<1>1. TypeOK /\ BoundsSound /\ AroundInv /\ ExactInv /\ VisitedInv /\ pc = "center" /\ ~CanSkip
  BY DEF KmeansInv, VisitCenter
<1>2. j \in Samples /\ i \in Centers /\ a \in Centers /\ i # a
  BY <1>1 DEF TypeOK, CanSkip
<1>3. /\ UNCHANGED <<sample, centers, between, s, weight, iteration>>
      /\ jreset' = FALSE
      /\ lower' = [lower EXCEPT ![j] = IF look THEN [low EXCEPT ![i] = d2] ELSE low]
      /\ upper' = [upper EXCEPT ![j] = IF moves THEN d2 ELSE d]
      /\ closest' = [closest EXCEPT ![j] = b]
      /\ changes' = IF moves THEN changes + 1 ELSE changes
      /\ NextCenter
  BY DEF VisitCenter, around
<1>4. d = ToCenter(j, a) /\ d \in Nat /\ d2 \in Nat
  BY <1>1, <1>2, ToCenterType DEF ExactInv
<1>5. /\ low \in [Centers -> Nat] /\ low[i] = lower[j][i]
      /\ \A c \in Centers : low[c] <= ToCenter(j, c)
  <2>1. lower[j] \in [Centers -> Nat]
    BY <1>1, <1>2 DEF TypeOK
  <2>2. \A c \in Centers : lower[j][c] <= ToCenter(j, c)
    BY <1>1, <1>2 DEF BoundsSound
  <2> HIDE DEF d
  <2>3. \A c \in Centers : low[c] = lower[j][c] \/ (c = a /\ low[c] = d)
    BY <2>1
  <2>4. low \in [Centers -> Nat] /\ low[i] = lower[j][i]
    BY <1>2, <1>4, <2>1
  <2> HIDE DEF low
  <2>5. ASSUME NEW c \in Centers PROVE low[c] <= ToCenter(j, c)
    <3>1. CASE low[c] = lower[j][c]
      BY <2>2, <2>5, <3>1
    <3>2. CASE c = a /\ low[c] = d
      BY <1>4, <3>2
    <3> QED BY <2>3, <2>5, <3>1, <3>2
  <2> QED BY <2>4, <2>5
<1>6. (moves => d2 < d) /\ (~moves => d <= d2)
  <2>1. CASE look
    BY <1>4, <2>1
  <2>2. CASE ~look
    <3>1. d <= low[i] /\ low[i] <= d2
      BY <1>2, <1>4, <1>5, <2>2
    <3>2. low[i] \in Nat
      BY <1>2, <1>5
    <3> HIDE DEF d, d2, low, look
    <3> QED BY <1>4, <2>2, <3>1, <3>2
  <2> QED BY <2>1, <2>2
<1>7. b \in Centers /\ ToCenter(j, b) = (IF moves THEN d2 ELSE d)
  BY <1>2, <1>4
<1>8. ToCenter(j, b) <= d /\ ToCenter(j, b) <= d2 /\ ToCenter(j, b) \in Nat
  <2> HIDE DEF d, d2, moves
  <2> QED BY <1>4, <1>6, <1>7
<1> HIDE DEF d, d2, low, look, moves, b
<1>9. /\ \A k \in Samples, c \in Centers : ToCenter(k, c)' = ToCenter(k, c)
      /\ closest' \in [Samples -> Centers] /\ closest'[j] = b
      /\ \A k \in Samples \ {j} : closest'[k] = closest[k]
  BY <1>1, <1>2, <1>3, <1>7 DEF TypeOK, ToCenter
<1>10. ASSUME NEW k \in Samples
       PROVE  /\ k = j => ToCenter(k, closest[k])' = ToCenter(j, b)
              /\ k # j => ToCenter(k, closest[k])' = ToCenter(k, closest[k])
  BY <1>3, <1>9, <1>10 DEF ToCenter
<1>11. ASSUME NEW k \in Samples
       PROVE  /\ k = j => upper'[k] = ToCenter(j, b)
              /\ k # j => upper'[k] = upper[k]
  BY <1>1, <1>3, <1>7, <1>11 DEF TypeOK
<1>12. ASSUME NEW k \in Samples, NEW c \in Centers
       PROVE  lower'[k][c] \in Nat /\ (lower[k][c] <= ToCenter(k, c))'
  <2>1. CASE k = j
    <3>1. lower'[k] = IF look THEN [low EXCEPT ![i] = d2] ELSE low
      BY <1>1, <1>2, <1>3, <2>1 DEF TypeOK
    <3>2. lower'[k][c] = low[c] \/ (c = i /\ lower'[k][c] = d2)
      BY <1>2, <1>5, <3>1
    <3>3. low[c] \in Nat /\ low[c] <= ToCenter(j, c)
      BY <1>5, <1>12
    <3>4. ToCenter(k, c)' = ToCenter(j, c)
      BY <1>9, <1>12, <2>1
    <3>5. CASE lower'[k][c] = low[c]
      BY <3>3, <3>4, <3>5
    <3>6. CASE c = i /\ lower'[k][c] = d2
      BY <1>4, <3>4, <3>6 DEF d2
    <3> QED BY <3>2, <3>5, <3>6
  <2>2. CASE k # j
    <3>1. lower'[k] = lower[k]
      BY <1>1, <1>3, <1>12, <2>2 DEF TypeOK
    <3> QED BY <1>1, <1>9, <1>12, <3>1 DEF TypeOK, BoundsSound
  <2> QED BY <2>1, <2>2
<1>13. ASSUME NEW k \in Samples
       PROVE  upper'[k] \in Nat /\ (ToCenter(k, closest[k]) <= upper[k])'
  <2>1. CASE k = j
    BY <1>8, <1>10, <1>11, <1>13, <2>1
  <2>2. CASE k # j
    <3>1. upper[k] \in Nat /\ ToCenter(k, closest[k]) <= upper[k]
      BY <1>1, <1>13 DEF TypeOK, BoundsSound
    <3> QED BY <1>10, <1>11, <1>13, <2>2, <3>1
  <2> QED BY <2>1, <2>2
<1>14. BoundsSound'
  BY <1>12, <1>13 DEF BoundsSound
<1>15. lower' \in [Samples -> [Centers -> Nat]] /\ upper' \in [Samples -> Nat]
  <2>1. lower' = [k \in Samples |-> lower'[k]] /\ upper' = [k \in Samples |-> upper'[k]]
    BY <1>1, <1>3 DEF TypeOK
  <2>2. ASSUME NEW k \in Samples PROVE lower'[k] \in [Centers -> Nat]
    <3>1. CASE k = j
      BY <1>1, <1>2, <1>3, <1>4, <1>5, <3>1 DEF TypeOK
    <3>2. CASE k # j
      BY <1>1, <1>3, <2>2, <3>2 DEF TypeOK
    <3> QED BY <3>1, <3>2
  <2> QED BY <1>13, <2>1, <2>2
<1>16. ASSUME NEW k \in 1 .. j, NEW c \in Centers, k < j \/ c <= i
       PROVE  (ToCenter(k, closest[k]) <= ToCenter(k, c))'
  <2>1. k \in Samples /\ j \in Nat /\ i \in Nat /\ c \in Nat
    BY <1>2, <1>16, KmeansAssumption DEF Samples, Centers
  <2>2. CASE k < j
    <3>1. k \in 1 .. j - 1 /\ k # j
      BY <1>16, <2>1, <2>2
    <3>2. ToCenter(k, closest[k]) <= ToCenter(k, c)
      BY <1>1, <1>16, <3>1 DEF VisitedInv, NoneNearer
    <3> QED BY <1>9, <1>10, <1>16, <2>1, <3>1, <3>2
  <2>3. CASE k = j /\ c < i
    <3>1. c \in 1 .. i - 1
      BY <1>2, <1>16, <2>3 DEF Centers
    <3>2. d <= ToCenter(j, c)
      BY <1>1, <1>4, <3>1 DEF VisitedInv, NoneNearer, a
    <3>3. ToCenter(j, c) \in Nat
      BY <1>1, <1>2, <1>16, ToCenterType
    <3>4. ToCenter(j, b) <= ToCenter(j, c)
      BY <1>4, <1>8, <3>2, <3>3
    <3> QED BY <1>9, <1>10, <1>16, <2>1, <2>3, <3>4
  <2>4. CASE k = j /\ c = i
    <3>1. ToCenter(j, b) <= ToCenter(j, i)
      BY <1>8 DEF d2
    <3> QED BY <1>9, <1>10, <1>16, <2>1, <2>4, <3>1
  <2> QED BY <1>16, <2>1, <2>2, <2>3, <2>4
<1>17. /\ pc' \in {"center", "sample"} /\ (pc' = "center" => j' = j)
       /\ j' \in 1 .. NumSamples + 1 /\ i' \in Centers /\ (pc' = "center" => j' \in Samples)
       /\ AssignedToNearest' /\ VisitedInv'
  BY <1>1, <1>3, <1>16, NextCenterStep
<1>18. changes' \in Nat
  BY <1>1, <1>3 DEF TypeOK
<1>19. TypeOK'
  BY <1>1, <1>3, <1>9, <1>15, <1>17, <1>18 DEF TypeOK
<1>20. AroundInv' /\ SeedInv'
  BY <1>1, <1>3, <1>17 DEF AroundInv, SeedInv
<1>21. ExactInv'
  <2>1. ASSUME iteration = 0, NEW k \in Samples
        PROVE  upper'[k] = ToCenter(k, closest[k])'
    BY <1>1, <1>10, <1>11, <2>1 DEF ExactInv
  <2>2. ASSUME NEW k \in Samples, k = j
        PROVE  upper'[k] = ToCenter(k, closest[k])'
    BY <1>10, <1>11, <2>2
  <2>3. pc' = "center" => upper'[j'] = ToCenter(j, closest[j])'
    <3> SUFFICES ASSUME pc' = "center" PROVE upper'[j'] = ToCenter(j, closest[j])'
      OBVIOUS
    <3>1. PICK k \in Samples : k = j /\ k = j'
      BY <1>2, <1>17
    <3> QED BY <2>2, <3>1 DEF ToCenter
  <2> QED BY <1>3, <2>1, <2>3 DEF ExactInv
<1> QED BY <1>1, <1>3, <1>14, <1>17, <1>19, <1>20, <1>21 DEF KmeansInv

\* By the triangle inequality a distance changes by at most what its center moves.
LEMMA MoveCentersStep ==
    ASSUME KmeansInv, MoveCenters
    PROVE  KmeansInv'
<1> DEFINE new_d == [c \in Centers |-> Distance(centers[c], centers'[c])]
<1>1. TypeOK /\ BoundsSound /\ pc = "sample" /\ iteration < MaxIterations
  BY DEF KmeansInv, MoveCenters
<1>2. /\ UNCHANGED <<sample, closest, between, s, weight, j, i, jreset, changes>>
      /\ centers' \in [Centers -> Points]
      /\ lower' = [k \in Samples |-> [c \in Centers |-> Lowered(lower[k][c], new_d[c])]]
      /\ upper' = [k \in Samples |-> Raised(upper[k], new_d[closest[k]])]
  BY DEF MoveCenters, around
<1>3. /\ pc' \in {"centers", "done"} /\ iteration' \in 0 .. MaxIterations
      /\ pc' = "centers" => iteration' # 0 /\ iteration' < MaxIterations
  <2>1. iteration \in 0 .. MaxIterations /\ MaxIterations \in Nat
    BY <1>1, KmeansAssumption DEF TypeOK
  <2>2. \/ pc' = "done" /\ iteration' = iteration
        \/ iteration' = iteration + 1
           /\ pc' = IF iteration' < MaxIterations THEN "centers" ELSE "done"
    BY DEF MoveCenters
  <2> QED BY <1>1, <2>1, <2>2
<1>4. ASSUME NEW k \in Samples, NEW c \in Centers
      PROVE  /\ new_d[c] \in Nat /\ ToCenter(k, c)' \in Nat
             /\ ToCenter(k, c)' <= ToCenter(k, c) + new_d[c]
             /\ ToCenter(k, c) <= ToCenter(k, c)' + new_d[c]
  <2>1. sample[k] \in Int /\ centers[c] \in Int /\ sample'[k] = sample[k]
    BY <1>1, <1>2, <1>4, ToCenterType
  <2>2. centers'[c] \in Int
    BY <1>2, <1>4, KmeansAssumption
  <2>3. new_d[c] = Distance(centers[c], centers'[c])
    BY <1>4
  <2>4. /\ Distance(centers[c], centers'[c]) \in Nat
        /\ Distance(centers'[c], centers[c]) = Distance(centers[c], centers'[c])
        /\ Distance(sample[k], centers'[c]) \in Nat
        /\ Distance(sample[k], centers'[c])
               <= Distance(sample[k], centers[c]) + Distance(centers[c], centers'[c])
        /\ Distance(sample[k], centers[c])
               <= Distance(sample[k], centers'[c]) + Distance(centers'[c], centers[c])
    BY <2>1, <2>2, Metric
  <2> QED BY <2>1, <2>3, <2>4 DEF ToCenter
<1> HIDE DEF new_d
<1>5. ASSUME NEW k \in Samples, NEW c \in Centers
      PROVE  lower'[k][c] \in Nat /\ lower'[k][c] <= ToCenter(k, c)'
  <2>1. lower'[k][c] = Lowered(lower[k][c], new_d[c])
    BY <1>2, <1>5
  <2>2. lower[k][c] \in Nat /\ lower[k][c] <= ToCenter(k, c) /\ ToCenter(k, c) \in Nat
    BY <1>1, <1>5, ToCenterType DEF TypeOK, BoundsSound
  <2> QED BY <1>4, <1>5, <2>1, <2>2 DEF Lowered
<1>6. ASSUME NEW k \in Samples
      PROVE  upper'[k] \in Nat /\ (ToCenter(k, closest[k]) <= upper[k])'
  <2>1. PICK c \in Centers : c = closest[k]
    BY <1>1, <1>6 DEF TypeOK
  <2>2. upper'[k] = upper[k] + new_d[c]
    BY <1>2, <1>6, <2>1 DEF Raised
  <2>3. upper[k] \in Nat /\ ToCenter(k, c) <= upper[k] /\ ToCenter(k, c) \in Nat
    BY <1>1, <1>6, <2>1, ToCenterType DEF TypeOK, BoundsSound
  <2>4. upper'[k] \in Nat /\ ToCenter(k, c)' <= upper'[k]
    BY <1>4, <1>6, <2>2, <2>3
  <2> QED BY <1>2, <2>1, <2>4 DEF ToCenter
<1>7. BoundsSound'
  BY <1>5, <1>6 DEF BoundsSound
<1>8. lower' \in [Samples -> [Centers -> Nat]] /\ upper' \in [Samples -> Nat]
  <2>1. upper' = [k \in Samples |-> upper'[k]]
        /\ lower' = [k \in Samples |-> [c \in Centers |-> lower'[k][c]]]
    BY <1>2
  <2> QED BY <1>5, <1>6, <2>1
<1>9. TypeOK'
  BY <1>1, <1>2, <1>3, <1>8 DEF TypeOK
<1>10. (AssignedToNearest /\ SeedInv /\ AroundInv /\ ExactInv /\ VisitedInv)'
  BY <1>3 DEF AssignedToNearest, SeedInv, AroundInv, ExactInv, VisitedInv
<1> QED BY <1>3, <1>7, <1>9, <1>10 DEF KmeansInv

-----------------------------------------------------------------------------
(* The invariant of the calculation of the centers in ivfflat_build.c: the *)
(* bounds that stand in for distances, and what is known of each sample    *)
(* and center the loops of ivfflat_elkan_kmeans have passed.               *)
THEOREM KmeansInvariant == Spec => []KmeansInv
<1>1. Init => KmeansInv
  BY KmeansInit
<1>2. KmeansInv /\ [Next]_vars => KmeansInv'
  <2> SUFFICES ASSUME KmeansInv, [Next]_vars PROVE KmeansInv'
    OBVIOUS
  <2>1. CASE Seed
    BY <2>1, SeedStep
  <2>2. CASE AssignAll
    BY <2>2, AssignAllStep
  <2>3. CASE MeasureCenters
    BY <2>3, MeasureCentersStep
  <2>4. CASE SkipSample
    BY <2>4, SkipSampleStep
  <2>5. CASE VisitSample
    BY <2>5, VisitSampleStep
  <2>6. CASE SkipCenter
    BY <2>6, SkipCenterStep
  <2>7. CASE VisitCenter
    BY <2>7, VisitCenterStep
  <2>8. CASE MoveCenters
    BY <2>8, MoveCentersStep
  <2>9. CASE UNCHANGED vars
    <3>1. UNCHANGED <<sample, centers, lower, upper, closest, between, s, weight, pc, j, i,
                      jreset, changes, iteration>>
      BY <2>9 DEF vars, bounds, around
    <3>2. /\ TypeOK' /\ BoundsSound' /\ AssignedToNearest' /\ SeedInv'
          /\ AroundInv' /\ ExactInv' /\ VisitedInv'
      BY <3>1 DEF KmeansInv, TypeOK, BoundsSound, AssignedToNearest, SeedInv, AroundInv,
                  ExactInv, VisitedInv, NoneNearer, ToCenter
    <3> QED BY <3>1, <3>2 DEF KmeansInv
  <2> QED BY <2>1, <2>2, <2>3, <2>4, <2>5, <2>6, <2>7, <2>8, <2>9 DEF Next, Done
<1> QED BY <1>1, <1>2, PTL DEF Spec

(* Every variable of the calculation keeps its type; no bound is negative. *)
THEOREM KmeansTypeCorrect == Spec => []TypeOK
<1>1. KmeansInv => TypeOK
  BY DEF KmeansInv
<1> QED BY <1>1, KmeansInvariant, PTL

(* The lower and upper bounds ivfflat_elkan_kmeans updates without         *)
(* calculating a distance always are bounds.                               *)
THEOREM KmeansBoundsSound == Spec => []BoundsSound
<1>1. KmeansInv => BoundsSound
  BY DEF KmeansInv
<1> QED BY <1>1, KmeansInvariant, PTL

(* A pass over the samples assigns every one to a center none is nearer    *)
(* than, in spite of the distances ivfflat_elkan_kmeans does not calculate.*)
THEOREM KmeansAssignsNearest == Spec => []AssignedToNearest
<1>1. KmeansInv => AssignedToNearest
  BY DEF KmeansInv
<1> QED BY <1>1, KmeansInvariant, PTL
-----------------------------------------------------------------------------
(* Lloyd's iteration.                                                     *)

\* A sum does not depend on which of the two modules computes it, nor does a
\* cardinality.
LEMMA SameSum ==
    ASSUME NEW S
    PROVE  MapThenSumSet(LAMBDA k : sample[k], S) = L!MapThenSumSet(LAMBDA k : sample[k], S)
BY Zenon DEF MapThenSumSet, MapThenFoldSet, L!MapThenSumSet, L!MapThenFoldSet

LEMMA SameCardinality ==
    ASSUME NEW S
    PROVE  Cardinality(S) = L!Cardinality(S)
BY Zenon DEF Cardinality, L!Cardinality

\* Both k-means take the same means of the same clusters.
LEMMA SameMeans ==
    ASSUME NEW c \in Centers
    PROVE  NewCenters(c) = L!Means(closest, c)
<1> DEFINE sum == MapThenSumSet(LAMBDA k : sample[k], Members(c))
           sumL == L!MapThenSumSet(LAMBDA k : sample[k], Members(c))
           mean(x) == IF Cardinality(Members(c)) = 0 THEN Points
                      ELSE {p \in Points : Abs(Cardinality(Members(c)) * p - x) < Cardinality(Members(c))}
           meanL(x) == {p \in Points : Members(c) = {}
                        \/ L!Abs(L!Cardinality(Members(c)) * p - x) < L!Cardinality(Members(c))}
<1>1. sum = sumL
  BY SameSum
<1>2. \A x : mean(x) = meanL(x)
  <2>1. IsFiniteSet(Members(c))
    <3>1. IsFiniteSet(Samples)
      BY FS_Interval, KmeansAssumption DEF Samples
    <3> QED  BY <3>1, FS_Subset DEF Members
  <2> QED  BY <2>1, FS_EmptySet, SameCardinality DEF L!Abs, Abs
<1>3. mean(sumL) = meanL(sumL)
  <2> HIDE DEF mean, meanL, sumL
  <2> QED  BY <1>2
<1>4. NewCenters(c) = mean(sum)
  BY Zenon DEF NewCenters
<1>5. L!Means(closest, c) = meanL(sumL)
  BY Zenon DEF L!Means, Members, L!Samples, Samples
<1> QED
  <2> HIDE DEF mean, meanL, sum, sumL
  <2> QED  BY <1>1, <1>3, <1>4, <1>5

\* When all samples have been visited, the assignment is one of Lloyd's.
LEMMA VisitedIsAssignment ==
    ASSUME KmeansInv, pc = "sample", j > NumSamples
    PROVE  closest \in L!Assignments
<1>1. closest \in [Samples -> Centers] /\ j = NumSamples + 1 /\ NumSamples \in Nat
  BY KmeansAssumption DEF KmeansInv, TypeOK
<1>2. \A k \in Samples, c \in Centers : ToCenter(k, closest[k]) <= ToCenter(k, c)
  BY <1>1 DEF KmeansInv, AssignedToNearest, NoneNearer, Samples
<1> QED
  BY <1>1, <1>2 DEF L!Assignments, L!Samples, L!Centers, L!Abs, Samples, Centers, Abs,
                    ToCenter, Distance

LEMMA InitIsLloyds == Init => L!Init
BY DEF Init, L!Init, L!Samples, L!Centers, Samples, Centers

LEMMA StepIsLloyds ==
    ASSUME KmeansInv, Next
    PROVE  L!Next \/ UNCHANGED L!vars
<1>1. CASE Seed
  <2>1. pc = "seed" /\ UNCHANGED sample /\ i \in Centers /\ NumCenters \in Nat
    BY <1>1, KmeansAssumption DEF Seed, KmeansInv, TypeOK
  <2>2. CASE i = NumCenters
    <3>1. UNCHANGED centers /\ pc' = "assign"
      BY <1>1, <2>2 DEF Seed
    <3> QED  BY <2>1, <3>1 DEF L!Next, L!EndSeeding
  <2>3. CASE i # NumCenters
    <3>1. PICK k \in Samples : centers' = [centers EXCEPT ![i + 1] = sample[k]]
      BY <1>1, <2>3, KmeansAssumption DEF Seed, NextSeeds, Samples
    <3>2. i + 1 \in L!Centers /\ k \in L!Samples
      BY <2>1, <2>3 DEF L!Centers, L!Samples, Centers, Samples
    <3>3. UNCHANGED pc
      BY <1>1, <2>3 DEF Seed
    <3>4. L!Seed
      BY <2>1, <3>1, <3>2, <3>3 DEF L!Seed
    <3> QED  BY <3>4 DEF L!Next
  <2> QED  BY <2>2, <2>3
<1>2. CASE MoveCenters
  <2>1. closest \in L!Assignments
    BY <1>2, VisitedIsAssignment DEF MoveCenters
  <2>2. centers' \in {f \in [L!Centers -> Points] : \A c \in L!Centers : f[c] \in L!Means(closest, c)}
    BY <1>2, SameMeans DEF MoveCenters, L!Centers, Centers
  <2>3. pc # "seed" /\ pc' # "seed" /\ UNCHANGED sample
    BY <1>2 DEF MoveCenters
  <2>4. L!Iterate
    BY <2>1, <2>2, <2>3 DEF L!Iterate
  <2> QED  BY <2>4 DEF L!Next
<1>3. ASSUME AssignAll \/ MeasureCenters \/ SkipSample \/ VisitSample
                \/ SkipCenter \/ VisitCenter \/ Done
      PROVE  UNCHANGED L!vars
  <2>1. UNCHANGED <<sample, centers>> /\ pc # "seed" /\ pc' # "seed"
    BY <1>3 DEF AssignAll, MeasureCenters, SkipSample, VisitSample, SkipCenter, VisitCenter,
                NextCenter, Done, vars
  <2> QED  BY <2>1 DEF L!vars
<1> QED  BY <1>1, <1>2, <1>3 DEF Next

\* Whatever the samples, every step of ivfflat_elkan_kmeans that moves the centers
\* is an iteration of Lloyd's k-means, and every step of ivfflat_kmeans_plusplus
\* chooses one of its seeds.
THEOREM KmeansIsLloyds == Spec => ImplementsLloyd
<1>1. KmeansInv /\ [Next]_vars => [L!Next]_L!vars
  <2>1. CASE UNCHANGED vars
    BY <2>1 DEF vars, L!vars
  <2> QED  BY <2>1, StepIsLloyds
<1> QED
  BY <1>1, InitIsLloyds, KmeansInvariant, PTL DEF Spec, ImplementsLloyd, L!Spec
=============================================================================
