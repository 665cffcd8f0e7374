---------------------------- MODULE HVectorProofs ----------------------------
(***************************************************************************)
(* Proofs about HVectorMachines: the functions of the type hvector return  *)
(* vectors, hvector_subvector the slice asked for, hvector_binary_quantize *)
(* the signs; hvector_in accepts its grammar and reads what hvector_out    *)
(* prints; hvector_cmp is a total order; avg does not depend on the plan,  *)
(* and sum not beyond the rounding of its additions; for any dimension,    *)
(* floats, integers, base and number of digits, text, table and workers.   *)
(***************************************************************************)
EXTENDS HVectorMachines, SumProofs, SequenceTheorems

-----------------------------------------------------------------------------
(* Sums over the elements of a vector, or over rows.                        *)

\* The sums of the model are such sums.
LEMMA TotalIsSumOn ==
    ASSUME NEW S \in SUBSET DOMAIN rows, IsFiniteSet(S), NEW k
    PROVE  Aggregates!Total(S, k) = SumOn([i \in DOMAIN rows |-> rows[i][k]], S)
<1> DEFINE F == [i \in DOMAIN rows |-> rows[i][k]]
           Eq(f) == f = [s \in SUBSET S |->
                            IF s = {} THEN 0
                            ELSE rows[CHOOSE x \in s : TRUE][k] + f[s \ {CHOOSE x \in s : TRUE}]]
           g == CHOOSE f : Eq(f)
<1>1. Aggregates!Total(S, k) = g[S]
  BY Zenon DEF Aggregates!Total, Aggregates!SumOver, Aggregates!MapThenSumSet, Aggregates!MapThenFoldSet
<1>2. ASSUME NEW f PROVE Eq(f) <=> Sums(f, F, S)
  <2>1. \A s \in SUBSET S : s # {} => F[Chosen(s)] = rows[Chosen(s)][k]
    BY ChosenIn
  <2>2. \A s \in SUBSET S : SumsBy(f, F, s) = IF s = {} THEN 0 ELSE rows[Chosen(s)][k] + f[s \ {Chosen(s)}]
    <3> HIDE DEF F
    <3> QED BY <2>1 DEF SumsBy
  <2>3. [s \in SUBSET S |-> SumsBy(f, F, s)]
            = [s \in SUBSET S |-> IF s = {} THEN 0 ELSE rows[Chosen(s)][k] + f[s \ {Chosen(s)}]]
    <3> HIDE DEF F
    <3> QED BY <2>2
  <2> HIDE DEF F
  <2> QED BY <2>3 DEF Sums, Chosen
<1> HIDE DEF Eq, F
<1>3. Eq(g)
  BY <1>2, SumsExist
<1> HIDE DEF g
<1>4. g[S] = SumOn(F, S)
  BY <1>2, <1>3, SumIsSumOn
<1> QED BY <1>1, <1>4 DEF F

LEMMA SquareSumIsSumOn ==
    ASSUME NEW a, IsFiniteSet(DOMAIN a)
    PROVE  Calls!SquareSum(a) = SumOn([i \in DOMAIN a |-> Calls!Times(a[i], a[i])], DOMAIN a)
<1> DEFINE S == DOMAIN a
           sq(x) == Calls!Times(a[x], a[x])
           F == [i \in S |-> sq(i)]
           Eq(f) == f = [s \in SUBSET S |->
                            IF s = {} THEN 0
                            ELSE sq(CHOOSE x \in s : TRUE) + f[s \ {CHOOSE x \in s : TRUE}]]
           g == CHOOSE f : Eq(f)
<1>1. Calls!SquareSum(a) = g[S]
  BY Zenon DEF Calls!SquareSum, Calls!SumOver, Calls!MapThenSumSet, Calls!MapThenFoldSet
<1>2. ASSUME NEW f PROVE Eq(f) <=> Sums(f, F, S)
  <2>1. \A s \in SUBSET S : s # {} => F[Chosen(s)] = sq(Chosen(s))
    <3> HIDE DEF sq, S
    <3> QED BY ChosenIn
  <2>2. \A s \in SUBSET S : SumsBy(f, F, s) = IF s = {} THEN 0 ELSE sq(Chosen(s)) + f[s \ {Chosen(s)}]
    <3> HIDE DEF F, sq
    <3> QED BY <2>1 DEF SumsBy
  <2>3. [s \in SUBSET S |-> SumsBy(f, F, s)]
            = [s \in SUBSET S |-> IF s = {} THEN 0 ELSE sq(Chosen(s)) + f[s \ {Chosen(s)}]]
    <3> HIDE DEF F, sq, S
    <3> QED BY <2>2
  <2> HIDE DEF F, sq, S
  <2> QED BY <2>3 DEF Sums, Chosen
<1> HIDE DEF Eq, F
<1>3. Eq(g)
  BY <1>2, SumsExist
<1> HIDE DEF g
<1>4. g[S] = SumOn(F, S)
  BY <1>2, <1>3, SumIsSumOn
<1> QED BY <1>1, <1>4 DEF F
-----------------------------------------------------------------------------
(* Floats: the least and the greatest, and what rounding does.             *)

\* The greatest of a finite set of numbers is one of them.
LEMMA GreatestOf ==
    ASSUME NEW n \in Nat, NEW S \in SUBSET (0 .. n), S # {}
    PROVE  Max(S) \in S /\ \A k \in S : k <= Max(S)
<1>1. \A k \in S : k \in Nat /\ k <= n
  OBVIOUS
<1> DEFINE T == {n - m : m \in S}
<1>2. T \in SUBSET Nat /\ T # {}
  <2>1. \A m \in S : n - m \in Nat
    BY <1>1
  <2> QED BY <2>1
<1>3. PICK t \in T : \A k \in T : t <= k
  <2> HIDE DEF T
  <2> QED BY <1>2, LeastOf
<1>4. PICK m \in S : t = n - m
  BY <1>3
<1>5. \A k \in S : k <= m
  <2> SUFFICES ASSUME NEW k \in S PROVE k <= m
    OBVIOUS
  <2>1. n - k \in T
    OBVIOUS
  <2>2. n - m <= n - k
    BY <1>3, <1>4, <2>1
  <2> QED BY <1>1, <2>2
<1> QED BY <1>4, <1>5 DEF Max

\* The instances have the same floats.
LEMMA SameFloats ==
    /\ Calls!Inf = Inf /\ Text!Inf = Inf /\ Aggregates!Inf = Inf
    /\ Calls!NaN = NaN /\ Text!NaN = NaN /\ Aggregates!NaN = NaN
    /\ Aggregates!Ulp = Ulp
    /\ Calls!Finite = Finite /\ Text!Finite = Finite /\ Aggregates!Finite = Finite
<1>2. Calls!Ulp = Ulp /\ Text!Ulp = Ulp /\ Aggregates!Ulp = Ulp
  BY Zenon DEF Ulp, Max, Calls!Ulp, Calls!Max, Text!Ulp, Text!Max, Aggregates!Ulp, Aggregates!Max
<1>3. Calls!Inf = Inf /\ Text!Inf = Inf /\ Aggregates!Inf = Inf
  BY <1>2 DEF Inf, Calls!Inf, Text!Inf, Aggregates!Inf
<1>4. Calls!NaN = NaN /\ Text!NaN = NaN /\ Aggregates!NaN = NaN
  BY <1>3 DEF NaN, Calls!NaN, Text!NaN, Aggregates!NaN
<1>5. Calls!Finite = Finite /\ Text!Finite = Finite /\ Aggregates!Finite = Finite
  BY DEF Finite, Calls!Finite, Text!Finite, Aggregates!Finite
<1> QED BY <1>2, <1>3, <1>4, <1>5

LEMMA SameRounding ==
    \A p, q : /\ Calls!ToFloat(p, q) = ToFloat(p, q)
              /\ Text!ToFloat(p, q) = ToFloat(p, q)
              /\ Aggregates!ToFloat(p, q) = ToFloat(p, q)
<1> SUFFICES ASSUME NEW p, NEW q
             PROVE  /\ Calls!ToFloat(p, q) = ToFloat(p, q)
                    /\ Text!ToFloat(p, q) = ToFloat(p, q)
                    /\ Aggregates!ToFloat(p, q) = ToFloat(p, q)
  OBVIOUS
<1>1. \A S : Calls!Cardinality(S) = Cardinality(S) /\ Text!Cardinality(S) = Cardinality(S)
             /\ Aggregates!Cardinality(S) = Cardinality(S)
  BY Zenon DEF Cardinality, Calls!Cardinality, Text!Cardinality, Aggregates!Cardinality
<1>2. \A m : /\ Calls!EvenMantissa(m) = EvenMantissa(m) /\ Text!EvenMantissa(m) = EvenMantissa(m)
             /\ Aggregates!EvenMantissa(m) = EvenMantissa(m)
  BY <1>1, Zenon DEF EvenMantissa, Calls!EvenMantissa, Text!EvenMantissa, Aggregates!EvenMantissa
<1>3. \A S : /\ Calls!Max(S) = Max(S) /\ Text!Max(S) = Max(S) /\ Aggregates!Max(S) = Max(S)
             /\ Calls!Min(S) = Min(S) /\ Text!Min(S) = Min(S) /\ Aggregates!Min(S) = Min(S)
  BY Zenon DEF Max, Min, Calls!Max, Calls!Min, Text!Max, Text!Min, Aggregates!Max, Aggregates!Min
<1>4. \A r : /\ Calls!NearestFloat(r, q) = NearestFloat(r, q) /\ Text!NearestFloat(r, q) = NearestFloat(r, q)
             /\ Aggregates!NearestFloat(r, q) = NearestFloat(r, q)
  BY <1>2, <1>3, SameFloats, Zenon DEF NearestFloat, Calls!NearestFloat, Text!NearestFloat, Aggregates!NearestFloat
<1> QED BY <1>4, Zenon DEF ToFloat, Calls!ToFloat, Text!ToFloat, Aggregates!ToFloat

LEMMA FloatsAre ==
    /\ MaxFloat \in Magnitudes /\ MaxFloat \in Nat /\ MaxFloat > 0 /\ \A m \in Magnitudes : m \in Nat /\ m <= MaxFloat
    /\ Ulp \in Nat /\ Ulp > 0 /\ Inf \in Nat /\ Inf = MaxFloat + Ulp /\ NaN = Inf + 1
    /\ 0 \in Finite /\ MaxFloat \in Finite /\ Finite \subseteq Int
    /\ \A x \in Finite : -x \in Finite /\ x <= MaxFloat /\ -MaxFloat <= x /\ (x >= 0 => x \in Magnitudes)
<1>1. Magnitudes \in SUBSET Nat /\ 0 \in Magnitudes /\ MaxFloat \in Nat
  BY HVectorAssumption
<1>2. MaxFloat \in Magnitudes /\ \A m \in Magnitudes : m <= MaxFloat
  BY HVectorAssumption
<1>3. MaxFloat > 0
  BY HVectorAssumption
<1> DEFINE M == Magnitudes \ {MaxFloat}
<1>4. M \in SUBSET (0 .. MaxFloat) /\ 0 \in M
  BY <1>1, <1>2, <1>3
<1>5. Max(M) \in M
  <2> HIDE DEF M
  <2> QED BY <1>1, <1>4, GreatestOf
<1>6. Ulp \in Nat /\ Ulp > 0
  <2>1. Ulp = MaxFloat - Max(M)
    BY DEF Ulp
  <2>2. Max(M) \in Nat /\ Max(M) < MaxFloat
    <3>1. \A m \in M : m \in Nat /\ m < MaxFloat
      BY <1>1, <1>2
    <3> HIDE DEF M
    <3> QED BY <1>5, <3>1
  <2> QED BY <1>1, <1>2, <2>1, <2>2
<1>7. Inf \in Nat /\ Inf = MaxFloat + Ulp /\ NaN = Inf + 1
  BY <1>1, <1>2, <1>6 DEF Inf, NaN
<1>8. 0 \in Finite /\ MaxFloat \in Finite /\ Finite \subseteq Int
  <2>1. \A m \in Magnitudes : m \in Int /\ -m \in Int
    BY <1>1
  <2>2. \A x \in Finite : \E m \in Magnitudes : x = m \/ x = -m
    BY DEF Finite
  <2>3. Magnitudes \subseteq Finite
    BY DEF Finite
  <2> QED BY <1>1, <1>2, <2>1, <2>2, <2>3
<1>9. ASSUME NEW x \in Finite
      PROVE  -x \in Finite /\ x <= MaxFloat /\ -MaxFloat <= x /\ (x >= 0 => x \in Magnitudes)
  <2>1. PICK m \in Magnitudes : x = m \/ x = -m
    BY DEF Finite
  <2>2. m \in Nat /\ m <= MaxFloat /\ MaxFloat \in Nat
    BY <1>1, <1>2
  <2>3. m \in Finite /\ -m \in Finite
    BY DEF Finite
  <2>4. CASE x = m
    BY <2>2, <2>3, <2>4
  <2>5. CASE x = -m
    <3>1. -x = m
      BY <2>2, <2>5
    <3>2. x >= 0 => m = 0 /\ x = 0
      BY <2>2, <2>5
    <3> QED BY <1>1, <2>2, <2>3, <2>5, <3>1, <3>2
  <2> QED BY <2>1, <2>4, <2>5
<1> QED BY <1>1, <1>2, <1>3, <1>6, <1>7, <1>8, <1>9

\* The nearest float is one of the two around the number.
LEMMA NearestIs ==
    ASSUME NEW p \in Nat, NEW q \in Nat \ {0}
    PROVE  LET r == NearestFloat(p, q)
           IN  /\ r \in Magnitudes \cup {Inf}
               /\ p <= MaxFloat * q => r \in Magnitudes
               /\ p < Inf * q => \A m \in Magnitudes \cup {Inf} :
                    /\ m * q <= p => 2 * p - 2 * (m * q) >= r * q - m * q /\ m <= r
                    /\ m * q > p => 2 * (m * q) - 2 * p >= m * q - r * q /\ r <= m
               /\ p >= Inf * q => r = Inf
<1> DEFINE All == Magnitudes \cup {Inf}
           Low == {m \in All : m * q <= p}
           High == {m \in All : m * q > p}
           below == Max(Low)
           above == Min(High)
           r == NearestFloat(p, q)
           down == \/ p >= Inf * q
                   \/ 2 * p < (below + above) * q
                   \/ 2 * p = (below + above) * q /\ EvenMantissa(below)
<1>1. r = IF down THEN below ELSE above
  BY DEF NearestFloat
<1>2. All \in SUBSET (0 .. Inf) /\ 0 \in All /\ Inf \in All /\ Inf \in Nat
  BY HVectorAssumption, FloatsAre
<1>3. Low \in SUBSET (0 .. Inf) /\ Low # {} /\ Low \in SUBSET All
  <2>1. 0 * q <= p
    OBVIOUS
  <2>2. 0 \in Low
    BY <1>2, <2>1
  <2> HIDE DEF All
  <2> QED BY <1>2, <2>2
<1>4. below \in Low /\ \A m \in Low : m <= below
  <2> HIDE DEF Low
  <2> QED BY <1>2, <1>3, GreatestOf
<1>5. High \in SUBSET Nat
  BY <1>2
<1>6. CASE p >= Inf * q
  <2>1. Inf \in Low
    BY <1>2, <1>6
  <2>2. \A m \in All : m <= Inf
    BY <1>2, FloatsAre
  <2>3. below = Inf /\ r = below
    <3> HIDE DEF All, below, r
    <3>1. below \in All /\ below \in Nat
      BY <1>3, <1>4
    <3>2. Inf <= below /\ below <= Inf
      BY <1>4, <2>1, <2>2, <3>1
    <3> QED BY <1>1, <1>2, <1>6, <3>1, <3>2
  <2>4. p <= MaxFloat * q => FALSE
    <3>1. Inf * q = MaxFloat * q + Ulp * q /\ Ulp * q > 0 /\ Ulp * q \in Nat /\ MaxFloat * q \in Nat
      BY FloatsAre
    <3> QED BY <1>6, <3>1
  <2> HIDE DEF r
  <2> QED BY <1>6, <2>3, <2>4, FloatsAre DEF r
<1>7. CASE p < Inf * q
  <2>1. Inf \in High
    BY <1>2, <1>7
  <2>2. above \in High /\ \A m \in High : above <= m
    <3> HIDE DEF High
    <3>1. \E m \in High : \A k \in High : m <= k
      BY <1>5, <2>1, LeastOf
    <3> QED BY <3>1 DEF Min
  <2> DEFINE b == below * q
             a == above * q
  <2>3. /\ below \in All /\ below \in Nat /\ above \in All /\ above \in Nat /\ b \in Nat /\ a \in Nat
        /\ b <= p /\ p < a /\ (below + above) * q = b + a
    <3>1. below \in All /\ below \in Nat /\ b <= p
      BY <1>3, <1>4
    <3>2. above \in All /\ above \in Nat /\ p < a
      BY <1>5, <2>2
    <3> HIDE DEF below, above, All
    <3> QED BY <3>1, <3>2
  <2>4. /\ r \in {below, above} /\ (r = below => 2 * p <= b + a \/ below = above)
        /\ (r = above => 2 * p >= b + a \/ below = above)
    <3> HIDE DEF below, above, a, b, r, All
    <3>1. down \/ 2 * p >= b + a
      BY <2>3
    <3>2. down => 2 * p <= b + a
      BY <1>7, <2>3, <1>2
    <3> QED BY <1>1, <3>1, <3>2
  <2>5. below # above
    BY <2>3
  <2> HIDE DEF r, a, b
  <2>6. ASSUME NEW m \in All
        PROVE  /\ m * q <= p => 2 * p - 2 * (m * q) >= r * q - m * q /\ m <= r
               /\ m * q > p => 2 * (m * q) - 2 * p >= m * q - r * q /\ r <= m
    <3> DEFINE c == m * q
    <3>1. c \in Nat /\ m \in Nat
      BY <1>2
    <3>2. below < above
      <4> SUFFICES ASSUME above <= below PROVE FALSE
        BY <2>3
      <4>1. above * q <= below * q
        BY <2>3
      <4> QED BY <2>3, <4>1 DEF a, b
    <3>3. CASE c <= p
      <4>1. m <= below
        BY <1>4, <3>3
      <4>2. c <= b
        <5> HIDE DEF below
        <5> QED BY <2>3, <3>1, <4>1 DEF b
      <4>3. (r * q = b /\ r = below) \/ (r * q = a /\ r = above /\ 2 * p >= b + a)
        BY <2>4, <2>5 DEF a, b
      <4> HIDE DEF below, above, c
      <4>4. 2 * p - 2 * c >= r * q - c /\ m <= r
        BY <2>3, <3>1, <3>2, <3>3, <4>1, <4>2, <4>3
      <4> QED BY <3>3, <4>4, <3>1 DEF c
    <3>4. CASE c > p
      <4>1. above <= m
        BY <2>2, <3>4
      <4>2. a <= c
        <5> HIDE DEF above
        <5> QED BY <2>3, <3>1, <4>1 DEF a
      <4>3. (r * q = a /\ r = above) \/ (r * q = b /\ r = below /\ 2 * p <= b + a)
        BY <2>4, <2>5 DEF a, b
      <4> HIDE DEF below, above, c
      <4>4. 2 * c - 2 * p >= c - r * q /\ r <= m
        BY <2>3, <3>1, <3>2, <3>4, <4>1, <4>2, <4>3
      <4> QED BY <3>4, <4>4, <3>1 DEF c
    <3> QED BY <3>1, <3>3, <3>4
  <2>7. r \in All
    BY <2>3, <2>4
  <2>8. ASSUME p <= MaxFloat * q PROVE r \in Magnitudes
    <3>1. MaxFloat \in All /\ MaxFloat \in Nat /\ r \in Nat
      BY <1>2, <2>7, FloatsAre
    <3>2. CASE MaxFloat * q > p
      <4>1. r <= MaxFloat
        BY <2>6, <3>1, <3>2
      <4> QED BY <2>7, <4>1, <3>1, FloatsAre
    <3>3. CASE MaxFloat * q = p
      <4> DEFINE c == MaxFloat * q
                 d == r * q
      <4>1. 2 * p - 2 * c >= d - c
        BY <2>6, <3>1, <3>3
      <4>2. c \in Nat /\ d \in Nat /\ c = p
        BY <3>1, <3>3
      <4> HIDE DEF c, d
      <4>3. d <= c
        BY <4>1, <4>2
      <4>4. r <= MaxFloat
        <5> SUFFICES ASSUME r > MaxFloat PROVE FALSE
          BY <3>1
        <5>1. r * q > MaxFloat * q
          BY <3>1
        <5> QED BY <4>2, <4>3, <5>1 DEF c, d
      <4> QED BY <2>7, <4>4, <3>1, FloatsAre
    <3>4. MaxFloat * q \in Nat
      BY <3>1
    <3> QED BY <2>8, <3>2, <3>3, <3>4
  <2> HIDE DEF All
  <2> QED BY <1>2, <1>7, <2>6, <2>7, <2>8 DEF r, All
<1> QED BY <1>2, <1>6, <1>7

\* Rounding to floats: what is in range stays so, a float stays as it is, and what
\* is not infinite is off by half a unit in the last place of FLT_MAX at most.
LEMMA RoundingIs ==
    ASSUME NEW p \in Int, NEW q \in Nat \ {0}
    PROVE  LET r == ToFloat(p, q)
           IN  /\ r \in Int /\ r \in Finite \cup {Inf, -Inf}
               /\ p <= MaxFloat * q /\ -(MaxFloat * q) <= p => r \in Finite
               /\ q = 1 /\ p \in Finite => r = p
               /\ q = 1 /\ r \in Finite => 2 * Abs(r - p) <= Ulp
               /\ q = 1 /\ r \in {Inf, -Inf} => 2 * Abs(p) >= 2 * MaxFloat + Ulp
               /\ q = 1 => ToFloat(-p, 1) = -r
               /\ p >= 0 => r >= 0
<1>0. /\ Inf \in Nat /\ Inf = MaxFloat + Ulp /\ Ulp \in Nat /\ MaxFloat \in Nat /\ Magnitudes \in SUBSET Nat
      /\ MaxFloat \in Magnitudes /\ 0 \in Magnitudes /\ Ulp > 0
  BY FloatsAre, HVectorAssumption
\* Magnitudes first
<1>1. ASSUME NEW x \in Nat
      PROVE  LET n == NearestFloat(x, q)
             IN  /\ n \in Magnitudes \cup {Inf} /\ n \in Nat
                 /\ x <= MaxFloat * q => n \in Magnitudes
                 /\ q = 1 /\ x \in Magnitudes => n = x
                 /\ q = 1 /\ n \in Magnitudes => 2 * n - 2 * x <= Ulp /\ 2 * x - 2 * n <= Ulp
                 /\ q = 1 /\ n = Inf => 2 * x >= 2 * MaxFloat + Ulp
  <2> DEFINE n == NearestFloat(x, q)
  <2>1. /\ n \in Magnitudes \cup {Inf}
        /\ x <= MaxFloat * q => n \in Magnitudes
        /\ x < Inf * q => \A m \in Magnitudes \cup {Inf} :
             /\ m * q <= x => 2 * x - 2 * (m * q) >= n * q - m * q /\ m <= n
             /\ m * q > x => 2 * (m * q) - 2 * x >= m * q - n * q /\ n <= m
        /\ x >= Inf * q => n = Inf
    BY NearestIs
  <2> HIDE DEF n
  <2>2. n \in Nat
    BY <1>0, <2>1
  <2>3. ASSUME q = 1, x < Inf
        PROVE  \A m \in Magnitudes \cup {Inf} :
             /\ m <= x => 2 * x - 2 * m >= n - m /\ m <= n
             /\ m > x => 2 * m - 2 * x >= m - n /\ n <= m
    <3> SUFFICES ASSUME NEW m \in Magnitudes \cup {Inf}
                 PROVE  /\ m <= x => 2 * x - 2 * m >= n - m /\ m <= n
                        /\ m > x => 2 * m - 2 * x >= m - n /\ n <= m
      OBVIOUS
    <3>1. m \in Nat /\ m * q = m /\ n * q = n /\ Inf * q = Inf
      BY <1>0, <2>2, <2>3
    <3> QED BY <2>1, <2>3, <3>1
  <2>4. ASSUME q = 1, x \in Magnitudes PROVE n = x
    <3>1. x < Inf
      BY <1>0, <2>4, FloatsAre
    <3>2. 2 * x - 2 * x >= n - x /\ x <= n
      BY <2>3, <2>4, <3>1
    <3> QED BY <2>2, <3>2
  <2>5. ASSUME q = 1, n \in Magnitudes PROVE 2 * n - 2 * x <= Ulp /\ 2 * x - 2 * n <= Ulp
    <3>1. x < Inf
      <4>1. n <= MaxFloat
        BY <2>5, FloatsAre
      <4>2. Inf * q = Inf
        BY <1>0, <2>5
      <4> QED BY <1>0, <2>1, <2>2, <4>1, <4>2
    <3> DEFINE below == {m \in Magnitudes : m <= x}
    <3>2. below \in SUBSET (0 .. x) /\ below # {}
      <4>1. \A m \in below : m \in Nat /\ m <= x
        BY <1>0
      <4>2. 0 \in below
        BY <1>0
      <4> HIDE DEF below
      <4> QED BY <4>1, <4>2
    <3>3. PICK m \in below : \A k \in below : k <= m
      <4> HIDE DEF below
      <4> QED BY <3>2, GreatestOf
    <3>4. m \in Magnitudes /\ m \in Nat /\ m <= x
      BY <1>0, <3>3
    <3>5. PICK l \in Magnitudes \cup {Inf} : m < l /\ l <= m + Ulp
      BY <3>4, HVectorAssumption
    <3>6. l \in Nat /\ l > x
      <4>1. l \in Nat
        BY <1>0, <3>5
      <4>2. ASSUME l <= x PROVE FALSE
        <5>1. l \in below
          BY <1>0, <3>1, <4>2, <3>5
        <5>2. l <= m
          BY <3>3, <5>1
        <5> QED BY <3>4, <3>5, <4>1, <5>2
      <4> QED BY <4>1, <4>2
    <3>7. /\ 2 * x - 2 * m >= n - m /\ m <= n
          /\ 2 * l - 2 * x >= l - n /\ n <= l
      BY <2>3, <2>5, <3>1, <3>4, <3>5, <3>6
    <3> QED BY <1>0, <2>2, <3>4, <3>5, <3>6, <3>7
  <2>6. ASSUME q = 1, n = Inf PROVE 2 * x >= 2 * MaxFloat + Ulp
    <3>1. CASE x >= Inf
      BY <1>0, <3>1
    <3>2. CASE x < Inf
      <4>1. MaxFloat <= x
        <5> SUFFICES ASSUME MaxFloat > x PROVE FALSE
          BY <1>0
        <5>1. n <= MaxFloat
          BY <1>0, <2>3, <2>6, <3>2
        <5> QED BY <1>0, <2>6, <5>1
      <4>2. 2 * x - 2 * MaxFloat >= Inf - MaxFloat
        BY <1>0, <2>3, <2>6, <3>2, <4>1
      <4> QED BY <1>0, <4>2
    <3> QED BY <1>0, <3>1, <3>2
  <2> QED BY <2>1, <2>2, <2>4, <2>5, <2>6 DEF n
<1> DEFINE r == ToFloat(p, q)
<1>2. CASE p >= 0
  <2> DEFINE n == NearestFloat(p, q)
  <2>1. r = n /\ p \in Nat
    BY <1>2 DEF ToFloat
  <2>2. /\ n \in Magnitudes \cup {Inf} /\ n \in Nat
        /\ p <= MaxFloat * q => n \in Magnitudes
        /\ q = 1 /\ p \in Magnitudes => n = p
        /\ q = 1 /\ n \in Magnitudes => 2 * n - 2 * p <= Ulp /\ 2 * p - 2 * n <= Ulp
        /\ q = 1 /\ n = Inf => 2 * p >= 2 * MaxFloat + Ulp
    BY <1>1, <2>1
  <2>3. ASSUME q = 1 PROVE ToFloat(-p, 1) = -r
    <3>1. CASE p <= 0
      <4>1. -p = p
        BY <1>2, <3>1
      <4>2. n = p
        <5>1. p \in Magnitudes
          BY <1>0, <1>2, <3>1
        <5> QED BY <2>2, <2>3, <5>1
      <4>3. -r = r
        BY <2>1, <4>1, <4>2
      <4> QED BY <2>3, <4>1, <4>3
    <3>2. CASE p > 0
      <4>1. -p < 0 /\ -(-p) = p
        BY <3>2
      <4> QED BY <2>1, <2>3, <4>1 DEF ToFloat
    <3> QED BY <1>2, <3>1, <3>2
  <2> HIDE DEF r, n
  <2>4. n \in Magnitudes => n \in Finite
    BY DEF Finite
  <2>5. n \in Finite => n \in Magnitudes
    BY <2>2, FloatsAre
  <2>6. p \in Finite => p \in Magnitudes
    BY <1>2, FloatsAre
  <2>7. n # -Inf /\ n \in Magnitudes \cup {Inf}
    BY <1>0, <2>2
  <2>8. Abs(p) = p /\ (2 * n - 2 * p <= Ulp /\ 2 * p - 2 * n <= Ulp => 2 * Abs(n - p) <= Ulp)
    BY <1>0, <1>2, <2>2 DEF Abs
  <2> QED BY <2>1, <2>2, <2>3, <2>4, <2>5, <2>6, <2>7, <2>8 DEF r
<1>3. CASE p < 0
  <2> DEFINE n == NearestFloat(-p, q)
  <2>1. r = -n /\ -p \in Nat
    BY <1>3 DEF ToFloat
  <2>2. /\ n \in Magnitudes \cup {Inf} /\ n \in Nat
        /\ -p <= MaxFloat * q => n \in Magnitudes
        /\ q = 1 /\ -p \in Magnitudes => n = -p
        /\ q = 1 /\ n \in Magnitudes => 2 * n - 2 * (-p) <= Ulp /\ 2 * (-p) - 2 * n <= Ulp
        /\ q = 1 /\ n = Inf => 2 * (-p) >= 2 * MaxFloat + Ulp
    BY <1>1, <2>1
  <2>3. ASSUME q = 1 PROVE ToFloat(-p, 1) = -r
    <3>1. ~(-p < 0)
      BY <1>3
    <3>2. ToFloat(-p, 1) = n
      BY <2>3, <3>1 DEF ToFloat
    <3> QED BY <2>1, <2>2, <3>2
  <2> HIDE DEF r, n
  <2>4. n \in Magnitudes => -n \in Finite
    BY DEF Finite
  <2>5. -n \in Finite => n \in Magnitudes
    <3> SUFFICES ASSUME -n \in Finite PROVE n \in Magnitudes
      OBVIOUS
    <3>1. -(-n) \in Finite /\ -(-n) = n
      BY <2>2, FloatsAre
    <3> QED BY <2>2, <3>1, FloatsAre
  <2>6. p \in Finite => -p \in Magnitudes
    BY <1>3, FloatsAre
  <2>7. -n # Inf /\ (-n = -Inf => n = Inf) /\ -n \in Int
    BY <1>0, <2>2
  <2>8. Abs(p) = -p /\ (2 * n - 2 * (-p) <= Ulp /\ 2 * (-p) - 2 * n <= Ulp => 2 * Abs(-n - p) <= Ulp)
    BY <1>0, <1>3, <2>2 DEF Abs
  <2>9. -(MaxFloat * q) <= p => -p <= MaxFloat * q
    <3>1. MaxFloat * q \in Nat
      BY <1>0
    <3> QED BY <3>1
  <2>10. p = -n <=> n = -p
    BY <2>2
  <2> QED BY <1>3, <2>1, <2>2, <2>3, <2>4, <2>5, <2>6, <2>7, <2>8, <2>9, <2>10 DEF r
<1> QED BY <1>2, <1>3
-----------------------------------------------------------------------------
(* Vectors, and the functions that return them.                            *)

LEMMA VectorsAre ==
    ASSUME NEW a \in Calls!Vectors
    PROVE  /\ a \in Seq(Calls!Finite) /\ Len(a) \in 1 .. MaxDim /\ Len(a) \in Nat
           /\ DOMAIN a = 1 .. Len(a) /\ a \in [1 .. Len(a) -> Calls!Finite] /\ a # <<>>
           /\ \A i \in 1 .. Len(a) : a[i] \in Int /\ a[i] <= MaxFloat /\ -MaxFloat <= a[i]
<1>1. PICK n \in 1 .. MaxDim : a \in [1 .. n -> Calls!Finite]
  BY DEF Calls!Vectors, Calls!Dims
<1>2. n \in Nat
  BY HVectorAssumption
<1>3. a \in Seq(Calls!Finite)
  BY <1>1, <1>2
<1>4. Len(a) = n
  BY <1>1, <1>2, <1>3, LenProperties
<1>5. \A x \in Calls!Finite : x \in Int /\ x <= MaxFloat /\ -MaxFloat <= x
  BY SameFloats, FloatsAre
<1>6. a # <<>>
  BY <1>2, <1>4
<1> QED BY <1>1, <1>2, <1>3, <1>4, <1>5, <1>6, HVectorAssumption

LEMMA IsVector ==
    ASSUME NEW n \in 1 .. MaxDim, NEW a \in [1 .. n -> Calls!Finite]
    PROVE  a \in Calls!Vectors
BY DEF Calls!Vectors, Calls!Dims

LEMMA FloatIs ==
    ASSUME NEW p \in Int, NEW q \in Nat \ {0}
    PROVE  /\ Calls!ToFloat(p, q) \in Int
           /\ ~Calls!IsInf(Calls!ToFloat(p, q)) => Calls!ToFloat(p, q) \in Calls!Finite
BY RoundingIs, SameRounding, SameFloats DEF Calls!IsInf

LEMMA ProductIs ==
    ASSUME NEW x \in Int, NEW y \in Int
    PROVE  /\ Calls!Times(x, y) \in Int
           /\ ~Calls!IsInf(Calls!Times(x, y)) => Calls!Times(x, y) \in Calls!Finite
<1>1. x * y \in Int /\ Unit \in Nat \ {0}
  BY HVectorAssumption
<1> QED BY <1>1, FloatIs DEF Calls!Times

\* What passes the test for overflow is a vector.
LEMMA CheckedIsVector ==
    ASSUME NEW a \in Calls!Vectors, NEW b, NEW res,
           DOMAIN res = DOMAIN a, res = [i \in DOMAIN a |-> res[i]],
           \A i \in DOMAIN a : ~Calls!IsInf(res[i]) => res[i] \in Calls!Finite,
           Calls!Checked(a, b, res) # Calls!Error
    PROVE  Calls!Checked(a, b, res) \in Calls!Vectors
<1>1. Calls!Checked(a, b, res) = res /\ \A i \in DOMAIN res : ~Calls!IsInf(res[i])
  BY DEF Calls!Checked, Calls!NoOverflow
<1>2. DOMAIN a = 1 .. Len(a) /\ Len(a) \in 1 .. MaxDim
  BY VectorsAre
<1>3. res \in [1 .. Len(a) -> Calls!Finite]
  BY <1>1, <1>2
<1> QED BY <1>1, <1>2, <1>3, IsVector

LEMMA AddIsVector ==
    ASSUME NEW a \in Calls!Vectors, NEW b \in Calls!Vectors,
           Calls!hvector_add(a, b) # Calls!Error
    PROVE  Calls!hvector_add(a, b) \in Calls!Vectors
<1> DEFINE res == [i \in DOMAIN a |-> Calls!ToFloat(a[i] + b[i], 1)]
<1>1. Len(a) = Len(b)
  BY DEF Calls!hvector_add, Calls!Checked, Calls!CheckDims
<1>2. \A i \in DOMAIN a : a[i] + b[i] \in Int
  BY <1>1, VectorsAre
<1>3. \A i \in DOMAIN a : ~Calls!IsInf(res[i]) => res[i] \in Calls!Finite
  BY <1>2, FloatIs
<1>4. Calls!hvector_add(a, b) = Calls!Checked(a, b, res)
  BY DEF Calls!hvector_add
<1>5. DOMAIN res = DOMAIN a /\ res = [i \in DOMAIN a |-> res[i]]
  OBVIOUS
<1> HIDE DEF res
<1> QED BY <1>3, <1>4, <1>5, CheckedIsVector

LEMMA SubIsVector ==
    ASSUME NEW a \in Calls!Vectors, NEW b \in Calls!Vectors,
           Calls!hvector_sub(a, b) # Calls!Error
    PROVE  Calls!hvector_sub(a, b) \in Calls!Vectors
<1> DEFINE res == [i \in DOMAIN a |-> Calls!ToFloat(a[i] - b[i], 1)]
<1>1. Len(a) = Len(b)
  BY DEF Calls!hvector_sub, Calls!Checked, Calls!CheckDims
<1>2. \A i \in DOMAIN a : a[i] - b[i] \in Int
  BY <1>1, VectorsAre
<1>3. \A i \in DOMAIN a : ~Calls!IsInf(res[i]) => res[i] \in Calls!Finite
  BY <1>2, FloatIs
<1>4. Calls!hvector_sub(a, b) = Calls!Checked(a, b, res)
  BY DEF Calls!hvector_sub
<1>5. DOMAIN res = DOMAIN a /\ res = [i \in DOMAIN a |-> res[i]]
  OBVIOUS
<1> HIDE DEF res
<1> QED BY <1>3, <1>4, <1>5, CheckedIsVector

LEMMA MulIsVector ==
    ASSUME NEW a \in Calls!Vectors, NEW b \in Calls!Vectors,
           Calls!hvector_mul(a, b) # Calls!Error
    PROVE  Calls!hvector_mul(a, b) \in Calls!Vectors
<1> DEFINE res == [i \in DOMAIN a |-> Calls!Times(a[i], b[i])]
<1>1. Calls!hvector_mul(a, b) = Calls!Checked(a, b, res)
  BY DEF Calls!hvector_mul
<1>2. Len(a) = Len(b)
  BY <1>1 DEF Calls!Checked, Calls!CheckDims
<1>3. \A i \in DOMAIN a : a[i] \in Int /\ b[i] \in Int
  BY <1>2, VectorsAre
<1>4. \A i \in DOMAIN a : ~Calls!IsInf(res[i]) => res[i] \in Calls!Finite
  BY <1>3, ProductIs
<1>5. DOMAIN res = DOMAIN a /\ res = [i \in DOMAIN a |-> res[i]]
  OBVIOUS
<1> HIDE DEF res
<1> QED BY <1>1, <1>4, <1>5, CheckedIsVector

LEMMA ConcatIs ==
    ASSUME NEW a \in Calls!Vectors, NEW b \in Calls!Vectors,
           Calls!hvector_concat(a, b) # Calls!Error
    PROVE  /\ Calls!hvector_concat(a, b) \in Calls!Vectors
           /\ Calls!hvector_concat(a, b) = a \o b
           /\ Len(a \o b) = Len(a) + Len(b) /\ Len(a) + Len(b) <= MaxDim
           /\ \A i \in 1 .. Len(a) + Len(b) :
                (a \o b)[i] = IF i <= Len(a) THEN a[i] ELSE b[i - Len(a)]
<1>1. Calls!hvector_concat(a, b) = a \o b /\ Len(a) + Len(b) \in 1 .. MaxDim
  BY DEF Calls!hvector_concat, Calls!CheckDim, Calls!Dims
<1>2. a \in Seq(Calls!Finite) /\ b \in Seq(Calls!Finite)
  BY VectorsAre
<1>3. /\ a \o b \in Seq(Calls!Finite) /\ Len(a \o b) = Len(a) + Len(b)
      /\ \A i \in 1 .. Len(a) + Len(b) :
            (a \o b)[i] = IF i <= Len(a) THEN a[i] ELSE b[i - Len(a)]
  BY <1>2, ConcatProperties
<1>4. a \o b \in [1 .. Len(a) + Len(b) -> Calls!Finite]
  BY <1>3, LenProperties
<1>5. a \o b \in Calls!Vectors
  BY <1>1, <1>4, IsVector
<1> QED BY <1>1, <1>3, <1>5
LEMMA QuotientIs ==
    ASSUME NEW x \in Int, NEW s \in Int
    PROVE  Calls!DivideByRoot(x, s) \in Calls!Finite
<1> DEFINE S == {m \in Magnitudes : m * m * s <= x * x * Unit}
<1>1. Magnitudes \in SUBSET (0 .. MaxFloat) /\ 0 \in Magnitudes /\ MaxFloat \in Nat /\ Unit \in Nat
  BY HVectorAssumption
<1>2. 0 \in S
  <2>1. 0 * 0 * s = 0
    OBVIOUS
  <2>2. x * x >= 0 /\ x * x \in Int
    OBVIOUS
  <2>3. \A y \in Int : y >= 0 => y * Unit >= 0
    BY <1>1
  <2>4. x * x * Unit >= 0
    BY <2>2, <2>3
  <2> QED BY <1>1, <2>1, <2>4
<1>3. S \in SUBSET Magnitudes /\ S # {}
  BY <1>2
<1>4. Max(S) \in Magnitudes
  <2> HIDE DEF S
  <2>1. S \in SUBSET (0 .. MaxFloat)
    BY <1>1, <1>3
  <2> QED BY <1>1, <1>3, <2>1, GreatestOf
<1>5. Calls!DivideByRoot(x, s) = IF x < 0 THEN -Max(S) ELSE Max(S)
  BY DEF Calls!DivideByRoot, Calls!Max, Max
<1> HIDE DEF S
<1>6. Max(S) \in Finite /\ -Max(S) \in Finite
  BY <1>4 DEF Finite
<1> QED BY <1>5, <1>6, SameFloats

LEMMA SquareSumIsInt == ASSUME NEW a \in Calls!Vectors PROVE Calls!SquareSum(a) \in Int
<1> DEFINE F == [i \in DOMAIN a |-> Calls!Times(a[i], a[i])]
<1>1. DOMAIN a = 1 .. Len(a) /\ Len(a) \in Nat /\ \A i \in 1 .. Len(a) : a[i] \in Int
  BY VectorsAre
<1>2. IsFiniteSet(DOMAIN a)
  BY <1>1, FS_Interval
<1>3. \A i \in DOMAIN a : F[i] \in Int
  BY <1>1, ProductIs
<1>4. Calls!SquareSum(a) = SumOn(F, DOMAIN a)
  BY <1>2, SquareSumIsSumOn
<1> HIDE DEF F
<1> QED BY <1>2, <1>3, <1>4, SumOnAdds

LEMMA NormalizeIsVector ==
    ASSUME NEW a \in Calls!Vectors
    PROVE  Calls!hvector_l2_normalize(a) \in Calls!Vectors
<1>1. DOMAIN a = 1 .. Len(a) /\ Len(a) \in 1 .. MaxDim /\ \A i \in 1 .. Len(a) : a[i] \in Int
  BY VectorsAre
<1>2. Calls!SquareSum(a) \in Int
  BY SquareSumIsInt
<1>3. 0 \in Calls!Finite
  BY SameFloats, FloatsAre
<1>4. Calls!hvector_l2_normalize(a) \in [1 .. Len(a) -> Calls!Finite]
  <2>1. \A i \in 1 .. Len(a) : Calls!DivideByRoot(a[i], Calls!SquareSum(a)) \in Calls!Finite
    BY <1>1, <1>2, QuotientIs
  <2> QED BY <1>1, <1>3, <2>1 DEF Calls!hvector_l2_normalize
<1> QED BY <1>1, <1>4, IsVector

LEMMA RecvIsVector ==
    ASSUME NEW msg \in Messages, NEW mod, Calls!hvector_recv(msg, mod) # Calls!Error
    PROVE  Calls!hvector_recv(msg, mod) \in Calls!Vectors
<1>1. /\ msg.dim \in 1 .. MaxDim /\ msg.dim <= Len(msg.data)
      /\ \A i \in 1 .. msg.dim : Calls!is_valid_float(msg.data[i])
      /\ Calls!hvector_recv(msg, mod) = SubSeq(msg.data, 1, msg.dim)
  BY DEF Calls!hvector_recv, Calls!CheckDim, Calls!Dims
<1>2. msg.data \in Seq(Floats)
  BY HVectorMachinesAssumption
<1>3. Len(msg.data) \in Nat /\ \A i \in 1 .. Len(msg.data) : msg.data[i] \in Floats
  BY <1>2, LenProperties, ElementOfSeq
<1>4. \A i \in 1 .. msg.dim : msg.data[i] \in Calls!Finite
  BY <1>1, <1>3, SameFloats DEF Calls!is_valid_float, Calls!IsInf, Floats
<1>5. msg.dim \in Int /\ msg.dim - 1 + 1 = msg.dim
  BY <1>1
<1>6. /\ SubSeq(msg.data, 1, msg.dim) \in Seq(Calls!Finite)
      /\ Len(SubSeq(msg.data, 1, msg.dim)) = msg.dim
  BY <1>1, <1>4, <1>5, SubSeqProperties
<1>7. SubSeq(msg.data, 1, msg.dim) \in [1 .. msg.dim -> Calls!Finite]
  BY <1>6, LenProperties
<1> QED BY <1>1, <1>7, IsVector

LEMMA ArrayIsVector ==
    ASSUME NEW arr \in Arrays, NEW mod, Calls!array_to_hvector(arr, mod) # Calls!Error
    PROVE  Calls!array_to_hvector(arr, mod) \in Calls!Vectors
<1> DEFINE vec == [i \in DOMAIN arr.data |->
                      IF arr.data[i] = Calls!NaN THEN Calls!NaN ELSE Calls!ToFloat(arr.data[i], 1)]
<1>1. /\ Len(vec) \in 1 .. MaxDim /\ \A i \in DOMAIN vec : Calls!is_valid_float(vec[i])
      /\ Calls!array_to_hvector(arr, mod) = vec
  BY DEF Calls!array_to_hvector, Calls!CheckDim, Calls!Dims
<1>2. /\ arr.data \in Seq(Int) /\ Len(arr.data) \in Nat /\ DOMAIN arr.data = 1 .. Len(arr.data)
      /\ \A i \in DOMAIN arr.data : arr.data[i] \in Int
  BY HVectorMachinesAssumption, LenProperties
<1>3. ASSUME NEW i \in DOMAIN arr.data PROVE vec[i] \in Calls!Finite
  <2>1. Calls!is_valid_float(vec[i])
    BY <1>1
  <2>2. vec[i] # Calls!NaN /\ ~Calls!IsInf(vec[i])
    <3> HIDE DEF vec
    <3> QED BY <2>1 DEF Calls!is_valid_float
  <2>3. vec[i] = Calls!ToFloat(arr.data[i], 1)
    BY <2>2
  <2> HIDE DEF vec
  <2>4. 1 \in Nat \ {0} /\ arr.data[i] \in Int
    BY <1>2
  <2> QED BY <2>2, <2>3, <2>4, FloatIs
<1>4. vec \in [1 .. Len(arr.data) -> Calls!Finite]
  BY <1>2, <1>3
<1>5. Len(vec) = Len(arr.data)
  BY <1>2, <1>4
<1> HIDE DEF vec
<1> QED BY <1>1, <1>4, <1>5, IsVector

-----------------------------------------------------------------------------
(* Slices.                                                                 *)

LEMMA WrapIs == ASSUME NEW x \in Calls!Int32 PROVE Calls!Wrap(x) = x
<1>1. x \in Int /\ MaxInt \in Nat /\ 0 <= x + MaxInt + 1 /\ x + MaxInt + 1 < 2 * MaxInt + 2
  BY HVectorAssumption DEF Calls!Int32
<1>2. \A y, m \in Nat : y < m => y % m = y
  OBVIOUS
<1>3. (x + MaxInt + 1) % (2 * MaxInt + 2) = x + MaxInt + 1
  BY <1>1, <1>2
<1> QED BY <1>1, <1>3 DEF Calls!Wrap

\* What hvector_subvector returns: no sum or difference it calculates from
\* arguments it accepts is beyond 32 bits.
First(start) == IF start < 1 THEN 1 ELSE start
End(a, start, count) == IF start > Len(a) - count THEN Len(a) + 1 ELSE start + count

LEMMA SubvectorIs ==
    ASSUME NEW a \in Calls!Vectors, NEW start \in Calls!Int32, NEW count \in Calls!Int32
    PROVE  Calls!hvector_subvector(a, start, count) =
               IF count >= 1 /\ start <= Len(a) /\ End(a, start, count) - First(start) \in 1 .. MaxDim
               THEN [i \in 1 .. End(a, start, count) - First(start) |-> a[First(start) - 1 + i]]
               ELSE Calls!Error
<1>1. /\ start \in Int /\ count \in Int /\ MaxInt \in Nat /\ MaxDim \in Nat /\ MaxDim < MaxInt
      /\ start <= MaxInt /\ -MaxInt - 1 <= start /\ count <= MaxInt
  BY HVectorAssumption DEF Calls!Int32
<1>2. Len(a) \in Nat /\ Len(a) <= MaxDim
  BY <1>1, VectorsAre
<1>3. CASE count >= 1 /\ start <= Len(a)
  <2>1. Len(a) - count \in Calls!Int32
    BY <1>1, <1>2, <1>3 DEF Calls!Int32
  <2>2. Calls!SubvectorEnd(a, start, count) = End(a, start, count)
    <3>1. CASE start > Len(a) - count
      BY <2>1, <3>1, WrapIs DEF Calls!SubvectorEnd, End
    <3>2. CASE ~(start > Len(a) - count)
      <4>1. start + count \in Calls!Int32
        BY <1>1, <1>2, <1>3, <3>2 DEF Calls!Int32
      <4> QED BY <2>1, <3>2, <4>1, WrapIs DEF Calls!SubvectorEnd, End
    <3> QED BY <3>1, <3>2
  <2>3. End(a, start, count) - First(start) \in Calls!Int32
    BY <1>1, <1>2, <1>3 DEF End, First, Calls!Int32
  <2>4. Calls!Wrap(Calls!SubvectorEnd(a, start, count) - First(start)) = End(a, start, count) - First(start)
    BY <2>2, <2>3, WrapIs
  <2> QED BY <1>3, <2>4 DEF Calls!hvector_subvector, Calls!CheckDim, Calls!Dims, First
<1>4. CASE ~(count >= 1 /\ start <= Len(a))
  BY <1>4 DEF Calls!hvector_subvector
<1> QED BY <1>3, <1>4
LEMMA SameCardinality == \A S : Calls!Cardinality(S) = Cardinality(S)
BY Zenon DEF Cardinality, Calls!Cardinality

LEMMA LeastOfInterval ==
    ASSUME NEW m \in Int, NEW n \in Int, m <= n
    PROVE  Calls!Min(m .. n) = m /\ Calls!Cardinality(m .. n) = n - m + 1
<1>1. Calls!Min(m .. n) = m
  <2>1. m \in m .. n /\ \A k \in m .. n : m <= k
    OBVIOUS
  <2>2. \A x \in m .. n : (\A k \in m .. n : x <= k) => x = m
    OBVIOUS
  <2> QED BY <2>1, <2>2 DEF Calls!Min
<1>2. Cardinality(m .. n) = n - m + 1
  BY FS_Interval
<1> QED BY <1>1, <1>2, SameCardinality

LEMMA SliceIs == ASSUME Calls!TypeOK PROVE Calls!SubvectorIsSlice
<1>1. u \in Calls!Vectors /\ DOMAIN u = 1 .. Len(u) /\ Len(u) \in Nat /\ Len(u) <= MaxDim
  BY VectorsAre DEF Calls!TypeOK
<1> SUFFICES ASSUME NEW start \in Calls!Int32, NEW count \in Calls!Int32
    PROVE  LET taken == {i \in DOMAIN u : start <= i /\ i < start + count}
               res == Calls!hvector_subvector(u, start, count)
           IN  IF taken = {} THEN res = Calls!Error
               ELSE res = [i \in 1 .. Calls!Cardinality(taken) |-> u[Calls!Min(taken) + i - 1]]
  BY DEF Calls!SubvectorIsSlice
<1> DEFINE taken == {i \in DOMAIN u : start <= i /\ i < start + count}
           res == Calls!hvector_subvector(u, start, count)
           f == First(start)
           e == End(u, start, count)
<1>2. start \in Int /\ count \in Int /\ MaxDim \in Nat
  BY HVectorAssumption DEF Calls!Int32
<1>3. f \in Int /\ f >= 1 /\ e \in Int
  BY <1>1, <1>2 DEF First, End
<1>4. CASE count >= 1 /\ start <= Len(u)
  <2>1. e <= Len(u) + 1
    BY <1>1, <1>2, <1>4 DEF End
  <2>2. taken = f .. e - 1
    BY <1>1, <1>2, <1>4 DEF First, End
  <2>3. res = IF e - f \in 1 .. MaxDim THEN [i \in 1 .. e - f |-> u[f - 1 + i]] ELSE Calls!Error
    BY <1>1, <1>4, SubvectorIs
  <2> HIDE DEF taken, res, f, e
  <2>4. CASE e - f < 1
    <3>1. taken = {}
      BY <1>3, <2>2, <2>4
    <3> QED BY <1>3, <2>3, <2>4, <3>1 DEF taken, res
  <2>5. CASE ~(e - f < 1)
    <3>1. taken # {} /\ f <= e - 1
      <4>1. f <= e - 1
        BY <1>3, <2>5
      <4>2. f \in taken
        BY <1>3, <2>2, <4>1
      <4> QED BY <4>1, <4>2
    <3>2. Calls!Min(taken) = f /\ Calls!Cardinality(taken) = e - f
      BY <1>3, <2>2, <3>1, LeastOfInterval
    <3>3. e - f \in 1 .. MaxDim
      BY <1>1, <1>2, <1>3, <2>1, <2>5
    <3>4. \A i \in 1 .. e - f : f - 1 + i = f + i - 1
      BY <1>3
    <3>5. res = [i \in 1 .. e - f |-> u[f + i - 1]]
      BY <2>3, <3>3, <3>4
    <3> QED BY <3>1, <3>2, <3>5 DEF taken, res
  <2> QED BY <2>4, <2>5
<1>5. CASE ~(count >= 1 /\ start <= Len(u))
  <2>1. taken = {}
    BY <1>1, <1>2, <1>5
  <2>2. res = Calls!Error
    BY <1>1, <1>5, SubvectorIs
  <2> QED BY <2>1, <2>2
<1> QED BY <1>4, <1>5

LEMMA SubvectorIsVector ==
    ASSUME NEW a \in Calls!Vectors, NEW start \in Calls!Int32, NEW count \in Calls!Int32,
           Calls!hvector_subvector(a, start, count) # Calls!Error
    PROVE  Calls!hvector_subvector(a, start, count) \in Calls!Vectors
<1> DEFINE f == First(start)
           e == End(a, start, count)
           n == e - f
<1>1. /\ count >= 1 /\ start <= Len(a) /\ n \in 1 .. MaxDim
      /\ Calls!hvector_subvector(a, start, count) = [i \in 1 .. n |-> a[f - 1 + i]]
  BY SubvectorIs
<1>2. a \in [1 .. Len(a) -> Calls!Finite] /\ Len(a) \in Nat /\ start \in Int /\ count \in Int
  BY VectorsAre, HVectorAssumption DEF Calls!Int32
<1>3. f \in Int /\ f >= 1 /\ e \in Int /\ e <= Len(a) + 1
  BY <1>1, <1>2 DEF First, End
<1>4. \A i \in 1 .. n : f - 1 + i \in 1 .. Len(a)
  <2> HIDE DEF f, e
  <2> QED BY <1>2, <1>3
<1> HIDE DEF f, n
<1>5. [i \in 1 .. n |-> a[f - 1 + i]] \in [1 .. n -> Calls!Finite]
  BY <1>2, <1>4
<1> QED BY <1>1, <1>5, IsVector

-----------------------------------------------------------------------------
(* In every behaviour, values are vectors.                                 *)

LEMMA CallsInitInv == ASSUME Calls!Init PROVE Calls!TypeOK
<1>1. Vectors = Calls!Vectors
  BY DEF Vectors, Dims, Finite, Calls!Vectors, Calls!Dims, Calls!Finite
<1> QED BY <1>1, HVectorMachinesAssumption DEF Calls!Init, Calls!TypeOK

LEMMA CallsStepInv == ASSUME Calls!TypeOK, Calls!Next PROVE Calls!TypeOK'
<1> USE DEF Calls!TypeOK, Calls!Returns
<1>1. CASE Calls!Add
  BY <1>1, AddIsVector DEF Calls!Add
<1>2. CASE Calls!Sub
  BY <1>2, SubIsVector DEF Calls!Sub
<1>3. CASE Calls!Mul
  BY <1>3, MulIsVector DEF Calls!Mul
<1>4. CASE Calls!Concat
  BY <1>4, ConcatIs DEF Calls!Concat
<1>5. CASE Calls!Subvector
  BY <1>5, SubvectorIsVector DEF Calls!Subvector
<1>6. CASE Calls!Normalize
  BY <1>6, NormalizeIsVector DEF Calls!Normalize
<1>7. CASE Calls!Cast
  BY <1>7 DEF Calls!Cast, Calls!hvector
<1>8. CASE Calls!Receive
  BY <1>8, RecvIsVector DEF Calls!Receive
<1>9. CASE Calls!FromArray
  BY <1>9, ArrayIsVector DEF Calls!FromArray
<1> QED BY <1>1, <1>2, <1>3, <1>4, <1>5, <1>6, <1>7, <1>8, <1>9 DEF Calls!Next
-----------------------------------------------------------------------------
(* Text: HVectorText.                                                      *)

TokenSet == {Text!Space, Text!Open, Text!Close, Text!Comma} \cup {Text!Number(x) : x \in Floats}

\* What is written before a place of the text
Before(t, p) == {j \in Text!Written(t) : j < p}

LEMMA TokensAre ==
    \A tok \in TokenSet :
        /\ tok.kind = "space" <=> tok = Text!Space
        /\ tok.kind = "open" <=> tok = Text!Open
        /\ tok.kind = "close" <=> tok = Text!Close
        /\ tok.kind = "comma" <=> tok = Text!Comma
        /\ tok.kind = "number" <=> \E x \in Floats : tok = Text!Number(x)
        /\ tok.kind = "number" => tok = Text!Number(tok.val) /\ tok.val \in Floats
        /\ tok.kind \in {"space", "open", "close", "comma", "number"}
<1> SUFFICES ASSUME NEW tok \in TokenSet
    PROVE  /\ tok.kind = "space" <=> tok = Text!Space
           /\ tok.kind = "open" <=> tok = Text!Open
           /\ tok.kind = "close" <=> tok = Text!Close
           /\ tok.kind = "comma" <=> tok = Text!Comma
           /\ tok.kind = "number" <=> \E x \in Floats : tok = Text!Number(x)
           /\ tok.kind = "number" => tok = Text!Number(tok.val) /\ tok.val \in Floats
           /\ tok.kind \in {"space", "open", "close", "comma", "number"}
  OBVIOUS
<1>1. /\ Text!Space.kind = "space" /\ Text!Open.kind = "open" /\ Text!Close.kind = "close"
      /\ Text!Comma.kind = "comma"
      /\ \A x : Text!Number(x).kind = "number" /\ Text!Number(x).val = x
  BY DEF Text!Space, Text!Open, Text!Close, Text!Comma, Text!Number
<1>2. CASE tok \in {Text!Space, Text!Open, Text!Close, Text!Comma}
  BY <1>1, <1>2
<1>3. CASE \E x \in Floats : tok = Text!Number(x)
  BY <1>1, <1>3
<1> QED BY <1>2, <1>3 DEF TokenSet

LEMMA NumbersDiffer == \A x, y : Text!Number(x) = Text!Number(y) => x = y
<1>1. \A x : Text!Number(x).val = x
  BY DEF Text!Number
<1> QED BY <1>1

LEMMA WrittenIs ==
    ASSUME NEW t \in Seq(TokenSet)
    PROVE  /\ Len(t) \in Nat /\ DOMAIN t = 1 .. Len(t)
           /\ \A k \in Text!Written(t) : k \in 1 .. Len(t) /\ t[k] \in TokenSet /\ t[k] # Text!Space
           /\ \A k \in 1 .. Len(t) : t[k] \in TokenSet /\ (k \in Text!Written(t) \/ t[k] = Text!Space)
           /\ IsFiniteSet(Text!Written(t))
           /\ \A p : IsFiniteSet(Before(t, p)) /\ Cardinality(Before(t, p)) \in Nat
           /\ \A S : Text!Cardinality(S) = Cardinality(S)
<1>1. Len(t) \in Nat /\ DOMAIN t = 1 .. Len(t) /\ \A k \in 1 .. Len(t) : t[k] \in TokenSet
  OBVIOUS
<1>2. Text!Written(t) = {k \in 1 .. Len(t) : t[k] # Text!Space}
  BY <1>1 DEF Text!Written
<1>3. IsFiniteSet(1 .. Len(t))
  BY <1>1, FS_Interval
<1>4. IsFiniteSet(Text!Written(t))
  BY <1>2, <1>3, FS_Subset
<1>5. \A p : IsFiniteSet(Before(t, p)) /\ Cardinality(Before(t, p)) \in Nat
  <2> TAKE p
  <2>1. Before(t, p) \in SUBSET Text!Written(t)
    BY DEF Before
  <2> QED BY <1>4, <2>1, FS_Subset, FS_CardinalityType
<1>6. \A S : Text!Cardinality(S) = Cardinality(S)
  BY Zenon DEF Cardinality, Text!Cardinality
<1> QED BY <1>1, <1>2, <1>4, <1>5, <1>6

\* A token has the place in NoSpace that its rank says.
LEMMA PlaceOfToken ==
    ASSUME NEW t \in Seq(TokenSet), NEW k \in Text!Written(t)
    PROVE  /\ Before(t, k + 1) = Before(t, k) \cup {k} /\ k \notin Before(t, k)
           /\ Cardinality(Before(t, k + 1)) = Cardinality(Before(t, k)) + 1
           /\ Cardinality(Before(t, k)) + 1 <= Cardinality(Text!Written(t))
           /\ Text!NoSpace(t)[Cardinality(Before(t, k)) + 1] = t[k]
<1> DEFINE W == Text!Written(t)
<1>1. /\ IsFiniteSet(W) /\ \A j \in W : j \in Nat /\ t[j] \in TokenSet
      /\ Cardinality(W) \in Nat
      /\ \A p : IsFiniteSet(Before(t, p)) /\ Cardinality(Before(t, p)) \in Nat
      /\ \A S : Text!Cardinality(S) = Cardinality(S)
  BY WrittenIs, FS_CardinalityType
<1>2. ASSUME NEW j \in W
      PROVE  /\ Before(t, j + 1) = Before(t, j) \cup {j} /\ j \notin Before(t, j)
             /\ Text!Rank(t, j) = Cardinality(Before(t, j + 1))
             /\ Cardinality(Before(t, j + 1)) = Cardinality(Before(t, j)) + 1
  <2>1. Before(t, j + 1) = Before(t, j) \cup {j} /\ j \notin Before(t, j)
    BY <1>1 DEF Before
  <2>2. {m \in Text!Written(t) : m <= j} = Before(t, j + 1)
    BY <1>1 DEF Before
  <2>3. Text!Rank(t, j) = Cardinality(Before(t, j + 1))
    BY <1>1, <2>2 DEF Text!Rank
  <2> QED BY <1>1, <2>1, <2>3, FS_AddElement
<1>3. ASSUME NEW i \in W, NEW j \in W, i < j
      PROVE  Text!Rank(t, i) < Text!Rank(t, j)
  <2>1. Before(t, i + 1) \in SUBSET Before(t, j)
    BY <1>1, <1>3 DEF Before
  <2>2. Cardinality(Before(t, i + 1)) <= Cardinality(Before(t, j))
    BY <1>1, <2>1, FS_Subset
  <2> QED BY <1>1, <1>2, <2>2
<1>4. \A i, j \in W : Text!Rank(t, i) = Text!Rank(t, j) => i = j
  <2> SUFFICES ASSUME NEW i \in W, NEW j \in W, Text!Rank(t, i) = Text!Rank(t, j), i # j
               PROVE  FALSE
    OBVIOUS
  <2>1. Text!Rank(t, i) \in Nat
    BY <1>1, <1>2
  <2>2. i < j \/ j < i
    BY <1>1
  <2> QED BY <1>3, <2>1, <2>2
<1>5. \A j \in W : Text!Rank(t, j) \in 1 .. Cardinality(W)
  <2> TAKE j \in W
  <2>1. Before(t, j + 1) \in SUBSET W
    BY DEF Before
  <2>2. Cardinality(Before(t, j + 1)) <= Cardinality(W)
    BY <1>1, <2>1, FS_Subset
  <2> QED BY <1>1, <1>2, <2>2
<1>6. Text!NoSpace(t) = [r \in 1 .. Cardinality(W) |-> t[CHOOSE j \in W : Text!Rank(t, j) = r]]
  BY <1>1 DEF Text!NoSpace
<1>7. \A j \in W : Text!NoSpace(t)[Text!Rank(t, j)] = t[j]
  <2> TAKE j \in W
  <2>1. (CHOOSE m \in W : Text!Rank(t, m) = Text!Rank(t, j)) = j
    BY <1>4
  <2> QED BY <1>5, <1>6, <2>1
<1> QED BY <1>2, <1>5, <1>7

LEMMA LengthOfText ==
    ASSUME NEW t \in Seq(TokenSet)
    PROVE  /\ Len(Text!NoSpace(t)) = Cardinality(Text!Written(t)) /\ Len(Text!NoSpace(t)) \in Nat
           /\ Before(t, Len(t) + 1) = Text!Written(t) /\ Before(t, 1) = {}
<1>1. Text!Cardinality(Text!Written(t)) = Cardinality(Text!Written(t)) /\ Cardinality(Text!Written(t)) \in Nat
  BY WrittenIs, FS_CardinalityType
<1>2. Len(Text!NoSpace(t)) = Cardinality(Text!Written(t))
  <2> DEFINE n == Cardinality(Text!Written(t))
  <2>1. Text!NoSpace(t) = [r \in 1 .. n |-> t[CHOOSE j \in Text!Written(t) : Text!Rank(t, j) = r]]
    BY <1>1 DEF Text!NoSpace
  <2>2. n \in Nat
    BY <1>1
  <2> HIDE DEF n
  <2>3. Len(Text!NoSpace(t)) = n
    BY <2>1, <2>2
  <2> QED BY <2>3 DEF n
<1>3. Before(t, Len(t) + 1) = Text!Written(t) /\ Before(t, 1) = {}
  BY WrittenIs DEF Before
<1> QED BY <1>1, <1>2, <1>3

\* SkipSpace goes to the next token that is not a space, or to the end.
LEMMA SkipSpaceIs ==
    ASSUME lit \in Seq(TokenSet), NEW p \in 1 .. Len(lit) + 1
    PROVE  /\ Text!SkipSpace(p) \in p .. Len(lit) + 1
           /\ Before(lit, Text!SkipSpace(p)) = Before(lit, p)
           /\ Text!SkipSpace(p) <= Len(lit) => /\ Text!SkipSpace(p) \in Text!Written(lit)
                                              /\ Text!At(Text!SkipSpace(p)) = lit[Text!SkipSpace(p)].kind
           /\ Text!SkipSpace(p) > Len(lit) => Text!At(Text!SkipSpace(p)) = "end"
<1> DEFINE S == {j \in p .. Len(lit) + 1 : Text!At(j) # "space"}
           k == Text!SkipSpace(p)
           n == Len(lit)
<1>1. n \in Nat /\ p \in Nat /\ p >= 1 /\ p <= n + 1
  OBVIOUS
<1>2. \A j \in p .. n + 1 : j <= n => Text!At(j) = lit[j].kind /\ lit[j] \in TokenSet
  BY <1>1 DEF Text!At
<1>3. \A j \in p .. n + 1 : j > n => Text!At(j) = "end"
  BY <1>1 DEF Text!At
<1>4. S \in SUBSET Nat /\ n + 1 \in S
  <2>1. n + 1 \in p .. n + 1 /\ n + 1 > n
    BY <1>1
  <2> QED BY <1>1, <1>3, <2>1
<1>5. k \in S /\ \A j \in S : k <= j
  <2>1. k = Text!Min(S)
    BY DEF Text!SkipSpace
  <2> HIDE DEF S, k
  <2>2. \E m \in S : \A j \in S : m <= j
    BY <1>4, LeastOf
  <2> QED BY <2>1, <2>2 DEF Text!Min
<1> HIDE DEF k
<1>6. k \in p .. n + 1 /\ Text!At(k) # "space" /\ k \in Nat
  BY <1>1, <1>5
<1>7. \A j \in p .. n + 1 : j < k => Text!At(j) = "space"
  <2> TAKE j \in p .. n + 1
  <2>1. j < k => j \notin S
    BY <1>5, <1>6
  <2> QED BY <2>1
<1>8. \A j \in p .. n + 1 : j < k => j \notin Text!Written(lit)
  <2> TAKE j \in p .. n + 1
  <2> SUFFICES ASSUME j < k PROVE j \notin Text!Written(lit)
    OBVIOUS
  <2>1. j <= n
    BY <1>6
  <2>2. lit[j].kind = "space" /\ lit[j] \in TokenSet
    BY <1>2, <1>7, <2>1
  <2>3. lit[j] = Text!Space
    BY <2>2, TokensAre
  <2> QED BY <2>3 DEF Text!Written
<1>9. Before(lit, k) = Before(lit, p)
  <2>1. ASSUME NEW j \in Text!Written(lit) PROVE j < k <=> j < p
    <3>1. j \in 1 .. n
      BY WrittenIs
    <3>2. j < k /\ ~(j < p) => j \in p .. n + 1
      BY <1>1, <1>6, <3>1
    <3>3. j < p => j < k
      BY <1>1, <1>6, <3>1
    <3> QED BY <1>8, <3>2, <3>3
  <2> QED BY <2>1 DEF Before
<1>10. k <= n => k \in Text!Written(lit) /\ Text!At(k) = lit[k].kind
  <2> SUFFICES ASSUME k <= n PROVE k \in Text!Written(lit) /\ Text!At(k) = lit[k].kind
    OBVIOUS
  <2>1. Text!At(k) = lit[k].kind /\ lit[k] \in TokenSet
    BY <1>2, <1>6
  <2>2. lit[k] # Text!Space
    BY <1>6, <2>1, TokensAre
  <2>3. k \in 1 .. n
    BY <1>1, <1>6
  <2> QED BY <2>1, <2>2, <2>3, WrittenIs
<1> QED BY <1>3, <1>6, <1>9, <1>10 DEF k

Count(t, p) == Cardinality(Before(t, p))

LEMMA NextToken ==
    ASSUME lit \in Seq(TokenSet), NEW p \in 1 .. Len(lit) + 1
    PROVE  LET k == Text!SkipSpace(p)
               s == Text!NoSpace(lit)
               r == Count(lit, p)
           IN  /\ r \in Nat /\ Len(s) \in Nat /\ r <= Len(s)
               /\ k \in 1 .. Len(lit) + 1 /\ Count(lit, k) = r
               /\ r < Len(s) => /\ k + 1 \in 1 .. Len(lit) + 1 /\ Count(lit, k + 1) = r + 1
                                /\ s[r + 1] = lit[k] /\ lit[k] \in TokenSet
                                /\ Text!At(k) = lit[k].kind
               /\ r = Len(s) => Text!At(k) = "end"
<1> DEFINE k == Text!SkipSpace(p)
           s == Text!NoSpace(lit)
           r == Count(lit, p)
           n == Len(lit)
<1>1. /\ k \in p .. n + 1 /\ Before(lit, k) = Before(lit, p)
      /\ k <= n => k \in Text!Written(lit) /\ Text!At(k) = lit[k].kind
      /\ k > n => Text!At(k) = "end"
  BY SkipSpaceIs
<1>2. /\ n \in Nat /\ p \in Nat /\ p >= 1 /\ r \in Nat
      /\ Len(s) \in Nat /\ Len(s) = Cardinality(Text!Written(lit))
      /\ Before(lit, n + 1) = Text!Written(lit)
      /\ \A j \in Text!Written(lit) : lit[j] \in TokenSet
  BY WrittenIs, LengthOfText DEF Count
<1>3. ASSUME k <= n
      PROVE  /\ Count(lit, k + 1) = r + 1 /\ r + 1 <= Len(s) /\ s[r + 1] = lit[k] /\ lit[k] \in TokenSet
  <2>1. k \in Text!Written(lit)
    BY <1>1, <1>3
  <2>2. /\ Cardinality(Before(lit, k + 1)) = Cardinality(Before(lit, k)) + 1
        /\ Cardinality(Before(lit, k)) + 1 <= Cardinality(Text!Written(lit))
        /\ s[Cardinality(Before(lit, k)) + 1] = lit[k]
    BY <2>1, PlaceOfToken
  <2> QED BY <1>1, <1>2, <2>1, <2>2 DEF Count
<1>4. ASSUME k > n PROVE r = Len(s)
  <2>1. k = n + 1
    BY <1>1, <1>2, <1>4
  <2> QED BY <1>1, <1>2, <2>1 DEF Count
<1>5. Count(lit, k) = r
  BY <1>1 DEF Count
<1> HIDE DEF k, s, r, n
<1>6. k \in 1 .. n + 1 /\ (k <= n \/ k > n) /\ (k <= n => k + 1 \in 1 .. n + 1)
  BY <1>1, <1>2
<1> QED BY <1>1, <1>2, <1>3, <1>4, <1>5, <1>6 DEF k, s, r, n

\* What has been read so far, up to a number of commas
Read(t, vec, commas) ==
    LET s == Text!NoSpace(t)
    IN  /\ s[1] = Text!Open
        /\ \A i \in 1 .. Len(vec) : s[2 * i] = Text!Number(vec[i])
        /\ \A i \in 1 .. commas : s[2 * i + 1] = Text!Comma

Accepted(t, tm, vec) == Text!Denotes(t, vec) /\ tm \in {-1, Len(vec)}
Rejected(t, tm) == \A vec \in Text!Vectors : ~Accepted(t, tm, vec)

\* Each part of hvector_in has passed the tokens of the elements it has read.
PartInv(t, tm, p, vec, label) ==
    /\ label = "start" => p = 1 /\ vec = <<>>
    /\ label = "element" => Count(t, p) = 2 * Len(vec) + 1 /\ Read(t, vec, Len(vec))
    /\ label = "separator" =>
        Len(vec) >= 1 /\ Count(t, p) = 2 * Len(vec) /\ Read(t, vec, Len(vec) - 1)
    /\ label = "trailing" =>
        /\ Len(vec) >= 1 /\ Count(t, p) = 2 * Len(vec) + 1 /\ Read(t, vec, Len(vec) - 1)
        /\ Text!NoSpace(t)[2 * Len(vec) + 1] = Text!Close
    /\ label = "result" => Len(vec) >= 1 /\ Accepted(t, tm, vec)
    /\ label = "error" => Rejected(t, tm)

ParseInv ==
    /\ lit \in Seq(TokenSet) /\ typmod \in {-1} \cup Text!Dims /\ pt \in 1 .. Len(lit) + 1
    /\ data \in Seq(Text!Finite) /\ Len(data) <= MaxDim
    /\ PartInv(lit, typmod, pt, data, pc)

LEMMA DenotesMeans ==
    ASSUME NEW t, NEW vec \in Text!Vectors, Text!Denotes(t, vec)
    PROVE  LET s == Text!NoSpace(t)
               m == Len(vec)
           IN  /\ m \in 1 .. MaxDim /\ m \in Nat /\ m >= 1 /\ m <= MaxDim /\ Len(s) = 2 * m + 1
               /\ s[1] = Text!Open /\ s[2 * m + 1] = Text!Close
               /\ \A i \in Nat : 1 <= i /\ i <= m => s[2 * i] = Text!Number(vec[i]) /\ vec[i] \in Text!Finite
               /\ \A i \in Nat : 1 <= i /\ i < m => s[2 * i + 1] = Text!Comma
<1>1. PICK n \in 1 .. MaxDim : vec \in [1 .. n -> Text!Finite]
  BY DEF Text!Vectors, Text!Dims
<1>2. n \in Nat /\ n >= 1 /\ n <= MaxDim
  BY HVectorAssumption
<1>3. Len(vec) = n
  BY <1>1, <1>2, LenProperties
<1>4. /\ Len(Text!NoSpace(t)) = 2 * n + 1 /\ Text!NoSpace(t)[1] = Text!Open
      /\ Text!NoSpace(t)[2 * n + 1] = Text!Close
      /\ \A i \in 1 .. n : Text!NoSpace(t)[2 * i] = Text!Number(vec[i])
      /\ \A i \in 1 .. n - 1 : Text!NoSpace(t)[2 * i + 1] = Text!Comma
  BY <1>3 DEF Text!Denotes
<1>5. \A i \in Nat : 1 <= i /\ i <= n => i \in 1 .. n
  BY <1>2
<1>6. \A i \in Nat : 1 <= i /\ i < n => i \in 1 .. n - 1
  BY <1>2
<1> QED BY <1>1, <1>2, <1>3, <1>4, <1>5, <1>6

\* The tokens differ, and only a finite number is the element of a vector.
LEMMA Tokens ==
    /\ Text!Close # Text!Comma /\ Text!Close # Text!Open
    /\ \A x : Text!Number(x) # Text!Comma /\ Text!Number(x) # Text!Close /\ Text!Number(x) # Text!Open
    /\ \A x \in Floats : Text!is_valid_float(x) <=> x \in Text!Finite
<1>1. /\ Text!Close # Text!Comma /\ Text!Close # Text!Open
      /\ \A x : Text!Number(x) # Text!Comma /\ Text!Number(x) # Text!Close /\ Text!Number(x) # Text!Open
  <2>1. /\ Text!Open.kind = "open" /\ Text!Close.kind = "close"
        /\ Text!Comma.kind = "comma" /\ \A x : Text!Number(x).kind = "number"
    BY DEF Text!Open, Text!Close, Text!Comma, Text!Number
  <2> QED BY <2>1
<1>2. \A x \in Floats : Text!is_valid_float(x) <=> x \in Text!Finite
  <2>1. \A x \in Finite : x # NaN /\ x # Inf /\ x # -Inf
    BY FloatsAre
  <2> QED BY <2>1, SameFloats DEF Floats, Text!is_valid_float, Text!IsInf
<1> QED BY <1>1, <1>2

\* A step of hvector_in leaves its arguments alone; where it fails, nothing is read.
LEMMA FailInv ==
    ASSUME ParseInv, Text!Fail, Rejected(lit, typmod)
    PROVE  ParseInv'
<1>1. /\ lit' = lit /\ typmod' = typmod /\ pt' = pt /\ data' = data /\ pc' = "error"
  BY DEF Text!Fail, Text!Goto, Text!Keep
<1> QED BY <1>1 DEF ParseInv, PartInv, Text!Dims, Text!Finite

LEMMA GotoInv ==
    ASSUME ParseInv, NEW label, NEW k \in 1 .. Len(lit) + 1, Text!Goto(label, k), Text!Keep,
           data' \in Seq(Text!Finite), Len(data') <= MaxDim,
           PartInv(lit, typmod, k, data', label)
    PROVE  ParseInv'
<1>1. lit' = lit /\ typmod' = typmod /\ pt' = k /\ pc' = label
  BY DEF Text!Goto, Text!Keep
<1> QED BY <1>1 DEF ParseInv, Text!Dims, Text!Finite

LEMMA StartInv == ASSUME ParseInv, Text!Start PROVE ParseInv'
<1> DEFINE s == Text!NoSpace(lit)
           k == Text!SkipSpace(pt)
           l == Text!SkipSpace(k + 1)
<1>1. lit \in Seq(TokenSet) /\ pt = 1 /\ data = <<>> /\ pt \in 1 .. Len(lit) + 1 /\ pc = "start"
  BY DEF ParseInv, PartInv, Text!Start
<1>2. Count(lit, pt) = 0
  BY <1>1, LengthOfText, FS_EmptySet DEF Count
<1>3. /\ Len(s) \in Nat
      /\ 0 < Len(s) => /\ k + 1 \in 1 .. Len(lit) + 1 /\ Count(lit, k + 1) = 1
                       /\ s[1] = lit[k] /\ lit[k] \in TokenSet /\ Text!At(k) = lit[k].kind
      /\ 0 = Len(s) => Text!At(k) = "end"
  <2>1. 0 + 1 = 1
    OBVIOUS
  <2> QED BY <1>1, <1>2, <2>1, NextToken
<1>4. ASSUME 0 < Len(s)
      PROVE  /\ l \in 1 .. Len(lit) + 1 /\ Count(lit, l) = 1 /\ 1 <= Len(s)
             /\ 1 < Len(s) => s[2] = lit[l] /\ lit[l] \in TokenSet /\ Text!At(l) = lit[l].kind
             /\ 1 = Len(s) => Text!At(l) = "end"
  <2>1. 1 + 1 = 2
    OBVIOUS
  <2>2. k + 1 \in 1 .. Len(lit) + 1 /\ Count(lit, k + 1) = 1
    BY <1>3, <1>4
  <2> DEFINE p == k + 1
             j == Text!SkipSpace(p)
  <2>3. p \in 1 .. Len(lit) + 1 /\ Count(lit, p) = 1 /\ j = l
    BY <2>2
  <2> HIDE DEF p, l
  <2>4. /\ j \in 1 .. Len(lit) + 1 /\ Count(lit, j) = 1 /\ 1 <= Len(s)
        /\ 1 < Len(s) => s[1 + 1] = lit[j] /\ lit[j] \in TokenSet /\ Text!At(j) = lit[j].kind
        /\ 1 = Len(s) => Text!At(j) = "end"
    BY <1>1, <2>3, NextToken
  <2> QED BY <2>1, <2>3, <2>4
<1> DEFINE good == Text!At(k) = "open" /\ Text!At(l) # "close"
<1>5. CASE good
  <2>1. Text!Goto("element", l) /\ UNCHANGED data /\ Text!Keep
    BY <1>5 DEF Text!Start
  <2>2. 0 < Len(s)
    BY <1>3, <1>5
  <2>3. s[1] = Text!Open
    BY <1>3, <1>5, <2>2, TokensAre
  <2>4. data' = <<>> /\ <<>> \in Seq(Text!Finite) /\ Len(<<>>) = 0 /\ 0 <= MaxDim
    BY <1>1, <2>1, HVectorAssumption
  <2> HIDE DEF s, k, l
  <2>5. Read(lit, <<>>, Len(<<>>))
    BY <2>3 DEF Read, s
  <2>6. Count(lit, l) = 2 * Len(<<>>) + 1
    BY <1>4, <2>2
  <2>7. PartInv(lit, typmod, l, <<>>, "element")
    BY <2>5, <2>6 DEF PartInv
  <2> QED BY <1>4, <2>1, <2>2, <2>4, <2>7, GotoInv
<1>6. CASE ~good
  <2>1. Text!Fail
    BY <1>6 DEF Text!Start
  <2>2. ASSUME NEW vec \in Text!Vectors, Text!Denotes(lit, vec) PROVE FALSE
    <3>1. /\ Len(vec) \in Nat /\ Len(vec) >= 1 /\ Len(s) = 2 * Len(vec) + 1 /\ s[1] = Text!Open
          /\ s[2 * 1] = Text!Number(vec[1]) /\ vec[1] \in Text!Finite
      BY <2>2, DenotesMeans
    <3>2. 0 < Len(s) /\ 1 < Len(s) /\ s[2] = Text!Number(vec[1])
      BY <3>1
    <3>3. Text!At(k) = "open" /\ Text!At(l) = s[2].kind
      BY <1>3, <1>4, <3>1, <3>2, TokensAre
    <3>4. s[2].kind = "number"
      BY <3>2 DEF Text!Number
    <3> QED BY <1>6, <3>3, <3>4
  <2> QED BY <2>1, <2>2, FailInv DEF Rejected, Accepted
<1> QED BY <1>5, <1>6

LEMMA ElementInv == ASSUME ParseInv, Text!Element PROVE ParseInv'
<1> DEFINE s == Text!NoSpace(lit)
           k == Text!SkipSpace(pt)
           n == Len(data)
<1>1. /\ lit \in Seq(TokenSet) /\ pt \in 1 .. Len(lit) + 1 /\ pc = "element"
      /\ data \in Seq(Text!Finite) /\ n \in Nat /\ n <= MaxDim /\ MaxDim \in Nat
      /\ Count(lit, pt) = 2 * n + 1
      /\ s[1] = Text!Open
      /\ \A i \in 1 .. n : s[2 * i] = Text!Number(data[i])
      /\ \A i \in 1 .. n : s[2 * i + 1] = Text!Comma
  <2>1. /\ Count(lit, pt) = 2 * n + 1 /\ Read(lit, data, n) /\ pc = "element"
    BY DEF ParseInv, PartInv, Text!Element
  <2> QED BY <2>1, HVectorAssumption DEF ParseInv, Read
<1>2. /\ Len(s) \in Nat /\ 2 * n + 1 <= Len(s)
      /\ 2 * n + 1 < Len(s) => /\ k + 1 \in 1 .. Len(lit) + 1 /\ Count(lit, k + 1) = 2 * n + 2
                               /\ s[2 * n + 2] = lit[k] /\ lit[k] \in TokenSet /\ Text!At(k) = lit[k].kind
      /\ 2 * n + 1 = Len(s) => Text!At(k) = "end"
  <2> DEFINE r == Count(lit, pt)
  <2>1. /\ Len(s) \in Nat /\ r <= Len(s)
        /\ r < Len(s) => /\ k + 1 \in 1 .. Len(lit) + 1 /\ Count(lit, k + 1) = r + 1
                         /\ s[r + 1] = lit[k] /\ lit[k] \in TokenSet /\ Text!At(k) = lit[k].kind
        /\ r = Len(s) => Text!At(k) = "end"
    <3> HIDE DEF n
    <3>1. lit \in Seq(TokenSet) /\ pt \in 1 .. Len(lit) + 1
      BY <1>1
    <3> QED BY <3>1, NextToken
  <2>2. r = 2 * n + 1 /\ r + 1 = 2 * n + 2
    BY <1>1
  <2> HIDE DEF s, k, n, r
  <2> QED BY <2>1, <2>2
<1> DEFINE good == n # MaxDim /\ Text!At(k) = "number" /\ Text!is_valid_float(lit[k].val)
<1>3. CASE good
  <2>1. Text!Goto("separator", k + 1) /\ data' = Append(data, lit[k].val) /\ Text!Keep
    BY <1>3 DEF Text!Element, Text!TooMany
  <2>2. 2 * n + 1 < Len(s)
    BY <1>1, <1>2, <1>3
  <2>3. lit[k] = Text!Number(lit[k].val) /\ lit[k].val \in Text!Finite
    BY <1>2, <1>3, <2>2, TokensAre, Tokens
  <2> DEFINE x == lit[k].val
             vec == Append(data, x)
  <2>4. s[2 * n + 2] = Text!Number(x) /\ x \in Text!Finite
    BY <1>2, <2>2, <2>3
  <2>5. k + 1 \in 1 .. Len(lit) + 1 /\ Count(lit, k + 1) = 2 * n + 2
    BY <1>2, <2>2
  <2> HIDE DEF s, k, x
  <2>6. /\ vec \in Seq(Text!Finite) /\ Len(vec) = n + 1
        /\ \A i \in 1 .. n : vec[i] = data[i]
        /\ vec[n + 1] = x
    BY <1>1, <2>4
  <2> HIDE DEF vec, n
  <2>7. n + 1 <= MaxDim /\ n + 1 >= 1 /\ 2 * (n + 1) = 2 * n + 2 /\ (n + 1) - 1 = n
    BY <1>1, <1>3
  <2>8. \A i \in 1 .. n + 1 : s[2 * i] = Text!Number(vec[i])
    <3> TAKE i \in 1 .. n + 1
    <3>1. i \in 1 .. n \/ i = n + 1
      BY <1>1
    <3> QED BY <1>1, <2>4, <2>6, <2>7, <3>1
  <2>9. Read(lit, vec, Len(vec) - 1)
    BY <1>1, <2>6, <2>7, <2>8 DEF Read, s
  <2>10. PartInv(lit, typmod, k + 1, vec, "separator")
    BY <2>5, <2>6, <2>7, <2>9 DEF PartInv
  <2>11. data' = vec
    BY <2>1 DEF vec, x
  <2> QED BY <2>1, <2>5, <2>6, <2>7, <2>10, <2>11, GotoInv
<1>4. CASE ~good
  <2>1. Text!Fail
    BY <1>4 DEF Text!Element, Text!TooMany
  <2>2. ASSUME NEW vec \in Text!Vectors, Text!Denotes(lit, vec) PROVE FALSE
    <3> DEFINE m == Len(vec)
    <3>1. /\ m \in Nat /\ m >= 1 /\ m <= MaxDim /\ Len(s) = 2 * m + 1
          /\ s[2 * m + 1] = Text!Close
          /\ \A i \in Nat : 1 <= i /\ i <= m => s[2 * i] = Text!Number(vec[i]) /\ vec[i] \in Text!Finite
      BY <2>2, DenotesMeans
    <3> HIDE DEF m
    <3>2. m # n
      <4> SUFFICES ASSUME m = n PROVE FALSE
        OBVIOUS
      <4>1. s[2 * m + 1] = Text!Comma
        BY <1>1, <3>1
      <4> QED BY <3>1, <4>1, Tokens
    <3>3. n < m
      <4> HIDE DEF n, s
      <4> QED BY <1>1, <1>2, <3>1, <3>2
    <3>4. 2 * n + 1 < Len(s) /\ n # MaxDim /\ n + 1 \in Nat /\ 1 <= n + 1 /\ n + 1 <= m /\ 2 * (n + 1) = 2 * n + 2
      <4> HIDE DEF n, s
      <4> QED BY <1>1, <3>1, <3>3
    <3>5. s[2 * (n + 1)] = Text!Number(vec[n + 1]) /\ vec[n + 1] \in Text!Finite
      <4> HIDE DEF n, s
      <4> QED BY <3>1, <3>4
    <3>6. lit[k] = Text!Number(vec[n + 1]) /\ Text!At(k) = lit[k].kind
      BY <1>2, <3>4, <3>5
    <3>7. lit[k].kind = "number" /\ lit[k].val = vec[n + 1]
      BY <3>6 DEF Text!Number
    <3>8. vec[n + 1] \in Floats
      BY <3>5, SameFloats DEF Floats
    <3> QED BY <1>4, <3>4, <3>5, <3>6, <3>7, <3>8, Tokens
  <2> QED BY <2>1, <2>2, FailInv DEF Rejected, Accepted
<1> QED BY <1>3, <1>4

LEMMA SeparatorInv == ASSUME ParseInv, Text!Separator PROVE ParseInv'
<1> DEFINE s == Text!NoSpace(lit)
           k == Text!SkipSpace(pt)
           n == Len(data)
<1>1. /\ lit \in Seq(TokenSet) /\ pt \in 1 .. Len(lit) + 1 /\ pc = "separator"
      /\ data \in Seq(Text!Finite) /\ n \in Nat /\ n >= 1 /\ n <= MaxDim
      /\ Count(lit, pt) = 2 * n
      /\ s[1] = Text!Open
      /\ \A i \in 1 .. n : s[2 * i] = Text!Number(data[i])
      /\ \A i \in 1 .. n - 1 : s[2 * i + 1] = Text!Comma
  <2>1. /\ n >= 1 /\ Count(lit, pt) = 2 * n /\ Read(lit, data, n - 1) /\ pc = "separator"
    BY DEF ParseInv, PartInv, Text!Separator
  <2> QED BY <2>1 DEF ParseInv, Read
<1>2. /\ Len(s) \in Nat /\ 2 * n <= Len(s)
      /\ 2 * n < Len(s) => /\ k + 1 \in 1 .. Len(lit) + 1 /\ Count(lit, k + 1) = 2 * n + 1
                           /\ s[2 * n + 1] = lit[k] /\ lit[k] \in TokenSet /\ Text!At(k) = lit[k].kind
      /\ 2 * n = Len(s) => Text!At(k) = "end"
  <2> HIDE DEF s, k, n
  <2> QED BY <1>1, NextToken DEF s, k
<1>3. CASE Text!At(k) = "comma"
  <2>1. Text!Goto("element", k + 1) /\ data' = data /\ Text!Keep
    BY <1>3 DEF Text!Separator
  <2>2. 2 * n < Len(s)
    BY <1>1, <1>2, <1>3
  <2>3. s[2 * n + 1] = Text!Comma /\ k + 1 \in 1 .. Len(lit) + 1 /\ Count(lit, k + 1) = 2 * n + 1
    BY <1>2, <1>3, <2>2, TokensAre
  <2> HIDE DEF s, k
  <2>4. \A i \in 1 .. n : s[2 * i + 1] = Text!Comma
    <3> TAKE i \in 1 .. n
    <3>1. i \in 1 .. n - 1 \/ i = n
      BY <1>1
    <3> QED BY <1>1, <2>3, <3>1
  <2>5. Read(lit, data, n)
    BY <1>1, <2>4 DEF Read, s
  <2>6. PartInv(lit, typmod, k + 1, data, "element")
    BY <2>3, <2>5 DEF PartInv
  <2> QED BY <1>1, <2>1, <2>3, <2>6, GotoInv
<1>4. CASE Text!At(k) = "close"
  <2>1. Text!Goto("trailing", k + 1) /\ data' = data /\ Text!Keep
    BY <1>4 DEF Text!Separator
  <2>2. 2 * n < Len(s)
    BY <1>1, <1>2, <1>4
  <2>3. s[2 * n + 1] = Text!Close /\ k + 1 \in 1 .. Len(lit) + 1 /\ Count(lit, k + 1) = 2 * n + 1
    BY <1>2, <1>4, <2>2, TokensAre
  <2> HIDE DEF s, k
  <2>4. Read(lit, data, n - 1)
    BY <1>1 DEF Read, s
  <2>5. PartInv(lit, typmod, k + 1, data, "trailing")
    BY <1>1, <2>3, <2>4 DEF PartInv, s
  <2> QED BY <1>1, <2>1, <2>3, <2>5, GotoInv
<1>5. CASE Text!At(k) # "comma" /\ Text!At(k) # "close"
  <2>1. Text!Fail
    BY <1>5 DEF Text!Separator
  <2>2. ASSUME NEW vec \in Text!Vectors, Text!Denotes(lit, vec) PROVE FALSE
    <3> DEFINE m == Len(vec)
    <3>1. /\ m \in Nat /\ m >= 1 /\ m <= MaxDim /\ Len(s) = 2 * m + 1
          /\ s[2 * m + 1] = Text!Close
          /\ \A i \in Nat : 1 <= i /\ i < m => s[2 * i + 1] = Text!Comma
      BY <2>2, DenotesMeans
    <3> HIDE DEF m
    <3>2. 2 * n < Len(s) /\ (n < m \/ n = m)
      <4> HIDE DEF n, s
      <4> QED BY <1>1, <1>2, <3>1
    <3>3. s[2 * n + 1] = Text!Comma \/ s[2 * n + 1] = Text!Close
      BY <1>1, <3>1, <3>2
    <3>4. Text!At(k) = s[2 * n + 1].kind
      BY <1>2, <3>2
    <3>5. Text!Comma.kind = "comma" /\ Text!Close.kind = "close"
      BY DEF Text!Comma, Text!Close
    <3> QED BY <1>5, <3>3, <3>4, <3>5
  <2> QED BY <2>1, <2>2, FailInv DEF Rejected, Accepted
<1> QED BY <1>3, <1>4, <1>5

LEMMA TrailingInv == ASSUME ParseInv, Text!Trailing PROVE ParseInv'
<1> DEFINE s == Text!NoSpace(lit)
           k == Text!SkipSpace(pt)
           n == Len(data)
<1>1. /\ lit \in Seq(TokenSet) /\ pt \in 1 .. Len(lit) + 1 /\ pc = "trailing"
      /\ data \in Seq(Text!Finite) /\ n \in Nat /\ n >= 1 /\ n <= MaxDim
      /\ Count(lit, pt) = 2 * n + 1
      /\ s[1] = Text!Open /\ s[2 * n + 1] = Text!Close
      /\ \A i \in 1 .. n : s[2 * i] = Text!Number(data[i])
      /\ \A i \in 1 .. n - 1 : s[2 * i + 1] = Text!Comma
      /\ typmod \in {-1} \cup Text!Dims
  <2>1. /\ n >= 1 /\ Count(lit, pt) = 2 * n + 1 /\ Read(lit, data, n - 1) /\ pc = "trailing"
        /\ s[2 * n + 1] = Text!Close
    BY DEF ParseInv, PartInv, Text!Trailing
  <2> QED BY <2>1 DEF ParseInv, Read
<1>2. /\ Len(s) \in Nat /\ 2 * n + 1 <= Len(s) /\ k \in 1 .. Len(lit) + 1
      /\ 2 * n + 1 < Len(s) => lit[k] \in TokenSet /\ Text!At(k) = lit[k].kind
      /\ 2 * n + 1 = Len(s) => Text!At(k) = "end"
  <2> HIDE DEF s, k, n
  <2> QED BY <1>1, NextToken DEF s, k
<1>3. Text!At(k) = "end" <=> Len(s) = 2 * n + 1
  <2>1. 2 * n + 1 < Len(s) => Text!At(k) # "end"
    BY <1>2, TokensAre
  <2>2. n \in Nat /\ Len(s) \in Nat /\ 2 * n + 1 <= Len(s)
    BY <1>1, <1>2
  <2>3. 2 * n + 1 = Len(s) => Text!At(k) = "end"
    BY <1>2
  <2> HIDE DEF s, n, k
  <2> QED BY <2>1, <2>2, <2>3
<1>4. Text!CheckDim(n)
  BY <1>1, HVectorAssumption DEF Text!CheckDim, Text!Dims
<1>5. Text!CheckExpectedDim(typmod, n) <=> typmod \in {-1, n}
  BY DEF Text!CheckExpectedDim
<1> DEFINE good == Len(s) = 2 * n + 1 /\ typmod \in {-1, n}
<1>6. CASE good
  <2>1. Text!Goto("result", k) /\ data' = data /\ Text!Keep
    BY <1>3, <1>4, <1>5, <1>6 DEF Text!Trailing, Text!Complete
  <2>2. Text!Denotes(lit, data)
    BY <1>1, <1>6 DEF Text!Denotes
  <2>3. PartInv(lit, typmod, k, data, "result")
    BY <1>1, <1>6, <2>2 DEF PartInv, Accepted
  <2> HIDE DEF k
  <2> QED BY <1>1, <1>2, <2>1, <2>3, GotoInv
<1>7. CASE ~good
  <2>1. Text!Fail
    BY <1>3, <1>5, <1>7 DEF Text!Trailing, Text!Complete
  <2>2. ASSUME NEW vec \in Text!Vectors, Text!Denotes(lit, vec), typmod \in {-1, Len(vec)} PROVE FALSE
    <3> DEFINE m == Len(vec)
    <3>1. /\ m \in Nat /\ m >= 1 /\ Len(s) = 2 * m + 1
          /\ \A i \in Nat : 1 <= i /\ i < m => s[2 * i + 1] = Text!Comma
      BY <2>2, DenotesMeans
    <3>2. typmod \in {-1, m}
      BY <2>2
    <3> HIDE DEF m
    <3>3. m # n
      BY <1>7, <3>1, <3>2
    <3>4. n < m
      <4> HIDE DEF n, s
      <4> QED BY <1>1, <1>2, <3>1, <3>3
    <3>5. s[2 * n + 1] = Text!Comma
      BY <1>1, <3>1, <3>4
    <3> QED BY <1>1, <3>5, Tokens
  <2> QED BY <2>1, <2>2, FailInv DEF Rejected, Accepted
<1> QED BY <1>6, <1>7

-----------------------------------------------------------------------------
(* Numbers as they are printed.                                            *)

LEMMA PowersAre == \A b, n : Text!Power(b, n) = PowerOf(b, n)
BY DEF Text!Power, PowerOf, Powers, PowersUpTo

LEMMA DividedIs ==
    ASSUME NEW a \in Nat, NEW d \in Nat \ {0}
    PROVE  a \div d \in Nat /\ d * (a \div d) <= a /\ a < d * (a \div d) + d
OBVIOUS

LEMMA MultipleDivided ==
    ASSUME NEW s \in Nat \ {0}, NEW m \in Nat
    PROVE  Text!Nearest(s * m, s) = m
<1> DEFINE a == 2 * (s * m) + s
           q == a \div (2 * s)
<1>1. s * m \in Nat /\ a \in Nat /\ 2 * s \in Nat \ {0}
  OBVIOUS
<1>2. q \in Nat /\ (2 * s) * q <= a /\ a < (2 * s) * q + 2 * s
  BY <1>1, DividedIs
<1>3. a = (2 * s) * m + s
  OBVIOUS
<1> HIDE DEF a, q
<1>4. (2 * s) * q = s * (2 * q) /\ (2 * s) * m = s * (2 * m)
  BY <1>2
<1>5. q <= m
  <2> SUFFICES ASSUME q > m PROVE FALSE
    BY <1>2
  <2>1. (2 * s) * q >= (2 * s) * (m + 1)
    BY <1>2
  <2>2. (2 * s) * (m + 1) = (2 * s) * m + 2 * s
    OBVIOUS
  <2>3. (2 * s) * m \in Nat /\ (2 * s) * q \in Nat
    BY <1>2
  <2> QED BY <1>1, <1>2, <1>3, <2>1, <2>2, <2>3
<1>6. q >= m
  <2> SUFFICES ASSUME q < m PROVE FALSE
    BY <1>2
  <2>1. (2 * s) * (q + 1) <= (2 * s) * m
    BY <1>2
  <2>2. (2 * s) * (q + 1) = (2 * s) * q + 2 * s
    BY <1>2
  <2>3. (2 * s) * m \in Nat /\ (2 * s) * q \in Nat
    BY <1>2
  <2> QED BY <1>1, <1>2, <1>3, <2>1, <2>2, <2>3
<1>7. q = m
  BY <1>2, <1>5, <1>6
<1> QED BY <1>7 DEF Text!Nearest, a, q

LEMMA ScaleIs ==
    ASSUME NEW x \in 0 .. MaxFloat
    PROVE  LET s == Text!Scale(x)
               q == PowerOf(Base, Digits)
           IN  /\ s \in Nat \ {0} /\ q \in Nat \ {0} /\ 2 * x < (2 * s) * q - s
               /\ \E k \in 0 .. MaxFloat : s = PowerOf(Base, k)
               /\ \A k \in 0 .. MaxFloat :
                    2 * x < (2 * PowerOf(Base, k)) * q - PowerOf(Base, k) => s <= PowerOf(Base, k)
<1> DEFINE q == PowerOf(Base, Digits)
           P(k) == PowerOf(Base, k)
           S == {w \in {P(k) : k \in 0 .. MaxFloat} : 2 * x < (2 * w) * q - w}
<1>1. Text!Scale(x) = Text!Min(S)
  BY PowersAre DEF Text!Scale
<1>2. MaxFloat \in Nat /\ q \in Nat /\ q >= 2 /\ \A k \in 0 .. MaxFloat : P(k) \in Nat /\ P(k) >= k + 1
  <2>1. \A k \in Nat : P(k) \in Nat /\ P(k) >= k + 1
    BY HVectorTextAssumption, PowerGrows
  <2>2. Digits \in Nat /\ Digits >= 1
    BY HVectorTextAssumption
  <2>3. MaxFloat \in Nat /\ \A k \in 0 .. MaxFloat : k \in Nat
    BY HVectorAssumption
  <2> QED BY <2>1, <2>2, <2>3
<1> HIDE DEF q, P
<1>3. P(MaxFloat) \in S
  <2>1. MaxFloat \in 0 .. MaxFloat
    BY <1>2
  <2> DEFINE w == P(MaxFloat)
  <2>2. w \in Nat /\ w >= MaxFloat + 1
    BY <1>2, <2>1
  <2> HIDE DEF w
  <2>3. (2 * w) * q >= (2 * w) * 2
    BY <1>2, <2>2
  <2>4. (2 * w) * q \in Int
    BY <1>2, <2>2
  <2>5. 2 * x < (2 * w) * q - w
    BY <1>2, <2>2, <2>3, <2>4
  <2> QED BY <2>1, <2>5 DEF w
<1>4. S \in SUBSET Nat
  BY <1>2
<1>5. Text!Min(S) \in S /\ \A w \in S : Text!Min(S) <= w
  <2> HIDE DEF S
  <2>1. \E m \in S : \A w \in S : m <= w
    BY <1>3, <1>4, LeastOf
  <2> QED BY <2>1 DEF Text!Min
<1> DEFINE s == Text!Scale(x)
<1>6. s \in S /\ \A w \in S : s <= w
  BY <1>1, <1>5
<1> HIDE DEF s
<1>7. PICK k \in 0 .. MaxFloat : s = P(k)
  BY <1>6
<1>8. s \in Nat \ {0} /\ 2 * x < (2 * s) * q - s
  BY <1>2, <1>6, <1>7
<1>9. \A j \in 0 .. MaxFloat : 2 * x < (2 * P(j)) * q - P(j) => s <= P(j)
  BY <1>6
<1> QED BY <1>2, <1>7, <1>8, <1>9 DEF s, q, P

\* Printing rounds a number below the next power of the base that it has digits for.
LEMMA PrintedBelow ==
    ASSUME NEW x \in Nat, NEW s \in Nat \ {0}, NEW q \in Nat \ {0}, 2 * x < (2 * s) * q - s
    PROVE  /\ Text!Nearest(x, s) \in Nat /\ s * Text!Nearest(x, s) \in Nat
           /\ (2 * s) * Text!Nearest(x, s) <= 2 * x + s
           /\ 2 * x + s < (2 * s) * Text!Nearest(x, s) + 2 * s
           /\ 2 * (s * Text!Nearest(x, s)) < (2 * s) * q - s
<1> DEFINE m == Text!Nearest(x, s)
<1>1. m \in Nat /\ (2 * s) * m <= 2 * x + s /\ 2 * x + s < (2 * s) * m + 2 * s
  <2>1. 2 * x + s \in Nat /\ 2 * s \in Nat \ {0}
    OBVIOUS
  <2>2. m = (2 * x + s) \div (2 * s)
    BY DEF Text!Nearest
  <2> QED BY <2>1, <2>2, DividedIs
<1> HIDE DEF m
<1>2. s * m \in Nat /\ (2 * s) * m = 2 * (s * m) /\ (2 * s) * q \in Nat /\ (2 * s) * m \in Nat
  BY <1>1
<1>3. m <= q - 1
  <2> SUFFICES ASSUME m >= q PROVE FALSE
    BY <1>1
  <2>1. (2 * s) * m >= (2 * s) * q
    BY <1>1
  <2> QED BY <1>1, <1>2, <2>1
<1>4. (2 * s) * m <= (2 * s) * q - 2 * s
  <2>1. (2 * s) * m <= (2 * s) * (q - 1)
    BY <1>1, <1>3
  <2>2. (2 * s) * (q - 1) = (2 * s) * q - 2 * s
    OBVIOUS
  <2> QED BY <2>1, <2>2
<1>5. 2 * (s * m) < (2 * s) * q - s
  BY <1>2, <1>4
<1> QED BY <1>1, <1>2, <1>5 DEF m

\* What is printed is in range, and printed as itself.
LEMMA ShownIs ==
    ASSUME NEW x \in 0 .. MaxFloat
    PROVE  Text!Shown(x) \in 0 .. MaxFloat /\ Text!Shown(Text!Shown(x)) = Text!Shown(x)
<1> DEFINE s == Text!Scale(x)
           q == PowerOf(Base, Digits)
           P(k) == PowerOf(Base, k)
           m == Text!Nearest(x, s)
           y == s * m
<1>0. MaxFloat \in Nat /\ x \in Nat /\ x <= MaxFloat
  BY HVectorAssumption
<1>1. /\ s \in Nat \ {0} /\ q \in Nat \ {0} /\ 2 * x < (2 * s) * q - s
      /\ \E k \in 0 .. MaxFloat : s = P(k)
      /\ \A k \in 0 .. MaxFloat : 2 * x < (2 * P(k)) * q - P(k) => s <= P(k)
  BY ScaleIs
<1>2. PICK k \in 0 .. MaxFloat : s = P(k)
  BY <1>1
<1>3. /\ m \in Nat /\ y \in Nat /\ (2 * s) * m <= 2 * x + s /\ 2 * y < (2 * s) * q - s
  <2> HIDE DEF s, q
  <2> QED BY <1>0, <1>1, PrintedBelow
<1>4. \A w \in 0 .. MaxFloat : Text!Shown(w) = Text!Scale(w) * Text!Nearest(w, Text!Scale(w))
  BY <1>0 DEF Text!Shown
<1>5. y <= MaxFloat
  <2>1. CASE 2 * MaxFloat < (2 * s) * q - s
    <3> DEFINE t == Text!Scale(MaxFloat)
               l == Text!Nearest(MaxFloat, t)
    <3>1. MaxFloat \in 0 .. MaxFloat
      BY <1>0
    <3>2. /\ t \in Nat \ {0} /\ 2 * MaxFloat < (2 * t) * q - t
          /\ \E j \in 0 .. MaxFloat : t = P(j)
          /\ \A j \in 0 .. MaxFloat : 2 * MaxFloat < (2 * P(j)) * q - P(j) => t <= P(j)
      BY <3>1, ScaleIs
    <3>3. t <= s
      BY <1>2, <2>1, <3>2
    <3>4. s <= t
      <4>1. PICK j \in 0 .. MaxFloat : t = P(j)
        BY <3>2
      <4> HIDE DEF s, q, P, t
      <4>2. (2 * t) * q \in Nat
        BY <1>1, <3>2
      <4>3. 2 * x < (2 * t) * q - t
        BY <1>0, <3>2, <4>2
      <4> QED BY <1>1, <4>1, <4>3
    <3>5. t = s
      <4> HIDE DEF s, t
      <4> QED BY <1>1, <3>2, <3>3, <3>4
    <3>6. s * l <= MaxFloat
      BY <1>4, <3>1, <3>5, HVectorTextAssumption
    <3>7. l \in Nat /\ 2 * MaxFloat + s < (2 * s) * l + 2 * s
      <4> HIDE DEF s, q, t
      <4> QED BY <1>0, <1>1, <3>2, <3>5, PrintedBelow
    <3> HIDE DEF l, m, s, t, q
    <3>8. m <= l
      <4> SUFFICES ASSUME m >= l + 1 PROVE FALSE
        BY <1>3, <3>7
      <4>1. (2 * s) * m >= (2 * s) * (l + 1)
        BY <1>1, <1>3, <3>7
      <4>2. (2 * s) * (l + 1) = (2 * s) * l + 2 * s /\ (2 * s) * l \in Nat /\ (2 * s) * m \in Nat
        BY <1>1, <1>3, <3>7
      <4> QED BY <1>0, <1>1, <1>3, <3>7, <4>1, <4>2
    <3>9. s * m <= s * l
      BY <1>1, <1>3, <3>7, <3>8
    <3>10. s * l \in Nat
      BY <1>1, <3>7
    <3> QED BY <1>0, <1>3, <3>6, <3>9, <3>10
  <2>2. CASE 2 * MaxFloat >= (2 * s) * q - s
    <3> HIDE DEF s, q, y
    <3>1. (2 * s) * q \in Nat
      BY <1>1
    <3> QED BY <1>0, <1>1, <1>3, <2>2, <3>1
  <2>3. (2 * s) * q \in Nat
    <3> HIDE DEF s, q
    <3> QED BY <1>1
  <2> HIDE DEF s, q, y
  <2> QED BY <1>0, <1>1, <2>1, <2>2, <2>3
<1>6. y \in 0 .. MaxFloat
  <2> HIDE DEF y
  <2> QED BY <1>0, <1>3, <1>5
<1>7. Text!Shown(x) = y
  BY <1>4
<1>8. Text!Shown(y) = y
  <2> DEFINE t == Text!Scale(y)
  <2>1. /\ t \in Nat \ {0} /\ \E j \in 0 .. MaxFloat : t = P(j)
        /\ \A j \in 0 .. MaxFloat : 2 * y < (2 * P(j)) * q - P(j) => t <= P(j)
    <3> HIDE DEF y
    <3> QED BY <1>6, ScaleIs
  <2>2. t <= s
    <3> HIDE DEF y, t
    <3> QED BY <1>2, <1>3, <2>1
  <2>3. PICK j \in 0 .. MaxFloat : t = P(j)
    BY <2>1
  <2>4. j \in Nat /\ k \in Nat /\ Base \in Nat /\ Base >= 2
    BY <1>0, HVectorTextAssumption
  <2>5. j <= k
    <3> SUFFICES ASSUME j > k PROVE FALSE
      BY <2>4
    <3>1. j - k \in Nat /\ j - k >= 1 /\ k + (j - k) = j
      BY <2>4
    <3>2. P(j) = P(k) * P(j - k)
      BY <2>4, <3>1, PowerOfSum
    <3>3. P(j - k) \in Nat /\ P(j - k) >= 2
      <4>1. P(j - k) \in Nat /\ P(j - k) >= (j - k) + 1
        BY <2>4, <3>1, PowerGrows
      <4> HIDE DEF P
      <4> QED BY <3>1, <4>1
    <3> DEFINE z == P(j - k)
    <3>4. t = s * z /\ z \in Nat /\ z >= 2
      BY <1>2, <2>3, <3>2, <3>3
    <3> HIDE DEF s, t, z
    <3>5. s * z >= s * 2
      BY <1>1, <3>4
    <3> QED BY <1>1, <2>1, <2>2, <3>4, <3>5
  <2>6. k - j \in Nat /\ j + (k - j) = k
    BY <2>4, <2>5
  <2> DEFINE z == P(k - j)
  <2>7. P(k) = P(j) * P(k - j)
    BY <2>4, <2>6, PowerOfSum
  <2>8. z \in Nat
    BY <2>4, <2>6, PowerGrows
  <2>9. s = t * z
    BY <1>2, <2>3, <2>7
  <2>10. y = t * (z * m) /\ z * m \in Nat
    <3> HIDE DEF t, s, z, m
    <3> QED BY <1>3, <2>1, <2>8, <2>9
  <2>11. Text!Nearest(t * (z * m), t) = z * m
    <3> HIDE DEF t, z, m
    <3> QED BY <2>1, <2>10, MultipleDivided
  <2>12. Text!Nearest(y, t) = z * m
    <3> HIDE DEF t, z, m, y
    <3> QED BY <2>10, <2>11
  <2>13. Text!Shown(y) = t * Text!Nearest(y, t)
    <3> HIDE DEF y
    <3> QED BY <1>4, <1>6
  <2> HIDE DEF t, z, m, y
  <2> QED BY <2>10, <2>12, <2>13
<1> HIDE DEF y
<1> QED BY <1>6, <1>7, <1>8

LEMMA ShownOfNegative ==
    ASSUME NEW y \in Int, y > 0
    PROVE  Text!Shown(-y) = -Text!Shown(y)
<1>1. -y < 0 /\ -(-y) = y /\ ~(y < 0)
  OBVIOUS
<1>2. Text!Shown(-y) = -(Text!Scale(-(-y)) * Text!Nearest(-(-y), Text!Scale(-(-y))))
  <2>1. \A a, b \in Int : -a * b = -(a * b)
    OBVIOUS
  <2>2. Text!Shown(-y) = -Text!Scale(-(-y)) * Text!Nearest(-(-y), Text!Scale(-(-y)))
    BY <1>1 DEF Text!Shown
  <2> QED BY <2>2
<1>3. Text!Shown(y) = Text!Scale(y) * Text!Nearest(y, Text!Scale(y))
  BY <1>1 DEF Text!Shown
<1> QED BY <1>1, <1>2, <1>3

\* What is printed and read again is a float, and printed and read as itself.
LEMMA PrintedFinite ==
    \A x \in Text!Finite : /\ Text!Printed(x) \in Text!Finite
                           /\ Text!Printed(Text!Printed(x)) = Text!Printed(x)
<1> SUFFICES ASSUME NEW x \in Finite
             PROVE  Text!Printed(x) \in Finite /\ Text!Printed(Text!Printed(x)) = Text!Printed(x)
  BY SameFloats
<1>0. /\ MaxFloat \in Nat /\ x \in Int /\ -MaxFloat <= x /\ x <= MaxFloat /\ Finite \subseteq Int
      /\ \A y \in Finite : -y \in Finite
  BY FloatsAre
<1>1. \A y : Text!Printed(y) = ToFloat(Text!Shown(y), 1)
  BY SameRounding DEF Text!Printed
\* Numbers that are not negative
<1>2. ASSUME NEW w \in 0 .. MaxFloat
      PROVE  LET d == Text!Shown(w)
                 r == ToFloat(d, 1)
             IN  d \in 0 .. MaxFloat /\ r \in Finite /\ r \in Int /\ r >= 0 /\ Text!Shown(r) = d
                 /\ ToFloat(-d, 1) = -r
  <2> DEFINE d == Text!Shown(w)
             r == ToFloat(d, 1)
  <2>1. d \in 0 .. MaxFloat /\ Text!Shown(d) = d
    BY ShownIs
  <2>2. d <= MaxFloat * 1 /\ -(MaxFloat * 1) <= d /\ d \in Int /\ d >= 0 /\ 1 \in Nat \ {0}
    BY <1>0, <2>1
  <2>3. Text!Shown(r) = d
    BY <2>1, HVectorTextAssumption
  <2> HIDE DEF d
  <2>4. r \in Finite /\ r >= 0 /\ ToFloat(-d, 1) = -r
    BY <2>2, RoundingIs
  <2> QED BY <1>0, <2>1, <2>3, <2>4 DEF d
<1>3. CASE x >= 0
  <2>1. x \in 0 .. MaxFloat
    BY <1>0, <1>3
  <2> QED BY <1>1, <1>2, <2>1
<1>4. CASE x < 0
  <2> DEFINE w == -x
             d == Text!Shown(w)
             r == ToFloat(d, 1)
  <2>1. w \in 0 .. MaxFloat /\ w > 0 /\ w \in Int /\ x = -w
    BY <1>0, <1>4
  <2>2. /\ d \in 0 .. MaxFloat /\ r \in Finite /\ r \in Int /\ r >= 0 /\ Text!Shown(r) = d
        /\ ToFloat(-d, 1) = -r
    <3> HIDE DEF w
    <3> QED BY <1>2, <2>1
  <2> HIDE DEF w
  <2>3. Text!Shown(x) = -d
    BY <2>1, ShownOfNegative
  <2>4. Text!Printed(x) = -r
    BY <1>1, <2>2, <2>3
  <2>5. CASE r <= 0
    <3>1. -r = r
      BY <2>2, <2>5
    <3>2. Text!Printed(r) = r
      BY <1>1, <2>2
    <3> HIDE DEF r
    <3> QED BY <2>2, <2>4, <3>1, <3>2
  <2>6. CASE r > 0
    <3>1. Text!Shown(-r) = -d
      <4> HIDE DEF r, d
      <4> QED BY <2>2, <2>6, ShownOfNegative
    <3>2. Text!Printed(-r) = -r
      BY <1>1, <2>2, <3>1
    <3> HIDE DEF r
    <3> QED BY <1>0, <2>2, <2>4, <3>2
  <2> HIDE DEF r
  <2> QED BY <2>2, <2>5, <2>6
<1> QED BY <1>0, <1>3, <1>4

\* What is before the next place
LEMMA CountNext ==
    ASSUME NEW t \in Seq(TokenSet), NEW k \in 1 .. Len(t)
    PROVE  /\ Count(t, k) \in Nat
           /\ t[k] = Text!Space => Count(t, k + 1) = Count(t, k)
           /\ t[k] # Text!Space => /\ Count(t, k + 1) = Count(t, k) + 1
                                   /\ Text!NoSpace(t)[Count(t, k) + 1] = t[k]
<1>1. Count(t, k) \in Nat
  BY WrittenIs DEF Count
<1>2. CASE t[k] = Text!Space
  <2>1. k \notin Text!Written(t) /\ \A j \in Text!Written(t) : j \in Nat /\ j # k
    BY <1>2, WrittenIs
  <2>2. Before(t, k + 1) = Before(t, k)
    BY <2>1 DEF Before
  <2> QED BY <1>1, <1>2, <2>2 DEF Count
<1>3. CASE t[k] # Text!Space
  <2>1. k \in Text!Written(t)
    BY <1>3, WrittenIs
  <2> QED BY <1>1, <1>3, <2>1, PlaceOfToken DEF Count
<1> QED BY <1>2, <1>3

\* The tokens hvector_out prints
LEMMA PrintedTokens ==
    ASSUME NEW vec \in Text!Vectors
    PROVE  LET t == Text!hvector_out(vec)
               n == Len(vec)
           IN  /\ n \in Nat /\ n >= 1 /\ n <= MaxDim /\ t \in Seq(TokenSet) /\ Len(t) = 3 * n
               /\ t[1] = Text!Open /\ t[3 * n] = Text!Close
               /\ \A i \in 1 .. n : /\ vec[i] \in Text!Finite
                                    /\ t[3 * i - 1] = Text!Number(Text!Printed(vec[i]))
               /\ \A i \in 1 .. n - 1 : t[3 * i] = Text!Comma /\ t[3 * i + 1] = Text!Space
<1>1. PICK n \in 1 .. MaxDim : vec \in [1 .. n -> Text!Finite]
  BY DEF Text!Vectors, Text!Dims
<1>2. n \in Nat /\ n >= 1 /\ n <= MaxDim /\ Len(vec) = n
  BY <1>1, HVectorAssumption, LenProperties
<1> DEFINE Tok(k) ==
        CASE k = 1 -> Text!Open [] k = 3 * n -> Text!Close
          [] k % 3 = 2 -> Text!Number(Text!Printed(vec[(k + 1) \div 3]))
          [] k % 3 = 0 /\ k < 3 * n -> Text!Comma [] OTHER -> Text!Space
        t == Text!hvector_out(vec)
<1>3. t = [k \in 1 .. 3 * n |-> Tok(k)]
  BY <1>2 DEF Text!hvector_out
<1>4. \A i \in 1 .. n : vec[i] \in Text!Finite
  BY <1>1
<1>5. ASSUME NEW k \in 1 .. 3 * n PROVE Tok(k) \in TokenSet
  <2>1. CASE k % 3 = 2
    <3>1. (k + 1) \div 3 \in 1 .. n
      BY <1>2, <2>1
    <3> DEFINE x == Text!Printed(vec[(k + 1) \div 3])
    <3>2. x \in Text!Finite
      BY <1>4, <3>1, PrintedFinite
    <3> HIDE DEF x
    <3>3. x \in Floats
      BY <3>2, SameFloats DEF Floats
    <3>4. Text!Number(x) \in TokenSet
      BY <3>3 DEF TokenSet
    <3>5. Tok(k) \in {Text!Open, Text!Close, Text!Number(x)}
      BY <2>1 DEF x
    <3> HIDE DEF Tok
    <3> QED BY <3>4, <3>5 DEF TokenSet
  <2>2. CASE k % 3 # 2
    <3>1. Tok(k) \in {Text!Open, Text!Close, Text!Comma, Text!Space}
      BY <2>2
    <3> HIDE DEF Tok
    <3> QED BY <3>1 DEF TokenSet
  <2> QED BY <2>1, <2>2
<1>6. Tok(1) = Text!Open /\ Tok(3 * n) = Text!Close
  BY <1>2
<1>7. ASSUME NEW i \in 1 .. n PROVE 3 * i - 1 \in 1 .. 3 * n /\ Tok(3 * i - 1) = Text!Number(Text!Printed(vec[i]))
  <2> DEFINE k == 3 * i - 1
  <2>1. k \in 1 .. 3 * n /\ k # 1 /\ k # 3 * n /\ k % 3 = 2 /\ (k + 1) \div 3 = i
    BY <1>2
  <2> HIDE DEF k
  <2>2. Tok(k) = Text!Number(Text!Printed(vec[i]))
    BY <2>1
  <2> QED BY <2>1, <2>2 DEF k
<1>8. ASSUME NEW i \in 1 .. n - 1
      PROVE  /\ 3 * i \in 1 .. 3 * n /\ Tok(3 * i) = Text!Comma
             /\ 3 * i + 1 \in 1 .. 3 * n /\ Tok(3 * i + 1) = Text!Space
  <2>1. /\ 3 * i \in 1 .. 3 * n /\ 3 * i # 1 /\ 3 * i < 3 * n /\ (3 * i) % 3 = 0
        /\ 3 * i + 1 \in 1 .. 3 * n /\ 3 * i + 1 # 1 /\ 3 * i + 1 # 3 * n /\ (3 * i + 1) % 3 = 1
    BY <1>2
  <2> DEFINE k == 3 * i
             l == 3 * i + 1
  <2>2. /\ k \in 1 .. 3 * n /\ k # 1 /\ k < 3 * n /\ k % 3 = 0
        /\ l \in 1 .. 3 * n /\ l # 1 /\ l # 3 * n /\ l % 3 = 1
    BY <2>1
  <2> HIDE DEF k, l
  <2>3. Tok(k) = Text!Comma /\ Tok(l) = Text!Space
    BY <2>2
  <2> QED BY <2>1, <2>3 DEF k, l
<1> HIDE DEF Tok
<1>9. 3 * n \in Nat /\ 1 \in 1 .. 3 * n /\ 3 * n \in 1 .. 3 * n
  BY <1>2
<1>10. t \in [1 .. 3 * n -> TokenSet]
  BY <1>3, <1>5
<1>11. t \in Seq(TokenSet) /\ Len(t) = 3 * n
  BY <1>9, <1>10, LenProperties
<1> QED BY <1>2, <1>3, <1>4, <1>6, <1>7, <1>8, <1>9, <1>11

\* It is a text of the grammar, for the numbers it shows.
LEMMA PrintedDenotes ==
    ASSUME NEW vec \in Text!Vectors
    PROVE  LET shown == [i \in DOMAIN vec |-> Text!Printed(vec[i])]
           IN  /\ Text!hvector_out(vec) \in Seq(TokenSet)
               /\ shown \in Text!Vectors /\ Len(shown) = Len(vec)
               /\ Text!Denotes(Text!hvector_out(vec), shown)
<1> DEFINE t == Text!hvector_out(vec)
           n == Len(vec)
           shown == [i \in DOMAIN vec |-> Text!Printed(vec[i])]
           s == Text!NoSpace(t)
<1>1. /\ n \in Nat /\ n >= 1 /\ n <= MaxDim /\ t \in Seq(TokenSet) /\ Len(t) = 3 * n
      /\ t[1] = Text!Open /\ t[3 * n] = Text!Close
      /\ \A i \in 1 .. n : /\ vec[i] \in Text!Finite
                           /\ t[3 * i - 1] = Text!Number(Text!Printed(vec[i]))
      /\ \A i \in 1 .. n - 1 : t[3 * i] = Text!Comma /\ t[3 * i + 1] = Text!Space
  BY PrintedTokens
<1>2. DOMAIN vec = 1 .. n
  <2>1. PICK m \in 1 .. MaxDim : vec \in [1 .. m -> Text!Finite]
    BY DEF Text!Vectors, Text!Dims
  <2> QED BY <2>1, HVectorAssumption, LenProperties
<1>3. shown \in [1 .. n -> Text!Finite] /\ \A i \in 1 .. n : shown[i] = Text!Printed(vec[i])
  BY <1>1, <1>2, PrintedFinite
<1>4. shown \in Text!Vectors
  BY <1>1, <1>3, HVectorAssumption DEF Text!Vectors, Text!Dims
<1>5. Len(shown) = n
  <2> HIDE DEF shown, n
  <2> QED BY <1>1, <1>3, LenProperties
<1> HIDE DEF t, n, shown, s
<1>6. /\ Text!Open # Text!Space /\ Text!Close # Text!Space /\ Text!Comma # Text!Space
      /\ \A x : Text!Number(x) # Text!Space
  <2>1. /\ Text!Open.kind = "open" /\ Text!Close.kind = "close" /\ Text!Space.kind = "space"
        /\ Text!Comma.kind = "comma" /\ \A x : Text!Number(x).kind = "number"
    BY DEF Text!Open, Text!Close, Text!Comma, Text!Number, Text!Space
  <2> QED BY <2>1
<1>7. Count(t, 1) = 0
  <2>1. Before(t, 1) = {}
    BY <1>1, LengthOfText
  <2> QED BY <2>1, FS_EmptySet DEF Count
<1>8. Count(t, 2) = 1 /\ s[1] = Text!Open
  <2>1. 1 \in 1 .. Len(t) /\ 1 + 1 = 2 /\ 0 + 1 = 1
    BY <1>1
  <2>2. t[1] = Text!Open /\ t[1] # Text!Space
    BY <1>1, <1>6
  <2>3. Count(t, 1 + 1) = Count(t, 1) + 1 /\ s[Count(t, 1) + 1] = t[1]
    BY <1>1, <2>1, <2>2, CountNext DEF s
  <2> QED BY <1>7, <2>1, <2>2, <2>3
<1> DEFINE Good(i) == Count(t, 3 * i - 1) = 2 * i - 1
           B == {i \in Nat : 1 <= i /\ i <= n /\ ~Good(i)}
<1>9. ASSUME NEW i \in 1 .. n, Good(i)
      PROVE  Count(t, 3 * i) = 2 * i /\ s[2 * i] = Text!Number(shown[i])
  <2>1. 3 * i - 1 \in 1 .. Len(t) /\ (3 * i - 1) + 1 = 3 * i /\ (2 * i - 1) + 1 = 2 * i
    BY <1>1
  <2>2. t[3 * i - 1] = Text!Number(shown[i])
    BY <1>1, <1>3
  <2> DEFINE k == 3 * i - 1
  <2>3. k \in 1 .. Len(t) /\ k + 1 = 3 * i /\ t[k] = Text!Number(shown[i]) /\ Count(t, k) = 2 * i - 1
    BY <1>9, <2>1, <2>2
  <2> HIDE DEF k
  <2>4. Count(t, k + 1) = Count(t, k) + 1 /\ s[Count(t, k) + 1] = t[k]
    BY <1>1, <1>6, <2>3, CountNext DEF s
  <2> QED BY <2>1, <2>3, <2>4
<1>10. ASSUME NEW i \in 1 .. n - 1, Good(i)
       PROVE  Good(i + 1) /\ s[2 * i + 1] = Text!Comma
  <2>1. i \in 1 .. n /\ 3 * i \in 1 .. Len(t) /\ 3 * i + 1 \in 1 .. Len(t)
    BY <1>1
  <2>2. Count(t, 3 * i) = 2 * i
    BY <1>9, <1>10, <2>1
  <2>3. t[3 * i] = Text!Comma /\ t[3 * i + 1] = Text!Space
    BY <1>1
  <2>4. Count(t, 3 * i + 1) = 2 * i + 1 /\ s[2 * i + 1] = Text!Comma
    <3> DEFINE k == 3 * i
    <3>1. k \in 1 .. Len(t) /\ t[k] = Text!Comma /\ t[k] # Text!Space /\ Count(t, k) = 2 * i
      BY <1>6, <2>1, <2>2, <2>3
    <3> HIDE DEF k
    <3>2. Count(t, k + 1) = Count(t, k) + 1 /\ s[Count(t, k) + 1] = t[k]
      BY <1>1, <3>1, CountNext DEF s
    <3> QED BY <3>1, <3>2 DEF k
  <2>5. Count(t, (3 * i + 1) + 1) = 2 * i + 1
    BY <1>1, <2>1, <2>3, <2>4, CountNext
  <2>6. (3 * i + 1) + 1 = 3 * (i + 1) - 1 /\ 2 * i + 1 = 2 * (i + 1) - 1
    BY <2>1
  <2> QED BY <2>4, <2>5, <2>6
<1>11. \A i \in 1 .. n : Good(i)
  <2> SUFFICES ASSUME B # {} PROVE FALSE
    <3>1. B = {} => \A i \in Nat : 1 <= i /\ i <= n => Good(i)
      OBVIOUS
    <3>2. \A i \in 1 .. n : i \in Nat /\ 1 <= i /\ i <= n
      BY <1>1
    <3> HIDE DEF B, Good
    <3> QED BY <3>1, <3>2
  <2>1. B \in SUBSET Nat
    OBVIOUS
  <2>2. PICK i \in B : \A j \in B : i <= j
    <3> HIDE DEF B
    <3> QED BY <2>1, LeastOf
  <2>3. i \in Nat /\ 1 <= i /\ i <= n /\ ~Good(i)
    BY <2>2
  <2>4. i # 1
    <3>1. Good(1)
      BY <1>8
    <3> HIDE DEF Good
    <3> QED BY <2>3, <3>1
  <2>5. i - 1 \in Nat /\ 1 <= i - 1 /\ i - 1 <= n /\ i - 1 \in 1 .. n - 1 /\ (i - 1) + 1 = i /\ ~(i <= i - 1)
    BY <1>1, <2>3, <2>4
  <2>6. Good(i - 1)
    <3>1. i - 1 \notin B
      <4> HIDE DEF B
      <4> QED BY <2>2, <2>5
    <3> HIDE DEF Good
    <3> QED BY <2>5, <3>1 DEF B
  <2>7. Good((i - 1) + 1)
    <3> HIDE DEF Good
    <3> QED BY <1>10, <2>5, <2>6
  <2> HIDE DEF Good
  <2> QED BY <2>3, <2>5, <2>7
<1>12. Count(t, 3 * n + 1) = 2 * n + 1 /\ s[2 * n + 1] = Text!Close
  <2>1. n \in 1 .. n /\ 3 * n \in 1 .. Len(t)
    BY <1>1
  <2>2. Count(t, 3 * n) = 2 * n
    BY <1>9, <1>11, <2>1
  <2> QED BY <1>1, <1>6, <2>1, <2>2, CountNext, SMTT(30) DEF s
<1>13. Len(s) = 2 * n + 1
  <2>1. Len(s) = Cardinality(Before(t, Len(t) + 1))
    BY <1>1, LengthOfText DEF s
  <2> QED BY <1>1, <1>12, <2>1 DEF Count
<1>14. \A i \in 1 .. n : s[2 * i] = Text!Number(shown[i])
  BY <1>9, <1>11
<1>15. \A i \in 1 .. n - 1 : s[2 * i + 1] = Text!Comma
  <2> TAKE i \in 1 .. n - 1
  <2>1. i \in 1 .. n
    BY <1>1
  <2> HIDE DEF Good
  <2> QED BY <1>10, <1>11, <2>1
<1>16. Text!Denotes(t, shown)
  BY <1>5, <1>8, <1>12, <1>13, <1>14, <1>15 DEF Text!Denotes, s
<1> QED BY <1>1, <1>4, <1>5, <1>16 DEF t, n, shown

\* A text denotes one vector at most.
LEMMA DenotesOne ==
    ASSUME NEW t, NEW a \in Text!Vectors, NEW b \in Text!Vectors, Text!Denotes(t, a), Text!Denotes(t, b)
    PROVE  Len(a) = Len(b) /\ DOMAIN a = DOMAIN b /\ \A i \in DOMAIN a : a[i] = b[i]
<1>1. /\ Len(a) \in Nat /\ Len(Text!NoSpace(t)) = 2 * Len(a) + 1
      /\ \A i \in Nat : 1 <= i /\ i <= Len(a) => Text!NoSpace(t)[2 * i] = Text!Number(a[i])
  BY DenotesMeans
<1>2. /\ Len(b) \in Nat /\ Len(Text!NoSpace(t)) = 2 * Len(b) + 1
      /\ \A i \in Nat : 1 <= i /\ i <= Len(b) => Text!NoSpace(t)[2 * i] = Text!Number(b[i])
  BY DenotesMeans
<1>3. Len(a) = Len(b)
  BY <1>1, <1>2
<1>4. \A i \in Nat : 1 <= i /\ i <= Len(a) => a[i] = b[i]
  BY <1>1, <1>2, <1>3, NumbersDiffer
<1>5. DOMAIN a = 1 .. Len(a)
  <2>1. PICK m \in 1 .. MaxDim : a \in [1 .. m -> Text!Finite]
    BY DEF Text!Vectors, Text!Dims
  <2> QED BY <2>1, HVectorAssumption, LenProperties
<1>6. DOMAIN b = 1 .. Len(b)
  <2>1. PICK m \in 1 .. MaxDim : b \in [1 .. m -> Text!Finite]
    BY DEF Text!Vectors, Text!Dims
  <2> QED BY <2>1, HVectorAssumption, LenProperties
<1>7. \A i \in 1 .. Len(a) : a[i] = b[i]
  BY <1>1, <1>4
<1> QED BY <1>3, <1>5, <1>6, <1>7

\* What has been dumped, and that the second dump has numbers as they were printed
DumpsInv ==
    /\ dumps \in 0 .. 2
    /\ dumps > 0 => /\ dumped \in Text!Vectors /\ lit = Text!hvector_out(dumped)
                    /\ typmod \in {-1, Len(dumped)}
    /\ dumps = 2 => \A i \in DOMAIN dumped : Text!Printed(dumped[i]) = dumped[i]

TextInv == ParseInv /\ DumpsInv

LEMMA ResultInv ==
    ASSUME ParseInv, pc = "result"
    PROVE  data \in Text!Vectors /\ Text!Denotes(lit, data) /\ typmod \in {-1, Len(data)}
<1>1. data \in Seq(Text!Finite) /\ Len(data) >= 1 /\ Len(data) <= MaxDim /\ Accepted(lit, typmod, data)
  BY DEF ParseInv, PartInv
<1>2. Len(data) \in 1 .. MaxDim /\ data \in [1 .. Len(data) -> Text!Finite]
  BY <1>1, HVectorAssumption, LenProperties
<1> QED BY <1>1, <1>2 DEF Accepted, Text!Vectors, Text!Dims

\* A text that was dumped is read back as it was shown.
LEMMA DumpedInv ==
    ASSUME TextInv, dumps > 0
    PROVE  /\ pc # "error"
           /\ pc = "result" => /\ data = [i \in DOMAIN dumped |-> Text!Printed(dumped[i])]
                               /\ DOMAIN data = DOMAIN dumped
                               /\ \A i \in DOMAIN data : Text!Printed(data[i]) = data[i]
<1> DEFINE shown == [i \in DOMAIN dumped |-> Text!Printed(dumped[i])]
<1>1. dumped \in Text!Vectors /\ lit = Text!hvector_out(dumped) /\ typmod \in {-1, Len(dumped)}
  BY DEF TextInv, DumpsInv
<1>2. shown \in Text!Vectors /\ Len(shown) = Len(dumped) /\ Text!Denotes(lit, shown)
  BY <1>1, PrintedDenotes
<1>3. \A i \in DOMAIN dumped : Text!Printed(Text!Printed(dumped[i])) = Text!Printed(dumped[i])
  <2>1. PICK m \in 1 .. MaxDim : dumped \in [1 .. m -> Text!Finite]
    BY <1>1 DEF Text!Vectors, Text!Dims
  <2> QED BY <2>1, PrintedFinite
<1>4. DOMAIN shown = DOMAIN dumped /\ \A i \in DOMAIN dumped : shown[i] = Text!Printed(dumped[i])
  OBVIOUS
<1> HIDE DEF shown
<1>5. pc # "error"
  <2> SUFFICES ASSUME pc = "error" PROVE FALSE
    OBVIOUS
  <2>1. Rejected(lit, typmod)
    BY DEF TextInv, ParseInv, PartInv
  <2> QED BY <1>1, <1>2, <2>1 DEF Rejected, Accepted
<1>6. ASSUME pc = "result"
      PROVE  /\ data = shown /\ DOMAIN data = DOMAIN dumped
             /\ \A i \in DOMAIN data : Text!Printed(data[i]) = data[i]
  <2>1. data \in Text!Vectors /\ Text!Denotes(lit, data)
    BY <1>6, ResultInv DEF TextInv
  <2>2. DOMAIN data = DOMAIN shown /\ \A i \in DOMAIN data : data[i] = shown[i]
    BY <1>2, <2>1, DenotesOne
  <2>3. data = shown
    <3>1. PICK m \in 1 .. MaxDim : data \in [1 .. m -> Text!Finite]
      BY <2>1 DEF Text!Vectors, Text!Dims
    <3>2. PICK l \in 1 .. MaxDim : shown \in [1 .. l -> Text!Finite]
      BY <1>2 DEF Text!Vectors, Text!Dims
    <3>3. data = [i \in DOMAIN data |-> data[i]] /\ shown = [i \in DOMAIN shown |-> shown[i]]
      BY <3>1, <3>2
    <3> QED BY <2>2, <3>3
  <2> QED BY <1>3, <1>4, <2>2, <2>3
<1> QED BY <1>5, <1>6 DEF shown

LEMMA DumpInv == ASSUME TextInv, Text!Dump PROVE TextInv'
<1>1. /\ pc = "result" /\ dumps \in 0 .. 2 /\ dumps < 2
      /\ lit' = Text!hvector_out(data) /\ dumped' = data /\ dumps' = dumps + 1
      /\ pc' = "start" /\ pt' = 1 /\ data' = <<>> /\ typmod' = typmod
  BY DEF TextInv, DumpsInv, Text!Dump, Text!Goto
<1>2. data \in Text!Vectors /\ typmod \in {-1, Len(data)} /\ typmod \in {-1} \cup Text!Dims
  BY <1>1, ResultInv DEF TextInv, ParseInv
<1>3. lit' \in Seq(TokenSet)
  BY <1>1, <1>2, PrintedDenotes
<1>4. ParseInv'
  <2>1. 1 \in 1 .. Len(lit') + 1
    <3>1. Len(lit') \in Nat
      BY <1>3
    <3> QED BY <3>1
  <2>2. <<>> \in Seq(Text!Finite) /\ Len(<<>>) <= MaxDim
    BY HVectorAssumption
  <2>3. PartInv(lit', typmod', 1, <<>>, "start")
    BY DEF PartInv
  <2> QED BY <1>1, <1>2, <1>3, <2>1, <2>2, <2>3 DEF ParseInv, Text!Dims, Text!Finite
<1>5. dumps' \in 0 .. 2 /\ (dumps' = 2 => dumps > 0)
  BY <1>1
<1>6. dumps' = 2 => \A i \in DOMAIN data : Text!Printed(data[i]) = data[i]
  BY <1>1, <1>5, DumpedInv
<1>7. DumpsInv'
  BY <1>1, <1>2, <1>5, <1>6 DEF DumpsInv, Text!Vectors, Text!Dims, Text!Finite
<1> QED BY <1>4, <1>7 DEF TextInv

LEMMA TextInitInv == ASSUME Text!Init PROVE TextInv
<1>1. /\ lit \in Texts /\ typmod \in {-1} \cup Text!Dims
      /\ pt = 1 /\ data = <<>> /\ pc = "start" /\ dumps = 0
  BY DEF Text!Init
<1>2. lit \in Seq(TokenSet)
  BY <1>1, HVectorTextAssumption DEF TokenSet
<1>3. 1 \in 1 .. Len(lit) + 1
  <2>1. Len(lit) \in Nat
    BY <1>2
  <2> QED BY <2>1
<1>4. <<>> \in Seq(Text!Finite) /\ Len(<<>>) <= MaxDim
  BY HVectorAssumption
<1>5. PartInv(lit, typmod, 1, <<>>, "start")
  BY DEF PartInv
<1> QED BY <1>1, <1>2, <1>3, <1>4, <1>5 DEF TextInv, ParseInv, DumpsInv

LEMMA TextStepInv == ASSUME TextInv, Text!Next PROVE TextInv'
<1>1. ASSUME Text!Keep, ParseInv' PROVE TextInv'
  BY <1>1 DEF TextInv, DumpsInv, Text!Keep, Text!Vectors, Text!Dims, Text!Finite
<1>2. CASE Text!Start
  BY <1>1, <1>2, StartInv DEF TextInv, Text!Start, Text!Fail
<1>3. CASE Text!Element
  BY <1>1, <1>3, ElementInv DEF TextInv, Text!Element, Text!Fail
<1>4. CASE Text!Separator
  BY <1>1, <1>4, SeparatorInv DEF TextInv, Text!Separator, Text!Fail
<1>5. CASE Text!Trailing
  BY <1>1, <1>5, TrailingInv DEF TextInv, Text!Trailing, Text!Fail
<1>6. CASE Text!Dump
  BY <1>6, DumpInv
<1> QED BY <1>2, <1>3, <1>4, <1>5, <1>6 DEF Text!Next

\* What the invariant says of the properties
LEMMA GrammarIsAccepted == ASSUME TextInv PROVE Text!AcceptsGrammar
<1> DEFINE s == Text!NoSpace(lit)
           vec == [i \in 1 .. Len(s) \div 2 |-> s[2 * i].val]
           accepted(w) == Text!Denotes(lit, w) /\ typmod \in {-1, Len(w)}
<1>1. pc = "result" => data \in Text!Vectors /\ accepted(data)
  BY ResultInv DEF TextInv
<1>2. pc = "error" => ~(vec \in Text!Vectors /\ accepted(vec))
  <2> SUFFICES ASSUME pc = "error" PROVE ~(vec \in Text!Vectors /\ accepted(vec))
    OBVIOUS
  <2>1. \A w \in Text!Vectors : ~accepted(w)
    BY DEF TextInv, ParseInv, PartInv, Rejected, Accepted
  <2> HIDE DEF accepted, vec
  <2> QED BY <2>1
<1> QED BY <1>1, <1>2 DEF Text!AcceptsGrammar

LEMMA DumpsAreRead == ASSUME TextInv PROVE Text!DumpRestores
<1>1. dumps > 0 => pc # "error"
  BY DumpedInv
<1>2. ASSUME dumps > 0, pc = "result"
      PROVE  /\ data = [i \in DOMAIN dumped |-> Text!Printed(dumped[i])]
             /\ dumps = 2 => data = dumped
  <2>1. data = [i \in DOMAIN dumped |-> Text!Printed(dumped[i])]
    BY <1>2, DumpedInv
  <2>2. ASSUME dumps = 2 PROVE data = dumped
    <3>1. dumped \in Text!Vectors /\ \A i \in DOMAIN dumped : Text!Printed(dumped[i]) = dumped[i]
      BY <1>2, <2>2 DEF TextInv, DumpsInv
    <3>2. PICK m \in 1 .. MaxDim : dumped \in [1 .. m -> Text!Finite]
      BY <3>1 DEF Text!Vectors, Text!Dims
    <3>3. dumped = [i \in DOMAIN dumped |-> dumped[i]]
      BY <3>2
    <3>4. [i \in DOMAIN dumped |-> Text!Printed(dumped[i])] = [i \in DOMAIN dumped |-> dumped[i]]
      BY <3>1
    <3> QED BY <2>1, <3>3, <3>4
  <2> QED BY <2>1, <2>2
<1> QED BY <1>1, <1>2 DEF Text!DumpRestores
-----------------------------------------------------------------------------
(* Messages and arrays.                                                    *)

LEMMA MessageIsRead ==
    ASSUME NEW a \in Calls!Vectors, NEW mod
    PROVE  Calls!hvector_recv(Calls!hvector_send(a), mod)
               = IF mod \in {-1, Len(a)} THEN a ELSE Calls!Error
<1> DEFINE msg == Calls!hvector_send(a)
<1>1. msg.dim = Len(a) /\ msg.unused = 0 /\ msg.data = a
  BY DEF Calls!hvector_send
<1>2. /\ a \in Seq(Int) /\ Len(a) \in 1 .. MaxDim /\ Len(a) \in Nat
      /\ \A i \in 1 .. Len(a) : a[i] \in Finite
  <2>1. a \in Seq(Calls!Finite) /\ Calls!Finite \subseteq Int
    BY VectorsAre, SameFloats, FloatsAre
  <2>2. a \in Seq(Int)
    BY <2>1, SeqMonotonic
  <2> QED BY <2>2, VectorsAre, SameFloats
<1>3. \A i \in 1 .. Len(a) : Calls!is_valid_float(a[i])
  <2>1. \A x \in Finite : x # NaN /\ x # Inf /\ x # -Inf
    BY FloatsAre
  <2> QED BY <1>2, <2>1, SameFloats DEF Calls!is_valid_float, Calls!IsInf
<1>4. SubSeq(a, 1, Len(a)) = a
  BY <1>2, SubSeqFull
<1>5. Calls!CheckDim(Len(a)) /\ (Calls!CheckExpectedDim(mod, Len(a)) <=> mod \in {-1, Len(a)})
  BY <1>2 DEF Calls!CheckDim, Calls!Dims, Calls!CheckExpectedDim
<1> HIDE DEF msg
<1>6. Calls!hvector_recv(msg, mod) =
          IF /\ Calls!CheckDim(msg.dim) /\ Calls!CheckExpectedDim(mod, msg.dim) /\ msg.unused = 0
             /\ msg.dim <= Len(msg.data)
             /\ \A i \in 1 .. msg.dim : Calls!is_valid_float(msg.data[i])
          THEN SubSeq(msg.data, 1, msg.dim) ELSE Calls!Error
  BY DEF Calls!hvector_recv
<1>7. Len(a) <= Len(a)
  BY <1>2
<1>8. Calls!hvector_recv(msg, mod) =
          IF Calls!CheckDim(Len(a)) /\ Calls!CheckExpectedDim(mod, Len(a))
          THEN a ELSE Calls!Error
  BY <1>1, <1>3, <1>4, <1>6, <1>7
<1>9. Calls!hvector_recv(msg, mod) = IF mod \in {-1, Len(a)} THEN a ELSE Calls!Error
  BY <1>5, <1>8
<1> QED BY <1>9 DEF msg

LEMMA ArrayIsRead ==
    ASSUME NEW a \in Calls!Vectors, NEW mod
    PROVE  Calls!array_to_hvector(Calls!hvector_to_float4(a), mod)
               = IF mod \in {-1, Len(a)} THEN a ELSE Calls!Error
<1> DEFINE arr == Calls!hvector_to_float4(a)
           vec == [i \in DOMAIN arr.data |->
                      IF arr.data[i] = Calls!NaN THEN Calls!NaN ELSE Calls!ToFloat(arr.data[i], 1)]
<1>1. arr.ndim = 1 /\ arr.nulls = FALSE /\ arr.data = a
  BY DEF Calls!hvector_to_float4
<1>2. /\ DOMAIN a = 1 .. Len(a) /\ Len(a) \in 1 .. MaxDim /\ a = [i \in 1 .. Len(a) |-> a[i]]
      /\ \A i \in 1 .. Len(a) : a[i] \in Finite
  <2>1. a \in [1 .. Len(a) -> Calls!Finite]
    BY VectorsAre
  <2> QED BY <2>1, VectorsAre, SameFloats
<1>3. \A x \in Finite : x \in Int /\ x # NaN /\ x # Inf /\ x # -Inf /\ Calls!ToFloat(x, 1) = x
  <2> SUFFICES ASSUME NEW x \in Finite
               PROVE  x \in Int /\ x # NaN /\ x # Inf /\ x # -Inf /\ Calls!ToFloat(x, 1) = x
    OBVIOUS
  <2>1. x \in Int /\ x # NaN /\ x # Inf /\ x # -Inf
    BY FloatsAre
  <2>2. 1 \in Nat \ {0}
    OBVIOUS
  <2>3. ToFloat(x, 1) = x
    BY <2>1, <2>2, RoundingIs
  <2> QED BY <2>1, <2>3, SameRounding
<1>4. vec = a
  <2>1. vec = [i \in 1 .. Len(a) |-> IF a[i] = Calls!NaN THEN Calls!NaN ELSE Calls!ToFloat(a[i], 1)]
    BY <1>1, <1>2
  <2> HIDE DEF vec, arr
  <2> QED BY <1>2, <1>3, <2>1, SameFloats
<1>5. \A i \in DOMAIN a : Calls!is_valid_float(a[i])
  BY <1>2, <1>3, SameFloats DEF Calls!is_valid_float, Calls!IsInf
<1>6. Calls!CheckDim(Len(a)) /\ (Calls!CheckExpectedDim(mod, Len(a)) <=> mod \in {-1, Len(a)})
  BY <1>2 DEF Calls!CheckDim, Calls!Dims, Calls!CheckExpectedDim
<1>7. Calls!array_to_hvector(arr, mod) =
          IF /\ arr.ndim <= 1 /\ ~arr.nulls
             /\ Calls!CheckDim(Len(vec)) /\ Calls!CheckExpectedDim(mod, Len(vec))
             /\ \A i \in DOMAIN vec : Calls!is_valid_float(vec[i])
          THEN vec ELSE Calls!Error
  <2> HIDE DEF arr
  <2> QED BY DEF Calls!array_to_hvector
<1> HIDE DEF vec, arr
<1>8. Calls!array_to_hvector(arr, mod) = IF mod \in {-1, Len(a)} THEN a ELSE Calls!Error
  BY <1>1, <1>4, <1>5, <1>6, <1>7
<1> QED BY <1>8 DEF arr

LEMMA BinaryIsRead == ASSUME Calls!TypeOK PROVE Calls!BinaryRestores
<1>1. u \in Calls!Vectors
  BY DEF Calls!TypeOK
<1> QED BY <1>1, MessageIsRead, ArrayIsRead DEF Calls!BinaryRestores
-----------------------------------------------------------------------------
(* Bit strings: hvector_binary_quantize.                                   *)

\* The digits of the k-th byte, in the order they are written
Digit(a, k) ==
    [j \in 0 .. BitsPerByte - 1 |->
        IF (k - 1) * BitsPerByte + j + 1 <= Len(a)
        THEN Calls!Bit(a[(k - 1) * BitsPerByte + j + 1], j) ELSE 0]

\* The bytes are sums of their digits: the full ones, and the rest.
LEMMA FullByteIsSumOn ==
    ASSUME NEW a, NEW k, IsFiniteSet(0 .. BitsPerByte - 1)
    PROVE  Calls!SumOver(LAMBDA j : Calls!Bit(a[(k - 1) * BitsPerByte + j + 1], j), 0 .. BitsPerByte - 1)
               = SumOn([j \in 0 .. BitsPerByte - 1 |-> Calls!Bit(a[(k - 1) * BitsPerByte + j + 1], j)],
                       0 .. BitsPerByte - 1)
<1> DEFINE S == 0 .. BitsPerByte - 1
           bit(j) == Calls!Bit(a[(k - 1) * BitsPerByte + j + 1], j)
           F == [j \in S |-> bit(j)]
           Eq(f) == f = [s \in SUBSET S |->
                            IF s = {} THEN 0
                            ELSE bit(CHOOSE x \in s : TRUE) + f[s \ {CHOOSE x \in s : TRUE}]]
           g == CHOOSE f : Eq(f)
<1>1. Calls!SumOver(LAMBDA j : Calls!Bit(a[(k - 1) * BitsPerByte + j + 1], j), S) = g[S]
  BY Zenon DEF Calls!SumOver, Calls!MapThenSumSet, Calls!MapThenFoldSet
<1>2. ASSUME NEW f PROVE Eq(f) <=> Sums(f, F, S)
  <2>1. \A s \in SUBSET S : s # {} => F[Chosen(s)] = bit(Chosen(s))
    <3> HIDE DEF bit, S
    <3> QED BY ChosenIn
  <2>2. \A s \in SUBSET S : SumsBy(f, F, s) = IF s = {} THEN 0 ELSE bit(Chosen(s)) + f[s \ {Chosen(s)}]
    <3> HIDE DEF F, bit, S
    <3> QED BY <2>1 DEF SumsBy
  <2>3. [s \in SUBSET S |-> SumsBy(f, F, s)]
            = [s \in SUBSET S |-> IF s = {} THEN 0 ELSE bit(Chosen(s)) + f[s \ {Chosen(s)}]]
    <3> HIDE DEF F, bit, S
    <3> QED BY <2>2
  <2> HIDE DEF F, bit, S
  <2> QED BY <2>3 DEF Sums, Chosen
<1> HIDE DEF Eq, F
<1>3. Eq(g)
  BY <1>2, SumsExist
<1> HIDE DEF g
<1>4. g[S] = SumOn(F, S)
  BY <1>2, <1>3, SumIsSumOn
<1> QED BY <1>1, <1>4 DEF F

LEMMA RestByteIsSumOn ==
    ASSUME NEW a, NEW r, r = Len(a) % BitsPerByte, IsFiniteSet(0 .. r - 1)
    PROVE  Calls!RestByte(a)
               = SumOn([j \in 0 .. r - 1 |-> Calls!Bit(a[Calls!FullBytes(a) * BitsPerByte + j + 1], j)],
                       0 .. r - 1)
<1> DEFINE S == 0 .. r - 1
           bit(j) == Calls!Bit(a[Calls!FullBytes(a) * BitsPerByte + j + 1], j)
           F == [j \in S |-> bit(j)]
           Eq(f) == f = [s \in SUBSET S |->
                            IF s = {} THEN 0
                            ELSE bit(CHOOSE x \in s : TRUE) + f[s \ {CHOOSE x \in s : TRUE}]]
           g == CHOOSE f : Eq(f)
<1>1. Calls!RestByte(a) = g[S]
  BY Zenon DEF Calls!RestByte, Calls!SumOver, Calls!MapThenSumSet, Calls!MapThenFoldSet
<1>2. ASSUME NEW f PROVE Eq(f) <=> Sums(f, F, S)
  <2>1. \A s \in SUBSET S : s # {} => F[Chosen(s)] = bit(Chosen(s))
    <3> HIDE DEF bit, S
    <3> QED BY ChosenIn
  <2>2. \A s \in SUBSET S : SumsBy(f, F, s) = IF s = {} THEN 0 ELSE bit(Chosen(s)) + f[s \ {Chosen(s)}]
    <3> HIDE DEF F, bit, S
    <3> QED BY <2>1 DEF SumsBy
  <2>3. [s \in SUBSET S |-> SumsBy(f, F, s)]
            = [s \in SUBSET S |-> IF s = {} THEN 0 ELSE bit(Chosen(s)) + f[s \ {Chosen(s)}]]
    <3> HIDE DEF F, bit, S
    <3> QED BY <2>2
  <2> HIDE DEF F, bit, S
  <2> QED BY <2>3 DEF Sums, Chosen
<1> HIDE DEF Eq, F
<1>3. Eq(g)
  BY <1>2, SumsExist
<1> HIDE DEF g
<1>4. g[S] = SumOn(F, S)
  BY <1>2, <1>3, SumIsSumOn
<1> QED BY <1>1, <1>4 DEF F

\* n is made of so many times w, and a rest.
LEMMA QuotientAndRest ==
    ASSUME NEW n \in Nat, NEW w \in Nat \ {0}
    PROVE  /\ n \div w \in Nat /\ n % w \in 0 .. w - 1 /\ n = (n \div w) * w + (n % w)
           /\ \A m, r \in Nat : n = m * w + r /\ r < w => m = n \div w /\ r = n % w
<1> DEFINE q == n \div w
           p == n % w
<1>1. q \in Nat /\ p \in 0 .. w - 1 /\ n = w * q + p
  OBVIOUS
<1> HIDE DEF q, p
<1>2. q * w = w * q /\ q * w \in Nat
  BY <1>1
<1>3. ASSUME NEW m \in Nat, NEW r \in Nat, n = m * w + r, r < w PROVE m = q /\ r = p
  <2>1. m * w \in Nat /\ (m + 1) * w = m * w + w /\ (q + 1) * w = q * w + w
    BY <1>1
  <2>2. m <= q
    <3> SUFFICES ASSUME q + 1 <= m PROVE FALSE
      BY <1>1
    <3>1. (q + 1) * w <= m * w
      BY <1>1
    <3> QED BY <1>1, <1>2, <1>3, <2>1, <3>1
  <2>3. q <= m
    <3> SUFFICES ASSUME m + 1 <= q PROVE FALSE
      BY <1>1
    <3>1. (m + 1) * w <= q * w
      BY <1>1
    <3> QED BY <1>1, <1>2, <1>3, <2>1, <3>1
  <2>4. m = q
    BY <1>1, <2>2, <2>3
  <2> QED BY <1>1, <1>2, <1>3, <2>4
<1> QED BY <1>1, <1>2, <1>3 DEF q, p

LEMMA BytesAre ==
    ASSUME NEW a \in Calls!Vectors
    PROVE  LET bytes == Calls!hvector_binary_quantize(a)
           IN  /\ Len(bytes) \in Nat
               /\ \A k \in 1 .. Len(bytes) : /\ Summands(Digit(a, k), BitsPerByte)
                                             /\ bytes[k] = SumOn(Digit(a, k), 0 .. BitsPerByte - 1)
<1> DEFINE w == BitsPerByte
           n == Len(a)
           q == n \div w
           r == n % w
           l == (n + w - 1) \div w
           bytes == Calls!hvector_binary_quantize(a)
<1>1. w \in Nat \ {0} /\ n \in Nat /\ \A i \in 1 .. n : a[i] \in Int
  BY HVectorAssumption, VectorsAre
<1>2. q \in Nat /\ r \in 0 .. w - 1 /\ n = q * w + r
  <2> HIDE DEF n, w
  <2> QED BY <1>1, QuotientAndRest
<1>3. l \in Nat /\ l * w <= n + w - 1
  <2> DEFINE m == n + w - 1
  <2>1. m \in Nat
    <3> HIDE DEF n, w
    <3> QED BY <1>1
  <2> HIDE DEF n, w, m
  <2>2. m \div w \in Nat /\ m % w \in 0 .. w - 1 /\ m = (m \div w) * w + (m % w)
    BY <1>1, <2>1, QuotientAndRest
  <2>3. (m \div w) * w \in Nat
    BY <1>1, <2>2
  <2> QED BY <1>1, <2>2, <2>3 DEF m
<1>4. l <= q + 1
  <2> HIDE DEF n, w, q, r, l
  <2> SUFFICES ASSUME q + 2 <= l PROVE FALSE
    BY <1>2, <1>3
  <2>1. (q + 2) * w <= l * w
    BY <1>1, <1>2, <1>3
  <2>2. (q + 2) * w = q * w + 2 * w /\ q * w \in Nat /\ l * w \in Nat
    BY <1>1, <1>2, <1>3
  <2> QED BY <1>1, <1>2, <1>3, <2>1, <2>2
<1>5. /\ bytes = [k \in 1 .. l |->
                     IF k <= q
                     THEN Calls!SumOver(LAMBDA j : Calls!Bit(a[(k - 1) * w + j + 1], j), 0 .. w - 1)
                     ELSE Calls!RestByte(a)]
      /\ Calls!FullBytes(a) = q
  BY DEF Calls!hvector_binary_quantize, Calls!FullBytes
<1>6. Len(bytes) = l
  <2> HIDE DEF l
  <2> QED BY <1>3, <1>5
<1>7. ASSUME NEW k \in 1 .. l
      PROVE  /\ k \in Nat /\ k >= 1 /\ (k - 1) * w \in Nat
             /\ k <= q => (k - 1) * w + w <= n
             /\ k > q => (k - 1) * w = q * w /\ k = q + 1
  <2> HIDE DEF w, n, q, r, l
  <2>1. k \in Nat /\ k >= 1 /\ k - 1 \in Nat /\ (k - 1) * w \in Nat
    BY <1>1, <1>3
  <2>2. k <= q => k * w <= q * w
    BY <1>1, <1>2, <2>1
  <2>3. k * w = (k - 1) * w + w /\ k * w \in Nat /\ q * w \in Nat
    BY <1>1, <1>2, <2>1
  <2>4. k > q => k = q + 1 /\ k - 1 = q
    BY <1>2, <1>3, <1>4, <2>1
  <2> QED BY <1>1, <1>2, <2>1, <2>2, <2>3, <2>4
<1>8. ASSUME NEW k \in 1 .. l, NEW j \in 0 .. w - 1
      PROVE  Digit(a, k)[j] = IF (k - 1) * w + j + 1 <= n THEN Calls!Bit(a[(k - 1) * w + j + 1], j) ELSE 0
  BY DEF Digit
<1>9. ASSUME NEW k \in 1 .. l PROVE Summands(Digit(a, k), w)
  <2>1. ASSUME NEW x, NEW j PROVE Calls!Bit(x, j) \in {0, PowerOf(2, w - 1 - j)}
    BY DEF Calls!Bit, Calls!Power, PowerOf, Powers, PowersUpTo
  <2> HIDE DEF w, n, l
  <2>2. ASSUME NEW j \in 0 .. w - 1 PROVE Digit(a, k)[j] \in {0, PowerOf(2, w - 1 - j)}
    BY <1>8, <2>1
  <2> QED BY <2>2 DEF Summands
<1>10. IsFiniteSet(0 .. w - 1) /\ IsFiniteSet(0 .. r - 1)
  <2>1. 0 \in Int /\ w - 1 \in Int /\ r - 1 \in Int
    <3> HIDE DEF w, r
    <3> QED BY <1>1, <1>2
  <2> HIDE DEF w, r
  <2> QED BY <2>1, FS_Interval
<1>11. ASSUME NEW k \in 1 .. l, k <= q PROVE bytes[k] = SumOn(Digit(a, k), 0 .. w - 1)
  <2> DEFINE F == [j \in 0 .. w - 1 |-> Calls!Bit(a[(k - 1) * w + j + 1], j)]
  <2>1. bytes[k] = SumOn(F, 0 .. w - 1)
    <3>1. bytes[k] = Calls!SumOver(LAMBDA j : Calls!Bit(a[(k - 1) * w + j + 1], j), 0 .. w - 1)
      <4> HIDE DEF l, q
      <4> QED BY <1>5, <1>11
    <3> QED BY <1>10, <3>1, FullByteIsSumOn
  <2>2. \A j \in 0 .. w - 1 : (k - 1) * w + j + 1 <= n
    <3> DEFINE z == (k - 1) * w
    <3>1. z \in Nat /\ z + w <= n
      <4> HIDE DEF l, q, n, w
      <4> QED BY <1>7, <1>11
    <3> HIDE DEF z, n, w
    <3>2. \A j \in 0 .. w - 1 : z + j + 1 <= n
      BY <1>1, <3>1
    <3> QED BY <3>2 DEF z
  <2>3. \A j \in 0 .. w - 1 : F[j] = Digit(a, k)[j]
    <3> HIDE DEF l, n, w
    <3> QED BY <1>8, <2>2
  <2> HIDE DEF F, w
  <2>4. SumOn(F, 0 .. w - 1) = SumOn(Digit(a, k), 0 .. w - 1)
    BY <1>10, <2>3, SumOnAgrees
  <2> QED BY <2>1, <2>4
<1>12. ASSUME NEW k \in 1 .. l, k > q PROVE bytes[k] = SumOn(Digit(a, k), 0 .. w - 1)
  <2> DEFINE F == [j \in 0 .. r - 1 |-> Calls!Bit(a[q * w + j + 1], j)]
             D == Digit(a, k)
  <2>1. bytes[k] = SumOn(F, 0 .. r - 1)
    <3>1. bytes[k] = Calls!RestByte(a)
      <4>1. ~(k <= q)
        <5> HIDE DEF q, l
        <5> QED BY <1>2, <1>7, <1>12
      <4> HIDE DEF l, q
      <4> QED BY <1>5, <4>1
    <3>2. Calls!RestByte(a)
              = SumOn([j \in 0 .. r - 1 |-> Calls!Bit(a[Calls!FullBytes(a) * w + j + 1], j)], 0 .. r - 1)
      BY <1>10, RestByteIsSumOn
    <3> QED BY <1>5, <3>1, <3>2
  <2>2. (k - 1) * w = q * w
    <3> HIDE DEF l, q, n, w
    <3> QED BY <1>7, <1>12
  <2>3. ASSUME NEW j \in 0 .. w - 1 PROVE D[j] = IF j < r THEN Calls!Bit(a[q * w + j + 1], j) ELSE 0
    <3> DEFINE z == q * w
    <3>1. z \in Nat
      <4> HIDE DEF q, w
      <4> QED BY <1>1, <1>2
    <3>2. D[j] = IF z + j + 1 <= n THEN Calls!Bit(a[z + j + 1], j) ELSE 0
      <4> HIDE DEF l, n, w
      <4> QED BY <1>8, <2>2
    <3>3. n = z + r
      BY <1>2
    <3> HIDE DEF z, n, w, r, D
    <3>4. z + j + 1 <= n <=> j < r
      BY <1>1, <1>2, <3>1, <3>3
    <3> QED BY <3>2, <3>4 DEF z
  <2>4. 0 .. w - 1 = (0 .. r - 1) \cup (r .. w - 1) /\ (0 .. r - 1) \cap (r .. w - 1) = {}
        /\ 0 .. r - 1 \in SUBSET (0 .. w - 1) /\ r .. w - 1 \in SUBSET (0 .. w - 1)
    <3> HIDE DEF w, r
    <3> QED BY <1>1, <1>2
  <2>5. \A j \in 0 .. w - 1 : D[j] \in Int
    <3>1. Summands(D, w)
      BY <1>9
    <3> HIDE DEF D, w
    <3> QED BY <1>1, <3>1, SummandsAre
  <2>6. SumOn(F, 0 .. r - 1) = SumOn(D, 0 .. r - 1)
    <3>1. \A j \in 0 .. r - 1 : F[j] = D[j]
      <4>1. \A j \in 0 .. r - 1 : j \in 0 .. w - 1 /\ j < r
        <5> HIDE DEF w, r
        <5> QED BY <1>1, <1>2
      <4> HIDE DEF D, w, r, q
      <4> QED BY <2>3, <4>1
    <3> HIDE DEF F, D, r
    <3> QED BY <1>10, <3>1, SumOnAgrees
  <2>7. SumOn(D, r .. w - 1) = 0
    <3> DEFINE N == [j \in r .. w - 1 |-> 0]
    <3>1. IsFiniteSet(r .. w - 1)
      <4> HIDE DEF w, r
      <4> QED BY <1>1, <1>2, FS_Interval
    <3>2. \A j \in r .. w - 1 : D[j] = 0
      <4>1. \A j \in r .. w - 1 : j \in 0 .. w - 1 /\ ~(j < r)
        <5> HIDE DEF w, r
        <5> QED BY <1>1, <1>2
      <4> HIDE DEF D, w, r, q
      <4> QED BY <2>3, <4>1
    <3>3. SumOn(D, r .. w - 1) \in Int /\ SumOn(D, r .. w - 1) <= 0 * Cardinality(r .. w - 1)
          /\ -(0 * Cardinality(r .. w - 1)) <= SumOn(D, r .. w - 1)
      <4>1. \A j \in r .. w - 1 : D[j] \in Int /\ D[j] <= 0 /\ -0 <= D[j]
        <5> HIDE DEF D, w, r, q
        <5> QED BY <3>2
      <4> HIDE DEF D, w, r
      <4> QED BY <3>1, <4>1, SumOnAdds, SumOnBound
    <3>4. Cardinality(r .. w - 1) \in Nat
      BY <3>1, FS_CardinalityType
    <3> HIDE DEF D, w, r
    <3> QED BY <3>3, <3>4
  <2>8. SumOn(D, 0 .. w - 1) = SumOn(D, 0 .. r - 1) + SumOn(D, r .. w - 1)
    <3> DEFINE S == 0 .. w - 1
               R == 0 .. r - 1
               T == r .. w - 1
    <3>1. /\ IsFiniteSet(S) /\ \A j \in S : D[j] \in Int
          /\ S = R \cup T /\ R \cap T = {}
          /\ R \in SUBSET S /\ T \in SUBSET S
      BY <1>10, <2>4, <2>5
    <3> HIDE DEF S, R, T, D, w, r
    <3>2. SumOn(D, R \cup T) = SumOn(D, R) + SumOn(D, T)
      <4>1. R \in SUBSET S /\ T \in SUBSET S /\ R \cap T = {}
        BY <3>1
      <4>2. IsFiniteSet(S)
        BY <3>1
      <4>3. \A j \in S : D[j] \in Int
        BY <3>1
      <4> QED BY <4>1, <4>2, <4>3, SumOnUnion, SMTT(30)
    <3>3. SumOn(D, S) = SumOn(D, R) + SumOn(D, T)
      BY <3>1, <3>2, Zenon
    <3> QED BY <3>3 DEF S, R, T
  <2>9. SumOn(D, 0 .. r - 1) \in Int
    <3>1. \A j \in 0 .. r - 1 : D[j] \in Int
      <4> HIDE DEF D, w, r
      <4> QED BY <2>4, <2>5
    <3> HIDE DEF D, r
    <3> QED BY <1>10, <3>1, SumOnAdds
  <2> HIDE DEF F, r, D
  <2> QED BY <2>1, <2>6, <2>7, <2>8, <2>9 DEF D
<1>13. ASSUME NEW k \in 1 .. l PROVE bytes[k] = SumOn(Digit(a, k), 0 .. w - 1)
  <2>1. k <= q \/ k > q
    <3> HIDE DEF q, l
    <3> QED BY <1>2, <1>7
  <2> QED BY <1>11, <1>12, <2>1
<1> QED BY <1>3, <1>6, <1>9, <1>13

LEMMA BitsAre == ASSUME Calls!TypeOK PROVE Calls!QuantizedBits
<1> DEFINE bytes == Calls!hvector_binary_quantize(u)
           w == BitsPerByte
           n == Len(u)
           bit(k) == (bytes[(k - 1) \div w + 1] \div Calls!Power(2, w - 1 - ((k - 1) % w))) % 2
<1>1. u \in Calls!Vectors /\ w \in Nat \ {0} /\ n \in Nat /\ \A i \in 1 .. n : u[i] \in Int
  BY HVectorAssumption, VectorsAre DEF Calls!TypeOK
<1>2. Len(bytes) \in Nat /\ \A k \in 1 .. Len(bytes) :
        Summands(Digit(u, k), w) /\ bytes[k] = SumOn(Digit(u, k), 0 .. w - 1)
  BY <1>1, BytesAre
<1>3. ASSUME NEW k \in 1 .. Len(bytes) * w PROVE bit(k) = IF k <= n /\ u[k] > 0 THEN 1 ELSE 0
  <2> DEFINE b == (k - 1) \div w + 1
             i == (k - 1) % w
             p == PowerOf(2, w - 1 - i)
  <2>1. k \in Nat /\ k >= 1 /\ k - 1 \in Nat /\ k <= Len(bytes) * w
    <3> DEFINE l == Len(bytes)
    <3> HIDE DEF l, w
    <3>1. l * w \in Nat
      BY <1>1, <1>2 DEF l
    <3> QED BY <3>1 DEF l
  <2>2. /\ b - 1 \in Nat /\ b \in Nat /\ i \in 0 .. w - 1 /\ k - 1 = (b - 1) * w + i
    <3> DEFINE c == k - 1
               d == c \div w
    <3>1. c \in Nat /\ c \div w \in Nat /\ c % w \in 0 .. w - 1 /\ c = (c \div w) * w + (c % w)
      <4> HIDE DEF c, w
      <4> QED BY <1>1, <2>1, QuotientAndRest DEF c
    <3>2. d \in Nat /\ b = d + 1 /\ b - 1 = d /\ b \in Nat
      <4>1. d \in Nat /\ b = d + 1
        BY <3>1
      <4> HIDE DEF d, b
      <4> QED BY <4>1
    <3> QED BY <3>1, <3>2
  <2> HIDE DEF b, i
  <2>3. b \in 1 .. Len(bytes)
    <3> DEFINE l == Len(bytes)
    <3> HIDE DEF l, w
    <3>1. l \in Nat /\ b >= 1
      BY <1>2, <2>2 DEF l
    <3>2. b <= l
      <4> SUFFICES ASSUME l <= b - 1 PROVE FALSE
        BY <2>2, <3>1
      <4>1. l * w <= (b - 1) * w /\ l * w \in Nat /\ (b - 1) * w \in Nat
        BY <1>1, <2>2, <3>1
      <4> QED BY <2>1, <2>2, <4>1 DEF l
    <3> QED BY <2>2, <3>1, <3>2 DEF l
  <2>4. bit(k) = (SumOn(Digit(u, b), 0 .. w - 1) \div p) % 2
    <3>1. bytes[b] = SumOn(Digit(u, b), 0 .. w - 1)
      BY <1>2, <2>3
    <3>2. Calls!Power(2, w - 1 - i) = p
      BY DEF Calls!Power, PowerOf, Powers, PowersUpTo
    <3>3. bit(k) = (bytes[b] \div Calls!Power(2, w - 1 - i)) % 2
      BY DEF b, i
    <3> QED BY <3>1, <3>2, <3>3
  <2>5. bit(k) = IF Digit(u, b)[i] = 0 THEN 0 ELSE 1
    <3>1. Summands(Digit(u, b), w)
      BY <1>2, <2>3
    <3> HIDE DEF w
    <3>2. (SumOn(Digit(u, b), 0 .. w - 1) \div p) % 2 = IF Digit(u, b)[i] = 0 THEN 0 ELSE 1
      BY <1>1, <2>2, <3>1, DigitOfSum
    <3> QED BY <2>4, <3>2
  <2>6. Digit(u, b)[i] = IF k <= n THEN Calls!Bit(u[k], i) ELSE 0
    <3>1. (b - 1) * w + i + 1 = k
      <4> HIDE DEF w
      <4>1. (b - 1) * w \in Nat /\ i \in Nat
        BY <1>1, <2>2
      <4> QED BY <2>1, <2>2, <4>1
    <3> QED BY <2>2, <3>1 DEF Digit
  <2>7. Calls!Bit(u[k], i) = IF u[k] > 0 THEN p ELSE 0
    BY DEF Calls!Bit, Calls!Power, PowerOf, Powers, PowersUpTo
  <2>8. p # 0
    <3>1. w - 1 - i \in Nat
      <4> HIDE DEF w
      <4> QED BY <1>1, <2>2
    <3> HIDE DEF w
    <3> QED BY <3>1, TwoPowers
  <2> HIDE DEF bit, p, n
  <2> QED BY <2>5, <2>6, <2>7, <2>8
<1> QED BY <1>3 DEF Calls!QuantizedBits
-----------------------------------------------------------------------------
(* The invariant of the calls and of the text.                             *)

CallsAndText ==
    /\ machine = "calls" => Calls!TypeOK
    /\ machine = "text" => TextInv

LEMMA CallsAndTextInvariant == Spec => []CallsAndText
<1>1. Init => CallsAndText
  <2> SUFFICES ASSUME Init PROVE CallsAndText
    OBVIOUS
  <2>1. (machine = "calls" => Calls!Init) /\ (machine = "text" => Text!Init)
    BY DEF Init
  <2> QED BY <2>1, CallsInitInv, TextInitInv DEF CallsAndText
<1>2. CallsAndText /\ [Next]_vars => CallsAndText'
  <2> SUFFICES ASSUME CallsAndText, [Next]_vars PROVE CallsAndText'
    OBVIOUS
  <2>1. /\ UNCHANGED machine
        /\ machine = "calls" => Calls!Next \/ UNCHANGED registers
        /\ machine = "text" => Text!Next \/ UNCHANGED textVars
    BY DEF Next, vars
  <2>2. machine = "calls" => Calls!TypeOK'
    BY <2>1, CallsStepInv DEF CallsAndText, registers, Calls!TypeOK
  <2>3. ASSUME machine = "text" PROVE TextInv'
    <3>1. CASE UNCHANGED textVars
      BY <2>3, <3>1
      DEF CallsAndText, textVars, TextInv, ParseInv, DumpsInv, PartInv, Text!Vectors, Text!Dims, Text!Finite
    <3> QED BY <2>1, <2>3, <3>1, TextStepInv DEF CallsAndText
  <2> QED BY <2>1, <2>2, <2>3 DEF CallsAndText
<1> QED BY <1>1, <1>2, PTL DEF Spec

\* Whatever is called, with whatever messages and arrays from outside, every value
\* has 1 to VECTOR_MAX_DIM elements, all of them finite; and hvector_in never
\* stores an element behind its array.
THEOREM ValuesAreVectors == Spec => []TypeOK
<1>1. CallsAndText => TypeOK
  BY DEF CallsAndText, TypeOK, TextInv, ParseInv, Text!DataFits
<1> QED BY <1>1, CallsAndTextInvariant, PTL

\* hvector_subvector returns exactly the elements asked for that the vector has,
\* for all 32-bit arguments: where its sums and differences wrap around, it has
\* rejected the arguments or does not use the result.
THEOREM SlicesAreExact == Spec => []SubvectorIsSlice
<1>1. CallsAndText => SubvectorIsSlice
  BY SliceIs DEF CallsAndText, SubvectorIsSlice
<1> QED BY <1>1, CallsAndTextInvariant, PTL

\* hvector_binary_quantize sets a bit exactly for the elements that are positive, and
\* pads the last byte with zeros, whatever the length of the vector.
THEOREM BitsArePositiveElements == Spec => []QuantizedBits
<1>1. CallsAndText => QuantizedBits
  BY BitsAre DEF CallsAndText, QuantizedBits
<1> QED BY <1>1, CallsAndTextInvariant, PTL

\* hvector_in accepts a text if and only if it is a list of 1 to VECTOR_MAX_DIM
\* finite numbers in brackets, separated by commas, with spaces wherever one likes,
\* as many as the column has dimensions; it returns these numbers.
THEOREM TextsAreParsed == Spec => []AcceptsGrammar
<1>1. CallsAndText => AcceptsGrammar
  BY GrammarIsAccepted DEF CallsAndText, AcceptsGrammar
<1> QED BY <1>1, CallsAndTextInvariant, PTL

\* What hvector_out prints is accepted again by hvector_in, whatever the base and the
\* number of digits within FLT_DIG: the elements are rounded once, to what is printed
\* and from there to a float, and stay as they are from then on.  What leaves as a
\* message or as an array of float4 comes back as it was.
THEOREM DumpsAreRestored == Spec => []DumpRestores
<1>1. CallsAndText => DumpRestores
  BY DumpsAreRead, BinaryIsRead DEF CallsAndText, DumpRestores
<1> QED BY <1>1, CallsAndTextInvariant, PTL
-----------------------------------------------------------------------------
(* The order of vectors.                                                   *)

\* The lexicographic order
Less(a, b) ==
    \/ \E i \in 1 .. Len(a) :
        i <= Len(b) /\ a[i] < b[i] /\ \A j \in 1 .. i - 1 : a[j] = b[j]
    \/ Len(a) < Len(b) /\ \A j \in 1 .. Len(a) : a[j] = b[j]

LEMMA CompareIs ==
    ASSUME NEW a \in Calls!Vectors, NEW b \in Calls!Vectors
    PROVE  /\ Calls!hvector_cmp0(a, b) \in {-1, 0, 1}
           /\ Calls!hvector_cmp0(a, b) < 0 => Less(a, b)
           /\ Calls!hvector_cmp0(a, b) > 0 => Less(b, a)
           /\ Calls!hvector_cmp0(a, b) = 0 => a = b
<1> DEFINE D == Calls!FirstDifference(a, b)
<1>1. /\ a \in Seq(Calls!Finite) /\ b \in Seq(Calls!Finite)
      /\ Len(a) \in Nat /\ DOMAIN a = 1 .. Len(a) /\ \A i \in 1 .. Len(a) : a[i] \in Int
      /\ Len(b) \in Nat /\ DOMAIN b = 1 .. Len(b) /\ \A i \in 1 .. Len(b) : b[i] \in Int
  BY VectorsAre
<1>2. D = {i \in 1 .. Len(a) : i <= Len(b) /\ a[i] # b[i]}
  BY <1>1 DEF Calls!FirstDifference
<1> HIDE DEF D
<1>3. CASE D = {}
  <2>1. \A i \in 1 .. Len(a) : i <= Len(b) => a[i] = b[i]
    BY <1>2, <1>3
  <2>2. Calls!hvector_cmp0(a, b) = Calls!Sign(Len(a) - Len(b))
    BY <1>3 DEF D, Calls!hvector_cmp0
  <2>3. CASE Len(a) < Len(b)
    <3>1. Less(a, b)
      BY <1>1, <2>1, <2>3 DEF Less
    <3> QED BY <1>1, <2>2, <2>3, <3>1 DEF Calls!Sign
  <2>4. CASE Len(a) > Len(b)
    <3>1. Less(b, a)
      BY <1>1, <2>1, <2>4 DEF Less
    <3> QED BY <1>1, <2>2, <2>4, <3>1 DEF Calls!Sign
  <2>5. CASE Len(a) = Len(b)
    <3>1. a = b
      BY <1>1, <2>1, <2>5, SeqEqual
    <3> QED BY <1>1, <2>2, <2>5, <3>1 DEF Calls!Sign
  <2>6. Len(a) < Len(b) \/ Len(a) > Len(b) \/ Len(a) = Len(b)
    <3>1. Len(a) \in Nat /\ Len(b) \in Nat
      BY <1>1
    <3>2. \A m, n \in Nat : m < n \/ m > n \/ m = n
      OBVIOUS
    <3> QED BY <3>1, <3>2
  <2> QED BY <2>3, <2>4, <2>5, <2>6
<1>4. CASE D # {}
  <2>1. D \in SUBSET Nat
    BY <1>2
  <2>2. PICK m \in D : \A k \in D : m <= k
    BY <1>4, <2>1, LeastOf
  <2>3. Calls!Min(D) = m
    <3>1. \A x \in D : (\A k \in D : x <= k) => x = m
      BY <2>1, <2>2
    <3> QED BY <2>2, <3>1 DEF Calls!Min
  <2>4. Calls!hvector_cmp0(a, b) = Calls!Sign(a[m] - b[m])
    BY <1>4, <2>3 DEF D, Calls!hvector_cmp0
  <2>5. m \in 1 .. Len(a) /\ m \in 1 .. Len(b) /\ a[m] # b[m] /\ a[m] \in Int /\ b[m] \in Int
    BY <1>1, <1>2, <2>2
  <2>6. \A j \in 1 .. m - 1 : a[j] = b[j]
    BY <1>1, <1>2, <2>2, <2>5
  <2>7. CASE a[m] < b[m]
    <3>1. Less(a, b)
      BY <2>5, <2>6, <2>7 DEF Less
    <3> QED BY <2>4, <2>5, <2>7, <3>1 DEF Calls!Sign
  <2>8. CASE a[m] > b[m]
    <3>1. Less(b, a)
      BY <2>5, <2>6, <2>8 DEF Less
    <3> QED BY <2>4, <2>5, <2>8, <3>1 DEF Calls!Sign
  <2> QED BY <2>5, <2>7, <2>8
<1> QED BY <1>3, <1>4

LEMMA LessIsStrict ==
    ASSUME NEW a \in Calls!Vectors, NEW b \in Calls!Vectors, Less(a, b)
    PROVE  ~Less(b, a) /\ a # b
<1> USE VectorsAre
<1>1. CASE \E i \in 1 .. Len(a) : i <= Len(b) /\ a[i] < b[i] /\ \A j \in 1 .. i - 1 : a[j] = b[j]
  <2>1. PICK i \in 1 .. Len(a) : i <= Len(b) /\ a[i] < b[i] /\ \A j \in 1 .. i - 1 : a[j] = b[j]
    BY <1>1
  <2>2. i \in 1 .. Len(b) /\ a[i] \in Int /\ b[i] \in Int
    BY <2>1
  <2>3. ~(Len(b) < Len(a) /\ \A j \in 1 .. Len(b) : b[j] = a[j])
    BY <2>1, <2>2
  <2>4. ASSUME NEW k \in 1 .. Len(b), k <= Len(a), b[k] < a[k], \A j \in 1 .. k - 1 : b[j] = a[j]
        PROVE  FALSE
    <3>1. k \in 1 .. Len(a) /\ a[k] \in Int /\ b[k] \in Int
      BY <2>4
    <3>2. k < i => a[k] = b[k]
      BY <2>1, <3>1
    <3>3. i < k => a[i] = b[i]
      BY <2>2, <2>4
    <3> QED BY <2>1, <2>2, <2>4, <3>1, <3>2, <3>3
  <2> QED BY <2>1, <2>2, <2>3, <2>4 DEF Less
<1>2. CASE Len(a) < Len(b) /\ \A j \in 1 .. Len(a) : a[j] = b[j]
  <2>1. \A k \in 1 .. Len(b) : k <= Len(a) => ~(b[k] < a[k])
    BY <1>2
  <2> QED BY <1>2, <2>1 DEF Less
<1> QED BY <1>1, <1>2 DEF Less

LEMMA LessIsTransitive ==
    ASSUME NEW a \in Calls!Vectors, NEW b \in Calls!Vectors, NEW c \in Calls!Vectors,
           Less(a, b), Less(b, c)
    PROVE  Less(a, c)
<1>1. /\ Len(a) \in Nat /\ \A i \in 1 .. Len(a) : a[i] \in Int
      /\ Len(b) \in Nat /\ \A i \in 1 .. Len(b) : b[i] \in Int
      /\ Len(c) \in Nat /\ \A i \in 1 .. Len(c) : c[i] \in Int
  BY VectorsAre
<1>2. CASE \E i \in 1 .. Len(a) : i <= Len(b) /\ a[i] < b[i] /\ \A j \in 1 .. i - 1 : a[j] = b[j]
  <2>1. PICK i \in 1 .. Len(a) : i <= Len(b) /\ a[i] < b[i] /\ \A j \in 1 .. i - 1 : a[j] = b[j]
    BY <1>2
  <2>2. CASE \E k \in 1 .. Len(b) : k <= Len(c) /\ b[k] < c[k] /\ \A j \in 1 .. k - 1 : b[j] = c[j]
    <3>1. PICK k \in 1 .. Len(b) : k <= Len(c) /\ b[k] < c[k] /\ \A j \in 1 .. k - 1 : b[j] = c[j]
      BY <2>2
    <3>2. CASE i <= k
      <4>1. i <= Len(c) /\ a[i] < c[i]
        BY <1>1, <2>1, <3>1, <3>2
      <4>2. \A j \in 1 .. i - 1 : a[j] = c[j]
        BY <2>1, <3>1, <3>2
      <4> QED BY <4>1, <4>2 DEF Less
    <3>3. CASE k < i
      <4>1. k \in 1 .. Len(a) /\ a[k] < c[k]
        BY <1>1, <2>1, <3>1, <3>3
      <4>2. \A j \in 1 .. k - 1 : a[j] = c[j]
        BY <2>1, <3>1, <3>3
      <4> QED BY <3>1, <4>1, <4>2 DEF Less
    <3> QED BY <3>2, <3>3
  <2>3. CASE Len(b) < Len(c) /\ \A j \in 1 .. Len(b) : b[j] = c[j]
    <3>1. i <= Len(c) /\ a[i] < c[i] /\ \A j \in 1 .. i - 1 : a[j] = c[j]
      BY <1>1, <2>1, <2>3
    <3> QED BY <3>1 DEF Less
  <2> QED BY <2>2, <2>3 DEF Less
<1>3. CASE Len(a) < Len(b) /\ \A j \in 1 .. Len(a) : a[j] = b[j]
  <2>1. CASE \E k \in 1 .. Len(b) : k <= Len(c) /\ b[k] < c[k] /\ \A j \in 1 .. k - 1 : b[j] = c[j]
    <3>1. PICK k \in 1 .. Len(b) : k <= Len(c) /\ b[k] < c[k] /\ \A j \in 1 .. k - 1 : b[j] = c[j]
      BY <2>1
    <3>2. CASE k <= Len(a)
      <4>1. k \in 1 .. Len(a) /\ a[k] < c[k] /\ \A j \in 1 .. k - 1 : a[j] = c[j]
        BY <1>1, <1>3, <3>1, <3>2
      <4> QED BY <3>1, <4>1 DEF Less
    <3>3. CASE k > Len(a)
      <4>1. Len(a) < Len(c) /\ \A j \in 1 .. Len(a) : a[j] = c[j]
        BY <1>1, <1>3, <3>1, <3>3
      <4> QED BY <4>1 DEF Less
    <3> QED BY <1>1, <3>2, <3>3
  <2>2. CASE Len(b) < Len(c) /\ \A j \in 1 .. Len(b) : b[j] = c[j]
    <3>1. Len(a) < Len(c) /\ \A j \in 1 .. Len(a) : a[j] = c[j]
      BY <1>1, <1>3, <2>2
    <3> QED BY <3>1 DEF Less
  <2> QED BY <2>1, <2>2 DEF Less
<1> QED BY <1>2, <1>3 DEF Less

\* hvector_cmp0 is the sign of the lexicographic order.
LEMMA CompareIsOrder ==
    ASSUME NEW a \in Calls!Vectors, NEW b \in Calls!Vectors
    PROVE  Calls!hvector_cmp0(a, b) = IF Less(a, b) THEN -1 ELSE IF Less(b, a) THEN 1 ELSE 0
<1>1. Calls!hvector_cmp0(a, b) \in {-1, 0, 1}
  BY CompareIs
<1>2. CASE Calls!hvector_cmp0(a, b) = -1
  BY <1>2, CompareIs
<1>3. CASE Calls!hvector_cmp0(a, b) = 1
  <2>1. Less(b, a)
    BY <1>3, CompareIs
  <2>2. ~Less(a, b)
    BY <2>1, LessIsStrict
  <2> QED BY <1>3, <2>1, <2>2
<1>4. CASE Calls!hvector_cmp0(a, b) = 0
  <2>1. a = b
    BY <1>4, CompareIs
  <2>2. ~Less(a, b) /\ ~Less(b, a)
    BY <2>1, LessIsStrict
  <2> QED BY <1>4, <2>2
<1> QED BY <1>1, <1>2, <1>3, <1>4

LEMMA GivenAreVectors == Given \subseteq Calls!Vectors
BY HVectorMachinesAssumption DEF Vectors, Dims, Finite, Calls!Vectors, Calls!Dims, Calls!Finite

LEMMA OrderIs == ASSUME Calls!TypeOK PROVE Calls!OrderIsTotal
<1>1. u \in Calls!Vectors /\ v \in Calls!Vectors
  BY DEF Calls!TypeOK
<1> USE DEF Calls!hvector_lt, Calls!hvector_le, Calls!hvector_eq, Calls!hvector_ne,
            Calls!hvector_ge, Calls!hvector_gt
<1>2. Less(u, v) => ~Less(v, u)
  BY <1>1, LessIsStrict
<1>3. /\ Calls!hvector_cmp0(u, v) = IF Less(u, v) THEN -1 ELSE IF Less(v, u) THEN 1 ELSE 0
      /\ Calls!hvector_cmp0(v, u) = IF Less(v, u) THEN -1 ELSE IF Less(u, v) THEN 1 ELSE 0
  BY <1>1, CompareIsOrder
<1>4. Calls!hvector_cmp0(u, v) = -Calls!hvector_cmp0(v, u)
  BY <1>2, <1>3
<1>5. Calls!hvector_eq(u, v) <=> u = v
  <2>1. Calls!hvector_cmp0(u, v) = 0 => u = v
    BY <1>1, CompareIs
  <2>2. u = v => Calls!hvector_cmp0(u, v) = 0
    BY <1>2, <1>3
  <2> QED BY <2>1, <2>2
<1>6. ASSUME NEW w \in Given, Calls!hvector_le(u, v), Calls!hvector_le(v, w)
      PROVE  Calls!hvector_le(u, w)
  <2>1. w \in Calls!Vectors
    BY GivenAreVectors
  <2>2. /\ Calls!hvector_cmp0(v, w) = IF Less(v, w) THEN -1 ELSE IF Less(w, v) THEN 1 ELSE 0
        /\ Calls!hvector_cmp0(u, w) = IF Less(u, w) THEN -1 ELSE IF Less(w, u) THEN 1 ELSE 0
    BY <1>1, <2>1, CompareIsOrder
  <2>3. Less(u, v) \/ u = v
    BY <1>1, <1>3, <1>6, CompareIs
  <2>4. Less(v, w) \/ v = w
    BY <1>1, <1>6, <2>1, <2>2, CompareIs
  <2>5. Less(u, w) \/ u = w
    BY <1>1, <2>1, <2>3, <2>4, LessIsTransitive
  <2>6. u = w => ~Less(w, u)
    BY <1>1, <2>1, LessIsStrict
  <2> QED BY <2>2, <2>5, <2>6
<1>7. /\ Calls!hvector_lt(u, v) = Calls!hvector_gt(v, u)
      /\ Calls!hvector_le(u, v) = Calls!hvector_ge(v, u)
      /\ Calls!hvector_lt(u, v) = ~Calls!hvector_ge(u, v)
      /\ Calls!hvector_le(u, v) = ~Calls!hvector_gt(u, v)
      /\ Calls!hvector_eq(u, v) = ~Calls!hvector_ne(u, v)
  <2>1. Calls!hvector_cmp0(u, v) \in {-1, 0, 1} /\ Calls!hvector_cmp0(v, u) \in {-1, 0, 1}
    BY <1>1, CompareIs
  <2> QED BY <1>4, <2>1
<1> QED BY <1>4, <1>5, <1>6, <1>7 DEF Calls!OrderIsTotal
\* A common prefix decides nothing.
LEMMA PrefixKeepsLess ==
    ASSUME NEW w \in Calls!Vectors, NEW a \in Calls!Vectors, NEW b \in Calls!Vectors,
           Calls!hvector_concat(w, a) # Calls!Error, Calls!hvector_concat(w, b) # Calls!Error,
           Less(a, b)
    PROVE  Less(w \o a, w \o b)
<1> DEFINE wa == w \o a
           wb == w \o b
           n == Len(w)
<1>1. n \in Nat /\ Len(a) \in Nat /\ Len(b) \in Nat
  BY VectorsAre
<1>2. /\ Len(wa) = n + Len(a) /\ Len(wb) = n + Len(b)
      /\ \A i \in 1 .. n + Len(a) : wa[i] = IF i <= n THEN w[i] ELSE a[i - n]
      /\ \A i \in 1 .. n + Len(b) : wb[i] = IF i <= n THEN w[i] ELSE b[i - n]
  BY ConcatIs
<1> HIDE DEF wa, wb, n
<1>3. ASSUME NEW m \in Nat, m <= Len(a), m <= Len(b), \A j \in 1 .. m : a[j] = b[j]
      PROVE  \A j \in 1 .. n + m : wa[j] = wb[j]
  <2> SUFFICES ASSUME NEW j \in 1 .. n + m PROVE wa[j] = wb[j]
    OBVIOUS
  <2>1. j \in 1 .. n + Len(a) /\ j \in 1 .. n + Len(b)
    BY <1>1, <1>3
  <2>2. CASE j <= n
    BY <1>2, <2>1, <2>2
  <2>3. CASE ~(j <= n)
    <3>1. j - n \in 1 .. m
      BY <1>1, <2>3
    <3>2. a[j - n] = b[j - n]
      BY <1>3, <3>1
    <3> QED BY <1>2, <2>1, <2>3, <3>2
  <2> QED BY <2>2, <2>3
<1>4. CASE \E i \in 1 .. Len(a) : i <= Len(b) /\ a[i] < b[i] /\ \A j \in 1 .. i - 1 : a[j] = b[j]
  <2>1. PICK i \in 1 .. Len(a) : i <= Len(b) /\ a[i] < b[i] /\ \A j \in 1 .. i - 1 : a[j] = b[j]
    BY <1>4
  <2>2. /\ n + i \in 1 .. n + Len(a) /\ n + i \in 1 .. n + Len(b) /\ ~(n + i <= n)
        /\ (n + i) - n = i /\ n + i - 1 = n + (i - 1) /\ i - 1 \in Nat
    BY <1>1, <2>1
  <2>3. wa[n + i] = a[i] /\ wb[n + i] = b[i]
    BY <1>2, <2>2
  <2>4. \A j \in 1 .. (n + i) - 1 : wa[j] = wb[j]
    <3>1. i - 1 <= Len(a) /\ i - 1 <= Len(b)
      BY <1>1, <2>1
    <3>2. \A j \in 1 .. n + (i - 1) : wa[j] = wb[j]
      BY <1>3, <2>1, <2>2, <3>1
    <3>3. \A j \in 1 .. (n + i) - 1 : j \in 1 .. n + (i - 1)
      BY <1>1, <2>1
    <3> QED BY <3>2, <3>3
  <2>5. n + i \in 1 .. Len(wa) /\ n + i <= Len(wb)
    BY <1>1, <1>2, <2>2
  <2> QED BY <2>1, <2>3, <2>4, <2>5 DEF Less, wa, wb
<1>5. CASE Len(a) < Len(b) /\ \A j \in 1 .. Len(a) : a[j] = b[j]
  <2>1. \A j \in 1 .. n + Len(a) : wa[j] = wb[j]
    BY <1>1, <1>3, <1>5
  <2>2. Len(wa) < Len(wb)
    BY <1>1, <1>2, <1>5
  <2> QED BY <1>2, <2>1, <2>2 DEF Less, wa, wb
<1> QED BY <1>4, <1>5 DEF Less

\* The parts of a concatenation can be cut out again.
LEMMA PartsOfConcat ==
    ASSUME NEW w \in Calls!Vectors, NEW a \in Calls!Vectors,
           Calls!hvector_concat(w, a) # Calls!Error
    PROVE  /\ Calls!hvector_subvector(w \o a, 1, Len(w)) = w
           /\ Calls!hvector_subvector(w \o a, Len(w) + 1, Len(a)) = a
<1> DEFINE wa == w \o a
           n == Len(w)
           k == Len(a)
<1>1. /\ n \in 1 .. MaxDim /\ k \in 1 .. MaxDim /\ MaxDim \in Nat /\ MaxInt \in Nat /\ MaxDim < MaxInt
      /\ w \in [1 .. n -> Calls!Finite] /\ a \in [1 .. k -> Calls!Finite]
  BY VectorsAre, HVectorAssumption
<1>2. /\ wa \in Calls!Vectors /\ Len(wa) = n + k /\ n + k <= MaxDim
      /\ \A i \in 1 .. n + k : wa[i] = IF i <= n THEN w[i] ELSE a[i - n]
  BY ConcatIs
<1> HIDE DEF wa, n, k
<1>3. 1 \in Calls!Int32 /\ n \in Calls!Int32 /\ n + 1 \in Calls!Int32 /\ k \in Calls!Int32
  BY <1>1, <1>2 DEF Calls!Int32
<1>4. Calls!hvector_subvector(wa, 1, n) = w
  <2>1. First(1) = 1 /\ End(wa, 1, n) = n + 1
    BY <1>1, <1>2 DEF First, End
  <2>2. n >= 1 /\ 1 <= Len(wa) /\ (n + 1) - 1 = n
    BY <1>1, <1>2
  <2>3. Calls!hvector_subvector(wa, 1, n)
            = [i \in 1 .. End(wa, 1, n) - First(1) |-> wa[First(1) - 1 + i]]
    <3>1. End(wa, 1, n) - First(1) = n
      BY <2>1, <2>2
    <3> QED BY <1>1, <1>2, <1>3, <2>2, <3>1, SubvectorIs
  <2>4. \A i \in 1 .. n : wa[First(1) - 1 + i] = w[i]
    <3>1. \A i \in 1 .. n : First(1) - 1 + i = i /\ i \in 1 .. n + k /\ i <= n
      BY <1>1, <2>1
    <3> QED BY <1>2, <3>1
  <2>5. End(wa, 1, n) - First(1) = n
    BY <2>1, <2>2
  <2> QED BY <1>1, <2>3, <2>4, <2>5
<1>5. Calls!hvector_subvector(wa, n + 1, k) = a
  <2>1. First(n + 1) = n + 1 /\ End(wa, n + 1, k) = n + k + 1
    BY <1>1, <1>2 DEF First, End
  <2>2. k >= 1 /\ n + 1 <= Len(wa) /\ (n + k + 1) - (n + 1) = k
    BY <1>1, <1>2
  <2>3. Calls!hvector_subvector(wa, n + 1, k)
            = [i \in 1 .. End(wa, n + 1, k) - First(n + 1) |-> wa[First(n + 1) - 1 + i]]
    <3>1. End(wa, n + 1, k) - First(n + 1) = k
      BY <2>1, <2>2
    <3> QED BY <1>1, <1>2, <1>3, <2>2, <3>1, SubvectorIs
  <2>4. \A i \in 1 .. k : wa[First(n + 1) - 1 + i] = a[i]
    <3>1. \A i \in 1 .. k : /\ First(n + 1) - 1 + i = n + i /\ n + i \in 1 .. n + k
                           /\ ~(n + i <= n) /\ (n + i) - n = i
      BY <1>1, <2>1
    <3> QED BY <1>2, <3>1
  <2>5. End(wa, n + 1, k) - First(n + 1) = k
    BY <2>1, <2>2
  <2> QED BY <1>1, <2>3, <2>4, <2>5
<1> QED BY <1>4, <1>5 DEF wa, n, k

LEMMA ConcatKeeps == ASSUME Calls!TypeOK PROVE Calls!ConcatKeepsOrder
<1>1. u \in Calls!Vectors /\ v \in Calls!Vectors
  BY DEF Calls!TypeOK
<1> SUFFICES ASSUME NEW w \in Given, Calls!hvector_concat(w, u) # Calls!Error,
                    Calls!hvector_concat(w, v) # Calls!Error
    PROVE  /\ Calls!hvector_cmp0(Calls!hvector_concat(w, u), Calls!hvector_concat(w, v))
                  = Calls!hvector_cmp0(u, v)
           /\ Calls!hvector_lt(w, Calls!hvector_concat(w, u))
           /\ Calls!hvector_subvector(Calls!hvector_concat(w, u), 1, Len(w)) = w
           /\ Calls!hvector_subvector(Calls!hvector_concat(w, u), Len(w) + 1, Len(u)) = u
  BY DEF Calls!ConcatKeepsOrder
<1>2. w \in Calls!Vectors
  BY GivenAreVectors
<1> DEFINE wu == w \o u
           wv == w \o v
<1>3. /\ Calls!hvector_concat(w, u) = wu /\ Calls!hvector_concat(w, v) = wv
      /\ wu \in Calls!Vectors /\ wv \in Calls!Vectors
  BY <1>1, <1>2, ConcatIs
<1>4. (Less(u, v) => Less(wu, wv)) /\ (Less(v, u) => Less(wv, wu))
  BY <1>1, <1>2, PrefixKeepsLess
<1>5. Less(w, wu)
  <2>1. /\ Len(wu) = Len(w) + Len(u) /\ Len(w) \in Nat /\ Len(u) \in 1 .. MaxDim /\ MaxDim \in Nat
        /\ \A i \in 1 .. Len(w) + Len(u) : wu[i] = IF i <= Len(w) THEN w[i] ELSE u[i - Len(w)]
    BY <1>1, <1>2, ConcatIs, VectorsAre, HVectorAssumption
  <2> HIDE DEF wu
  <2>2. Len(w) < Len(wu) /\ \A j \in 1 .. Len(w) : w[j] = wu[j]
    BY <2>1
  <2> QED BY <2>2 DEF Less
<1> HIDE DEF wu, wv
<1>6. Calls!hvector_cmp0(wu, wv) = Calls!hvector_cmp0(u, v)
  <2>1. /\ Calls!hvector_cmp0(wu, wv) = IF Less(wu, wv) THEN -1 ELSE IF Less(wv, wu) THEN 1 ELSE 0
        /\ Calls!hvector_cmp0(u, v) = IF Less(u, v) THEN -1 ELSE IF Less(v, u) THEN 1 ELSE 0
    BY <1>1, <1>3, CompareIsOrder
  <2>2. CASE Less(u, v)
    BY <1>4, <2>1, <2>2
  <2>3. CASE Less(v, u)
    <3>1. Less(wv, wu) /\ ~Less(wu, wv) /\ ~Less(u, v)
      BY <1>1, <1>3, <1>4, <2>3, LessIsStrict
    <3> QED BY <2>1, <2>3, <3>1
  <2>4. CASE ~Less(u, v) /\ ~Less(v, u)
    <3>1. u = v
      BY <1>1, <2>4, CompareIs, CompareIsOrder
    <3>2. wu = wv
      BY <3>1 DEF wu, wv
    <3>3. ~Less(wu, wv) /\ ~Less(wv, wu)
      BY <1>3, <3>2, LessIsStrict
    <3> QED BY <2>1, <2>4, <3>3
  <2> QED BY <2>2, <2>3, <2>4
<1>7. Calls!hvector_lt(w, wu)
  <2>1. Calls!hvector_cmp0(w, wu) = -1
    BY <1>2, <1>3, <1>5, CompareIsOrder
  <2> QED BY <2>1 DEF Calls!hvector_lt
<1>8. Calls!hvector_subvector(wu, 1, Len(w)) = w /\ Calls!hvector_subvector(wu, Len(w) + 1, Len(u)) = u
  BY <1>1, <1>2, PartsOfConcat DEF wu
<1> QED BY <1>3, <1>6, <1>7, <1>8

\* hvector_cmp is a total order on the vectors of all dimensions, with which the
\* operators agree; a common prefix does not change it, a vector is greater than its
\* prefixes, and the parts of a concatenation can be cut out again.
THEOREM VectorsAreOrdered == Spec => []OrderOfVectors
<1>1. CallsAndText => OrderOfVectors
  BY OrderIs, ConcatKeeps DEF CallsAndText, OrderOfVectors
<1> QED BY <1>1, CallsAndTextInvariant, PTL
-----------------------------------------------------------------------------
(* The aggregates: sums over sets of rows.                                 *)

IsTable(tab) == tab \in Seq(Calls!Vectors \cup {NULL})

Vecs(tab) == {i \in DOMAIN tab : tab[i] # NULL}
Total(tab, S, k) == SumOn([i \in DOMAIN tab |-> tab[i][k]], S)

\* Rows of one dimension
Alike(tab, S) == \A i, j \in S : Len(tab[i]) = Len(tab[j])

LEMMA RowsAre ==
    ASSUME NEW tab, IsTable(tab)
    PROVE  /\ DOMAIN tab = 1 .. Len(tab) /\ Len(tab) \in Nat
           /\ Vecs(tab) = {i \in 1 .. Len(tab) : tab[i] # NULL} /\ IsFiniteSet(Vecs(tab))
           /\ \A i \in Vecs(tab) : tab[i] \in Calls!Vectors
<1>1. /\ DOMAIN tab = 1 .. Len(tab) /\ Len(tab) \in Nat
      /\ \A i \in 1 .. Len(tab) : tab[i] \in Calls!Vectors \cup {NULL}
  BY LenProperties, ElementOfSeq DEF IsTable
<1>2. Vecs(tab) = {i \in 1 .. Len(tab) : tab[i] # NULL}
  BY <1>1 DEF Vecs
<1>3. IsFiniteSet(Vecs(tab))
  <2>1. Vecs(tab) \in SUBSET (1 .. Len(tab))
    BY <1>2
  <2>2. IsFiniteSet(1 .. Len(tab))
    BY <1>1, FS_Interval
  <2> QED BY <2>1, <2>2, FS_Subset
<1> QED BY <1>1, <1>2, <1>3

LEMMA Totals ==
    ASSUME NEW tab, IsTable(tab), NEW S \in SUBSET Vecs(tab), NEW k, \A i \in S : k \in 1 .. Len(tab[i])
    PROVE  /\ IsFiniteSet(S) /\ Cardinality(S) \in Nat
           /\ Total(tab, S, k) \in Int
           /\ Total(tab, S, k) <= MaxFloat * Cardinality(S) /\ -(MaxFloat * Cardinality(S)) <= Total(tab, S, k)
           /\ \A i : S = {i} => Total(tab, S, k) = tab[i][k]
           /\ \A T, U : S = T \cup U /\ T \cap U = {} => Total(tab, S, k) = Total(tab, T, k) + Total(tab, U, k)
<1> DEFINE F == [i \in DOMAIN tab |-> tab[i][k]]
<1>1. \A s \in SUBSET S : s \in SUBSET DOMAIN tab /\ IsFiniteSet(s)
  BY RowsAre, FS_Subset
<1>2. \A s \in SUBSET S : Total(tab, s, k) = SumOn(F, s)
  BY DEF Total
<1>3. \A i \in S : F[i] = tab[i][k] /\ F[i] \in Int /\ F[i] <= MaxFloat /\ -MaxFloat <= F[i]
  <2> SUFFICES ASSUME NEW i \in S
               PROVE  F[i] = tab[i][k] /\ F[i] \in Int /\ F[i] <= MaxFloat /\ -MaxFloat <= F[i]
    OBVIOUS
  <2>1. tab[i] \in Calls!Vectors /\ i \in DOMAIN tab
    BY RowsAre
  <2> QED BY <2>1, VectorsAre
<1> HIDE DEF F
<1>4. SumOn(F, S) \in Int
  BY <1>1, <1>3, SumOnAdds
<1>5. SumOn(F, S) <= MaxFloat * Cardinality(S) /\ -(MaxFloat * Cardinality(S)) <= SumOn(F, S)
  BY <1>1, <1>3, HVectorAssumption, SumOnBound
<1>6. ASSUME NEW i, S = {i} PROVE SumOn(F, S) = tab[i][k]
  <2>1. SumOn(F, S) = F[i] + SumOn(F, S \ {i})
    BY <1>1, <1>3, <1>6, SumOnAdds
  <2>2. S \ {i} = {}
    BY <1>6
  <2>3. SumOn(F, S) = F[i] + 0
    BY <2>1, <2>2, SumOnEmpty
  <2> QED BY <1>3, <1>6, <2>3
<1>7. ASSUME NEW T, NEW U, S = T \cup U, T \cap U = {}
      PROVE  Total(tab, S, k) = Total(tab, T, k) + Total(tab, U, k)
  <2>1. T \in SUBSET S /\ U \in SUBSET S
    BY <1>7
  <2>2. SumOn(F, T \cup U) = SumOn(F, T) + SumOn(F, U)
    <3>1. IsFiniteSet(S) /\ (\A i \in S : F[i] \in Int) /\ T \cap U = {}
      BY <1>1, <1>3, <1>7
    <3> QED BY <2>1, <3>1, SumOnUnion, SMTT(30)
  <2> QED BY <1>2, <1>7, <2>1, <2>2
<1>8. IsFiniteSet(S) /\ Cardinality(S) \in Nat
  BY <1>1, FS_CardinalityType
<1> QED BY <1>2, <1>4, <1>5, <1>6, <1>7, <1>8

LEMMA TotalOfOne ==
    ASSUME NEW tab, IsTable(tab), NEW i \in Vecs(tab), NEW k \in 1 .. Len(tab[i])
    PROVE  Total(tab, {i}, k) = tab[i][k]
<1>1. {i} \in SUBSET Vecs(tab) /\ \A x \in {i} : k \in 1 .. Len(tab[x])
  OBVIOUS
<1>2. \A j : {i} = {j} => Total(tab, {i}, k) = tab[j][k]
  BY <1>1, Totals
<1> QED BY <1>2
-----------------------------------------------------------------------------
(* sum(hvector): a state is the sum of a set of rows but for rounding, or   *)
(* an error that their dimensions or the sum of some rows excuse.          *)

\* Half a unit in the last place for each addition, twice
Slack(S) == (Cardinality(S) - 1) * Ulp

\* The rows have an element k of which all sums are floats.
Exact(tab, k) ==
    \A S \in SUBSET {i \in Vecs(tab) : k <= Len(tab[i])} : Total(tab, S, k) \in Finite

Excused(tab) ==
    \/ ~Alike(tab, Vecs(tab))
    \/ \E S \in SUBSET Vecs(tab) : \E k \in Aggregates!Dims :
        /\ \A i \in S : k <= Len(tab[i])
        /\ ~Exact(tab, k) /\ 2 * Abs(Total(tab, S, k)) + Slack(S) > 2 * MaxFloat

IsRounded(tab, S, k, x) ==
    /\ x \in Finite
    /\ 2 * Abs(x - Total(tab, S, k)) <= Slack(S)
    /\ Exact(tab, k) => x = Total(tab, S, k)

SumIs(tab, st, S) ==
    /\ st = NULL <=> S = {}
    /\ st = Error => Excused(tab)
    /\ st \notin {NULL, Error} =>
        /\ Alike(tab, S)
        /\ \A i \in S : /\ st \in [1 .. Len(tab[i]) -> Finite]
                        /\ \A k \in 1 .. Len(tab[i]) : IsRounded(tab, S, k, st[k])

LEMMA NullIs == NULL # Error /\ NULL \notin Calls!Vectors /\ NULL \notin Seq(Int)
<1>1. Error \in Seq(Int)
  BY DEF Error
<1>2. \A a \in Calls!Vectors : a \in Seq(Int)
  <2> SUFFICES ASSUME NEW a \in Calls!Vectors PROVE a \in Seq(Int)
    OBVIOUS
  <2>1. a \in Seq(Calls!Finite) /\ Calls!Finite \subseteq Int
    BY VectorsAre, SameFloats, FloatsAre
  <2> QED BY <2>1, SeqMonotonic
<1> QED BY <1>1, <1>2, HVectorMachinesAssumption

LEMMA RowIsSum == ASSUME NEW tab, IsTable(tab), NEW i \in Vecs(tab) PROVE SumIs(tab, tab[i], {i})
<1>1. tab[i] \in Calls!Vectors
  BY RowsAre
<1>2. tab[i] # NULL /\ tab[i] # Error
  BY <1>1, NullIs, VectorsAre DEF Error
<1>3. Alike(tab, {i})
  BY DEF Alike
<1>4. tab[i] \in [1 .. Len(tab[i]) -> Finite]
  BY <1>1, VectorsAre, SameFloats
<1>5. ASSUME NEW k \in 1 .. Len(tab[i]) PROVE IsRounded(tab, {i}, k, tab[i][k])
  <2> DEFINE x == tab[i][k]
  <2>1. x = Total(tab, {i}, k)
    BY TotalOfOne
  <2>2. x \in Finite /\ x \in Int
    BY <1>4, FloatsAre
  <2>3. Slack({i}) = 0
    <3>1. Cardinality({i}) = 1
      BY FS_Singleton
    <3>2. Ulp \in Nat
      BY FloatsAre
    <3>3. Slack({i}) = (1 - 1) * Ulp
      BY <3>1 DEF Slack
    <3>4. (1 - 1) * Ulp = 0
      BY <3>2
    <3> QED BY <3>3, <3>4
  <2> HIDE DEF x
  <2>4. 2 * Abs(x - x) = 0
    BY <2>2 DEF Abs
  <2>5. IsRounded(tab, {i}, k, x)
    BY <2>1, <2>2, <2>3, <2>4 DEF IsRounded
  <2> QED BY <2>5 DEF x
<1> QED BY <1>2, <1>3, <1>4, <1>5 DEF SumIs

\* One element of the sum of two disjoint sets of rows
LEMMA RoundedSum ==
    ASSUME NEW tab, IsTable(tab), NEW S \in SUBSET Vecs(tab), NEW T \in SUBSET Vecs(tab), S \cap T = {},
           S # {}, T # {}, NEW k, \A i \in S \cup T : k \in 1 .. Len(tab[i]),
           NEW x, IsRounded(tab, S, k, x), NEW y, IsRounded(tab, T, k, y)
    PROVE  LET z == ToFloat(x + y, 1)
           IN  IF IsInf(z)
               THEN ~Exact(tab, k) /\ 2 * Abs(Total(tab, S \cup T, k)) + Slack(S \cup T) > 2 * MaxFloat
               ELSE IsRounded(tab, S \cup T, k, z)
<1> DEFINE z == ToFloat(x + y, 1)
           s == Total(tab, S, k)
           t == Total(tab, T, k)
           st == Total(tab, S \cup T, k)
           c == Cardinality(S)
           d == Cardinality(T)
<1>1. /\ S \cup T \in SUBSET Vecs(tab) /\ \A i \in S : k \in 1 .. Len(tab[i])
      /\ \A i \in T : k \in 1 .. Len(tab[i])
  OBVIOUS
<1>2. /\ IsFiniteSet(S) /\ IsFiniteSet(T) /\ c \in Nat /\ d \in Nat /\ s \in Int /\ t \in Int /\ st \in Int
      /\ st = s + t
  <2>1. IsFiniteSet(S) /\ IsFiniteSet(T) /\ c \in Nat /\ d \in Nat /\ s \in Int /\ t \in Int
    BY <1>1, Totals
  <2>2. /\ st \in Int
        /\ \A A, B : S \cup T = A \cup B /\ A \cap B = {} => st = Total(tab, A, k) + Total(tab, B, k)
    BY <1>1, Totals
  <2> QED BY <2>1, <2>2
<1>3. Cardinality(S \cup T) = c + d
  <2>1. Cardinality(S \cap T) = 0
    BY FS_EmptySet
  <2>2. Cardinality(S \cup T) = c + d - Cardinality(S \cap T)
    BY <1>2, FS_Union
  <2> QED BY <1>2, <2>1, <2>2
<1> DEFINE e == (c - 1) * Ulp
           f == (d - 1) * Ulp
<1>4. Slack(S) = e /\ Slack(T) = f /\ Slack(S \cup T) = e + f + Ulp /\ e \in Int /\ f \in Int
      /\ Ulp \in Nat /\ MaxFloat \in Nat /\ Inf = MaxFloat + Ulp /\ Ulp > 0
  <2>1. Ulp \in Nat /\ MaxFloat \in Nat /\ Inf = MaxFloat + Ulp /\ Ulp > 0
    BY FloatsAre
  <2>2. (c + d - 1) * Ulp = e + f + Ulp
    <3> HIDE DEF c, d
    <3>1. (c + d - 1) * Ulp = c * Ulp + d * Ulp - Ulp
      BY <1>2, <2>1
    <3>2. e = c * Ulp - Ulp /\ f = d * Ulp - Ulp
      BY <1>2, <2>1
    <3>3. c * Ulp \in Int /\ d * Ulp \in Int
      BY <1>2, <2>1
    <3> HIDE DEF e, f
    <3> QED BY <2>1, <3>1, <3>2, <3>3
  <2> QED BY <1>2, <1>3, <2>1, <2>2 DEF Slack
<1>5. /\ x \in Finite /\ 2 * Abs(x - s) <= e /\ (Exact(tab, k) => x = s)
      /\ y \in Finite /\ 2 * Abs(y - t) <= f /\ (Exact(tab, k) => y = t)
      /\ x \in Int /\ y \in Int
  BY <1>4, FloatsAre DEF IsRounded
<1>6. Exact(tab, k) => st \in Finite
  <2>1. S \cup T \in SUBSET {i \in Vecs(tab) : k <= Len(tab[i])}
    <3>1. \A i \in S \cup T : Len(tab[i]) \in Nat
      BY <1>1, RowsAre, VectorsAre
    <3> QED BY <1>1, <3>1
  <2> QED BY <2>1 DEF Exact
<1>7. /\ z \in Int /\ z \in Finite \cup {Inf, -Inf}
      /\ x + y \in Finite => z = x + y
      /\ z \in Finite => 2 * Abs(z - (x + y)) <= Ulp
      /\ z \in {Inf, -Inf} => 2 * Abs(x + y) >= 2 * MaxFloat + Ulp
  <2>1. x + y \in Int /\ 1 \in Nat \ {0}
    BY <1>5
  <2> QED BY <2>1, RoundingIs
<1>8. Inf \notin Finite /\ -Inf \notin Finite
  BY <1>4, FloatsAre
<1> HIDE DEF z, s, t, st, c, d, e, f
<1>9. CASE IsInf(z)
  <2>1. z \in {Inf, -Inf} /\ z \notin Finite
    BY <1>8, <1>9 DEF IsInf
  <2>2. ~Exact(tab, k)
    BY <1>2, <1>5, <1>6, <1>7, <2>1
  <2>3. 2 * Abs(st) + (e + f + Ulp) > 2 * MaxFloat
    BY <1>2, <1>4, <1>5, <1>7, <2>1 DEF Abs
  <2> QED BY <1>4, <1>9, <2>2, <2>3 DEF z, st
<1>10. CASE ~IsInf(z)
  <2>1. z \in Finite
    BY <1>7, <1>10 DEF IsInf
  <2>2. 2 * Abs(z - st) <= e + f + Ulp
    BY <1>2, <1>4, <1>5, <1>7, <2>1 DEF Abs
  <2>3. Exact(tab, k) => z = st
    BY <1>2, <1>5, <1>6, <1>7
  <2>4. IsRounded(tab, S \cup T, k, z)
    BY <1>4, <2>1, <2>2, <2>3 DEF IsRounded, st
  <2> QED BY <1>10, <2>4 DEF z
<1> QED BY <1>9, <1>10

\* Two sums of disjoint sets of rows
LEMMA SumsAdd ==
    ASSUME NEW tab, IsTable(tab), NEW S \in SUBSET Vecs(tab), NEW T \in SUBSET Vecs(tab), S \cap T = {},
           NEW a, SumIs(tab, a, S), a \notin {NULL, Error}, NEW b, SumIs(tab, b, T), b \notin {NULL, Error}
    PROVE  SumIs(tab, Aggregates!hvector_add(a, b), S \cup T)
<1>1. PICK i \in S : TRUE
  BY DEF SumIs
<1>2. PICK j \in T : TRUE
  BY DEF SumIs
<1> DEFINE m == Len(tab[i])
           n == Len(tab[j])
           res == [k \in DOMAIN a |-> Aggregates!ToFloat(a[k] + b[k], 1)]
<1>3. m \in 1 .. MaxDim /\ n \in 1 .. MaxDim /\ MaxDim \in Nat
  BY RowsAre, VectorsAre, HVectorAssumption
<1>4. /\ a \in [1 .. m -> Finite] /\ \A k \in 1 .. m : IsRounded(tab, S, k, a[k])
      /\ b \in [1 .. n -> Finite] /\ \A k \in 1 .. n : IsRounded(tab, T, k, b[k])
      /\ \A x \in S : Len(tab[x]) = m
      /\ \A x \in T : Len(tab[x]) = n
  BY <1>1, <1>2 DEF SumIs, Alike
<1> HIDE DEF m, n
<1>5. Len(a) = m /\ Len(b) = n
  BY <1>3, <1>4
<1>6. Aggregates!hvector_add(a, b) =
          IF m = n /\ \A k \in 1 .. m : ~IsInf(res[k]) THEN res ELSE Error
  <2>1. DOMAIN res = 1 .. m
    BY <1>4
  <2>2. Aggregates!hvector_add(a, b) = Aggregates!Checked(a, b, res)
    BY DEF Aggregates!hvector_add
  <2>3. \A x : Aggregates!IsInf(x) <=> IsInf(x)
    BY SameFloats DEF Aggregates!IsInf, IsInf
  <2> HIDE DEF res
  <2> QED BY <1>5, <2>1, <2>2, <2>3 DEF Aggregates!Checked, Aggregates!CheckDims, Aggregates!NoOverflow,
                                Aggregates!Error, Error
<1>7. S \cup T # {} /\ S \cup T \in SUBSET Vecs(tab)
  BY <1>1
<1>8. CASE m # n
  <2>1. ~Alike(tab, Vecs(tab))
    BY <1>1, <1>2, <1>8 DEF Alike, m, n
  <2>2. Aggregates!hvector_add(a, b) = Error
    BY <1>6, <1>8
  <2> QED BY <1>7, <2>1, <2>2, NullIs DEF SumIs, Excused
<1>9. CASE m = n
  <2>1. \A x \in S \cup T : Len(tab[x]) = m
    BY <1>4, <1>9
  <2>2. ASSUME NEW k \in 1 .. m
        PROVE  IF IsInf(res[k])
               THEN ~Exact(tab, k) /\ 2 * Abs(Total(tab, S \cup T, k)) + Slack(S \cup T) > 2 * MaxFloat
               ELSE IsRounded(tab, S \cup T, k, res[k])
    <3>1. \A x \in S \cup T : k \in 1 .. Len(tab[x])
      BY <2>1
    <3>2. res[k] = ToFloat(a[k] + b[k], 1)
      BY <1>4, SameRounding
    <3>3. IsRounded(tab, S, k, a[k]) /\ IsRounded(tab, T, k, b[k]) /\ S # {} /\ T # {}
      BY <1>1, <1>2, <1>4, <1>9
    <3> DEFINE x == a[k]
               y == b[k]
               z == ToFloat(x + y, 1)
    <3>4. IsRounded(tab, S, k, x) /\ IsRounded(tab, T, k, y)
      BY <3>3
    <3> HIDE DEF x, y
    <3>5. IF IsInf(z)
          THEN ~Exact(tab, k) /\ 2 * Abs(Total(tab, S \cup T, k)) + Slack(S \cup T) > 2 * MaxFloat
          ELSE IsRounded(tab, S \cup T, k, z)
      BY <3>1, <3>3, <3>4, RoundedSum
    <3>6. res[k] = z
      BY <3>2 DEF x, y
    <3> HIDE DEF res, z
    <3> QED BY <3>5, <3>6
  <2>3. DOMAIN res = 1 .. m /\ res = [k \in 1 .. m |-> res[k]]
    BY <1>4
  <2> HIDE DEF res
  <2>4. CASE \E k \in 1 .. m : IsInf(res[k])
    <3>1. PICK k \in 1 .. m : IsInf(res[k])
      BY <2>4
    <3>2. ~Exact(tab, k) /\ 2 * Abs(Total(tab, S \cup T, k)) + Slack(S \cup T) > 2 * MaxFloat
      BY <2>2, <3>1
    <3>3. k \in Aggregates!Dims /\ \A x \in S \cup T : k <= Len(tab[x])
      BY <1>3, <2>1 DEF Aggregates!Dims
    <3>4. Excused(tab)
      BY <1>7, <3>2, <3>3 DEF Excused
    <3>5. Aggregates!hvector_add(a, b) = Error
      BY <1>6, <3>1
    <3> QED BY <1>7, <3>4, <3>5, NullIs DEF SumIs
  <2>5. CASE \A k \in 1 .. m : ~IsInf(res[k])
    <3>1. \A k \in 1 .. m : IsRounded(tab, S \cup T, k, res[k]) /\ res[k] \in Finite
      BY <2>2, <2>5 DEF IsRounded
    <3>2. Aggregates!hvector_add(a, b) = res
      BY <1>6, <1>9, <2>5
    <3>3. res \in [1 .. m -> Finite] /\ res \in [1 .. m -> Int]
      BY <2>3, <3>1, FloatsAre
    <3>4. res \in Seq(Int) /\ res # Error /\ res # NULL
      BY <1>3, <3>3, NullIs DEF Error
    <3>5. Alike(tab, S \cup T)
      BY <2>1 DEF Alike
    <3>6. \A x \in S \cup T : /\ res \in [1 .. Len(tab[x]) -> Finite]
                              /\ \A k \in 1 .. Len(tab[x]) : IsRounded(tab, S \cup T, k, res[k])
      BY <2>1, <3>1, <3>3
    <3> QED BY <1>7, <3>2, <3>4, <3>5, <3>6 DEF SumIs
  <2> QED BY <2>4, <2>5
<1> QED BY <1>8, <1>9

\* What the executor makes of the states of two disjoint sets of rows
LEMMA SumAdvances ==
    ASSUME NEW tab, IsTable(tab), NEW S \in SUBSET Vecs(tab), NEW T \in SUBSET Vecs(tab), S \cap T = {},
           NEW a, SumIs(tab, a, S), NEW b, SumIs(tab, b, T)
    PROVE  SumIs(tab, Aggregates!Advance(a, b, Aggregates!hvector_add(a, b)), S \cup T)
<1> DEFINE res == Aggregates!Advance(a, b, Aggregates!hvector_add(a, b))
<1>1. CASE Error \in {a, b}
  <2>1. res = Error /\ Excused(tab)
    BY <1>1 DEF Aggregates!Advance, Aggregates!Error, Error, SumIs
  <2>2. S \cup T # {}
    BY <1>1, NullIs DEF SumIs
  <2> QED BY <2>1, <2>2, NullIs DEF SumIs
<1>2. CASE Error \notin {a, b} /\ b = NULL
  <2>1. res = a /\ T = {}
    BY <1>2 DEF Aggregates!Advance, Aggregates!Error, Error, SumIs
  <2>2. S \cup T = S
    BY <2>1
  <2> QED BY <2>1, <2>2
<1>3. CASE Error \notin {a, b} /\ b # NULL /\ a = NULL
  <2>1. res = b /\ S = {}
    BY <1>3 DEF Aggregates!Advance, Aggregates!Error, Error, SumIs
  <2>2. S \cup T = T
    BY <2>1
  <2> QED BY <2>1, <2>2
<1>4. CASE Error \notin {a, b} /\ b # NULL /\ a # NULL
  <2>1. res = Aggregates!hvector_add(a, b)
    BY <1>4 DEF Aggregates!Advance, Aggregates!Error, Error
  <2> QED BY <1>4, <2>1, SumsAdd
<1> QED BY <1>1, <1>2, <1>3, <1>4
-----------------------------------------------------------------------------
(* avg(hvector): a state holds the number of a set of rows and their sums; *)
(* it is an error exactly if the dimensions of the rows differ.            *)

AvgIs(tab, st, S) ==
    /\ S = {} => st = <<0>>
    /\ ~Alike(tab, S) => st = Error
    /\ Alike(tab, S) => \A i \in S :
        /\ st \in [1 .. Len(tab[i]) + 1 -> Int] /\ st[1] = Cardinality(S)
        /\ \A k \in 1 .. Len(tab[i]) : st[k + 1] = Total(tab, S, k)

LEMMA AvgStateIs ==
    ASSUME NEW tab, IsTable(tab), NEW S \in SUBSET Vecs(tab), NEW st, AvgIs(tab, st, S)
    PROVE  /\ st # NULL /\ (st = Error <=> ~Alike(tab, S)) /\ IsFiniteSet(S) /\ Cardinality(S) \in Nat
           /\ S # {} => Cardinality(S) > 0
           /\ \A i \in S : Len(tab[i]) \in 1 .. MaxDim /\ (Alike(tab, S) => Len(st) = Len(tab[i]) + 1)
<1>1. IsFiniteSet(S) /\ Cardinality(S) \in Nat /\ (S # {} => Cardinality(S) # 0)
  BY RowsAre, FS_Subset, FS_CardinalityType, FS_EmptySet
<1>2. \A i \in S : Len(tab[i]) \in 1 .. MaxDim
  BY RowsAre, VectorsAre
<1>3. CASE S = {}
  <2>1. st = <<0>> /\ <<0>> \in Seq(Int) /\ <<0>> # <<>> /\ Alike(tab, S)
    BY <1>3 DEF AvgIs, Alike
  <2> QED BY <1>1, <1>3, <2>1, NullIs DEF Error
<1>4. CASE S # {} /\ ~Alike(tab, S)
  BY <1>1, <1>2, <1>4, NullIs DEF AvgIs
<1>5. CASE S # {} /\ Alike(tab, S)
  <2>1. ASSUME NEW i \in S PROVE st \in Seq(Int) /\ Len(st) = Len(tab[i]) + 1
    <3>1. Len(tab[i]) + 1 \in Nat /\ st \in [1 .. Len(tab[i]) + 1 -> Int]
      BY <1>2, <1>5, HVectorAssumption DEF AvgIs
    <3> QED BY <3>1
  <2>2. st # Error
    <3>1. PICK i \in S : TRUE
      BY <1>5
    <3>2. Len(st) = Len(tab[i]) + 1 /\ Len(tab[i]) \in 1 .. MaxDim
      BY <1>2, <2>1
    <3> QED BY <3>2, HVectorAssumption DEF Error
  <2> QED BY <1>1, <1>2, <1>5, <2>1, <2>2, NullIs
<1> QED BY <1>3, <1>4, <1>5

\* Two states with rows and without error
LEMMA AvgsAdd ==
    ASSUME NEW tab, IsTable(tab), NEW S \in SUBSET Vecs(tab), NEW T \in SUBSET Vecs(tab), S \cap T = {},
           S # {}, T # {}, NEW a, AvgIs(tab, a, S), a # Error, NEW b, AvgIs(tab, b, T), b # Error
    PROVE  AvgIs(tab, Aggregates!hvector_combine(a, b), S \cup T)
<1>1. PICK i \in S : TRUE
  OBVIOUS
<1>2. PICK j \in T : TRUE
  OBVIOUS
<1> DEFINE m == Len(tab[i])
           n == Len(tab[j])
           res == [x \in 1 .. m + 1 |-> a[x] + b[x]]
<1>3. Alike(tab, S) /\ Alike(tab, T)
  BY AvgStateIs
<1>4. /\ m \in 1 .. MaxDim /\ n \in 1 .. MaxDim /\ MaxDim \in Nat /\ Len(a) = m + 1 /\ Len(b) = n + 1
      /\ Cardinality(S) \in Nat \ {0} /\ Cardinality(T) \in Nat \ {0}
      /\ IsFiniteSet(S) /\ IsFiniteSet(T)
  BY <1>3, AvgStateIs, HVectorAssumption
<1>5. /\ a \in [1 .. m + 1 -> Int] /\ a[1] = Cardinality(S)
      /\ \A k \in 1 .. m : a[k + 1] = Total(tab, S, k)
      /\ b \in [1 .. n + 1 -> Int] /\ b[1] = Cardinality(T)
      /\ \A k \in 1 .. n : b[k + 1] = Total(tab, T, k)
      /\ \A x \in S : Len(tab[x]) = m
      /\ \A x \in T : Len(tab[x]) = n
  BY <1>1, <1>2, <1>3 DEF AvgIs, Alike
<1>6. Aggregates!hvector_combine(a, b) = IF m # n THEN Error ELSE res
  <2>1. a[1] # 0 /\ b[1] # 0 /\ DOMAIN a = 1 .. m + 1
    BY <1>4, <1>5
  <2>2. Len(a) = Len(b) <=> m = n
    BY <1>4
  <2> HIDE DEF m, n
  <2> QED BY <2>1, <2>2 DEF Aggregates!hvector_combine, Aggregates!Error, Error
<1>7. CASE m # n
  <2>1. ~Alike(tab, S \cup T)
    BY <1>1, <1>2, <1>7 DEF Alike
  <2> QED BY <1>1, <1>6, <1>7, <2>1 DEF AvgIs
<1>8. CASE m = n
  <2>1. \A x \in S \cup T : Len(tab[x]) = m
    BY <1>5, <1>8
  <2> HIDE DEF m, n
  <2>2. Alike(tab, S \cup T)
    BY <2>1 DEF Alike
  <2>3. Cardinality(S \cup T) = Cardinality(S) + Cardinality(T)
    <3>1. Cardinality(S \cap T) = 0
      BY FS_EmptySet
    <3>2. Cardinality(S \cup T) = Cardinality(S) + Cardinality(T) - Cardinality(S \cap T)
      BY <1>4, FS_Union
    <3> QED BY <1>4, <3>1, <3>2
  <2>4. res \in [1 .. m + 1 -> Int] /\ res[1] = Cardinality(S \cup T)
    BY <1>4, <1>5, <1>8, <2>3
  <2>5. ASSUME NEW k \in 1 .. m PROVE res[k + 1] = Total(tab, S \cup T, k)
    <3>1. /\ S \cup T \in SUBSET Vecs(tab)
          /\ \A x \in S \cup T : k \in 1 .. Len(tab[x])
      BY <2>1
    <3>2. Total(tab, S \cup T, k) = Total(tab, S, k) + Total(tab, T, k)
      <4>1. \A A, B : S \cup T = A \cup B /\ A \cap B = {} => Total(tab, S \cup T, k) = Total(tab, A, k) + Total(tab, B, k)
        BY <3>1, Totals
      <4> QED BY <4>1
    <3>3. res[k + 1] = a[k + 1] + b[k + 1]
      BY <1>4
    <3>4. a[k + 1] = Total(tab, S, k) /\ b[k + 1] = Total(tab, T, k)
      BY <1>5, <1>8
    <3> HIDE DEF res
    <3> QED BY <3>2, <3>3, <3>4
  <2>6. Aggregates!hvector_combine(a, b) = res
    BY <1>6, <1>8
  <2> HIDE DEF res
  <2>7. S \cup T # {}
    BY <1>1
  <2> QED BY <2>1, <2>2, <2>4, <2>5, <2>6, <2>7 DEF AvgIs
<1> QED BY <1>7, <1>8
\* hvector_accum adds the state of one row.
LEMMA AccumIsCombine ==
    ASSUME NEW tab, IsTable(tab), NEW S \in SUBSET Vecs(tab), NEW a, AvgIs(tab, a, S), a # Error, NEW i \in Vecs(tab)
    PROVE  Aggregates!hvector_accum(a, tab[i]) = Aggregates!hvector_combine(a, <<1>> \o tab[i])
<1> DEFINE vec == tab[i]
           one == <<1>> \o vec
           n == Len(vec)
<1>1. vec \in Seq(Int) /\ n \in 1 .. MaxDim /\ MaxDim \in Nat /\ \A k \in 1 .. n : vec[k] \in Int
  <2>1. vec \in Calls!Vectors
    BY RowsAre
  <2>2. vec \in Seq(Calls!Finite) /\ Calls!Finite \subseteq Int
    BY <2>1, VectorsAre, SameFloats, FloatsAre
  <2> HIDE DEF vec
  <2> QED BY <2>1, <2>2, VectorsAre, SeqMonotonic, HVectorAssumption
<1> HIDE DEF vec, n
<1>2. /\ one \in Seq(Int) /\ Len(one) = n + 1 /\ DOMAIN one = 1 .. n + 1 /\ one[1] = 1
      /\ \A k \in 1 .. n : one[k + 1] = vec[k]
  BY <1>1 DEF n
<1> HIDE DEF one
<1>3. CASE S = {}
  <2>1. a = <<0>> /\ Len(a) = 1 /\ a[1] = 0
    BY <1>3 DEF AvgIs
  <2>2. Aggregates!hvector_accum(a, vec) = <<1>> \o vec
    BY <2>1 DEF Aggregates!hvector_accum
  <2>3. Aggregates!hvector_combine(a, one) = one
    BY <2>1 DEF Aggregates!hvector_combine
  <2> QED BY <2>2, <2>3 DEF one, vec
<1>4. CASE S # {}
  <2>1. PICK j \in S : TRUE
    BY <1>4
  <2> DEFINE m == Len(tab[j])
  <2>2. /\ Alike(tab, S) /\ m \in 1 .. MaxDim /\ Len(a) = m + 1 /\ a \in [1 .. m + 1 -> Int]
        /\ a[1] = Cardinality(S) /\ Cardinality(S) \in Nat \ {0}
    BY <2>1, AvgStateIs DEF AvgIs
  <2> HIDE DEF m
  <2>3. Len(a) # 1 /\ Len(a) - 1 = m /\ DOMAIN a = 1 .. m + 1 /\ a[1] # 0 /\ one[1] # 0
    BY <1>2, <2>2, <1>1
  <2>4. CASE m # n
    <3>1. Aggregates!hvector_accum(a, vec) = Error
      BY <2>3, <2>4 DEF Aggregates!hvector_accum, Aggregates!Error, Error, n
    <3>2. Len(a) # Len(one)
      BY <1>1, <1>2, <2>2, <2>4
    <3>3. Aggregates!hvector_combine(a, one) = Error
      BY <2>3, <3>2 DEF Aggregates!hvector_combine, Aggregates!Error, Error
    <3> QED BY <3>1, <3>3 DEF one, vec
  <2>5. CASE m = n
    <3> DEFINE rest == [k \in 1 .. n |-> a[k + 1] + vec[k]]
               res == [k \in 1 .. n + 1 |-> a[k] + one[k]]
    <3>1. DOMAIN vec = 1 .. n /\ Len(vec) = n
      BY <1>1 DEF n
    <3>2. Aggregates!hvector_accum(a, vec) = <<a[1] + 1>> \o rest
      BY <2>3, <2>5, <3>1 DEF Aggregates!hvector_accum
    <3>3. Len(a) = Len(one)
      BY <1>2, <2>2, <2>5
    <3>4. Aggregates!hvector_combine(a, one) = res
      BY <2>3, <2>5, <3>3 DEF Aggregates!hvector_combine
    <3>5. rest \in Seq(Int) /\ Len(rest) = n /\ \A k \in 1 .. n : rest[k] = a[k + 1] + vec[k]
      <4>1. \A k \in 1 .. n : a[k + 1] \in Int /\ vec[k] \in Int
        BY <1>1, <2>2, <2>5
      <4>2. rest \in [1 .. n -> Int] /\ n \in Nat
        BY <1>1, <4>1
      <4> HIDE DEF rest
      <4>3. rest \in Seq(Int) /\ Len(rest) = n
        BY <4>2
      <4> QED BY <4>3 DEF rest
    <3> HIDE DEF rest
    <3> DEFINE acc == <<a[1] + 1>> \o rest
    <3>6. /\ acc \in Seq(Int) /\ Len(acc) = n + 1 /\ DOMAIN acc = 1 .. n + 1 /\ acc[1] = a[1] + 1
          /\ \A k \in 1 .. n : acc[k + 1] = rest[k]
      <4>1. <<a[1] + 1>> \in Seq(Int) /\ Len(<<a[1] + 1>>) = 1
        BY <2>2
      <4> QED BY <1>1, <3>5, <4>1
    <3> HIDE DEF acc
    <3>7. ASSUME NEW k \in 1 .. n + 1 PROVE acc[k] = a[k] + one[k]
      <4>1. CASE k = 1
        BY <1>2, <3>6, <4>1
      <4>2. CASE k # 1
        <5>1. k - 1 \in 1 .. n /\ (k - 1) + 1 = k
          BY <1>1, <4>2
        <5>2. acc[k] = rest[k - 1] /\ one[k] = vec[k - 1] /\ rest[k - 1] = a[k] + vec[k - 1]
          BY <1>2, <3>5, <3>6, <5>1
        <5> QED BY <5>2
      <4> QED BY <4>1, <4>2
    <3>8. acc = res
      BY <3>6, <3>7
    <3> QED BY <3>2, <3>4, <3>8 DEF acc, one, vec
  <2> QED BY <2>4, <2>5
<1> QED BY <1>3, <1>4

LEMMA OneRow ==
    ASSUME NEW tab, IsTable(tab), NEW i \in Vecs(tab)
    PROVE  AvgIs(tab, <<1>> \o tab[i], {i}) /\ <<1>> \o tab[i] # Error /\ <<1>> \o tab[i] # NULL
<1> DEFINE vec == tab[i]
           one == <<1>> \o vec
           n == Len(vec)
<1>1. vec \in Seq(Int) /\ n \in 1 .. MaxDim /\ MaxDim \in Nat /\ \A k \in 1 .. n : vec[k] \in Int
  <2>1. vec \in Calls!Vectors
    BY RowsAre
  <2>2. vec \in Seq(Calls!Finite) /\ Calls!Finite \subseteq Int
    BY <2>1, VectorsAre, SameFloats, FloatsAre
  <2> HIDE DEF vec
  <2> QED BY <2>1, <2>2, VectorsAre, SeqMonotonic, HVectorAssumption
<1>2. \A k \in 1 .. n : Total(tab, {i}, k) = vec[k]
  BY TotalOfOne
<1> HIDE DEF vec, n
<1>3. /\ one \in Seq(Int) /\ Len(one) = n + 1 /\ one \in [1 .. n + 1 -> Int] /\ one[1] = 1
      /\ \A k \in 1 .. n : one[k + 1] = vec[k]
  <2>1. /\ one \in Seq(Int) /\ Len(one) = n + 1 /\ one[1] = 1
        /\ \A k \in 1 .. n : one[k + 1] = vec[k]
    BY <1>1 DEF n
  <2> HIDE DEF one
  <2> QED BY <2>1
<1> HIDE DEF one
<1>4. Cardinality({i}) = 1
  BY FS_Singleton
<1>5. AvgIs(tab, one, {i})
  BY <1>2, <1>3, <1>4 DEF AvgIs, Alike, n, vec
<1>6. one # Error /\ one # NULL
  BY <1>1, <1>3, NullIs DEF Error
<1> QED BY <1>5, <1>6 DEF one, vec

LEMMA AvgAdvances ==
    ASSUME NEW tab, IsTable(tab), NEW S \in SUBSET Vecs(tab), NEW T \in SUBSET Vecs(tab), S \cap T = {},
           NEW a, AvgIs(tab, a, S), NEW b, AvgIs(tab, b, T)
    PROVE  AvgIs(tab, Aggregates!Advance(a, b, Aggregates!hvector_combine(a, b)), S \cup T)
<1> DEFINE res == Aggregates!Advance(a, b, Aggregates!hvector_combine(a, b))
<1>1. a # NULL /\ b # NULL
  BY AvgStateIs
<1>2. CASE Error \in {a, b}
  <2>1. ~Alike(tab, S) \/ ~Alike(tab, T)
    BY <1>2, AvgStateIs
  <2>2. ~Alike(tab, S \cup T)
    BY <2>1 DEF Alike
  <2>3. res = Error
    BY <1>2 DEF Aggregates!Advance, Aggregates!Error, Error
  <2> QED BY <2>2, <2>3 DEF AvgIs, Alike
<1>3. CASE Error \notin {a, b}
  <2>1. res = Aggregates!hvector_combine(a, b)
    BY <1>1, <1>3 DEF Aggregates!Advance, Aggregates!Error, Error
  <2>2. CASE S = {}
    <3>1. a[1] = 0
      BY <2>2 DEF AvgIs
    <3>2. res = b /\ S \cup T = T
      BY <2>1, <2>2, <3>1 DEF Aggregates!hvector_combine
    <3> QED BY <3>2
  <2>3. CASE S # {} /\ T = {}
    <3>1. PICK i \in S : TRUE
      BY <2>3
    <3>2. a[1] = Cardinality(S) /\ Cardinality(S) \in Nat /\ Cardinality(S) > 0
      BY <1>3, <2>3, <3>1, AvgStateIs DEF AvgIs
    <3>3. b[1] = 0 /\ a[1] # 0
      BY <2>3, <3>2 DEF AvgIs
    <3>4. res = a /\ S \cup T = S
      BY <2>1, <2>3, <3>3 DEF Aggregates!hvector_combine
    <3> QED BY <3>4
  <2>4. CASE S # {} /\ T # {}
    BY <1>3, <2>1, <2>4, AvgsAdd
  <2> QED BY <2>2, <2>3, <2>4
<1> QED BY <1>2, <1>3

LEMMA AvgAccumulates ==
    ASSUME NEW tab, IsTable(tab), NEW S \in SUBSET Vecs(tab), NEW i \in Vecs(tab), i \notin S, NEW a, AvgIs(tab, a, S)
    PROVE  AvgIs(tab, Aggregates!Advance(a, tab[i], Aggregates!hvector_accum(a, tab[i])), S \cup {i})
<1> DEFINE one == <<1>> \o tab[i]
           res == Aggregates!Advance(a, tab[i], Aggregates!hvector_accum(a, tab[i]))
<1>1. AvgIs(tab, one, {i}) /\ one # Error /\ one # NULL
  BY OneRow
<1>2. tab[i] # Error /\ tab[i] # NULL /\ a # NULL
  <2>1. tab[i] \in Calls!Vectors
    BY RowsAre
  <2>2. tab[i] # Error /\ tab[i] # NULL
    BY <2>1, NullIs, VectorsAre DEF Error
  <2>3. a # NULL
    BY AvgStateIs
  <2> QED BY <2>2, <2>3
<1>3. res = Aggregates!Advance(a, one, Aggregates!hvector_combine(a, one))
  <2>1. a # Error => Aggregates!hvector_accum(a, tab[i]) = Aggregates!hvector_combine(a, one)
    BY AccumIsCombine
  <2> HIDE DEF one
  <2> QED BY <1>1, <1>2, <2>1 DEF Aggregates!Advance, Aggregates!Error, Error
<1>4. S \cap {i} = {} /\ {i} \in SUBSET Vecs(tab)
  OBVIOUS
<1> HIDE DEF one, res
<1>5. AvgIs(tab, res, S \cup {i})
  BY <1>1, <1>3, <1>4, AvgAdvances
<1> QED BY <1>5 DEF res
-----------------------------------------------------------------------------
(* The invariant of the aggregates: some assignment of the rows read so    *)
(* far to the workers explains every partial state, and the states of the  *)
(* leader by the rows of the workers that have handed theirs over.         *)

\* The vectors that the workers of W have taken from the first n - 1 rows
TakenBy(tab, n, owner, W) == {i \in Vecs(tab) : i < n /\ owner[i] \in W}

AggregatesInv ==
    /\ IsTable(rows) /\ next \in 1 .. Len(rows) + 1
    /\ left \subseteq Workers /\ (left # Workers => next > Len(rows))
    /\ avg = [w \in Workers |-> avg[w]] /\ sum = [w \in Workers |-> sum[w]]
    /\ \E owner \in [1 .. next - 1 -> Workers] :
        /\ \A w \in Workers :
            /\ AvgIs(rows, avg[w], TakenBy(rows, next, owner, {w}))
            /\ SumIs(rows, sum[w], TakenBy(rows, next, owner, {w}))
        /\ AvgIs(rows, avgState, TakenBy(rows, next, owner, Workers \ left))
        /\ SumIs(rows, sumState, TakenBy(rows, next, owner, Workers \ left))

\* The states before any row
LEMMA NoRow == \A tab : AvgIs(tab, <<0>>, {}) /\ SumIs(tab, NULL, {})
<1> SUFFICES ASSUME NEW tab PROVE AvgIs(tab, <<0>>, {}) /\ SumIs(tab, NULL, {})
  OBVIOUS
<1>1. AvgIs(tab, <<0>>, {})
  BY DEF AvgIs, Alike
<1>2. SumIs(tab, NULL, {})
  BY NullIs DEF SumIs
<1> QED BY <1>1, <1>2

LEMMA AggregatesInitInv == ASSUME Aggregates!Init PROVE AggregatesInv
<1>1. /\ rows \in Tables /\ next = 1 /\ left = Workers
      /\ avg = [w \in Workers |-> <<0>>] /\ avgState = <<0>>
      /\ sum = [w \in Workers |-> NULL] /\ sumState = NULL
  BY DEF Aggregates!Init, Aggregates!InitCond
<1>2. IsTable(rows)
  BY <1>1, HVectorMachinesAssumption DEF IsTable, Calls!Vectors, Vectors, Calls!Dims, Dims,
                                         Calls!Finite, Finite
<1>3. Len(rows) \in Nat /\ \A i \in Vecs(rows) : ~(i < 1)
  BY <1>2, RowsAre
<1> DEFINE owner == [i \in {} |-> 0]
<1>4. owner \in [1 .. next - 1 -> Workers]
  BY <1>1
<1> HIDE DEF owner
<1>5. \A W : TakenBy(rows, next, owner, W) = {}
  BY <1>1, <1>3 DEF TakenBy
<1>6. /\ \A w \in Workers : AvgIs(rows, avg[w], {}) /\ SumIs(rows, sum[w], {})
      /\ AvgIs(rows, avgState, {}) /\ SumIs(rows, sumState, {})
  BY <1>1, NoRow
<1>7. next \in 1 .. Len(rows) + 1
  BY <1>1, <1>3
<1>8. avg = [w \in Workers |-> avg[w]] /\ sum = [w \in Workers |-> sum[w]]
  BY <1>1
<1> QED BY <1>1, <1>2, <1>4, <1>5, <1>6, <1>7, <1>8 DEF AggregatesInv

\* Worker w takes row n, when owner has the rows before it and owner2 this one too.
Takes(tab, n, w, owner, owner2) ==
    /\ \A W : w \notin W => TakenBy(tab, n + 1, owner2, W) = TakenBy(tab, n, owner, W)
    /\ IF tab[n] = NULL
       THEN \A W : TakenBy(tab, n + 1, owner2, W) = TakenBy(tab, n, owner, W)
       ELSE /\ n \in Vecs(tab) /\ n \notin TakenBy(tab, n, owner, {w})
            /\ TakenBy(tab, n + 1, owner2, {w}) = TakenBy(tab, n, owner, {w}) \cup {n}

LEMMA RowTaken ==
    ASSUME NEW tab, IsTable(tab), NEW n \in 1 .. Len(tab), NEW w \in Workers,
           NEW owner \in [1 .. n - 1 -> Workers]
    PROVE  \E owner2 \in [1 .. n -> Workers] : Takes(tab, n, w, owner, owner2)
<1> DEFINE owner2 == [i \in 1 .. n |-> IF i = n THEN w ELSE owner[i]]
<1>1. Len(tab) \in Nat /\ Vecs(tab) = {i \in 1 .. Len(tab) : tab[i] # NULL}
  BY RowsAre
<1>2. n \in Nat /\ \A i \in 1 .. n : i # n => i \in 1 .. n - 1
  BY <1>1
<1>3. owner2 \in [1 .. n -> Workers]
  BY <1>2
<1>4. \A i \in Vecs(tab) : i < n + 1 <=> i \in 1 .. n
  BY <1>1, <1>2
<1>5. \A i \in Vecs(tab) : i < n <=> i \in 1 .. n /\ i # n
  BY <1>1, <1>2
<1>6. \A i \in 1 .. n : owner2[i] = IF i = n THEN w ELSE owner[i]
  OBVIOUS
<1> HIDE DEF owner2
<1>7. \A W : TakenBy(tab, n + 1, owner2, W)
                = {i \in Vecs(tab) : i \in 1 .. n /\ (IF i = n THEN w ELSE owner[i]) \in W}
  BY <1>4, <1>6 DEF TakenBy
<1>8. \A W : TakenBy(tab, n, owner, W) = {i \in Vecs(tab) : i \in 1 .. n /\ i # n /\ owner[i] \in W}
  BY <1>5 DEF TakenBy
<1>9. ASSUME NEW W, w \notin W PROVE TakenBy(tab, n + 1, owner2, W) = TakenBy(tab, n, owner, W)
  BY <1>7, <1>8, <1>9
<1>10. CASE tab[n] = NULL
  <2>1. n \notin Vecs(tab)
    BY <1>1, <1>10
  <2>2. ASSUME NEW W PROVE TakenBy(tab, n + 1, owner2, W) = TakenBy(tab, n, owner, W)
    <3>1. \A i \in Vecs(tab) : i # n
      BY <2>1
    <3>2. {i \in Vecs(tab) : i \in 1 .. n /\ (IF i = n THEN w ELSE owner[i]) \in W}
              = {i \in Vecs(tab) : i \in 1 .. n /\ i # n /\ owner[i] \in W}
      BY <3>1
    <3> QED BY <1>7, <1>8, <3>2
  <2> QED BY <1>3, <1>9, <1>10, <2>2 DEF Takes
<1>11. CASE tab[n] # NULL
  <2>1. n \in Vecs(tab) /\ n \in 1 .. n
    BY <1>1, <1>2, <1>11
  <2>2. n \notin TakenBy(tab, n, owner, {w})
    BY <1>8
  <2>3. TakenBy(tab, n + 1, owner2, {w}) = TakenBy(tab, n, owner, {w}) \cup {n}
    BY <1>7, <1>8, <2>1
  <2> QED BY <1>3, <1>9, <1>11, <2>1, <2>2, <2>3 DEF Takes
<1> QED BY <1>10, <1>11
LEMMA NullSkipped == \A a, res : Aggregates!Advance(a, NULL, res) = a
<1>1. NULL # Error
  BY NullIs
<1> QED BY <1>1 DEF Aggregates!Advance, Aggregates!Error, Error

LEMMA AccumulateStep ==
    ASSUME AggregatesInv, NEW w \in Workers, Aggregates!Accumulate(w)
    PROVE  AggregatesInv'
<1> DEFINE n == next
           tab == rows
           avg2 == Aggregates!Advance(avg[w], tab[n], Aggregates!hvector_accum(avg[w], tab[n]))
           sum2 == Aggregates!Advance(sum[w], tab[n], Aggregates!hvector_add(sum[w], tab[n]))
<1>1. /\ n <= Len(tab) /\ next' = n + 1
      /\ avg' = [avg EXCEPT ![w] = avg2] /\ sum' = [sum EXCEPT ![w] = sum2]
      /\ rows' = tab /\ left' = left /\ avgState' = avgState /\ sumState' = sumState
  BY DEF Aggregates!Accumulate
<1>2. /\ IsTable(tab) /\ Len(tab) \in Nat /\ n \in 1 .. Len(tab) /\ left = Workers
  BY <1>1, RowsAre DEF AggregatesInv
<1>3. PICK owner \in [1 .. n - 1 -> Workers] :
        /\ \A x \in Workers :
            /\ AvgIs(tab, avg[x], TakenBy(tab, n, owner, {x}))
            /\ SumIs(tab, sum[x], TakenBy(tab, n, owner, {x}))
        /\ AvgIs(tab, avgState, TakenBy(tab, n, owner, Workers \ left))
        /\ SumIs(tab, sumState, TakenBy(tab, n, owner, Workers \ left))
  BY DEF AggregatesInv
<1> HIDE DEF n, tab
<1>4. PICK owner2 \in [1 .. n -> Workers] : Takes(tab, n, w, owner, owner2)
  BY <1>2, <1>3, RowTaken
<1> DEFINE S == TakenBy(tab, n, owner, {w})
           S2 == TakenBy(tab, n + 1, owner2, {w})
<1>5. S \in SUBSET Vecs(tab)
  BY DEF TakenBy
<1>6. avg = [x \in Workers |-> avg[x]] /\ sum = [x \in Workers |-> sum[x]]
  BY DEF AggregatesInv
<1>7. AvgIs(tab, avg2, S2) /\ SumIs(tab, sum2, S2)
  <2>1. AvgIs(tab, avg[w], S) /\ SumIs(tab, sum[w], S)
    BY <1>3
  <2>2. CASE tab[n] = NULL
    <3>1. S2 = S
      BY <1>4, <2>2 DEF Takes
    <3>2. avg2 = avg[w] /\ sum2 = sum[w]
      BY <2>2, NullSkipped
    <3> HIDE DEF S, S2, avg2, sum2
    <3> QED BY <2>1, <3>1, <3>2
  <2>3. CASE tab[n] # NULL
    <3>1. S2 = S \cup {n} /\ n \in Vecs(tab) /\ n \notin S
      BY <1>4, <2>3 DEF Takes
    <3> HIDE DEF S, S2
    <3>2. AvgIs(tab, avg2, S \cup {n})
      BY <1>2, <1>5, <2>1, <3>1, AvgAccumulates
    <3>3. SumIs(tab, tab[n], {n}) /\ {n} \in SUBSET Vecs(tab) /\ S \cap {n} = {}
      BY <1>2, <3>1, RowIsSum
    <3>4. SumIs(tab, sum2, S \cup {n})
      BY <1>2, <1>5, <2>1, <3>3, SumAdvances
    <3> QED BY <3>1, <3>2, <3>4
  <2> QED BY <2>2, <2>3
<1> HIDE DEF avg2, sum2, S
<1>8. /\ avg' = [x \in Workers |-> IF x = w THEN avg2 ELSE avg[x]]
      /\ sum' = [x \in Workers |-> IF x = w THEN sum2 ELSE sum[x]]
  BY <1>1, <1>6
<1>9. ASSUME NEW x \in Workers
      PROVE  /\ AvgIs(tab, avg'[x], TakenBy(tab, n + 1, owner2, {x}))
             /\ SumIs(tab, sum'[x], TakenBy(tab, n + 1, owner2, {x}))
  <2>1. CASE x = w
    <3>1. avg'[x] = avg2 /\ sum'[x] = sum2 /\ TakenBy(tab, n + 1, owner2, {x}) = S2
      BY <1>8, <2>1
    <3> HIDE DEF S2
    <3> QED BY <1>7, <3>1
  <2>2. CASE x # w
    <3>1. avg'[x] = avg[x] /\ sum'[x] = sum[x]
      BY <1>8, <2>2
    <3>2. TakenBy(tab, n + 1, owner2, {x}) = TakenBy(tab, n, owner, {x})
      BY <1>4, <2>2 DEF Takes
    <3> QED BY <1>3, <3>1, <3>2
  <2> QED BY <2>1, <2>2
<1>10. /\ AvgIs(tab, avgState, TakenBy(tab, n + 1, owner2, Workers \ left))
       /\ SumIs(tab, sumState, TakenBy(tab, n + 1, owner2, Workers \ left))
  <2>1. TakenBy(tab, n + 1, owner2, Workers \ left) = TakenBy(tab, n, owner, Workers \ left)
    BY <1>2, <1>4 DEF Takes
  <2> QED BY <1>3, <2>1
<1>11. avg' = [x \in Workers |-> avg'[x]] /\ sum' = [x \in Workers |-> sum'[x]]
  BY <1>8
<1>12. n + 1 \in 1 .. Len(tab) + 1 /\ (n + 1) - 1 = n
  BY <1>2
<1>13. \E o \in [1 .. (n + 1) - 1 -> Workers] :
        /\ \A x \in Workers :
            /\ AvgIs(tab, avg'[x], TakenBy(tab, n + 1, o, {x}))
            /\ SumIs(tab, sum'[x], TakenBy(tab, n + 1, o, {x}))
        /\ AvgIs(tab, avgState, TakenBy(tab, n + 1, o, Workers \ left))
        /\ SumIs(tab, sumState, TakenBy(tab, n + 1, o, Workers \ left))
  BY <1>9, <1>10, <1>12
<1> QED BY <1>1, <1>2, <1>11, <1>12, <1>13 DEF AggregatesInv

LEMMA CombineStep ==
    ASSUME AggregatesInv, NEW w \in Workers, Aggregates!Combine(w)
    PROVE  AggregatesInv'
<1>1. /\ next > Len(rows) /\ w \in left /\ left' = left \ {w}
      /\ avgState' = Aggregates!Advance(avgState, avg[w], Aggregates!hvector_combine(avgState, avg[w]))
      /\ sumState' = Aggregates!Advance(sumState, sum[w], Aggregates!hvector_add(sumState, sum[w]))
      /\ rows' = rows /\ next' = next /\ avg' = avg /\ sum' = sum
  BY DEF Aggregates!Combine
<1>2. IsTable(rows) /\ left \subseteq Workers
  BY DEF AggregatesInv
<1>3. PICK owner \in [1 .. next - 1 -> Workers] :
        /\ \A x \in Workers :
            /\ AvgIs(rows, avg[x], TakenBy(rows, next, owner, {x}))
            /\ SumIs(rows, sum[x], TakenBy(rows, next, owner, {x}))
        /\ AvgIs(rows, avgState, TakenBy(rows, next, owner, Workers \ left))
        /\ SumIs(rows, sumState, TakenBy(rows, next, owner, Workers \ left))
  BY DEF AggregatesInv
<1> DEFINE S == TakenBy(rows, next, owner, Workers \ left)
           T == TakenBy(rows, next, owner, {w})
<1>4. /\ S \in SUBSET Vecs(rows) /\ T \in SUBSET Vecs(rows) /\ S \cap T = {}
      /\ S \cup T = TakenBy(rows, next, owner, Workers \ (left \ {w}))
  BY <1>1, <1>2 DEF TakenBy
<1>5. AvgIs(rows, avgState, S) /\ SumIs(rows, sumState, S) /\ AvgIs(rows, avg[w], T) /\ SumIs(rows, sum[w], T)
  BY <1>3
<1> HIDE DEF S, T
<1>6. AvgIs(rows, avgState', S \cup T) /\ SumIs(rows, sumState', S \cup T)
  BY <1>1, <1>2, <1>4, <1>5, AvgAdvances, SumAdvances
<1>7. \E o \in [1 .. next - 1 -> Workers] :
        /\ \A x \in Workers :
            /\ AvgIs(rows, avg[x], TakenBy(rows, next, o, {x}))
            /\ SumIs(rows, sum[x], TakenBy(rows, next, o, {x}))
        /\ AvgIs(rows, avgState', TakenBy(rows, next, o, Workers \ left'))
        /\ SumIs(rows, sumState', TakenBy(rows, next, o, Workers \ left'))
  BY <1>1, <1>3, <1>4, <1>6
<1> QED BY <1>1, <1>7 DEF AggregatesInv

LEMMA AggregatesStepInv ==
    ASSUME AggregatesInv, Aggregates!Next
    PROVE  AggregatesInv'
<1>1. PICK w \in Workers : Aggregates!Accumulate(w) \/ Aggregates!Combine(w)
  BY DEF Aggregates!Next
<1> QED BY <1>1, AccumulateStep, CombineStep
-----------------------------------------------------------------------------
(* The results, once the leader has every state.                           *)

LEMMA LeastRow ==
    ASSUME NEW S \in SUBSET Nat, S # {}
    PROVE  Aggregates!Min(S) \in S
<1>1. \E m \in S : \A k \in S : m <= k
  BY LeastOf
<1> QED BY <1>1 DEF Aggregates!Min

\* The words of the properties in those of the invariant
LEMMA SameWords ==
    ASSUME IsTable(rows)
    PROVE  /\ Aggregates!Vecs = Vecs(rows) /\ (Aggregates!SameDim <=> Alike(rows, Vecs(rows)))
           /\ Vecs(rows) \in SUBSET Nat
           /\ Vecs(rows) # {} => Aggregates!Min(Vecs(rows)) \in Vecs(rows)
           /\ \A S \in SUBSET Vecs(rows) : \A k : Aggregates!Total(S, k) = Total(rows, S, k)
           /\ \A S : Aggregates!Cardinality(S) = Cardinality(S)
<1>1. Aggregates!Vecs = Vecs(rows)
  BY DEF Aggregates!Vecs, Vecs
<1>2. Aggregates!SameDim <=> Alike(rows, Vecs(rows))
  BY <1>1 DEF Aggregates!SameDim, Alike
<1>3. Vecs(rows) \in SUBSET Nat
  BY RowsAre
<1>4. ASSUME NEW S \in SUBSET Vecs(rows), NEW k
      PROVE  Aggregates!Total(S, k) = Total(rows, S, k)
  <2>1. S \in SUBSET DOMAIN rows /\ IsFiniteSet(S)
    BY RowsAre, FS_Subset DEF Vecs
  <2> QED BY <2>1, TotalIsSumOn DEF Total
<1>5. \A S : Aggregates!Cardinality(S) = Cardinality(S)
  BY Zenon DEF Cardinality, Aggregates!Cardinality
<1>6. Vecs(rows) # {} => Aggregates!Min(Vecs(rows)) \in Vecs(rows)
  BY <1>3, LeastRow
<1> QED BY <1>1, <1>2, <1>3, <1>4, <1>5, <1>6

\* In the end the leader has the states of all rows.
LEMMA LeaderHasAll ==
    ASSUME AggregatesInv, Aggregates!Finished
    PROVE  /\ IsTable(rows)
           /\ AvgIs(rows, avgState, Vecs(rows)) /\ SumIs(rows, sumState, Vecs(rows))
<1>1. IsTable(rows) /\ next \in 1 .. Len(rows) + 1 /\ next > Len(rows) /\ left = {}
  BY DEF AggregatesInv, Aggregates!Finished
<1>2. Len(rows) \in Nat /\ next = Len(rows) + 1 /\ next - 1 = Len(rows)
      /\ \A i \in Vecs(rows) : i \in 1 .. Len(rows) /\ i < next
  BY <1>1, RowsAre
<1>3. PICK owner \in [1 .. next - 1 -> Workers] :
        /\ AvgIs(rows, avgState, TakenBy(rows, next, owner, Workers \ left))
        /\ SumIs(rows, sumState, TakenBy(rows, next, owner, Workers \ left))
  BY DEF AggregatesInv
<1>4. TakenBy(rows, next, owner, Workers \ left) = Vecs(rows)
  BY <1>1, <1>2, <1>3 DEF TakenBy
<1> QED BY <1>1, <1>3, <1>4

\* What the property and the invariant say of rounding
LEMMA SameSlack ==
    ASSUME IsTable(rows)
    PROVE  /\ \A S \in SUBSET Vecs(rows) : Aggregates!Slack(S) = Slack(S)
           /\ \A k : Aggregates!Exact(k) <=> Exact(rows, k)
           /\ \A x : Aggregates!Abs(x) = Abs(x)
<1>1. \A S \in SUBSET Vecs(rows) : Aggregates!Slack(S) = Slack(S)
  BY SameWords, SameFloats DEF Aggregates!Slack, Slack
<1>2. ASSUME NEW k PROVE Aggregates!Exact(k) <=> Exact(rows, k)
  <2> DEFINE V == {i \in Vecs(rows) : k <= Len(rows[i])}
  <2>1. Aggregates!Exact(k) <=> \A S \in SUBSET V : Aggregates!Total(S, k) \in Finite
    BY SameWords, SameFloats DEF Aggregates!Exact
  <2>2. Exact(rows, k) <=> \A S \in SUBSET V : Total(rows, S, k) \in Finite
    BY DEF Exact
  <2>3. \A S \in SUBSET V : Aggregates!Total(S, k) = Total(rows, S, k)
    <3>1. V \subseteq Vecs(rows)
      OBVIOUS
    <3> HIDE DEF V
    <3> QED BY <3>1, SameWords
  <2> HIDE DEF V
  <2> QED BY <2>1, <2>2, <2>3
<1>3. \A x : Aggregates!Abs(x) = Abs(x)
  BY DEF Aggregates!Abs, Abs
<1> QED BY <1>1, <1>2, <1>3

LEMMA SumIsRight == ASSUME AggregatesInv PROVE Aggregates!SumIsRounded
<1> SUFFICES ASSUME Aggregates!Finished
    PROVE  /\ sumState = NULL <=> Aggregates!Vecs = {}
           /\ sumState = Error =>
               \/ ~Aggregates!SameDim
               \/ \E S \in SUBSET Aggregates!Vecs : \E k \in Aggregates!Dims :
                   /\ \A i \in S : k <= Len(rows[i])
                   /\ ~Aggregates!Exact(k)
                   /\ 2 * Aggregates!Abs(Aggregates!Total(S, k)) + Aggregates!Slack(S) > 2 * MaxFloat
           /\ sumState \notin {NULL, Error} =>
               /\ Aggregates!SameDim /\ DOMAIN sumState = DOMAIN rows[Aggregates!Min(Aggregates!Vecs)]
               /\ \A k \in DOMAIN sumState :
                   /\ sumState[k] \in Aggregates!Finite
                   /\ 2 * Aggregates!Abs(sumState[k] - Aggregates!Total(Aggregates!Vecs, k))
                          <= Aggregates!Slack(Aggregates!Vecs)
                   /\ Aggregates!Exact(k) => sumState[k] = Aggregates!Total(Aggregates!Vecs, k)
  BY DEF Aggregates!SumIsRounded, Aggregates!Error, Error
<1>1. IsTable(rows) /\ SumIs(rows, sumState, Vecs(rows))
  BY LeaderHasAll
<1> DEFINE V == Vecs(rows)
           least == Aggregates!Min(V)
<1>2. /\ Aggregates!Vecs = V /\ (Aggregates!SameDim <=> Alike(rows, V))
      /\ V # {} => least \in V
      /\ \A S \in SUBSET V : \A k : Aggregates!Total(S, k) = Total(rows, S, k)
      /\ \A S \in SUBSET V : Aggregates!Slack(S) = Slack(S)
      /\ \A k : Aggregates!Exact(k) <=> Exact(rows, k)
      /\ \A x : Aggregates!Abs(x) = Abs(x)
  BY <1>1, SameWords, SameSlack
<1>3. SumIs(rows, sumState, V)
  BY <1>1
<1>4. ASSUME NEW i \in V PROVE DOMAIN rows[i] = 1 .. Len(rows[i])
  BY <1>1, RowsAre, VectorsAre
<1>5. sumState = Error => Excused(rows)
  BY <1>3 DEF SumIs
<1>6. Excused(rows) => \/ ~Aggregates!SameDim
                       \/ \E S \in SUBSET V : \E k \in Aggregates!Dims :
                           /\ \A i \in S : k <= Len(rows[i])
                           /\ ~Aggregates!Exact(k)
                           /\ 2 * Aggregates!Abs(Aggregates!Total(S, k)) + Aggregates!Slack(S) > 2 * MaxFloat
  BY <1>2 DEF Excused
<1> HIDE DEF V, least
<1>7. sumState = NULL <=> V = {}
  BY <1>3 DEF SumIs
<1>8. ASSUME sumState \notin {NULL, Error}
      PROVE  /\ Aggregates!SameDim /\ DOMAIN sumState = DOMAIN rows[least]
             /\ \A k \in DOMAIN sumState :
                   /\ sumState[k] \in Aggregates!Finite
                   /\ 2 * Aggregates!Abs(sumState[k] - Aggregates!Total(V, k)) <= Aggregates!Slack(V)
                   /\ Aggregates!Exact(k) => sumState[k] = Aggregates!Total(V, k)
  <2>1. Alike(rows, V) /\ least \in V
    BY <1>2, <1>3, <1>7, <1>8 DEF SumIs
  <2> DEFINE m == Len(rows[least])
  <2>2. /\ sumState \in [1 .. m -> Finite]
        /\ \A k \in 1 .. m : IsRounded(rows, V, k, sumState[k])
    BY <1>3, <1>8, <2>1 DEF SumIs
  <2>3. DOMAIN rows[least] = 1 .. m
    BY <1>4, <2>1
  <2> HIDE DEF m
  <2>4. DOMAIN sumState = 1 .. m
    BY <2>2
  <2>5. ASSUME NEW k \in 1 .. m
        PROVE  /\ sumState[k] \in Aggregates!Finite
               /\ 2 * Aggregates!Abs(sumState[k] - Aggregates!Total(V, k)) <= Aggregates!Slack(V)
               /\ Aggregates!Exact(k) => sumState[k] = Aggregates!Total(V, k)
    BY <1>2, <2>2, SameFloats DEF IsRounded
  <2> QED BY <1>2, <2>1, <2>3, <2>4, <2>5
<1> QED BY <1>2, <1>5, <1>6, <1>7, <1>8 DEF least

LEMMA AvgIsRight == ASSUME AggregatesInv PROVE Aggregates!AvgIsMean
<1> DEFINE V == Vecs(rows)
           least == Aggregates!Min(V)
           n == Cardinality(V)
           m == Len(rows[least])
           res == IF avgState = Error THEN Error ELSE Aggregates!hvector_avg(avgState)
           mean == [k \in 1 .. m |-> ToFloat(Total(rows, V, k), n)]
<1> SUFFICES ASSUME Aggregates!Finished
    PROVE  IF Aggregates!Vecs = {} THEN res = NULL
           ELSE IF ~Aggregates!SameDim THEN res = Error
           ELSE res = [k \in DOMAIN rows[Aggregates!Min(Aggregates!Vecs)] |->
                        Aggregates!ToFloat(Aggregates!Total(Aggregates!Vecs, k),
                                           Aggregates!Cardinality(Aggregates!Vecs))]
  BY DEF Aggregates!AvgIsMean, Aggregates!Error, Error
<1>1. IsTable(rows) /\ AvgIs(rows, avgState, V)
  BY LeaderHasAll
<1>2. /\ Aggregates!Vecs = V /\ (Aggregates!SameDim <=> Alike(rows, V))
      /\ V # {} => least \in V
      /\ Aggregates!Cardinality(V) = n
      /\ \A k : Aggregates!Total(V, k) = Total(rows, V, k)
  BY <1>1, SameWords
<1>3. /\ avgState = Error <=> ~Alike(rows, V)
      /\ n \in Nat /\ (V # {} => n > 0)
  BY <1>1, AvgStateIs
<1>4. CASE V = {}
  <2>1. avgState = <<0>> /\ avgState[1] = 0 /\ avgState # Error
    BY <1>1, <1>4 DEF AvgIs, Error
  <2>2. res = NULL
    BY <2>1 DEF Aggregates!hvector_avg
  <2> QED BY <1>2, <1>4, <2>2
<1>5. CASE V # {} /\ ~Alike(rows, V)
  <2>1. res = Error
    BY <1>3, <1>5
  <2> HIDE DEF res, V
  <2> QED BY <1>2, <1>5, <2>1
<1>6. CASE V # {} /\ Alike(rows, V)
  <2>1. least \in V /\ avgState # Error /\ n \in Nat \ {0}
    BY <1>2, <1>3, <1>6
  <2>2. /\ m \in 1 .. MaxDim /\ MaxDim \in Nat /\ DOMAIN rows[least] = 1 .. m
        /\ Len(avgState) = m + 1
    BY <1>1, <1>6, <2>1, RowsAre, VectorsAre, AvgStateIs, HVectorAssumption
  <2>3. avgState[1] = n /\ \A k \in 1 .. m : avgState[k + 1] = Total(rows, V, k)
    BY <1>1, <1>6, <2>1 DEF AvgIs
  <2>4. ASSUME NEW k \in 1 .. m PROVE mean[k] \in Finite
    <3>1. \A i \in V : k \in 1 .. Len(rows[i])
      BY <1>6, <2>1 DEF Alike
    <3> DEFINE t == Total(rows, V, k)
    <3>2. t \in Int /\ t <= MaxFloat * n /\ -(MaxFloat * n) <= t
      BY <1>1, <3>1, Totals
    <3>3. mean[k] = ToFloat(t, n)
      OBVIOUS
    <3> HIDE DEF t, n, mean, m
    <3> QED BY <2>1, <3>2, <3>3, RoundingIs
  <2> DEFINE quot == [k \in 1 .. Len(avgState) - 1 |-> Aggregates!ToFloat(avgState[k + 1], avgState[1])]
  <2>5. quot = mean
    <3>1. Len(avgState) - 1 = m
      BY <2>2
    <3>2. \A k \in 1 .. m : Aggregates!ToFloat(avgState[k + 1], avgState[1])
                                = ToFloat(Total(rows, V, k), n)
      BY <2>3, SameRounding
    <3> HIDE DEF m, n, V
    <3> QED BY <3>1, <3>2
  <2>6. Len(mean) = m /\ DOMAIN mean = 1 .. m
    <3>1. DOMAIN mean = 1 .. m
      OBVIOUS
    <3>2. mean \in [1 .. m -> Finite]
      <4> HIDE DEF m, n, V
      <4> QED BY <2>4
    <3> HIDE DEF mean, m
    <3> QED BY <2>2, <3>1, <3>2
  <2>7. \A k \in 1 .. m : Aggregates!is_valid_float(mean[k])
    <3> HIDE DEF mean, m
    <3>1. \A x \in Finite : x # NaN /\ x # Inf /\ x # -Inf
      BY FloatsAre
    <3> QED BY <2>4, <3>1, SameFloats DEF Aggregates!is_valid_float, Aggregates!IsInf
  <2>8. Aggregates!hvector_avg(avgState) = mean
    <3>1. Aggregates!hvector_avg(avgState)
            = IF Aggregates!CheckDim(Len(quot)) /\ \A k \in DOMAIN quot : Aggregates!is_valid_float(quot[k])
              THEN quot ELSE Error
      <4>1. avgState[1] # 0
        BY <2>1, <2>3
      <4> QED BY <4>1 DEF Aggregates!hvector_avg, Aggregates!Error, Error
    <3> HIDE DEF quot, mean, m
    <3>2. Aggregates!CheckDim(m)
      BY <2>2 DEF Aggregates!CheckDim, Aggregates!Dims
    <3> QED BY <2>5, <2>6, <2>7, <3>1, <3>2
  <2>9. res = mean
    BY <2>1, <2>8
  <2>10. mean = [k \in DOMAIN rows[least] |-> Aggregates!ToFloat(Aggregates!Total(V, k), Aggregates!Cardinality(V))]
    <3> HIDE DEF V, n, m, least
    <3> QED BY <1>2, <2>2, SameRounding DEF mean
  <2> HIDE DEF V, n, m, res, mean
  <2> QED BY <1>2, <1>6, <2>9, <2>10 DEF least
<1> QED BY <1>4, <1>5, <1>6

AggregatesRun == machine = "aggregates" => AggregatesInv

LEMMA AggregatesInvariant == Spec => []AggregatesRun
<1>1. Init => AggregatesRun
  <2> SUFFICES ASSUME Init, machine = "aggregates" PROVE AggregatesInv
    BY DEF AggregatesRun
  <2>1. Aggregates!Init
    BY DEF Init
  <2> QED BY <2>1, AggregatesInitInv
<1>2. AggregatesRun /\ [Next]_vars => AggregatesRun'
  <2> SUFFICES ASSUME AggregatesRun, [Next]_vars PROVE AggregatesRun'
    OBVIOUS
  <2>1. /\ UNCHANGED machine
        /\ machine = "aggregates" => Aggregates!Next \/ UNCHANGED aggregateVars
    BY DEF Next, vars
  <2>2. ASSUME AggregatesInv, UNCHANGED aggregateVars PROVE AggregatesInv'
    BY <2>2 DEF AggregatesInv, aggregateVars
  <2> QED BY <2>1, <2>2, AggregatesStepInv DEF AggregatesRun
<1> QED BY <1>1, <1>2, PTL DEF Spec

\* However the rows are shared out and the partial states combined, avg(hvector) is
\* the mean of the vectors: it never overflows, is NULL without vectors, and fails
\* exactly if two of them have different dimensions.
THEOREM AvgIsTheMean == Spec => []AvgIsMean
<1>1. AggregatesRun => AvgIsMean
  BY AvgIsRight DEF AggregatesRun, AvgIsMean
<1> QED BY <1>1, AggregatesInvariant, PTL

\* sum(hvector) is the sum of the vectors but for one rounding to a float in each
\* addition, whatever the schedule, and exactly the sum in an element of which no sum
\* of rows needs rounding; it fails only if dimensions differ or some of the rows have
\* a sum out of the range of float, give or take the rounding.
THEOREM SumIsTheRoundedSum == Spec => []SumIsRounded
<1>1. AggregatesRun => SumIsRounded
  BY SumIsRight DEF AggregatesRun, SumIsRounded
<1> QED BY <1>1, AggregatesInvariant, PTL
=============================================================================
