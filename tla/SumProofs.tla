----------------------------- MODULE SumProofs ------------------------------
(***************************************************************************)
(* Sums of numbers over finite sets, as MapThenSumSet adds them up.  They  *)
(* are defined by recursion over the set, so every fact about them is      *)
(* proved with a smallest set for which it would be wrong.  The same for   *)
(* powers of a number, and the binary digits of a sum of powers of 2.      *)
(***************************************************************************)
EXTENDS Integers, NaturalsInduction, WellFoundedInduction, FiniteSetTheorems, TLAPS

-----------------------------------------------------------------------------
(* Sums over finite sets.  MapThenSumSet takes its summands in the order   *)
(* CHOOSE gives them: the recursive function it is defined by exists, its  *)
(* values are numbers, and any summand can be taken out first.             *)

Chosen(s) == CHOOSE x \in s : TRUE
SumsBy(iter, F, s) == IF s = {} THEN 0 ELSE F[Chosen(s)] + iter[s \ {Chosen(s)}]
Sums(iter, F, S) == iter = [s \in SUBSET S |-> SumsBy(iter, F, s)]

LEMMA ChosenIn == \A s : s # {} => Chosen(s) \in s
BY DEF Chosen

\* Sets of numbers have a least element.
LEMMA LeastOf ==
    ASSUME NEW S \in SUBSET Nat, S # {}
    PROVE  \E m \in S : \A k \in S : m <= k
<1> DEFINE R == {ss \in Nat \X Nat : ss[1] < ss[2]}
<1>1. IsWellFoundedOn(R, Nat)
  BY NatLessThanWellFounded DEF OpToRel
<1>2. \A k, m \in Nat : k < m => <<k, m>> \in R
  OBVIOUS
<1> HIDE DEF R
<1>3. PICK m \in S : \A k \in S : ~ (<<k, m>> \in R)
  BY <1>1, WFMin
<1>4. \A k \in S : ~(k < m)
  BY <1>2, <1>3
<1> QED BY <1>4

\* A set of finite sets has one with as few elements as any.
LEMMA SmallestOf ==
    ASSUME NEW S, IsFiniteSet(S), NEW B \in SUBSET SUBSET S, B # {}
    PROVE  \E s \in B : \A t \in B : Cardinality(s) <= Cardinality(t)
<1>1. \A s \in SUBSET S : IsFiniteSet(s) /\ Cardinality(s) \in Nat
  BY FS_Subset, FS_CardinalityType
<1> DEFINE C == {Cardinality(s) : s \in B}
<1>2. C \in SUBSET Nat /\ C # {}
  BY <1>1
<1>3. PICK m \in C : \A k \in C : m <= k
  <2> HIDE DEF C
  <2> QED BY <1>2, LeastOf
<1>4. PICK s \in B : m = Cardinality(s)
  BY <1>3
<1> QED BY <1>3, <1>4

LEMMA Smaller ==
    ASSUME NEW S, IsFiniteSet(S), NEW s \in SUBSET S, NEW x \in s
    PROVE  s \ {x} \in SUBSET S /\ Cardinality(s \ {x}) < Cardinality(s)
<1>1. IsFiniteSet(s)
  BY FS_Subset
<1>2. Cardinality(s \ {x}) = Cardinality(s) - 1
  BY <1>1, FS_RemoveElement
<1>3. Cardinality(s) \in Nat
  BY <1>1, FS_CardinalityType
<1> QED BY <1>2, <1>3

LEMMA AnySummandFirst ==
    ASSUME NEW S, IsFiniteSet(S), NEW F, \A x \in S : F[x] \in Int,
           NEW iter, Sums(iter, F, S)
    PROVE  \A s \in SUBSET S : iter[s] \in Int /\ \A x \in s : iter[s] = F[x] + iter[s \ {x}]
<1> DEFINE Good(s) == iter[s] \in Int /\ \A x \in s : iter[s] = F[x] + iter[s \ {x}]
           B == {s \in SUBSET S : ~Good(s)}
<1>1. \A s \in SUBSET S : iter[s] = SumsBy(iter, F, s)
  BY DEF Sums
<1>2. SUFFICES ASSUME B # {} PROVE FALSE
  OBVIOUS
<1>3. PICK s \in B : \A t \in B : Cardinality(s) <= Cardinality(t)
  BY <1>2, SmallestOf
<1>4. \A x \in s : Good(s \ {x})
  <2> SUFFICES ASSUME NEW x \in s PROVE Good(s \ {x})
    OBVIOUS
  <2>1. s \ {x} \in SUBSET S /\ Cardinality(s \ {x}) < Cardinality(s)
    BY Smaller
  <2>2. Cardinality(s) \in Nat /\ Cardinality(s \ {x}) \in Nat
    BY <2>1, FS_Subset, FS_CardinalityType
  <2>3. s \ {x} \notin B
    <3> HIDE DEF B
    <3> QED BY <1>3, <2>1, <2>2
  <2> QED BY <2>1, <2>3
<1>5. s # {}
  <2>1. SUFFICES ASSUME s = {} PROVE Good(s)
    BY <1>3
  <2>2. iter[s] = 0
    BY <1>1, <2>1 DEF SumsBy
  <2> QED BY <2>1, <2>2
<1> DEFINE c == Chosen(s)
<1>6. c \in s /\ iter[s] = F[c] + iter[s \ {c}]
  BY <1>1, <1>5, ChosenIn DEF SumsBy
<1>7. iter[s] \in Int
  <2>1. iter[s \ {c}] \in Int /\ F[c] \in Int
    BY <1>4, <1>6
  <2> HIDE DEF c
  <2> QED BY <1>6, <2>1
<1>8. ASSUME NEW x \in s PROVE iter[s] = F[x] + iter[s \ {x}]
  <2>1. CASE x = c
    BY <1>6, <2>1
  <2>2. CASE x # c
    <3>1. x \in s \ {c} /\ c \in s \ {x} /\ (s \ {c}) \ {x} = (s \ {x}) \ {c}
      BY <1>6, <2>2
    <3>2. iter[s \ {c}] = F[x] + iter[(s \ {x}) \ {c}]
      BY <1>4, <1>6, <3>1
    <3>3. iter[s \ {x}] = F[c] + iter[(s \ {x}) \ {c}]
      BY <1>4, <3>1
    <3>4. iter[(s \ {x}) \ {c}] \in Int
      <4>1. (s \ {x}) \ {c} \in SUBSET S /\ Cardinality((s \ {x}) \ {c}) < Cardinality(s \ {x})
        BY <3>1, Smaller
      <4>2. Cardinality(s \ {x}) < Cardinality(s)
        BY Smaller
      <4>3. /\ Cardinality(s) \in Nat /\ Cardinality(s \ {x}) \in Nat
            /\ Cardinality((s \ {x}) \ {c}) \in Nat
        BY <4>1, FS_Subset, FS_CardinalityType
      <4> QED BY <1>3, <4>1, <4>2, <4>3
    <3>5. F[x] \in Int /\ F[c] \in Int
      BY <1>6
    <3> HIDE DEF c
    <3> QED BY <1>6, <3>2, <3>3, <3>4, <3>5
  <2> QED BY <2>1, <2>2
<1> QED BY <1>3, <1>7, <1>8

\* Adding over a smaller set takes the same steps.
LEMMA SumsAgree ==
    ASSUME NEW S, IsFiniteSet(S), NEW T \in SUBSET S, NEW F,
           NEW f, Sums(f, F, S), NEW g, Sums(g, F, T)
    PROVE  f[T] = g[T]
<1> DEFINE B == {s \in SUBSET T : f[s] # g[s]}
<1>1. SUFFICES ASSUME B # {} PROVE FALSE
  OBVIOUS
<1>2. B \in SUBSET SUBSET S
  OBVIOUS
<1>3. PICK s \in B : \A t \in B : Cardinality(s) <= Cardinality(t)
  BY <1>1, <1>2, SmallestOf
<1>4. f[s] = SumsBy(f, F, s) /\ g[s] = SumsBy(g, F, s)
  BY DEF Sums
<1>5. s # {}
  BY <1>3, <1>4 DEF SumsBy
<1>6. Chosen(s) \in s /\ f[s \ {Chosen(s)}] # g[s \ {Chosen(s)}]
  BY <1>3, <1>4, <1>5, ChosenIn DEF SumsBy
<1> DEFINE t == s \ {Chosen(s)}
<1>7. t \in B
  BY <1>6
<1>8. Cardinality(t) < Cardinality(s)
  BY <1>6, Smaller
<1>9. Cardinality(s) \in Nat /\ Cardinality(t) \in Nat
  BY FS_Subset, FS_CardinalityType
<1> HIDE DEF t
<1> QED BY <1>3, <1>7, <1>8, <1>9

LEMMA SumsExist ==
    ASSUME NEW S, IsFiniteSet(S), NEW F
    PROVE  \E f : Sums(f, F, S)
<1> DEFINE UpTo(n) == {s \in SUBSET S : Cardinality(s) <= n}
           Q(n) == \E f : f = [s \in UpTo(n) |-> SumsBy(f, F, s)]
           B == {n \in Nat : ~Q(n)}
<1>1. \A s \in SUBSET S : Cardinality(s) \in Nat /\ (Cardinality(s) = 0 => s = {})
  BY FS_Subset, FS_CardinalityType, FS_EmptySet
<1>2. Q(0)
  <2> DEFINE f == [s \in UpTo(0) |-> 0]
  <2>1. \A s \in UpTo(0) : SumsBy(f, F, s) = 0
    BY <1>1 DEF SumsBy
  <2>2. f = [s \in UpTo(0) |-> SumsBy(f, F, s)]
    <3> HIDE DEF UpTo
    <3> QED BY <2>1
  <2> QED BY <2>2
<1>3. ASSUME NEW n \in Nat, Q(n) PROVE Q(n + 1)
  <2>1. PICK f : f = [s \in UpTo(n) |-> SumsBy(f, F, s)]
    BY <1>3
  <2> DEFINE g == [s \in UpTo(n + 1) |-> SumsBy(f, F, s)]
  <2>2. ASSUME NEW s \in UpTo(n + 1) PROVE SumsBy(f, F, s) = SumsBy(g, F, s)
    <3>1. CASE s = {}
      BY <3>1 DEF SumsBy
    <3>2. CASE s # {}
      <4> DEFINE t == s \ {Chosen(s)}
      <4>1. t \in SUBSET S /\ Cardinality(t) < Cardinality(s)
        BY <3>2, ChosenIn, Smaller
      <4>2. t \in UpTo(n) /\ t \in UpTo(n + 1)
        BY <1>1, <4>1
      <4>3. f[t] = SumsBy(f, F, t) /\ g[t] = SumsBy(f, F, t)
        <5> HIDE DEF UpTo, t
        <5> QED BY <2>1, <4>2
      <4> HIDE DEF g
      <4> QED BY <4>3 DEF SumsBy
    <3> QED BY <3>1, <3>2
  <2>3. g = [s \in UpTo(n + 1) |-> SumsBy(g, F, s)]
    <3>1. \A s \in UpTo(n + 1) : g[s] = SumsBy(g, F, s)
      BY <2>2
    <3>2. g = [s \in UpTo(n + 1) |-> g[s]]
      OBVIOUS
    <3> HIDE DEF g, UpTo
    <3> QED BY <3>1, <3>2
  <2> HIDE DEF g
  <2> QED BY <2>3
<1>4. \A n \in Nat : Q(n)
  <2>1. SUFFICES ASSUME B # {} PROVE FALSE
    OBVIOUS
  <2>2. PICK m \in B : \A k \in B : m <= k
    <3> HIDE DEF Q
    <3> QED BY <2>1, LeastOf
  <2> HIDE DEF Q
  <2>3. m # 0 /\ m - 1 \in Nat
    BY <1>2
  <2>4. Q(m - 1)
    BY <2>2, <2>3
  <2>5. Q((m - 1) + 1)
    BY <1>3, <2>3, <2>4
  <2> QED BY <2>5
<1>5. UpTo(Cardinality(S)) = SUBSET S
  BY FS_Subset
<1>6. Q(Cardinality(S))
  BY <1>4, FS_CardinalityType
<1> QED BY <1>5, <1>6 DEF Sums

\* The sum of F[x] for the elements x of S
SumOn(F, S) == (CHOOSE f : Sums(f, F, S))[S]

LEMMA SumIsSumOn ==
    ASSUME NEW S, IsFiniteSet(S), NEW F, NEW f, Sums(f, F, S)
    PROVE  f[S] = SumOn(F, S)
<1> DEFINE g == CHOOSE h : Sums(h, F, S)
<1>1. Sums(g, F, S)
  OBVIOUS
<1> HIDE DEF g
<1>2. f[S] = g[S]
  BY <1>1, SumsAgree
<1> QED BY <1>2 DEF g, SumOn

LEMMA SumOnEmpty == \A F : SumOn(F, {}) = 0
<1> SUFFICES ASSUME NEW F PROVE SumOn(F, {}) = 0
  OBVIOUS
<1>1. PICK f : Sums(f, F, {})
  BY SumsExist, FS_EmptySet
<1>2. f[{}] = 0
  BY <1>1 DEF Sums, SumsBy
<1> QED BY <1>1, <1>2, SumIsSumOn, FS_EmptySet

LEMMA SumOnAdds ==
    ASSUME NEW S, IsFiniteSet(S), NEW F, \A x \in S : F[x] \in Int
    PROVE  SumOn(F, S) \in Int /\ \A x \in S : SumOn(F, S) = F[x] + SumOn(F, S \ {x})
<1>1. PICK f : Sums(f, F, S)
  BY SumsExist
<1>2. f[S] \in Int /\ \A x \in S : f[S] = F[x] + f[S \ {x}]
  BY <1>1, AnySummandFirst
<1>3. f[S] = SumOn(F, S)
  BY <1>1, SumIsSumOn
<1>4. ASSUME NEW x \in S PROVE f[S \ {x}] = SumOn(F, S \ {x})
  <2>1. S \ {x} \in SUBSET S /\ IsFiniteSet(S \ {x})
    BY FS_Subset
  <2>2. PICK g : Sums(g, F, S \ {x})
    BY <2>1, SumsExist
  <2>3. f[S \ {x}] = g[S \ {x}]
    BY <1>1, <2>1, <2>2, SumsAgree
  <2>4. g[S \ {x}] = SumOn(F, S \ {x})
    BY <2>1, <2>2, SumIsSumOn
  <2> QED BY <2>3, <2>4
<1> QED BY <1>2, <1>3, <1>4

LEMMA SumOnUnion ==
    ASSUME NEW S, IsFiniteSet(S), NEW F, \A x \in S : F[x] \in Int,
           NEW T \in SUBSET S, NEW U \in SUBSET S, T \cap U = {}
    PROVE  SumOn(F, T \cup U) = SumOn(F, T) + SumOn(F, U)
<1> DEFINE B == {s \in SUBSET U : SumOn(F, T \cup s) # SumOn(F, T) + SumOn(F, s)}
<1>1. \A s \in SUBSET S : IsFiniteSet(s) /\ SumOn(F, s) \in Int
  BY FS_Subset, SumOnAdds
<1>2. SUFFICES ASSUME B # {} PROVE FALSE
  OBVIOUS
<1>3. PICK s \in B : \A t \in B : Cardinality(s) <= Cardinality(t)
  <2>1. B \in SUBSET SUBSET S
    OBVIOUS
  <2> HIDE DEF B
  <2> QED BY <1>2, <2>1, SmallestOf
<1>4. s \in SUBSET U /\ SumOn(F, T \cup s) # SumOn(F, T) + SumOn(F, s)
  BY <1>3
<1>5. PICK x \in s : TRUE
  <2>1. SUFFICES ASSUME s = {} PROVE FALSE
    OBVIOUS
  <2>2. T \cup {} = T
    OBVIOUS
  <2> QED BY <1>1, <1>4, <2>1, <2>2, SumOnEmpty
<1> DEFINE t == s \ {x}
<1>6. t \in SUBSET U /\ Cardinality(t) < Cardinality(s)
  BY <1>4, Smaller
<1>7. t \notin B
  <2>1. Cardinality(s) \in Nat /\ Cardinality(t) \in Nat
    BY <1>1, <1>4, <1>6, FS_CardinalityType
  <2> HIDE DEF B, t
  <2> QED BY <1>3, <1>6, <2>1
<1>8. SumOn(F, T \cup t) = SumOn(F, T) + SumOn(F, t)
  BY <1>6, <1>7
<1>9. SumOn(F, s) = F[x] + SumOn(F, t) /\ F[x] \in Int
  BY <1>1, <1>4, SumOnAdds
<1>10. SumOn(F, T \cup s) = F[x] + SumOn(F, T \cup t)
  <2>1. (T \cup s) \ {x} = T \cup t /\ T \cup s \in SUBSET S /\ x \in T \cup s
    BY <1>4
  <2> HIDE DEF t
  <2> QED BY <1>1, <2>1, SumOnAdds
<1>11. SumOn(F, T) \in Int /\ SumOn(F, t) \in Int
  BY <1>1, <1>6
<1> HIDE DEF t
<1> QED BY <1>4, <1>8, <1>9, <1>10, <1>11

\* A sum is bounded by the number of its summands.
LEMMA SumOnBound ==
    ASSUME NEW S, IsFiniteSet(S), NEW F, NEW m \in Nat,
           \A x \in S : F[x] \in Int /\ F[x] <= m /\ -m <= F[x]
    PROVE  SumOn(F, S) <= m * Cardinality(S) /\ -(m * Cardinality(S)) <= SumOn(F, S)
<1> DEFINE Good(s) == SumOn(F, s) <= m * Cardinality(s) /\ -(m * Cardinality(s)) <= SumOn(F, s)
           B == {s \in SUBSET S : ~Good(s)}
<1>1. \A s \in SUBSET S : IsFiniteSet(s) /\ SumOn(F, s) \in Int /\ Cardinality(s) \in Nat
  BY FS_Subset, SumOnAdds, FS_CardinalityType
<1>2. SUFFICES ASSUME B # {} PROVE FALSE
  OBVIOUS
<1>3. PICK s \in B : \A t \in B : Cardinality(s) <= Cardinality(t)
  <2> HIDE DEF Good
  <2> QED BY <1>2, SmallestOf
<1>4. s \in SUBSET S /\ ~Good(s)
  BY <1>3
<1>5. PICK x \in s : TRUE
  <2>1. SUFFICES ASSUME s = {} PROVE FALSE
    OBVIOUS
  <2>2. SumOn(F, s) = 0 /\ Cardinality(s) = 0 /\ m * 0 = 0
    BY <2>1, SumOnEmpty, FS_EmptySet
  <2> QED BY <1>4, <2>2
<1> DEFINE t == s \ {x}
<1>6. t \in SUBSET S /\ Cardinality(t) = Cardinality(s) - 1
  BY <1>1, <1>4, FS_RemoveElement
<1>7. Good(t)
  <2>1. t \notin B
    <3> HIDE DEF Good, t
    <3>1. B \in SUBSET SUBSET S
      OBVIOUS
    <3> HIDE DEF B
    <3> QED BY <1>1, <1>3, <1>4, <1>6
  <2> HIDE DEF Good, t
  <2> QED BY <1>6, <2>1
<1>8. SumOn(F, s) = F[x] + SumOn(F, t) /\ F[x] \in Int /\ F[x] <= m /\ -m <= F[x]
  BY <1>1, <1>4, SumOnAdds
<1>9. m * Cardinality(s) = m * Cardinality(t) + m /\ m * Cardinality(t) \in Int
  <2>1. \A n \in Nat : m * (n + 1) = m * n + m /\ m * n \in Int
    OBVIOUS
  <2>2. Cardinality(t) \in Nat /\ Cardinality(s) = Cardinality(t) + 1
    BY <1>1, <1>4, <1>6
  <2> HIDE DEF t
  <2> QED BY <2>1, <2>2
<1>10. SumOn(F, t) \in Int
  BY <1>1, <1>6
<1>11. Good(s)
  <2>1. SumOn(F, t) <= m * Cardinality(t) /\ -(m * Cardinality(t)) <= SumOn(F, t)
    BY <1>7
  <2> HIDE DEF t
  <2> QED BY <1>8, <1>9, <1>10, <2>1
<1> QED BY <1>4, <1>11

\* Only the summands matter.
LEMMA SumOnAgrees ==
    ASSUME NEW S, IsFiniteSet(S), NEW F, NEW G, \A x \in S : F[x] = G[x]
    PROVE  SumOn(F, S) = SumOn(G, S)
<1>1. PICK f : Sums(f, F, S)
  BY SumsExist
<1>2. ASSUME NEW s \in SUBSET S PROVE SumsBy(f, F, s) = SumsBy(f, G, s)
  <2>1. s # {} => Chosen(s) \in S
    BY ChosenIn
  <2> QED BY <2>1 DEF SumsBy
<1>3. Sums(f, G, S)
  BY <1>1, <1>2 DEF Sums
<1> QED BY <1>1, <1>3, SumIsSumOn

LEMMA SumOnNotNegative ==
    ASSUME NEW S, IsFiniteSet(S), NEW F, \A x \in S : F[x] \in Int /\ F[x] >= 0
    PROVE  SumOn(F, S) >= 0
<1> DEFINE B == {s \in SUBSET S : ~(SumOn(F, s) >= 0)}
<1>1. \A s \in SUBSET S : IsFiniteSet(s) /\ SumOn(F, s) \in Int /\ Cardinality(s) \in Nat
  BY FS_Subset, SumOnAdds, FS_CardinalityType
<1>2. SUFFICES ASSUME B # {} PROVE FALSE
  OBVIOUS
<1>3. PICK s \in B : \A t \in B : Cardinality(s) <= Cardinality(t)
  <2>1. B \in SUBSET SUBSET S
    OBVIOUS
  <2> HIDE DEF B
  <2> QED BY <1>2, <2>1, SmallestOf
<1>4. s \in SUBSET S /\ ~(SumOn(F, s) >= 0)
  BY <1>3
<1>5. PICK x \in s : TRUE
  <2>1. SUFFICES ASSUME s = {} PROVE FALSE
    OBVIOUS
  <2> QED BY <1>4, <2>1, SumOnEmpty
<1> DEFINE t == s \ {x}
<1>6. t \in SUBSET S /\ Cardinality(t) < Cardinality(s)
  BY <1>4, Smaller
<1>7. t \notin B
  <2>1. Cardinality(s) \in Nat /\ Cardinality(t) \in Nat
    BY <1>1, <1>4, <1>6
  <2> HIDE DEF B, t
  <2> QED BY <1>3, <1>6, <2>1
<1>8. SumOn(F, t) >= 0 /\ SumOn(F, t) \in Int
  BY <1>1, <1>6, <1>7
<1>9. SumOn(F, s) = F[x] + SumOn(F, t) /\ F[x] \in Int /\ F[x] >= 0
  BY <1>1, <1>4, SumOnAdds
<1> HIDE DEF t
<1> QED BY <1>4, <1>8, <1>9

LEMMA SumOnPositive ==
    ASSUME NEW S, IsFiniteSet(S), NEW F, \A x \in S : F[x] \in Int /\ F[x] >= 0,
           NEW x \in S, F[x] > 0
    PROVE  SumOn(F, S) > 0
<1>1. SumOn(F, S) = F[x] + SumOn(F, S \ {x})
  BY SumOnAdds
<1>2. IsFiniteSet(S \ {x}) /\ \A y \in S \ {x} : F[y] \in Int /\ F[y] >= 0
  BY FS_Subset
<1>3. SumOn(F, S \ {x}) \in Int /\ SumOn(F, S \ {x}) >= 0
  BY <1>2, SumOnAdds, SumOnNotNegative
<1> QED BY <1>1, <1>3

\* The sum of the squares of a * X[s] - b * Y[s] is not negative.
LEMMA SumOfSquares ==
    ASSUME NEW S, IsFiniteSet(S), NEW X, NEW Y, \A s \in S : X[s] \in Int /\ Y[s] \in Int,
           NEW a \in Int, NEW b \in Int
    PROVE  LET XX == [s \in S |-> X[s] * X[s]]
               XY == [s \in S |-> X[s] * Y[s]]
               YY == [s \in S |-> Y[s] * Y[s]]
           IN  (a * a) * SumOn(XX, S) - (2 * (a * b)) * SumOn(XY, S) + (b * b) * SumOn(YY, S) >= 0
<1> DEFINE XX == [s \in S |-> X[s] * X[s]]
           XY == [s \in S |-> X[s] * Y[s]]
           YY == [s \in S |-> Y[s] * Y[s]]
           V(s) == (a * a) * SumOn(XX, s) - (2 * (a * b)) * SumOn(XY, s) + (b * b) * SumOn(YY, s)
           B == {s \in SUBSET S : ~(V(s) >= 0)}
<1>1. \A s \in S : XX[s] \in Int /\ XY[s] \in Int /\ YY[s] \in Int
  OBVIOUS
<1> HIDE DEF XX, XY, YY
<1>2. \A s \in SUBSET S : /\ IsFiniteSet(s) /\ Cardinality(s) \in Nat
                          /\ SumOn(XX, s) \in Int /\ SumOn(XY, s) \in Int /\ SumOn(YY, s) \in Int
  BY <1>1, FS_Subset, SumOnAdds, FS_CardinalityType
<1>3. SUFFICES ASSUME B # {} PROVE FALSE
  BY DEF XX, XY, YY
<1>4. PICK s \in B : \A t \in B : Cardinality(s) <= Cardinality(t)
  <2>1. B \in SUBSET SUBSET S
    OBVIOUS
  <2> HIDE DEF B
  <2> QED BY <1>3, <2>1, SmallestOf
<1>5. s \in SUBSET S /\ ~(V(s) >= 0)
  BY <1>4
<1>6. PICK x \in s : TRUE
  <2>1. SUFFICES ASSUME s = {} PROVE FALSE
    OBVIOUS
  <2>2. SumOn(XX, s) = 0 /\ SumOn(XY, s) = 0 /\ SumOn(YY, s) = 0
    BY <2>1, SumOnEmpty
  <2> QED BY <1>5, <2>2
<1> DEFINE t == s \ {x}
<1>7. t \in SUBSET S /\ Cardinality(t) < Cardinality(s)
  BY <1>5, Smaller
<1>8. t \notin B
  <2>1. Cardinality(s) \in Nat /\ Cardinality(t) \in Nat
    BY <1>2, <1>5, <1>7
  <2> HIDE DEF B, t
  <2> QED BY <1>4, <1>7, <2>1
<1>9. V(t) >= 0
  BY <1>7, <1>8
<1>10. /\ SumOn(XX, s) = XX[x] + SumOn(XX, t)
       /\ SumOn(XY, s) = XY[x] + SumOn(XY, t)
       /\ SumOn(YY, s) = YY[x] + SumOn(YY, t)
  BY <1>1, <1>2, <1>5, SumOnAdds
<1>11. /\ SumOn(XX, t) \in Int /\ SumOn(XY, t) \in Int /\ SumOn(YY, t) \in Int
       /\ X[x] \in Int /\ Y[x] \in Int
       /\ XX[x] = X[x] * X[x] /\ XY[x] = X[x] * Y[x] /\ YY[x] = Y[x] * Y[x]
  BY <1>2, <1>5, <1>7 DEF XX, XY, YY
<1> HIDE DEF t
<1>12. \A p, q, r \in Int : p * (q + r) = p * q + p * r
  OBVIOUS
<1>13. V(s) = V(t) + ((a * a) * XX[x] - (2 * (a * b)) * XY[x] + (b * b) * YY[x])
  <2>1. /\ (a * a) * SumOn(XX, s) = (a * a) * XX[x] + (a * a) * SumOn(XX, t)
        /\ (2 * (a * b)) * SumOn(XY, s) = (2 * (a * b)) * XY[x] + (2 * (a * b)) * SumOn(XY, t)
        /\ (b * b) * SumOn(YY, s) = (b * b) * YY[x] + (b * b) * SumOn(YY, t)
    BY <1>10, <1>11, <1>12
  <2> QED BY <1>11, <2>1
<1>14. (a * a) * XX[x] - (2 * (a * b)) * XY[x] + (b * b) * YY[x] >= 0
  <2>1. \A p, q \in Int : p * q \in Int /\ (p - q) * (p - q) >= 0
                         /\ (p - q) * (p - q) = p * p - 2 * (p * q) + q * q
    OBVIOUS
  <2>2. \A c, d, p, q \in Int : /\ (c * p) * (c * p) = (c * c) * (p * p)
                                /\ 2 * ((c * p) * (d * q)) = (2 * (c * d)) * (p * q)
    OBVIOUS
  <2> DEFINE p == a * X[x]
             q == b * Y[x]
  <2>3. p * p = (a * a) * XX[x] /\ 2 * (p * q) = (2 * (a * b)) * XY[x] /\ q * q = (b * b) * YY[x]
    BY <1>11, <2>2
  <2>4. p \in Int /\ q \in Int
    BY <1>11
  <2> HIDE DEF p, q
  <2>5. (p - q) * (p - q) >= 0 /\ (p - q) * (p - q) = p * p - 2 * (p * q) + q * q
    BY <2>1, <2>4
  <2> QED BY <2>3, <2>4, <2>5
<1>15. V(t) \in Int /\ (a * a) * XX[x] - (2 * (a * b)) * XY[x] + (b * b) * YY[x] \in Int
  BY <1>11
<1> HIDE DEF V
<1> QED BY <1>5, <1>9, <1>13, <1>14, <1>15

\* The Cauchy-Schwarz inequality, for Y that is not zero
LEMMA CauchySchwarz ==
    ASSUME NEW S, IsFiniteSet(S), NEW X, NEW Y, \A s \in S : X[s] \in Int /\ Y[s] \in Int,
           SumOn([s \in S |-> Y[s] * Y[s]], S) > 0
    PROVE  LET p == SumOn([s \in S |-> X[s] * Y[s]], S)
           IN  p * p <= SumOn([s \in S |-> X[s] * X[s]], S) * SumOn([s \in S |-> Y[s] * Y[s]], S)
<1> DEFINE XX == [s \in S |-> X[s] * X[s]]
           XY == [s \in S |-> X[s] * Y[s]]
           YY == [s \in S |-> Y[s] * Y[s]]
           n == SumOn(XX, S)
           p == SumOn(XY, S)
           m == SumOn(YY, S)
<1>1. n \in Int /\ p \in Int /\ m \in Int /\ m > 0
  <2>1. \A s \in S : XX[s] \in Int /\ XY[s] \in Int /\ YY[s] \in Int
    OBVIOUS
  <2>2. m > 0
    OBVIOUS
  <2> HIDE DEF XX, XY, YY
  <2> QED BY <2>1, <2>2, SumOnAdds
<1>2. (m * m) * n - (2 * (m * p)) * p + (p * p) * m >= 0
  <2>1. \A a, b \in Int : (a * a) * n - (2 * (a * b)) * p + (b * b) * m >= 0
    BY SumOfSquares
  <2> HIDE DEF n, p, m
  <2> QED BY <1>1, <2>1
<1> HIDE DEF n, p, m
<1>3. (m * m) * n - (2 * (m * p)) * p + (p * p) * m = m * (n * m - p * p)
  BY <1>1
<1>4. n * m - p * p >= 0
  <2>1. \A y, z \in Int : y > 0 /\ y * z >= 0 => z >= 0
    OBVIOUS
  <2>2. n * m - p * p \in Int
    BY <1>1
  <2> QED BY <1>1, <1>2, <1>3, <2>1, <2>2
<1>5. p * p <= n * m
  BY <1>1, <1>4
<1> QED BY <1>5 DEF n, p, m
-----------------------------------------------------------------------------
(* Powers of a number.                                                     *)

PowersUpTo(f, b, D) == f = [k \in D |-> IF k = 0 THEN 1 ELSE b * f[k - 1]]
Powers(f, b) == PowersUpTo(f, b, Nat)
PowerOf(b, n) == (CHOOSE f : Powers(f, b))[n]

LEMMA PowersAgree ==
    ASSUME NEW b, NEW m \in Nat, NEW n \in Nat, NEW f, PowersUpTo(f, b, 0 .. m),
           NEW g, PowersUpTo(g, b, 0 .. n)
    PROVE  \A k \in Nat : k <= m /\ k <= n => f[k] = g[k]
<1> DEFINE B == {k \in Nat : k <= m /\ k <= n /\ f[k] # g[k]}
<1>1. SUFFICES ASSUME B # {} PROVE FALSE
  OBVIOUS
<1>2. PICK k \in B : \A j \in B : k <= j
  <2>1. B \in SUBSET Nat
    OBVIOUS
  <2> HIDE DEF B
  <2> QED BY <1>1, <2>1, LeastOf
<1>3. k \in Nat /\ k \in 0 .. m /\ k \in 0 .. n
  BY <1>2
<1>4. /\ f[k] = IF k = 0 THEN 1 ELSE b * f[k - 1]
      /\ g[k] = IF k = 0 THEN 1 ELSE b * g[k - 1]
  BY <1>3 DEF PowersUpTo
<1>5. k # 0 => f[k - 1] = g[k - 1]
  <2> SUFFICES ASSUME k # 0 PROVE f[k - 1] = g[k - 1]
    OBVIOUS
  <2>1. k - 1 \in Nat /\ k - 1 <= m /\ k - 1 <= n /\ ~(k <= k - 1)
    BY <1>3
  <2>2. k - 1 \notin B
    BY <1>2, <2>1
  <2> QED BY <2>1, <2>2
<1> QED BY <1>2, <1>4, <1>5

LEMMA PowersExist == ASSUME NEW b PROVE \E f : Powers(f, b)
<1> DEFINE B == {n \in Nat : ~\E f : PowersUpTo(f, b, 0 .. n)}
<1>1. \A n \in Nat : \E f : PowersUpTo(f, b, 0 .. n)
  <2>1. SUFFICES ASSUME B # {} PROVE FALSE
    OBVIOUS
  <2>2. PICK n \in B : \A j \in B : n <= j
    <3>1. B \in SUBSET Nat
      OBVIOUS
    <3> HIDE DEF B
    <3> QED BY <2>1, <3>1, LeastOf
  <2>3. n \in Nat
    BY <2>2
  <2>4. n # 0
    <3> DEFINE f == [k \in 0 .. 0 |-> 1]
    <3>1. f = [k \in 0 .. 0 |-> IF k = 0 THEN 1 ELSE b * f[k - 1]]
      OBVIOUS
    <3>2. PowersUpTo(f, b, 0 .. 0)
      BY <3>1 DEF PowersUpTo
    <3> QED BY <2>2, <3>2
  <2>5. n - 1 \in Nat /\ ~(n <= n - 1)
    BY <2>3, <2>4
  <2>6. PICK f : PowersUpTo(f, b, 0 .. n - 1)
    BY <2>2, <2>5
  <2> DEFINE g == [k \in 0 .. n |-> IF k = 0 THEN 1 ELSE b * f[k - 1]]
  <2>7. \A k \in 0 .. n - 1 : g[k] = f[k]
    <3> TAKE k \in 0 .. n - 1
    <3>1. f[k] = IF k = 0 THEN 1 ELSE b * f[k - 1]
      BY <2>6 DEF PowersUpTo
    <3>2. k \in 0 .. n
      BY <2>3
    <3> QED BY <3>1, <3>2
  <2>8. \A k \in 0 .. n : g[k] = IF k = 0 THEN 1 ELSE b * g[k - 1]
    <3> TAKE k \in 0 .. n
    <3>1. g[k] = IF k = 0 THEN 1 ELSE b * f[k - 1]
      OBVIOUS
    <3>2. k # 0 => k - 1 \in 0 .. n - 1
      BY <2>3
    <3> HIDE DEF g
    <3> QED BY <2>7, <3>1, <3>2
  <2>9. g = [k \in 0 .. n |-> g[k]]
    OBVIOUS
  <2> HIDE DEF g
  <2>10. g = [k \in 0 .. n |-> IF k = 0 THEN 1 ELSE b * g[k - 1]]
    BY <2>8, <2>9
  <2> QED BY <2>2, <2>10 DEF PowersUpTo
<1> DEFINE upTo(n) == CHOOSE f : PowersUpTo(f, b, 0 .. n)
           p == [n \in Nat |-> upTo(n)[n]]
<1>2. ASSUME NEW n \in Nat PROVE PowersUpTo(upTo(n), b, 0 .. n)
  BY <1>1
<1> HIDE DEF upTo
<1>3. \A n \in Nat : p[n] = IF n = 0 THEN 1 ELSE b * p[n - 1]
  <2> TAKE n \in Nat
  <2>1. n \in 0 .. n /\ PowersUpTo(upTo(n), b, 0 .. n)
    BY <1>2
  <2>2. upTo(n)[n] = IF n = 0 THEN 1 ELSE b * upTo(n)[n - 1]
    BY <2>1 DEF PowersUpTo
  <2>3. n # 0 => upTo(n)[n - 1] = p[n - 1]
    <3> SUFFICES ASSUME n # 0 PROVE upTo(n)[n - 1] = p[n - 1]
      OBVIOUS
    <3>1. n - 1 \in Nat /\ n - 1 <= n /\ n - 1 <= n - 1
      OBVIOUS
    <3>2. PowersUpTo(upTo(n - 1), b, 0 .. n - 1)
      BY <1>2, <3>1
    <3>3. upTo(n)[n - 1] = upTo(n - 1)[n - 1]
      BY <2>1, <3>1, <3>2, PowersAgree
    <3> QED BY <3>1, <3>3
  <2> QED BY <2>2, <2>3
<1>4. p = [n \in Nat |-> p[n]]
  OBVIOUS
<1> HIDE DEF p
<1>5. p = [n \in Nat |-> IF n = 0 THEN 1 ELSE b * p[n - 1]]
  BY <1>3, <1>4
<1> QED BY <1>5 DEF Powers, PowersUpTo

LEMMA PowerIs ==
    ASSUME NEW b
    PROVE  PowerOf(b, 0) = 1 /\ \A n \in Nat : PowerOf(b, n + 1) = b * PowerOf(b, n)
<1> DEFINE f == CHOOSE g : Powers(g, b)
<1>1. Powers(f, b)
  BY PowersExist
<1>2. \A n : PowerOf(b, n) = f[n]
  BY DEF PowerOf
<1> HIDE DEF f
<1>3. \A n \in Nat : f[n] = IF n = 0 THEN 1 ELSE b * f[n - 1]
  BY <1>1 DEF Powers, PowersUpTo
<1>4. f[0] = 1
  BY <1>3
<1>5. ASSUME NEW n \in Nat PROVE f[n + 1] = b * f[n]
  <2>1. n + 1 \in Nat /\ n + 1 # 0 /\ (n + 1) - 1 = n
    OBVIOUS
  <2>2. f[n + 1] = IF n + 1 = 0 THEN 1 ELSE b * f[(n + 1) - 1]
    BY <1>3, <2>1
  <2> QED BY <2>1, <2>2
<1> QED BY <1>2, <1>4, <1>5

\* Powers of numbers above 1 grow, and a power of a sum is a product.
LEMMA PowerGrows ==
    ASSUME NEW b \in Nat, b >= 2
    PROVE  \A n \in Nat : PowerOf(b, n) \in Nat /\ PowerOf(b, n) >= n + 1
<1> DEFINE B == {n \in Nat : ~(PowerOf(b, n) \in Nat /\ PowerOf(b, n) >= n + 1)}
<1>1. SUFFICES ASSUME B # {} PROVE FALSE
  OBVIOUS
<1>2. PICK n \in B : \A j \in B : n <= j
  <2>1. B \in SUBSET Nat
    OBVIOUS
  <2> HIDE DEF B
  <2> QED BY <1>1, <2>1, LeastOf
<1>3. n \in Nat /\ n # 0
  BY <1>2, PowerIs
<1>4. n - 1 \in Nat /\ ~(n <= n - 1) /\ (n - 1) + 1 = n
  BY <1>3
<1>5. PowerOf(b, n - 1) \in Nat /\ PowerOf(b, n - 1) >= n
  BY <1>2, <1>4
<1>6. PowerOf(b, n) = b * PowerOf(b, n - 1)
  BY <1>4, PowerIs
<1> DEFINE q == PowerOf(b, n - 1)
<1> HIDE DEF q
<1>7. q \in Nat /\ q >= n => b * q \in Nat /\ b * q >= 2 * q
  BY <1>3
<1>8. b * q \in Nat /\ b * q >= n + 1
  BY <1>3, <1>5, <1>7 DEF q
<1> QED BY <1>2, <1>6, <1>8 DEF q

LEMMA PowerOfSum ==
    ASSUME NEW b \in Nat, b >= 2, NEW m \in Nat
    PROVE  \A n \in Nat : PowerOf(b, m + n) = PowerOf(b, m) * PowerOf(b, n)
<1> DEFINE B == {n \in Nat : PowerOf(b, m + n) # PowerOf(b, m) * PowerOf(b, n)}
           w == PowerOf(b, m)
<1>1. SUFFICES ASSUME B # {} PROVE FALSE
  OBVIOUS
<1>2. PICK n \in B : \A j \in B : n <= j
  <2>1. B \in SUBSET Nat
    OBVIOUS
  <2> HIDE DEF B
  <2> QED BY <1>1, <2>1, LeastOf
<1>3. w \in Nat
  BY PowerGrows
<1>4. n \in Nat /\ n # 0
  <2>1. m + 0 = m /\ PowerOf(b, 0) = 1 /\ w * 1 = w
    BY <1>3, PowerIs
  <2> QED BY <1>2, <2>1
<1>5. /\ n - 1 \in Nat /\ ~(n <= n - 1) /\ (n - 1) + 1 = n /\ m + n = (m + (n - 1)) + 1
      /\ m + (n - 1) \in Nat
  BY <1>4
<1> DEFINE q == PowerOf(b, n - 1)
<1>6. PowerOf(b, m + (n - 1)) = w * q
  BY <1>2, <1>5
<1>7. PowerOf(b, n) = b * q /\ PowerOf(b, m + n) = b * PowerOf(b, m + (n - 1))
  BY <1>5, PowerIs
<1>8. q \in Nat
  BY <1>5, PowerGrows
<1> HIDE DEF q
<1>9. b * (w * q) = w * (b * q)
  <2> HIDE DEF w
  <2> QED BY <1>3, <1>8
<1> QED BY <1>2, <1>6, <1>7, <1>9
-----------------------------------------------------------------------------
(* The digits of a sum of different powers of 2: F[j] is 0, or the power   *)
(* that stands at the place j of W places.                                 *)

Summands(F, W) == \A j \in 0 .. W - 1 : F[j] \in {0, PowerOf(2, W - 1 - j)}

LEMMA TwoPowers ==
    /\ PowerOf(2, 0) = 1
    /\ \A n \in Nat : /\ PowerOf(2, n) \in Nat /\ PowerOf(2, n) > 0
                      /\ PowerOf(2, n + 1) = 2 * PowerOf(2, n)
BY PowerIs, PowerGrows

LEMMA SummandsAre ==
    ASSUME NEW W \in Nat, NEW F, Summands(F, W)
    PROVE  \A j \in 0 .. W - 1 : F[j] \in Nat /\ W - 1 - j \in Nat
<1> TAKE j \in 0 .. W - 1
<1>1. W - 1 - j \in Nat
  OBVIOUS
<1>2. PowerOf(2, W - 1 - j) \in Nat
  BY <1>1, TwoPowers
<1> QED BY <1>1, <1>2 DEF Summands

\* The first places add up to a multiple of the power behind them.
LEMMA HeadOfSum ==
    ASSUME NEW W \in Nat, NEW F, Summands(F, W)
    PROVE  \A m \in 0 .. W : \E h \in Nat : SumOn(F, 0 .. m - 1) = PowerOf(2, W - m) * h
<1> DEFINE Good(m) == \E h \in Nat : SumOn(F, 0 .. m - 1) = PowerOf(2, W - m) * h
           B == {m \in 0 .. W : ~Good(m)}
<1>1. SUFFICES ASSUME B # {} PROVE FALSE
  OBVIOUS
<1>2. PICK m \in B : \A j \in B : m <= j
  <2>1. B \in SUBSET Nat
    OBVIOUS
  <2> HIDE DEF B
  <2> QED BY <1>1, <2>1, LeastOf
<1>3. m \in 0 .. W /\ ~Good(m)
  BY <1>2
<1>4. m # 0
  <2>1. Good(0)
    <3>1. 0 .. 0 - 1 = {}
      OBVIOUS
    <3>2. PowerOf(2, W - 0) * 0 = 0
      BY TwoPowers
    <3> QED BY <3>1, <3>2, SumOnEmpty
  <2> HIDE DEF Good
  <2> QED BY <1>3, <2>1
<1> DEFINE l == m - 1
           p == PowerOf(2, W - m)
           S == 0 .. m - 1
<1>5. /\ m \in Nat /\ l \in Nat /\ l \in 0 .. W /\ ~(m <= l) /\ l \in 0 .. W - 1 /\ l \in S
      /\ W - m \in Nat /\ W - l = (W - m) + 1 /\ W - 1 - l = W - m
      /\ S \ {l} = 0 .. l - 1
  BY <1>3, <1>4
<1>6. l \notin B
  <2> HIDE DEF B, l
  <2> QED BY <1>2, <1>5
<1>7. PICK h \in Nat : SumOn(F, 0 .. l - 1) = PowerOf(2, W - l) * h
  <2>1. Good(l)
    <3> HIDE DEF Good, l
    <3> QED BY <1>5, <1>6 DEF B
  <2> QED BY <2>1
<1>8. p \in Nat /\ PowerOf(2, W - l) = 2 * p /\ F[l] \in {0, p}
  <2> HIDE DEF l
  <2> QED BY <1>5, TwoPowers DEF Summands
<1>9. SumOn(F, S) = F[l] + SumOn(F, S \ {l})
  <2>1. IsFiniteSet(S)
    BY <1>5, FS_Interval
  <2>2. \A x \in S : F[x] \in Int
    BY <1>3, SummandsAre
  <2> HIDE DEF S, l
  <2> QED BY <1>5, <2>1, <2>2, SumOnAdds
<1> HIDE DEF l, p, S
<1>10. SumOn(F, S) = F[l] + (2 * p) * h
  BY <1>5, <1>7, <1>8, <1>9
<1>11. \E n \in Nat : SumOn(F, S) = p * n
  <2>1. CASE F[l] = 0
    <3>1. SumOn(F, S) = p * (2 * h) /\ 2 * h \in Nat
      BY <1>8, <1>10, <2>1
    <3> QED BY <3>1
  <2>2. CASE F[l] = p
    <3>1. SumOn(F, S) = p * (2 * h + 1) /\ 2 * h + 1 \in Nat
      BY <1>8, <1>10, <2>2
    <3> QED BY <3>1
  <2> QED BY <1>8, <2>1, <2>2
<1> QED BY <1>3, <1>11 DEF S, p

\* The last places add up to less than the power before them.
LEMMA TailOfSum ==
    ASSUME NEW W \in Nat, NEW F, Summands(F, W)
    PROVE  \A n \in 0 .. W : /\ SumOn(F, W - n .. W - 1) \in Nat
                             /\ SumOn(F, W - n .. W - 1) < PowerOf(2, n)
<1> DEFINE Good(n) == /\ SumOn(F, W - n .. W - 1) \in Nat
                      /\ SumOn(F, W - n .. W - 1) < PowerOf(2, n)
           B == {n \in 0 .. W : ~Good(n)}
<1>1. SUFFICES ASSUME B # {} PROVE FALSE
  OBVIOUS
<1>2. PICK n \in B : \A j \in B : n <= j
  <2>1. B \in SUBSET Nat
    OBVIOUS
  <2> HIDE DEF B
  <2> QED BY <1>1, <2>1, LeastOf
<1>3. n \in 0 .. W /\ ~Good(n)
  BY <1>2
<1>4. n # 0
  <2>1. Good(0)
    <3>1. W - 0 .. W - 1 = {}
      OBVIOUS
    <3>2. SumOn(F, W - 0 .. W - 1) = SumOn(F, {})
      BY <3>1, Zenon
    <3>3. SumOn(F, W - 0 .. W - 1) = 0
      BY <3>2, SumOnEmpty
    <3> DEFINE z == SumOn(F, W - 0 .. W - 1)
    <3>4. z = 0 /\ PowerOf(2, 0) = 1
      BY <3>3, TwoPowers
    <3> HIDE DEF z
    <3>5. z \in Nat /\ z < PowerOf(2, 0)
      BY <3>4
    <3> QED BY <3>5, Zenon DEF z
  <2> HIDE DEF Good
  <2> QED BY <1>3, <2>1
<1> DEFINE l == n - 1
           k == W - n
           S == k .. W - 1
           p == PowerOf(2, l)
<1>5. /\ l \in Nat /\ l \in 0 .. W /\ ~(n <= l) /\ k \in 0 .. W - 1 /\ k \in S
      /\ W - 1 - k = l /\ l + 1 = n
      /\ S \ {k} = W - l .. W - 1
  BY <1>3, <1>4
<1>6. l \notin B
  <2> HIDE DEF B, l
  <2> QED BY <1>2, <1>5
<1>7. SumOn(F, W - l .. W - 1) \in Nat /\ SumOn(F, W - l .. W - 1) < p
  <2>1. Good(l)
    <3> HIDE DEF Good, l
    <3> QED BY <1>5, <1>6 DEF B
  <2> QED BY <2>1
<1>8. p \in Nat /\ PowerOf(2, n) = 2 * p /\ F[k] \in {0, p}
  <2> HIDE DEF l, k
  <2> QED BY <1>5, TwoPowers DEF Summands
<1>9. SumOn(F, S) = F[k] + SumOn(F, S \ {k})
  <2>1. IsFiniteSet(S)
    BY <1>3, FS_Interval
  <2>2. \A x \in S : x \in 0 .. W - 1
    BY <1>3
  <2>3. \A x \in S : F[x] \in Int
    <3> HIDE DEF S
    <3> QED BY <2>2, SummandsAre
  <2> HIDE DEF S, k
  <2> QED BY <1>5, <2>1, <2>3, SumOnAdds
<1>10. Good(n)
  <2>1. SumOn(F, S) = F[k] + SumOn(F, W - l .. W - 1)
    BY <1>5, <1>9
  <2> DEFINE z == SumOn(F, W - l .. W - 1)
  <2>2. z \in Nat /\ z < p
    BY <1>7
  <2> HIDE DEF z, p, l
  <2>3. F[k] + z \in Nat /\ F[k] + z < 2 * p
    BY <1>8, <2>2
  <2> QED BY <1>8, <2>1, <2>3 DEF z
<1> QED BY <1>3, <1>10

\* Dividing by the power that stands at a place, and taking the rest, gives its digit.
LEMMA DigitOfSum ==
    ASSUME NEW W \in Nat, NEW F, Summands(F, W), NEW i \in 0 .. W - 1
    PROVE  (SumOn(F, 0 .. W - 1) \div PowerOf(2, W - 1 - i)) % 2 = IF F[i] = 0 THEN 0 ELSE 1
<1> DEFINE n == W - 1 - i
           p == PowerOf(2, n)
           S == 0 .. W - 1
           t == SumOn(F, W - n .. W - 1)
           H == 0 .. i - 1
           R == i .. W - 1
<1>1. /\ n \in Nat /\ n \in 0 .. W /\ i \in 0 .. W /\ W - i = n + 1 /\ W - n = i + 1
      /\ S = H \cup R /\ H \cap R = {} /\ H \in SUBSET S /\ R \in SUBSET S
      /\ i \in R /\ R \ {i} = W - n .. W - 1
  OBVIOUS
<1>2. p \in Nat /\ p > 0 /\ PowerOf(2, W - i) = 2 * p /\ F[i] \in {0, p}
  <2> HIDE DEF n
  <2>1. F[i] \in {0, PowerOf(2, n)}
    BY DEF Summands, n
  <2> QED BY <1>1, <2>1, TwoPowers
<1>3. PICK h \in Nat : SumOn(F, H) = (2 * p) * h
  <2>1. \E h \in Nat : SumOn(F, H) = PowerOf(2, W - i) * h
    BY <1>1, HeadOfSum
  <2> QED BY <1>2, <2>1
<1>4. t \in Nat /\ t < p
  <2> HIDE DEF n
  <2> QED BY <1>1, TailOfSum
<1>5. SumOn(F, S) = SumOn(F, H) + (F[i] + t)
  <2>1. IsFiniteSet(S) /\ IsFiniteSet(R)
    BY FS_Interval
  <2>2. \A x \in S : F[x] \in Int
    BY SummandsAre
  <2> HIDE DEF S, H, R, n
  <2>3. SumOn(F, S) = SumOn(F, H) + SumOn(F, R)
    <3>1. H \in SUBSET S /\ R \in SUBSET S /\ H \cap R = {} /\ S = H \cup R
      BY <1>1
    <3>2. SumOn(F, H \cup R) = SumOn(F, H) + SumOn(F, R)
      BY <2>1, <2>2, <3>1, SumOnUnion
    <3> QED BY <3>1, <3>2, Zenon
  <2>4. \A x \in R : F[x] \in Int
    BY <1>1, <2>2
  <2>5. SumOn(F, R) = F[i] + SumOn(F, R \ {i})
    BY <1>1, <2>1, <2>4, SumOnAdds
  <2> QED BY <1>1, <2>3, <2>5
<1> HIDE DEF p, S, t, H, R, n
<1>6. ASSUME NEW m \in Nat PROVE (p * m + t) \div p = m
  <2> DEFINE a == p * m + t
             q == a \div p
  <2>1. p * m \in Nat /\ a \in Nat
    BY <1>2, <1>4
  <2> HIDE DEF a
  <2>2. q \in Nat /\ p * q <= a /\ a < p * q + p
    BY <1>2, <2>1
  <2> HIDE DEF q
  <2>3. a = p * m + t /\ p * q \in Nat /\ p * (q + 1) = p * q + p /\ p * (m + 1) = p * m + p
    BY <1>2, <2>2 DEF a
  <2>4. q <= m
    <3> SUFFICES ASSUME m + 1 <= q PROVE FALSE
      BY <2>2
    <3>1. p * (m + 1) <= p * q
      BY <1>2, <2>2
    <3> QED BY <1>2, <1>4, <2>1, <2>2, <2>3, <3>1
  <2>5. m <= q
    <3> SUFFICES ASSUME q + 1 <= m PROVE FALSE
      BY <2>2
    <3>1. p * (q + 1) <= p * m
      BY <1>2, <2>2
    <3> QED BY <1>2, <1>4, <2>1, <2>2, <2>3, <3>1
  <2> QED BY <2>2, <2>4, <2>5 DEF a, q
<1>7. CASE F[i] = 0
  <2>1. SumOn(F, S) = p * (2 * h) + t /\ 2 * h \in Nat /\ (2 * h) % 2 = 0
    BY <1>2, <1>3, <1>4, <1>5, <1>7
  <2>2. SumOn(F, S) \div p = 2 * h
    BY <1>6, <2>1
  <2> QED BY <1>7, <2>1, <2>2 DEF p, S, n
<1>8. CASE F[i] # 0
  <2>1. SumOn(F, S) = p * (2 * h + 1) + t /\ 2 * h + 1 \in Nat /\ (2 * h + 1) % 2 = 1
    BY <1>2, <1>3, <1>4, <1>5, <1>8
  <2>2. SumOn(F, S) \div p = 2 * h + 1
    BY <1>6, <2>1
  <2> QED BY <1>8, <2>1, <2>2 DEF p, S, n
<1> QED BY <1>7, <1>8
=============================================================================
