----------------------------- MODULE ElkanKmeans -----------------------------
(***************************************************************************)
(* How the centers of the lists are calculated from a sample of the rows   *)
(* (ivfflat_kmeans_plusplus and ivfflat_elkan_kmeans in ivfflat_build.c):  *)
(* k-means that keeps a lower bound for the distance of every sample to    *)
(* every center and an upper bound for the distance to its own center, and *)
(* leaves a distance out whenever the triangle inequality and those bounds *)
(* say that it cannot change the assignment.  The samples and centers lie  *)
(* on a line here, where the mean is a number; the distances are exact.    *)
(* Left out: for inner products and cosines the means are divided by their *)
(* norm, and a sum of floats that overflows is taken for FLT_MAX.          *)
(***************************************************************************)
EXTENDS Integers, FiniteSets, FiniteSetsExt

CONSTANTS
    NumSamples,      \* samples->length
    NumCenters,      \* centers->max_length
    Points,          \* where samples and centers can be
    MaxIterations,   \* 500 in the code
    FltMax           \* FLT_MAX

Samples == 1 .. NumSamples
Centers == 1 .. NumCenters
Abs(d) == IF d < 0 THEN -d ELSE d
Distance(p, q) == Abs(p - q)

ASSUME KmeansAssumption ==
    /\ NumSamples \in Nat \ {0} /\ NumCenters \in Nat \ {0} /\ MaxIterations \in Nat \ {0}
    /\ Points \subseteq Int /\ FltMax \in Nat
    /\ \A p, q \in Points : Distance(p, q) * Distance(p, q) < FltMax

VARIABLES
    sample,    \* samples
    centers,   \* centers
    lower,     \* lower_bounds
    upper,     \* upper_bounds
    closest,   \* closest_centers
    between,   \* twice half_distances: distances between centers
    s,         \* twice s: distance of each center to the nearest other one
    weight,    \* weight of each sample in ivfflat_kmeans_plusplus
    pc, j, i,  \* where the calculation is, and its loop variables
    jreset,    \* local variable jreset: upper[j] has not been recalculated
    changes,   \* local variable changes
    iteration  \* local variable iteration

bounds == <<lower, upper, closest>>
around == <<between, s>>
vars == <<sample, centers, bounds, around, weight, pc, j, i, jreset, changes, iteration>>

\* palloc leaves the arrays undefined; every element is set before it is read.
Init ==
    /\ sample \in [Samples -> Points]
    /\ \E k \in Samples : centers = [c \in Centers |-> sample[k]]
    /\ lower = [k \in Samples |-> [c \in Centers |-> 0]]
    /\ upper = [k \in Samples |-> 0]
    /\ closest = [k \in Samples |-> 1]
    /\ between = [c \in Centers |-> [d \in Centers |-> 0]]
    /\ s = [c \in Centers |-> 0]
    /\ weight = [k \in Samples |-> FltMax]
    /\ pc = "seed" /\ j = 1 /\ i = 1
    /\ jreset = FALSE /\ changes = 0 /\ iteration = 0
-----------------------------------------------------------------------------
(* An operator whose name ends in _ and the name of a fault is the one     *)
(* after it with that fault seeded, to see the properties fail.            *)

ToCenter(k, c) == Distance(sample[k], centers[c])

\* u <= half_distances[c][d] and u <= s[c]; both are kept doubled
WithinHalf_NotHalved(u, d) == u <= d
WithinHalf(u, d) == 2 * u <= d

\* A center has moved by d: what is left of a lower bound, ...
Lowered(b, d) == IF b - d < 0 THEN 0 ELSE b - d

\* ... and what becomes of an upper bound.
Raised_Forgotten(b, d) == b
Raised(b, d) == b + d

\* The next seed: a sample with a positive weight, the first one when the random
\* number or all the weights are 0, or the last one when rounding leaves a choice
\* above 0 behind all the weights.
NextSeeds(w) == {k \in Samples : w[k] > 0} \cup {1, NumSamples}

\* One round of k-means++: distances to center i, then the next center.
Seed ==
    LET far(k) == ToCenter(k, i)
        w == [k \in Samples |-> IF far(k) * far(k) < weight[k] THEN far(k) * far(k)
                                                             ELSE weight[k]]
    IN  /\ pc = "seed"
        /\ lower' = [k \in Samples |-> [lower[k] EXCEPT ![i] = far(k)]]
        /\ weight' = w
        /\ IF i = NumCenters
           THEN /\ pc' = "assign" /\ i' = 1
                /\ UNCHANGED centers
           ELSE /\ \E k \in NextSeeds(w) : centers' = [centers EXCEPT ![i + 1] = sample[k]]
                /\ i' = i + 1
                /\ UNCHANGED pc
        /\ UNCHANGED <<sample, upper, closest, around, j, jreset, changes, iteration>>

\* Step 1.2: the first of the nearest centers.
AssignAll ==
    /\ pc = "assign"
    /\ closest' = [k \in Samples |->
                      Min({c \in Centers : \A d \in Centers : lower[k][c] <= lower[k][d]})]
    /\ upper' = [k \in Samples |-> lower[k][closest'[k]]]
    /\ pc' = "centers"
    /\ UNCHANGED <<sample, centers, lower, around, weight, j, i, jreset, changes, iteration>>

\* Steps 2.1 and 2.2.
MeasureCenters ==
    /\ pc = "centers"
    /\ between' = [c \in Centers |-> [d \in Centers |-> Distance(centers[c], centers[d])]]
    /\ s' = [c \in Centers |-> Min({2 * FltMax} \cup {between'[c][d] : d \in Centers \ {c}})]
    /\ changes' = 0
    /\ pc' = "sample" /\ j' = 1
    /\ UNCHANGED <<sample, centers, bounds, weight, i, jreset, iteration>>

\* The local variable reset: the centers have moved, the upper bounds are not exact.
Reset_Never(it) == FALSE
Reset(it) == it # 0

\* Step 2.3: its own center is so near to sample j that no other can be nearer, ...
SkipSample ==
    /\ pc = "sample" /\ j <= NumSamples
    /\ WithinHalf(upper[j], s[closest[j]])
    /\ j' = j + 1
    /\ UNCHANGED <<sample, centers, bounds, around, weight, pc, i, jreset, changes, iteration>>

\* ... or it has to look at the other centers.
VisitSample ==
    /\ pc = "sample" /\ j <= NumSamples
    /\ ~WithinHalf(upper[j], s[closest[j]])
    /\ jreset' = Reset(iteration)
    /\ pc' = "center" /\ i' = 1
    /\ UNCHANGED <<sample, centers, bounds, around, weight, j, changes, iteration>>

NextCenter_Stays ==
    IF i < NumCenters THEN i' = i + 1 /\ UNCHANGED <<pc, j>>
                      ELSE i' = 1 /\ UNCHANGED <<pc, j>>
NextCenter ==
    IF i < NumCenters THEN i' = i + 1 /\ UNCHANGED <<pc, j>>
                      ELSE i' = 1 /\ pc' = "sample" /\ j' = j + 1

CanSkip ==
    \/ i = closest[j]
    \/ upper[j] <= lower[j][i]
    \/ WithinHalf(upper[j], between[closest[j]][i])

SkipCenter ==
    /\ pc = "center" /\ CanSkip
    /\ NextCenter
    /\ UNCHANGED <<sample, centers, bounds, around, weight, jreset, changes, iteration>>

\* Steps 3a and 3b.
VisitCenter ==
    LET c == closest[j]
        d == IF jreset THEN ToCenter(j, c) ELSE upper[j]
        low == IF jreset THEN [lower[j] EXCEPT ![c] = d] ELSE lower[j]
        d2 == ToCenter(j, i)
        look == d > low[i] \/ ~WithinHalf(d, between[c][i])
        moves == look /\ d2 < d
    IN  /\ pc = "center" /\ ~CanSkip
        /\ jreset' = FALSE
        /\ lower' = [lower EXCEPT ![j] = IF look THEN [low EXCEPT ![i] = d2] ELSE low]
        /\ upper' = [upper EXCEPT ![j] = IF moves THEN d2 ELSE d]
        /\ closest' = [closest EXCEPT ![j] = IF moves THEN i ELSE c]
        /\ changes' = IF moves THEN changes + 1 ELSE changes
        /\ NextCenter
        /\ UNCHANGED <<sample, centers, around, weight, iteration>>

\* ivfflat_new_centers: the mean of the samples of c, rounded either way, or
\* anywhere when it has none.
Members(c) == {k \in Samples : closest[k] = c}
NewCenters_CountsOneMore(c) ==
    LET n == Cardinality(Members(c))
        sum == MapThenSumSet(LAMBDA k : sample[k], Members(c))
    IN  IF n = 0 THEN Points
        ELSE {p \in Points : Abs((n + 1) * p - sum) < n + 1}
NewCenters(c) ==
    LET n == Cardinality(Members(c))
        sum == MapThenSumSet(LAMBDA k : sample[k], Members(c))
    IN  IF n = 0 THEN Points
        ELSE {p \in Points : Abs(n * p - sum) < n}

\* Steps 4 to 7: the centers move, and the bounds with them.
MoveCenters ==
    /\ pc = "sample" /\ j > NumSamples
    /\ centers' \in {f \in [Centers -> Points] : \A c \in Centers : f[c] \in NewCenters(c)}
    /\ LET new_d == [c \in Centers |-> Distance(centers[c], centers'[c])]
       IN  /\ lower' = [k \in Samples |-> [c \in Centers |-> Lowered(lower[k][c], new_d[c])]]
           /\ upper' = [k \in Samples |-> Raised(upper[k], new_d[closest[k]])]
    /\ IF changes = 0 /\ iteration # 0
       THEN pc' = "done" /\ UNCHANGED iteration
       ELSE /\ iteration' = iteration + 1
            /\ pc' = IF iteration' < MaxIterations THEN "centers" ELSE "done"
    /\ UNCHANGED <<sample, closest, around, weight, j, i, jreset, changes>>

Done == pc = "done" /\ UNCHANGED vars

Next ==
    \/ Seed \/ AssignAll \/ MeasureCenters
    \/ SkipSample \/ VisitSample \/ SkipCenter \/ VisitCenter
    \/ MoveCenters \/ Done

Spec == Init /\ [][Next]_vars
-----------------------------------------------------------------------------
\* Every variable has the type the code gives it; no bound is ever negative.
TypeOK ==
    /\ sample \in [Samples -> Points] /\ centers \in [Centers -> Points]
    /\ lower \in [Samples -> [Centers -> Nat]] /\ upper \in [Samples -> Nat]
    /\ closest \in [Samples -> Centers]
    /\ between \in [Centers -> [Centers -> Nat]] /\ s \in [Centers -> Nat]
    /\ weight \in [Samples -> 0 .. FltMax]
    /\ pc \in {"seed", "assign", "centers", "sample", "center", "done"}
    /\ j \in 1 .. NumSamples + 1 /\ i \in Centers /\ (pc = "center" => j \in Samples)
    /\ jreset \in BOOLEAN /\ changes \in Nat /\ iteration \in 0 .. MaxIterations

\* The bounds stay bounds, however often and far the centers move: the code
\* never recalculates most of them.
BoundsSound ==
    pc \notin {"seed", "assign"} =>
        \A k \in Samples :
            /\ ToCenter(k, closest[k]) <= upper[k]
            /\ \A c \in Centers : lower[k][c] <= ToCenter(k, c)

NoneNearer(k, C) == \A c \in C : ToCenter(k, closest[k]) <= ToCenter(k, c)

\* For all the distances it leaves out, a pass over the samples ends with every
\* sample at a center none is nearer than: the iteration is Lloyd's.
AssignedToNearest ==
    pc = "sample" =>
        \A k \in 1 .. j - 1 : NoneNearer(k, Centers)
-----------------------------------------------------------------------------
(* The inductive invariant from which the invariants above follow.         *)

\* k-means++ leaves the exact distances in the lower bounds.
SeedInv ==
    pc \in {"seed", "assign"} =>
        \A k \in Samples, c \in Centers :
            (pc = "seed" => c < i) => lower[k][c] = ToCenter(k, c)

\* Distances between centers are up to date while samples are visited.
AroundInv ==
    pc \in {"sample", "center"} =>
        \A c, d \in Centers :
            /\ between[c][d] = Distance(centers[c], centers[d])
            /\ (c # d) => s[c] <= between[c][d]

\* An upper bound is the exact distance before the centers have moved, and once
\* it has been recalculated.
ExactInv ==
    /\ (pc \in {"centers", "sample", "center"} /\ iteration = 0) =>
          \A k \in Samples : upper[k] = ToCenter(k, closest[k])
    /\ (pc = "center" /\ ~jreset) => upper[j] = ToCenter(j, closest[j])

\* Samples before j have been visited, and centers before i for sample j.
VisitedInv ==
    pc = "center" => /\ \A k \in 1 .. j - 1 : NoneNearer(k, Centers)
                     /\ NoneNearer(j, 1 .. i - 1)

KmeansInv ==
    /\ TypeOK /\ BoundsSound /\ AssignedToNearest
    /\ SeedInv /\ AroundInv /\ ExactInv /\ VisitedInv
    /\ (pc # "done" => iteration < MaxIterations)
=============================================================================
