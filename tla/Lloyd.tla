-------------------------------- MODULE Lloyd --------------------------------
(***************************************************************************)
(* The k-means that ivfflat_elkan_kmeans promises to calculate (Lloyd's     *)
(* iteration): every sample goes to a nearest center, and every center to  *)
(* the mean of the samples that went to it.  There are no bounds here, and *)
(* one step is one iteration.                                              *)
(***************************************************************************)
EXTENDS Integers, FiniteSets, FiniteSetsExt

CONSTANTS NumSamples, NumCenters, Points

Samples == 1 .. NumSamples
Centers == 1 .. NumCenters
Abs(d) == IF d < 0 THEN -d ELSE d

VARIABLES
    sample, centers,
    seeding     \* the first centers are being chosen

vars == <<sample, centers, seeding>>

Init ==
    /\ sample \in [Samples -> Points]
    /\ \E k \in Samples : centers = [c \in Centers |-> sample[k]]
    /\ seeding = TRUE

\* A sample becomes one of the first centers.
Seed ==
    /\ seeding /\ UNCHANGED <<sample, seeding>>
    /\ \E c \in Centers, k \in Samples : centers' = [centers EXCEPT ![c] = sample[k]]

EndSeeding == seeding /\ seeding' = FALSE /\ UNCHANGED <<sample, centers>>

Assignments ==
    {a \in [Samples -> Centers] : \A k \in Samples, c \in Centers :
        Abs(sample[k] - centers[a[k]]) <= Abs(sample[k] - centers[c])}

\* The mean of the samples of center c, rounded either way; anywhere if it has none.
Means(a, c) ==
    LET members == {k \in Samples : a[k] = c}
        sum == MapThenSumSet(LAMBDA k : sample[k], members)
    IN  {p \in Points : members = {} \/ Abs(Cardinality(members) * p - sum) < Cardinality(members)}

Iterate ==
    /\ ~seeding /\ UNCHANGED <<sample, seeding>>
    /\ \E a \in Assignments :
        centers' \in {f \in [Centers -> Points] : \A c \in Centers : f[c] \in Means(a, c)}

Next == Seed \/ EndSeeding \/ Iterate

Spec == Init /\ [][Next]_vars
=============================================================================
