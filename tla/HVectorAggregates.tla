-------------------------- MODULE HVectorAggregates --------------------------
(***************************************************************************)
(* The aggregates avg(hvector) and sum(hvector) in a parallel plan.        *)
(* Workers share out the rows of the table, each with a partial state; a   *)
(* leader combines the partial states in any order and computes the        *)
(* result.  Both aggregates follow one schedule here but fail separately.  *)
(* A state of avg is the sequence of the number of rows and the sums of    *)
(* the elements.  Doubles are exact here, floats are not.                  *)
(***************************************************************************)
EXTENDS HVector, SequencesExt

CONSTANTS
    Workers,
    Tables,     \* contents of the table: sequences of vectors and NULLs
    NULL

VARIABLES
    rows,       \* the table
    next,       \* the first row that no worker has taken
    avg, sum,   \* the partial states of the workers
    left,       \* the workers whose states the leader has not combined yet
    avgState, sumState    \* the states of the leader

vars == <<rows, next, avg, sum, left, avgState, sumState>>

InitCond == <<0>>

hvector_accum(states, vec) ==
    IF Len(states) = 1 THEN <<states[1] + 1>> \o vec
    ELSE IF Len(states) - 1 # Len(vec) THEN Error
    ELSE <<states[1] + 1>> \o [i \in DOMAIN vec |-> states[i + 1] + vec[i]]

hvector_combine_NoEmptyFirst(states1, states2) ==
    IF states2[1] = 0 THEN states1
    ELSE IF Len(states1) # Len(states2) THEN Error
    ELSE [i \in DOMAIN states1 |-> states1[i] + states2[i]]
hvector_combine(states1, states2) ==
    IF states1[1] = 0 THEN states2
    ELSE IF states2[1] = 0 THEN states1
    ELSE IF Len(states1) # Len(states2) THEN Error
    ELSE [i \in DOMAIN states1 |-> states1[i] + states2[i]]

hvector_avg(states) ==
    IF states[1] = 0 THEN NULL
    ELSE LET mean == [i \in 1 .. Len(states) - 1 |-> ToFloat(states[i + 1], states[1])]
         IN  IF CheckDim(Len(mean)) /\ \A i \in DOMAIN mean : is_valid_float(mean[i])
             THEN mean ELSE Error

\* How the executor calls a strict transition or combine function, which returns
\* result for state and value: it skips NULL, and takes the first value as the
\* state if there is no initial state.
Advance(state, value, result) ==
    IF Error \in {state, value} THEN Error
    ELSE IF value = NULL THEN state
    ELSE IF state = NULL THEN value
    ELSE result
-----------------------------------------------------------------------------
Init ==
    /\ rows \in Tables /\ next = 1 /\ left = Workers
    /\ avg = [w \in Workers |-> InitCond] /\ avgState = InitCond
    /\ sum = [w \in Workers |-> NULL] /\ sumState = NULL

Accumulate(w) ==
    /\ next <= Len(rows) /\ next' = next + 1
    /\ avg' = [avg EXCEPT ![w] = Advance(@, rows[next], hvector_accum(@, rows[next]))]
    /\ sum' = [sum EXCEPT ![w] = Advance(@, rows[next], hvector_add(@, rows[next]))]
    /\ UNCHANGED <<rows, left, avgState, sumState>>

\* A worker hands its states over when the table has been read.
Combine(w) ==
    /\ next > Len(rows) /\ w \in left /\ left' = left \ {w}
    /\ avgState' = Advance(avgState, avg[w], hvector_combine(avgState, avg[w]))
    /\ sumState' = Advance(sumState, sum[w], hvector_add(sumState, sum[w]))
    /\ UNCHANGED <<rows, next, avg, sum>>

Next == \E w \in Workers : Accumulate(w) \/ Combine(w)

Spec == Init /\ [][Next]_vars
-----------------------------------------------------------------------------
Finished == next > Len(rows) /\ left = {}
Vecs == {i \in DOMAIN rows : rows[i] # NULL}
SameDim == \A i, j \in Vecs : Len(rows[i]) = Len(rows[j])
Total(S, k) == SumOver(LAMBDA i : rows[i][k], S)

\* However the rows are shared out and the states combined, and with workers that
\* saw no row, avg is the mean of the vectors, NULL without any, and an error
\* exactly if two of them have different dimensions.
AvgIsMean ==
    Finished =>
        LET res == IF avgState = Error THEN Error ELSE hvector_avg(avgState)
        IN  IF Vecs = {} THEN res = NULL
            ELSE IF ~SameDim THEN res = Error
            ELSE res = [k \in DOMAIN rows[Min(Vecs)] |-> ToFloat(Total(Vecs, k), Cardinality(Vecs))]

\* Twice the error of the additions of the rows S, each of which rounds once
Slack(S) == (Cardinality(S) - 1) * Ulp
Exact(k) == \A S \in SUBSET {i \in Vecs : k <= Len(rows[i])} : Total(S, k) \in Finite

\* sum is the sum of the vectors, NULL without any.  hvector_add rounds to float4,
\* so the plan matters: 1e8, 1 and -1e8 add up to 0 or to 1.  It does not matter
\* in an element of which the sums of any rows are floats; elsewhere the result is
\* off by no more than half the last place of FLT_MAX for each addition, and sum
\* fails only if dimensions differ or some rows have a sum that is out of range,
\* give or take the rounding.
SumIsRounded ==
    Finished =>
        /\ sumState = NULL <=> Vecs = {}
        /\ sumState = Error =>
            \/ ~SameDim
            \/ \E S \in SUBSET Vecs : \E k \in Dims :
                /\ \A i \in S : k <= Len(rows[i])
                /\ ~Exact(k) /\ 2 * Abs(Total(S, k)) + Slack(S) > 2 * MaxFloat
        /\ sumState \notin {NULL, Error} =>
            /\ SameDim /\ DOMAIN sumState = DOMAIN rows[Min(Vecs)]
            /\ \A k \in DOMAIN sumState :
                /\ sumState[k] \in Finite
                /\ 2 * Abs(sumState[k] - Total(Vecs, k)) <= Slack(Vecs)
                /\ Exact(k) => sumState[k] = Total(Vecs, k)
=============================================================================
