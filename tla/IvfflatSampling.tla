--------------------------- MODULE IvfflatSampling ---------------------------
(***************************************************************************)
(* ivfflat_sample_tuples: the rows CREATE INDEX gives to the k-means.      *)
(* Blocks of the heap are chosen first, then rows of these blocks in a     *)
(* reservoir of fixed size.  The random choices of the server's samplers   *)
(* are nondeterministic.  A row is known by its block and its place there. *)
(***************************************************************************)
EXTENDS Integers, SequencesExt

CONSTANTS
    Heaps,       \* contents of the heap: a sequence of blocks, sequences of rows
    MaxSamples,  \* samples->max_length
    MaxSkip      \* bound of what reservoir_get_next_S returns here

Kinds == {"null", "zero", "vector"}

VARIABLES
    heap,
    normalize,     \* vector_kmeans_normalize_proc # NULL
    chosen,        \* the blocks the block sampler returns
    block, offset, \* the next row of the scan
    samples, skip_count,
    draws          \* what reservoir_get_next_S has returned so far

vars == <<heap, normalize, chosen, block, offset, samples, skip_count, draws>>

\* BlockSampler_Init: all blocks if they are few, else as many as samples are wanted
BlockChoices(n) == kSubset(Min({n, MaxSamples}), 1 .. n)

Init ==
    /\ heap \in Heaps /\ normalize \in BOOLEAN
    /\ chosen \in BlockChoices(Len(heap))
    /\ block = 0 /\ offset = 1
    /\ samples = <<>> /\ skip_count = -1 /\ draws = <<>>

\* BlockSampler_Next returns the blocks in the order of the heap.
BlockRead == block = 0 \/ (block > 0 /\ offset > Len(heap[block]))
Finished == BlockRead /\ \A b \in chosen : b <= block

NextBlock ==
    /\ BlockRead /\ ~Finished
    /\ block' = Min({b \in chosen : b > block}) /\ offset' = 1
    /\ UNCHANGED <<heap, normalize, chosen, samples, skip_count, draws>>

Eligible(r) ==
    heap[r[1]][r[2]] = "vector" \/ (heap[r[1]][r[2]] = "zero" /\ ~normalize)

ScanRow ==
    /\ block > 0 /\ offset <= Len(heap[block])
    /\ offset' = offset + 1
    /\ UNCHANGED <<heap, normalize, chosen, block>>

\* Rows that do not take part: NULL, and the zero vector if samples are normalized
SkipIneligible ==
    /\ ScanRow /\ ~Eligible(<<block, offset>>)
    /\ UNCHANGED <<samples, skip_count, draws>>

Fill ==
    /\ ScanRow /\ Eligible(<<block, offset>>)
    /\ Len(samples) < MaxSamples
    /\ samples' = Append(samples, <<block, offset>>)
    /\ UNCHANGED <<skip_count, draws>>

Countdown_NotWhenKept(skip) == IF skip <= 0 THEN skip ELSE skip - 1
Countdown(skip) == skip - 1

\* A number of rows to pass over is drawn when the one before has been counted
\* down; the row after them replaces a random sample.
Replace ==
    /\ ScanRow /\ Eligible(<<block, offset>>)
    /\ Len(samples) = MaxSamples
    /\ \E skip \in IF skip_count < 0 THEN 0 .. MaxSkip ELSE {skip_count} :
        /\ draws' = IF skip_count < 0 THEN Append(draws, skip) ELSE draws
        /\ skip_count' = Countdown(skip)
        /\ IF skip <= 0
           THEN \E k \in 1 .. MaxSamples : samples' = [samples EXCEPT ![k] = <<block, offset>>]
           ELSE UNCHANGED samples

Next == NextBlock \/ SkipIneligible \/ Fill \/ Replace

Spec == Init /\ [][Next]_vars
-----------------------------------------------------------------------------
Scanned ==
    {r \in chosen \X (1 .. Max({Len(heap[b]) : b \in DOMAIN heap})) :
        r[2] <= Len(heap[r[1]]) /\ (r[1] < block \/ (r[1] = block /\ r[2] < offset))}
Candidates ==
    {r \in Scanned : heap[r[1]][r[2]] = "vector" \/ (heap[r[1]][r[2]] = "zero" /\ ~normalize)}
Position(r) == Cardinality({s \in Candidates : s[1] < r[1] \/ (s[1] = r[1] /\ s[2] <= r[2])})

\* The sample has as many rows as wanted, or all there are; they are different
\* rows, none of them NULL or a vector that has no direction to normalize.
SampleIsOfRows ==
    /\ Len(samples) = Min({MaxSamples, Cardinality(Candidates)})
    /\ IsInjective(samples)
    /\ \A k \in DOMAIN samples : samples[k] \in Candidates

\* The places in the scan of the rows that the reservoir takes: the first ones,
\* then one after each number of rows drawn, rows that do not take part not counted.
Taken == {MaxSamples + MapThenSumSet(LAMBDA i : draws[i] + 1, 1 .. n) : n \in DOMAIN draws}

\* The reservoir takes exactly these rows: no sample is at another place, and the
\* last of them is in the sample.
SkipsAsDrawn ==
    /\ \A k \in DOMAIN samples : Position(samples[k]) \in (1 .. MaxSamples) \cup Taken
    /\ \A r \in Candidates :
        /\ Position(r) \in Taken
        /\ \A n \in Taken : n <= Position(r) \/ n > Cardinality(Candidates)
        => \E k \in DOMAIN samples : samples[k] = r
=============================================================================
