--------------------------- MODULE IvfflatSettings ---------------------------
(***************************************************************************)
(* The settings of the access method in a session, before and after the    *)
(* library has been loaded, and the estimate of the planner that uses      *)
(* them.  The server takes SET of a name with a dot that no library has    *)
(* registered as a placeholder; registration takes its value over.         *)
(***************************************************************************)
EXTENDS Integers, NearestLists

CONSTANTS
    MaxListCount,    \* IVFFLAT_MAX_LIST_COUNT
    Values,          \* values that users SET
    Unset,           \* no placeholder
    PageCounts, PageCosts, CpuCosts, LoopCounts     \* inputs of the planner

MinListCount == 1
DefaultProbes == 1

VARIABLES
    loaded,       \* _PG_init has run in this session
    setting,      \* the settings by name, placeholders included
    list_count,   \* of the index
    costs         \* the last estimate, and what it was made of

vars == <<loaded, setting, list_count, costs>>

Probes == "pg_hybrid_ivfflat.probes"
Reserved == {Probes, "pg_hybrid_ivfflat.other"}    \* the second is not registered
Documented == "ivfflat.probes"                     \* the name README.md has
Names == Reserved \cup {Documented}
NotEstimated == [startup |-> 0, total |-> 0, saved |-> 0, cpu |-> 0]

Valid_FromZero(value) == value \in 0 .. MaxListCount
Valid(value) == value \in MinListCount .. MaxListCount

Init ==
    /\ loaded = FALSE /\ setting = [n \in Names |-> Unset]
    /\ list_count \in MinListCount .. MaxListCount /\ costs = NotEstimated

\* SET name = value; an error changes nothing.
SetPlaceholder(name, value) ==
    /\ ~loaded \/ name \notin Reserved
    /\ setting' = [setting EXCEPT ![name] = value]
    /\ UNCHANGED <<loaded, list_count, costs>>

SetProbes(value) ==
    /\ loaded /\ Valid(value)
    /\ setting' = [setting EXCEPT ![Probes] = value]
    /\ UNCHANGED <<loaded, list_count, costs>>

\* ivfflat_init_options: a placeholder that is not valid gives way to the default;
\* other placeholders with the reserved prefix are removed.
Load ==
    /\ ~loaded /\ loaded' = TRUE
    /\ setting' = [n \in Names |->
            IF n = Probes
            THEN IF setting[n] # Unset /\ Valid(setting[n]) THEN setting[n] ELSE DefaultProbes
            ELSE IF n \in Reserved THEN Unset ELSE setting[n]]
    /\ UNCHANGED <<list_count, costs>>

ivfflat_probes == setting[Probes]

\* The share of the lists that a scan reads, times list_count.
Ratio_NotCapped == ivfflat_probes
Ratio == IF ivfflat_probes > list_count THEN list_count ELSE ivfflat_probes

\* genericcostestimate lets a scan that runs in loops pay a loop's share of the
\* pages fetched in all of them; the reductions are made for the pages of one scan.
\* Costs are multiplied by 2 * list_count * loops to stay whole.
EstimateOf(pages, rel_pages, random_cost, seq_cost, cpu, loops, fetched) ==
    LET generic == fetched * random_cost + loops * cpu
        total == 2 * generic - loops * pages * (random_cost - seq_cost)
        startup_pages == pages * Ratio
        cheap == startup_pages > rel_pages * list_count /\ 2 * Ratio < list_count
    IN  [total |-> list_count * total,
         startup |->
            Ratio * total
                - (IF cheap THEN loops * (startup_pages * (random_cost - seq_cost)
                                    + 2 * (startup_pages - rel_pages * list_count) * seq_cost)
                   ELSE 0),
         saved |-> (loops * pages - fetched) * random_cost,
         cpu |-> loops * cpu]

\* ivfflat_costestimate, for a query with an ORDER BY the index supports.  Pages
\* that stay cached between the loops are fetched once.
CostEstimate ==
    /\ loaded
    /\ \E pages, rel_pages \in PageCounts, random_cost, seq_cost \in PageCosts,
          cpu \in CpuCosts, loops \in LoopCounts :
        \E fetched \in pages .. loops * pages :
            costs' = EstimateOf(pages, rel_pages, random_cost, seq_cost, cpu, loops, fetched)
    /\ UNCHANGED <<loaded, setting, list_count>>

Next ==
    \/ \E name \in Names, value \in Values : SetPlaceholder(name, value)
    \/ \E value \in Values : SetProbes(value)
    \/ Load
    \/ CostEstimate

Spec == Init /\ [][Next]_vars
-----------------------------------------------------------------------------
\* In whatever order SET and loading the library happen, a scan has at least one
\* list to probe and no more than the index has: ivfflat_beginscan sizes its arrays
\* by this number and reads the first of them without a test.
ScanHasLists == loaded => MaxProbes(ivfflat_probes, list_count) \in 1 .. list_count

\* The planner's costs are in order, 0 <= startup <= total, as long as the loops of a
\* scan save no more by sharing pages than the CPU costs (one loop saves nothing):
\* then the reductions for sequential reads never take more than there is.
CostsInOrder ==
    costs.saved <= costs.cpu => 0 <= costs.startup /\ costs.startup <= costs.total

\* README.md: "ivfflat.probes" sets the number of lists that a query probes.
DocumentedProbes ==
    loaded /\ setting[Documented] # Unset /\ Valid(setting[Documented])
        => ivfflat_probes = setting[Documented]
=============================================================================
