----------------------------- MODULE CenterSearch -----------------------------
(***************************************************************************)
(* The two loops that choose the list of a row: ivfflat_find_insert_page   *)
(* for an insert, ivfflat_sort_tuples for the build.  Both see the same    *)
(* distances, one center after the other.  A distance may be infinite, and *)
(* not a number (an infinite sum minus an infinite sum).  Comparisons with *)
(* NaN are false.                                                          *)
(***************************************************************************)
EXTENDS Integers, Sequences

CONSTANTS
    MaxCenters,     \* at least 1
    MaxDistance     \* DBL_MAX

Infinity == MaxDistance + 1
NaN == MaxDistance + 2
\* Distances are calculated from floats, so that finite ones stay below DBL_MAX.
Distances == {-Infinity} \cup (1 - MaxDistance .. MaxDistance - 1) \cup {Infinity, NaN}
None == 0          \* no list: InvalidBlockNumber

Less(x, y) == x # NaN /\ y # NaN /\ x < y

VARIABLES
    distance,      \* from the row to each center
    i,             \* the center the loops look at
    insertList, insertMin,     \* list_info and min_distance of the insert
    buildList, buildMin        \* closest_center and min_distance of the build

vars == <<distance, i, insertList, insertMin, buildList, buildMin>>

Init ==
    /\ distance \in UNION {[1 .. n -> Distances] : n \in 1 .. MaxCenters}
    /\ i = 1
    /\ insertList = None /\ insertMin = MaxDistance
    /\ buildList = 1 /\ buildMin = MaxDistance

BetterForInsert_OrEqual(d) == insertList = None \/ ~Less(insertMin, d)
BetterForInsert(d) == insertList = None \/ Less(d, insertMin)

\* One round of both loops
Center ==
    /\ i <= Len(distance) /\ i' = i + 1 /\ UNCHANGED distance
    /\ IF BetterForInsert(distance[i])
       THEN insertList' = i /\ insertMin' = distance[i]
       ELSE UNCHANGED <<insertList, insertMin>>
    /\ IF Less(distance[i], buildMin)
       THEN buildList' = i /\ buildMin' = distance[i]
       ELSE UNCHANGED <<buildList, buildMin>>

Next == Center

Spec == Init /\ [][Next]_vars
-----------------------------------------------------------------------------
Found == i > Len(distance)
Nearest(k) == ~\E j \in DOMAIN distance : Less(distance[j], distance[k])
FirstNearest(k) ==
    /\ distance[k] < Infinity /\ Nearest(k)
    /\ \A j \in 1 .. k - 1 : distance[j] # distance[k]

\* A row inserted later goes to the same list as if it had been there when the
\* index was built: the first of the nearest centers, or the first list if no
\* distance is below infinity.  The distance of the first center must be a number.
SameListAsBuild ==
    Found /\ distance[1] # NaN =>
        /\ insertList = buildList
        /\ \/ FirstNearest(insertList)
           \/ insertList = 1 /\ ~\E k \in DOMAIN distance : FirstNearest(k)
===============================================================================
