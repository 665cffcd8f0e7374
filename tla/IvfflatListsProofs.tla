------------------------- MODULE IvfflatListsProofs -------------------------
(***************************************************************************)
(* Proofs about IvfflatLists: an insert and the build choose the same list *)
(* for any number of centers and any distances; a scan finds the nearest   *)
(* lists for any number of lists and probes; the setting and the cost      *)
(* estimate are sound for all statistics; rows are in their clusters; and  *)
(* samples are reservoirs of what the build has read.                      *)
(***************************************************************************)
EXTENDS IvfflatLists, SumProofs, SequenceTheorems

-----------------------------------------------------------------------------
(* The list of a row: CenterSearch.                                        *)

SearchType ==
    /\ Len(distance) \in Nat \ {0}
    /\ distance \in [1 .. Len(distance) -> Search!Distances]
    /\ i \in 1 .. Len(distance) + 1

\* insertList is the first of the nearest of the centers looked at.
InsertFirst ==
    /\ insertList \in 1 .. i - 1
    /\ insertMin = distance[insertList] /\ insertMin # Search!NaN
    /\ \A j \in 1 .. i - 1 : ~Search!Less(distance[j], insertMin)
    /\ \A j \in 1 .. insertList - 1 : distance[j] # insertMin

\* The build has the same list, or has seen nothing below infinity.
BuildAgrees ==
    \/ insertMin < MaxDistance /\ buildList = insertList /\ buildMin = insertMin
    \/ /\ insertMin = Search!Infinity /\ insertList = 1
       /\ buildList = 1 /\ buildMin = MaxDistance

SearchStarts ==
    /\ insertList = Search!None /\ insertMin = MaxDistance
    /\ buildList = 1 /\ buildMin = MaxDistance

SearchInv ==
    /\ SearchType
    /\ distance[1] # Search!NaN =>
        \/ i = 1 /\ SearchStarts
        \/ i > 1 /\ InsertFirst /\ BuildAgrees

LEMMA SearchInitInv == ASSUME Search!Init PROVE SearchInv
<1>1. PICK n \in 1 .. MaxCenters : distance \in [1 .. n -> Search!Distances]
  BY DEF Search!Init
<1>2. n \in Nat \ {0} /\ Len(distance) = n
  BY <1>1
<1> QED BY <1>1, <1>2 DEF Search!Init, SearchInv, SearchType, SearchStarts

\* Distances are numbers.
LEMMA DistancesAreNumbers == Search!Distances \subseteq Int /\ MaxDistance \in Nat \ {0}
BY ListsAssumption DEF Search!Distances, Search!Infinity, Search!NaN

LEMMA SearchStepInv == ASSUME SearchInv, Search!Next PROVE SearchInv'
<1> USE DistancesAreNumbers
<1> DEFINE d == distance[i]
<1>1. /\ i \in 1 .. Len(distance) /\ i' = i + 1 /\ distance' = distance
      /\ d \in Search!Distances /\ d \in Int
  <2>1. i <= Len(distance) /\ i' = i + 1 /\ distance' = distance
    BY DEF Search!Next, Search!Center
  <2>2. i \in 1 .. Len(distance) /\ d \in Search!Distances
    BY <2>1 DEF SearchInv, SearchType
  <2>3. d \in Int
    BY <2>2
  <2> QED BY <2>1, <2>2, <2>3
<1>2. SearchType'
  BY <1>1 DEF SearchInv, SearchType
<1> SUFFICES ASSUME distance[1] # Search!NaN PROVE InsertFirst' /\ BuildAgrees'
  BY <1>1, <1>2 DEF SearchInv, SearchType
<1>3. CASE i = 1
  <2>1. SearchStarts
    BY <1>3 DEF SearchInv
  <2>2. insertList' = 1 /\ insertMin' = d /\ d # Search!NaN
    <3>1. Search!BetterForInsert(distance[i])
      BY <2>1 DEF SearchStarts, Search!BetterForInsert
    <3> QED BY <1>3, <3>1 DEF Search!Next, Search!Center
  <2>6. /\ Search!Less(d, buildMin) => buildList' = i /\ buildMin' = d
        /\ ~Search!Less(d, buildMin) => buildList' = buildList /\ buildMin' = buildMin
    BY DEF Search!Next, Search!Center
  <2>3. InsertFirst'
    BY <1>1, <1>3, <2>2 DEF InsertFirst, Search!Less
  <2>4. CASE d = Search!Infinity
    BY <1>1, <2>1, <2>2, <2>3, <2>4, <2>6
    DEF BuildAgrees, SearchStarts, Search!Less, Search!Infinity
  <2>5. CASE d < MaxDistance
    BY <1>1, <1>3, <2>1, <2>2, <2>3, <2>5, <2>6
    DEF BuildAgrees, SearchStarts, Search!Less, Search!NaN
  <2> QED
    BY <1>1, <2>2, <2>3, <2>4, <2>5 DEF Search!Distances, Search!Infinity, Search!NaN
<1>4. CASE i > 1
  <2>1. InsertFirst /\ BuildAgrees
    BY <1>4 DEF SearchInv
  <2>2. insertMin \in Search!Distances /\ insertMin \in Int /\ insertList \in Nat \ {0}
    <3>1. insertMin \in Search!Distances /\ insertList \in Nat \ {0}
      BY <2>1 DEF InsertFirst, SearchInv, SearchType
    <3> QED BY <3>1
  <2>3. CASE Search!Less(d, insertMin)
    <3>1. insertList' = i /\ insertMin' = d /\ d # Search!NaN /\ d < insertMin
      BY <2>3 DEF Search!Next, Search!Center, Search!BetterForInsert, Search!Less
    <3>2. \A j \in 1 .. i - 1 :
            distance[j] \in Int /\ (distance[j] = Search!NaN \/ insertMin <= distance[j])
      <4> SUFFICES ASSUME NEW j \in 1 .. i - 1
                   PROVE  /\ distance[j] \in Int
                          /\ distance[j] = Search!NaN \/ insertMin <= distance[j]
        OBVIOUS
      <4>1. distance[j] \in Search!Distances
        BY <1>1 DEF SearchInv, SearchType
      <4>2. distance[j] \in Int
        BY <4>1
      <4> QED BY <2>1, <2>2, <4>2 DEF InsertFirst, Search!Less
    <3>3. InsertFirst'
      BY <1>1, <1>4, <2>2, <3>1, <3>2 DEF InsertFirst, Search!Less
    <3>4. d < MaxDistance /\ Search!Less(d, buildMin)
      BY <1>1, <2>1, <2>2, <3>1
      DEF BuildAgrees, Search!Less, Search!Distances, Search!Infinity, Search!NaN
    <3>5. buildList' = i /\ buildMin' = d
      BY <3>4 DEF Search!Next, Search!Center
    <3> QED BY <3>1, <3>3, <3>4, <3>5 DEF BuildAgrees
  <2>4. CASE ~Search!Less(d, insertMin)
    <3>1. insertList' = insertList /\ insertMin' = insertMin
      BY <2>2, <2>4 DEF Search!Next, Search!Center, Search!BetterForInsert, Search!None
    <3>2. InsertFirst'
      BY <1>1, <1>4, <2>1, <2>2, <2>4, <3>1 DEF InsertFirst
    <3>3. ~Search!Less(d, buildMin)
      BY <1>1, <2>1, <2>2, <2>4
      DEF BuildAgrees, InsertFirst, Search!Less, Search!Distances, Search!Infinity, Search!NaN
    <3>4. buildList' = buildList /\ buildMin' = buildMin
      BY <3>3 DEF Search!Next, Search!Center
    <3> QED BY <2>1, <3>1, <3>2, <3>4 DEF BuildAgrees
  <2> QED BY <2>3, <2>4
<1> QED BY <1>1, <1>3, <1>4

LEMMA SearchAgrees == ASSUME SearchInv PROVE Search!SameListAsBuild
<1> USE DistancesAreNumbers
<1> SUFFICES ASSUME Search!Found, distance[1] # Search!NaN
             PROVE  /\ insertList = buildList
                    /\ \/ Search!FirstNearest(insertList)
                       \/ insertList = 1 /\ ~\E k \in DOMAIN distance : Search!FirstNearest(k)
  BY DEF Search!SameListAsBuild
<1>1. i = Len(distance) + 1 /\ i > 1 /\ DOMAIN distance = 1 .. i - 1
  BY DEF SearchInv, SearchType, Search!Found
<1>2. InsertFirst /\ BuildAgrees
  BY <1>1 DEF SearchInv
<1>3. \A j \in DOMAIN distance : distance[j] \in Int
  BY <1>1 DEF SearchInv, SearchType
<1>4. CASE insertMin < MaxDistance
  BY <1>1, <1>2, <1>3, <1>4
  DEF InsertFirst, BuildAgrees, Search!FirstNearest, Search!Nearest, Search!Infinity
<1>5. CASE insertMin = Search!Infinity
  <2>1. \A k \in DOMAIN distance : ~(distance[k] < Search!Infinity)
    BY <1>1, <1>2, <1>3, <1>5
    DEF InsertFirst, Search!Less, Search!Infinity, Search!NaN
  <2> QED BY <1>2, <1>5, <2>1 DEF BuildAgrees, Search!FirstNearest, Search!Infinity
<1> QED BY <1>2, <1>4, <1>5 DEF BuildAgrees

\* A step of the machines is a step of the search or leaves it alone.
LEMMA SearchMoves ==
    ASSUME [Next]_vars, machine' = "search"
    PROVE  machine = "search" /\ (Search!Next \/ UNCHANGED searchVars)
BY DEF Next, vars, Finished

\* An insert chooses the list the build would have chosen: ivfflat_find_insert_page
\* and ivfflat_sort_tuples agree for every number of centers and all distances,
\* infinite ones and those that are not a number included.
THEOREM InsertsLikeBuild == Spec => []SameListAsBuild
<1>1. Init => (machine = "search" => SearchInv)
  BY SearchInitInv DEF Init
<1>2. (machine = "search" => SearchInv) /\ [Next]_vars => (machine = "search" => SearchInv)'
  <2> SUFFICES ASSUME machine = "search" => SearchInv, [Next]_vars, machine' = "search"
               PROVE  SearchInv'
    OBVIOUS
  <2>1. CASE Search!Next
    BY <2>1, SearchMoves, SearchStepInv
  <2>2. CASE UNCHANGED searchVars
    BY <2>2, SearchMoves
    DEF searchVars, SearchInv, SearchType, SearchStarts, InsertFirst, BuildAgrees
  <2> QED BY <2>1, <2>2, SearchMoves
<1>3. (machine = "search" => SearchInv) => SameListAsBuild
  BY SearchAgrees DEF SameListAsBuild
<1> QED BY <1>1, <1>2, <1>3, PTL DEF Spec

-----------------------------------------------------------------------------
(* The setting and the cost estimate: IvfflatSettings.                     *)

SettingsInv ==
    /\ list_count \in Nat \ {0} /\ loaded \in BOOLEAN
    /\ DOMAIN setting = Settings!Names
    /\ loaded => Settings!ivfflat_probes \in Nat \ {0}
    /\ Settings!CostsInOrder

\* The names are different strings.
LEMMA NamesDiffer ==
    /\ Settings!Probes \in Settings!Reserved /\ Settings!Probes \in Settings!Names
BY DEF Settings!Probes, Settings!Reserved, Settings!Names

LEMMA ValidIsPositive == ASSUME NEW value, Settings!Valid(value) PROVE value \in Nat \ {0}
BY DEF Settings!Valid, Settings!MinListCount

LEMMA SettingsInitInv == ASSUME Settings!Init PROVE SettingsInv
<1>1. costs.startup = 0 /\ costs.total = 0
  BY DEF Settings!Init, Settings!NotEstimated
<1>2. list_count \in Nat \ {0} /\ loaded = FALSE
  BY DEF Settings!Init, Settings!MinListCount
<1>3. DOMAIN setting = Settings!Names
  BY DEF Settings!Init
<1>4. Settings!CostsInOrder
  BY <1>1 DEF Settings!CostsInOrder
<1> QED BY <1>2, <1>3, <1>4 DEF SettingsInv

\* The order of two products
LEMMA Products ==
    ASSUME NEW a \in Nat, NEW b \in Nat, NEW c \in Nat, a <= b
    PROVE  a * c \in Nat /\ a * c <= b * c
OBVIOUS

\* The startup cost is a part of the total cost, if the loops save no more than the
\* CPU costs.  Where the reductions apply, the scan reads less than half of the
\* lists but more pages than the table has.
LEMMA EstimateInOrder ==
    ASSUME NEW pages \in Nat, NEW rel_pages \in Nat, NEW random_cost \in Nat,
           NEW seq_cost \in Nat, NEW cpu \in Nat, NEW loops \in Nat, NEW fetched \in Nat,
           list_count \in Nat \ {0}, Settings!ivfflat_probes \in Nat \ {0},
           NEW e, e = Settings!EstimateOf(pages, rel_pages, random_cost, seq_cost, cpu, loops, fetched),
           e.saved <= e.cpu
    PROVE  0 <= e.startup /\ e.startup <= e.total
<1> DEFINE R == Settings!Ratio
           n == list_count
           generic == fetched * random_cost + loops * cpu
           total == 2 * generic - loops * pages * (random_cost - seq_cost)
           cheap == pages * R > rel_pages * n /\ 2 * R < n
           reduction == loops * (pages * R * (random_cost - seq_cost)
                            + 2 * (pages * R - rel_pages * n) * seq_cost)
           saved == (loops * pages - fetched) * random_cost
           x == loops * cpu - saved
           pr == loops * (pages * random_cost)
           ps == loops * (pages * seq_cost)
<1>1. R \in Nat /\ n \in Nat /\ R <= n
  BY DEF Settings!Ratio
<1>2. e = [total |-> n * total,
           startup |-> R * total - (IF cheap THEN reduction ELSE 0),
           saved |-> saved, cpu |-> loops * cpu]
  BY DEF Settings!EstimateOf
<1>3. /\ x \in Nat /\ pr \in Nat /\ ps \in Nat
      /\ total = pr + ps + 2 * x /\ total \in Nat
  <2>1. saved <= loops * cpu
    <3> HIDE DEF R, total, cheap, reduction, saved
    <3> QED BY <1>2
  <2>2. x \in Nat
    <3>1. saved \in Int /\ loops * cpu \in Int
      OBVIOUS
    <3> HIDE DEF saved
    <3> QED BY <2>1, <3>1
  <2>3. pr \in Nat /\ ps \in Nat
    OBVIOUS
  <2>4. total = pr + ps + 2 * x
    OBVIOUS
  <2> HIDE DEF total, x, pr, ps
  <2> QED BY <2>2, <2>3, <2>4
<1>4. R * total \in Nat /\ n * total \in Nat /\ R * total <= n * total
  <2> HIDE DEF R, total
  <2> QED BY <1>1, <1>3, Products
<1>5. ASSUME cheap
      PROVE  0 <= R * total - reduction /\ R * total - reduction <= n * total
  <2> DEFINE w == rel_pages * n
             ws == loops * (w * seq_cost)
  <2>1. w \in Nat /\ ws \in Nat
    BY <1>1
  <2>2. R * total - reduction = 2 * (R * x) + 2 * ws
    <3>1. reduction = R * pr + R * ps - 2 * ws
      <4> HIDE DEF R
      <4> QED BY <1>1
    <3>2. R * total = R * pr + R * ps + 2 * (R * x)
      <4> HIDE DEF R, total, x, pr, ps
      <4> QED BY <1>1, <1>3
    <3> DEFINE Rpr == R * pr
               Rps == R * ps
               Rx == R * x
               Rt == R * total
    <3>3. Rpr \in Nat /\ Rps \in Nat /\ Rx \in Nat
      <4> HIDE DEF R, x, pr, ps
      <4> QED BY <1>1, <1>3
    <3>4. reduction = Rpr + Rps - 2 * ws /\ Rt = Rpr + Rps + 2 * Rx
      BY <3>1, <3>2
    <3>5. Rt - reduction = 2 * Rx + 2 * ws
      <4> HIDE DEF Rpr, Rps, Rx, Rt, ws, reduction
      <4> QED BY <2>1, <3>3, <3>4
    <3> QED BY <3>5
  <2>3. R * x <= n * x /\ R * x \in Nat /\ n * x \in Nat
    <3> HIDE DEF R, x
    <3> QED BY <1>1, <1>3, Products
  <2>4. 2 * w <= n * pages
    <3>1. (2 * R) * pages <= n * pages
      <4> HIDE DEF R
      <4> QED BY <1>1, <1>5, Products
    <3>2. 2 * w <= (2 * R) * pages
      <4> HIDE DEF R
      <4> QED BY <1>1, <1>5, <2>1
    <3> HIDE DEF R, w
    <3> QED BY <1>1, <2>1, <3>1, <3>2
  <2>5. 2 * ws <= n * ps
    <3> DEFINE ls == loops * seq_cost
    <3>1. (2 * w) * ls <= (n * pages) * ls
      <4>1. 2 * w \in Nat /\ n * pages \in Nat /\ ls \in Nat
        BY <1>1, <2>1
      <4> HIDE DEF w, ls
      <4> QED BY <2>4, <4>1, Products
    <3>2. 2 * ws = (2 * w) * ls /\ n * ps = (n * pages) * ls
      <4> HIDE DEF w
      <4> QED BY <1>1, <2>1
    <3> HIDE DEF ws, ps, ls
    <3> QED BY <3>1, <3>2
  <2>6. n * total = n * pr + n * ps + 2 * (n * x) /\ n * pr \in Nat /\ n * ps \in Nat
    <3> HIDE DEF total, x, pr, ps
    <3> QED BY <1>1, <1>3
  <2> DEFINE Rx == R * x
             nx == n * x
             npr == n * pr
             nps == n * ps
             nt == n * total
             left == R * total - reduction
  <2>7. /\ left = 2 * Rx + 2 * ws /\ Rx <= nx /\ Rx \in Nat /\ nx \in Nat
        /\ 2 * ws <= nps /\ nt = npr + nps + 2 * nx /\ npr \in Nat /\ nps \in Nat
    BY <2>2, <2>3, <2>5, <2>6
  <2>8. 0 <= left /\ left <= nt
    <3> HIDE DEF Rx, nx, npr, nps, nt, left, ws
    <3> QED BY <2>1, <2>7
  <2> QED BY <2>8
<1>6. /\ e.total = n * total
      /\ e.startup = IF cheap THEN R * total - reduction ELSE R * total
  <2>1. R * total - 0 = R * total
    <3> HIDE DEF total, R
    <3> QED BY <1>4
  <2> HIDE DEF R, total, reduction, cheap, saved
  <2> QED BY <1>2, <2>1
<1> HIDE DEF R, total, reduction, cheap
<1> QED BY <1>4, <1>5, <1>6

LEMMA SettingsStepInv == ASSUME SettingsInv, Settings!Next PROVE SettingsInv'
<1> USE NamesDiffer
<1>1. ASSUME NEW name \in Settings!Names, NEW value, Settings!SetPlaceholder(name, value)
      PROVE  SettingsInv'
  <2>1. loaded => Settings!ivfflat_probes' = Settings!ivfflat_probes
    BY <1>1 DEF Settings!SetPlaceholder, Settings!ivfflat_probes, SettingsInv
  <2> QED BY <1>1, <2>1 DEF Settings!SetPlaceholder, SettingsInv, Settings!CostsInOrder
<1>2. ASSUME NEW value, Settings!SetProbes(value)
      PROVE  SettingsInv'
  <2>1. Settings!ivfflat_probes' = value
    BY <1>2 DEF Settings!SetProbes, Settings!ivfflat_probes, SettingsInv
  <2>2. value \in Nat \ {0}
    BY <1>2, ValidIsPositive DEF Settings!SetProbes
  <2> QED BY <1>2, <2>1, <2>2 DEF Settings!SetProbes, SettingsInv, Settings!CostsInOrder
<1>3. ASSUME Settings!Load
      PROVE  SettingsInv'
  <2>1. Settings!ivfflat_probes' = Settings!DefaultProbes \/ Settings!Valid(Settings!ivfflat_probes')
    BY <1>3 DEF Settings!Load, Settings!ivfflat_probes
  <2>2. Settings!ivfflat_probes' \in Nat \ {0}
    BY <2>1, ValidIsPositive DEF Settings!DefaultProbes
  <2>3. DOMAIN setting' = Settings!Names /\ loaded' = TRUE /\ UNCHANGED <<list_count, costs>>
    BY <1>3 DEF Settings!Load
  <2> QED BY <2>2, <2>3 DEF SettingsInv, Settings!CostsInOrder
<1>4. ASSUME Settings!CostEstimate
      PROVE  SettingsInv'
  <2>1. PICK pages \in PageCounts, rel_pages \in PageCounts,
             random_cost \in PageCosts, seq_cost \in PageCosts, cpu \in CpuCosts,
             loops \in LoopCounts :
            \E fetched \in pages .. loops * pages :
               costs' = Settings!EstimateOf(pages, rel_pages, random_cost, seq_cost, cpu, loops, fetched)
    BY <1>4 DEF Settings!CostEstimate
  <2>2. PICK fetched \in pages .. loops * pages :
            costs' = Settings!EstimateOf(pages, rel_pages, random_cost, seq_cost, cpu, loops, fetched)
    BY <2>1
  <2>3. /\ pages \in Nat /\ rel_pages \in Nat /\ random_cost \in Nat /\ seq_cost \in Nat
        /\ cpu \in Nat /\ loops \in Nat /\ fetched \in Nat
    BY <2>2, ListsAssumption
  <2>4. loaded /\ UNCHANGED <<loaded, setting, list_count>>
    BY <1>4 DEF Settings!CostEstimate
  <2>5. list_count \in Nat \ {0} /\ Settings!ivfflat_probes \in Nat \ {0}
    BY <2>4 DEF SettingsInv
  <2>6. costs'.saved <= costs'.cpu => 0 <= costs'.startup /\ costs'.startup <= costs'.total
    BY <2>2, <2>3, <2>5, EstimateInOrder
  <2> QED BY <2>4, <2>6 DEF SettingsInv, Settings!CostsInOrder, Settings!ivfflat_probes
<1> QED BY <1>1, <1>2, <1>3, <1>4 DEF Settings!Next

\* A step of the machines is a step of the session or leaves it alone.
LEMMA SettingsMoves ==
    ASSUME [Next]_vars, machine' = "settings"
    PROVE  machine = "settings" /\ (Settings!Next \/ UNCHANGED settingsVars)
BY DEF Next, vars, Finished

\* What holds of the settings of a session at every step, whatever users SET before
\* and after ivfflat_init_options has run.
THEOREM SettingsInvariant == Spec => [](machine = "settings" => SettingsInv)
<1>1. Init => (machine = "settings" => SettingsInv)
  BY SettingsInitInv DEF Init
<1>2. (machine = "settings" => SettingsInv) /\ [Next]_vars => (machine = "settings" => SettingsInv)'
  <2> SUFFICES ASSUME machine = "settings" => SettingsInv, [Next]_vars, machine' = "settings"
               PROVE  SettingsInv'
    OBVIOUS
  <2>1. CASE Settings!Next
    BY <2>1, SettingsMoves, SettingsStepInv
  <2>2. CASE UNCHANGED settingsVars
    BY <2>2, SettingsMoves
    DEF settingsVars, SettingsInv, Settings!CostsInOrder, Settings!ivfflat_probes
  <2> QED BY <2>1, <2>2, SettingsMoves
<1> QED BY <1>1, <1>2, PTL DEF Spec

\* ivfflat_beginscan finds at least one list to probe and no more than there are, for
\* every number of lists and every order of SET and loading the library.
THEOREM ScansHaveLists == Spec => []ScanHasLists
<1>1. (machine = "settings" => SettingsInv) => ScanHasLists
  BY DEF SettingsInv, ScanHasLists, Settings!ScanHasLists, Settings!MaxProbes
<1> QED BY <1>1, SettingsInvariant, PTL

\* ivfflat_costestimate gives the planner a startup cost between zero and the total
\* cost for all sizes, all costs of pages and of the CPU, and all settings, in every
\* number of loops that save no more than the CPU costs.
THEOREM CostsAreInOrder == Spec => []CostsInOrder
<1>1. (machine = "settings" => SettingsInv) => CostsInOrder
  BY DEF SettingsInv, CostsInOrder
<1> QED BY <1>1, SettingsInvariant, PTL

-----------------------------------------------------------------------------
(* The lists a scan probes: IvfflatProbes.                                 *)

Node == [list : Probing!Lists, distance : ListDistances]

\* The nodes hold different lists of those read so far, with their distances.
NodesHoldLists ==
    /\ Len(nodes) = IF l - 1 < max_probes THEN l - 1 ELSE max_probes
    /\ \A n \in DOMAIN nodes : nodes[n].list < l /\ nodes[n].distance = dist[nodes[n].list]
    /\ \A m, n \in DOMAIN nodes : nodes[m].list = nodes[n].list => m = n

\* The greatest distance in a full array
GreatestKnown ==
    Len(nodes) = max_probes =>
        /\ \E n \in DOMAIN nodes : nodes[n].distance = max_distance
        /\ \A n \in DOMAIN nodes : nodes[n].distance <= max_distance

\* A list that was left out is no nearer than those in the full array.
LeftOutFarther ==
    \A q \in 1 .. l - 1 :
        \/ \E n \in DOMAIN nodes : nodes[n].list = q
        \/ Len(nodes) = max_probes /\ \A n \in DOMAIN nodes : nodes[n].distance <= dist[q]

\* The result has the lists of the nodes taken from the heap, nearest first, and
\* the nodes still in the heap are at least as near.
TakenInOrder ==
    /\ Len(list_pages) + Cardinality(queue) = Len(nodes)
    /\ \A k \in DOMAIN list_pages : \E n \in DOMAIN nodes \ queue : list_pages[k] = nodes[n].list
    /\ \A n \in DOMAIN nodes \ queue : \E k \in DOMAIN list_pages : list_pages[k] = nodes[n].list
    /\ \A j, k \in DOMAIN list_pages :
            j < k => list_pages[j] # list_pages[k] /\ dist[list_pages[j]] <= dist[list_pages[k]]
    /\ \A n \in queue, k \in DOMAIN list_pages : nodes[n].distance <= dist[list_pages[k]]

ProbesInv ==
    /\ Probing!TypeOK /\ (l <= NumLists => list_pages = <<>>)
    /\ NodesHoldLists /\ GreatestKnown /\ LeftOutFarther /\ TakenInOrder

\* The initial value of max_distance is a distance.
LEMMA DBL_MAXIsDistance == Probing!DBL_MAX \in ListDistances
BY ListsAssumption DEF Probing!DBL_MAX

LEMMA ProbesInitInv == ASSUME Probing!Init PROVE ProbesInv
<1> USE ListsAssumption
<1>1. /\ dist \in [Probing!Lists -> ListDistances] /\ max_distance \in ListDistances
      /\ l = 1 /\ nodes = <<>> /\ queue = {} /\ list_pages = <<>>
  BY DBL_MAXIsDistance DEF Probing!Init
<1>2. PICK p \in ProbeCounts : max_probes = Probing!MaxProbes(p, NumLists)
  BY DEF Probing!Init
<1>3. p \in Nat \ {0}
  OBVIOUS
<1>4. max_probes \in 1 .. NumLists
  BY <1>2, <1>3 DEF Probing!MaxProbes
<1>5. Probing!TypeOK
  BY <1>1, <1>4 DEF Probing!TypeOK
<1>6. Cardinality(queue) = 0 /\ Len(nodes) = 0 /\ Len(list_pages) = 0
  BY <1>1, FS_EmptySet
<1> QED
  BY <1>1, <1>4, <1>5, <1>6
  DEF ProbesInv, NodesHoldLists, GreatestKnown, LeftOutFarther, TakenInOrder

\* A set of distances that are not empty has a greatest one.
LEMMA GreatestOfDistances ==
    ASSUME NEW S \in SUBSET ListDistances, S # {}
    PROVE  \E m \in S : \A k \in S : k <= m
<1>1. PICK M \in ListDistances : \A e \in ListDistances : e <= M
  BY ListsAssumption
<1>2. M \in Int /\ \A k \in S : k \in Int /\ k <= M
  BY <1>1, ListsAssumption
<1> DEFINE T == {M - k : k \in S}
           R == {ss \in Nat \X Nat : ss[1] < ss[2]}
<1>3. \A k \in S : M - k \in Nat
  BY <1>2
<1>4. T \in SUBSET Nat /\ T # {}
  BY <1>3
<1>5. IsWellFoundedOn(R, Nat)
  BY NatLessThanWellFounded DEF OpToRel
<1>6. \A k, m \in Nat : k < m => <<k, m>> \in R
  OBVIOUS
<1>7. PICK t \in T : \A k \in T : ~ (<<k, t>> \in R)
  <2> HIDE DEF R, T
  <2> QED BY <1>4, <1>5, WFMin
<1>8. \A k \in T : ~(k < t)
  <2> HIDE DEF R, T
  <2> QED BY <1>4, <1>6, <1>7
<1>9. PICK m \in S : t = M - m
  BY <1>7
<1>10. ASSUME NEW k \in S PROVE k <= m
  <2>1. M - k \in T
    OBVIOUS
  <2> QED BY <1>2, <1>8, <1>9, <2>1
<1> QED BY <1>10

\* Greatest is the greatest distance of some nodes.
LEMMA GreatestIs ==
    ASSUME NEW ns, NEW Q, Q # {}, \A n \in Q : ns[n].distance \in ListDistances
    PROVE  /\ Probing!Greatest(ns, Q) \in ListDistances
           /\ \E n \in Q : ns[n].distance = Probing!Greatest(ns, Q)
           /\ \A n \in Q : ns[n].distance <= Probing!Greatest(ns, Q)
<1> DEFINE S == {ns[n].distance : n \in Q}
<1>1. S \in SUBSET ListDistances /\ S # {}
  OBVIOUS
<1>2. PICK d \in S : \A e \in S : e <= d
  <2> HIDE DEF S
  <2> QED BY <1>1, GreatestOfDistances
<1>3. d \in ListDistances /\ \E n \in Q : ns[n].distance = d /\ \A m \in Q : ns[m].distance <= d
  BY <1>2
<1> QED BY <1>3 DEF Probing!Greatest

\* What the invariant says of the variables of the loop
LEMMA ProbesTypes ==
    ASSUME ProbesInv
    PROVE  /\ NumLists \in Nat /\ dist \in [Probing!Lists -> ListDistances]
           /\ max_probes \in 1 .. NumLists /\ l \in 1 .. NumLists + 1 /\ l \in Int
           /\ nodes \in Seq(Node) /\ Len(nodes) \in Nat /\ DOMAIN nodes = 1 .. Len(nodes)
           /\ \A n \in DOMAIN nodes :
                /\ nodes[n] \in Node /\ nodes[n].list \in Probing!Lists /\ nodes[n].list \in Int
                /\ nodes[n].distance \in ListDistances /\ nodes[n].distance \in Int
           /\ \A q \in Probing!Lists : q \in Int /\ dist[q] \in ListDistances /\ dist[q] \in Int
           /\ max_distance \in ListDistances /\ max_distance \in Int
           /\ list_pages \in Seq(Probing!Lists)
<1>1. /\ NumLists \in Nat /\ dist \in [Probing!Lists -> ListDistances]
      /\ max_probes \in 1 .. NumLists /\ l \in 1 .. NumLists + 1
      /\ nodes \in Seq(Node) /\ max_distance \in ListDistances
      /\ list_pages \in Seq(Probing!Lists)
  BY ListsAssumption DEF ProbesInv, Probing!TypeOK, Node
<1>2. Len(nodes) \in Nat /\ DOMAIN nodes = 1 .. Len(nodes)
  BY <1>1
<1>3. \A n \in DOMAIN nodes : nodes[n] \in Node
  BY <1>1, <1>2, ElementOfSeq
<1>4. \A n \in DOMAIN nodes : nodes[n].list \in Probing!Lists /\ nodes[n].distance \in ListDistances
  BY <1>3 DEF Node
<1>5. \A d \in ListDistances : d \in Int
  BY ListsAssumption
<1>6. \A q \in Probing!Lists : q \in Int
  BY <1>1 DEF Probing!Lists
<1>7. \A q \in Probing!Lists : dist[q] \in ListDistances
  BY <1>1
<1> QED BY <1>1, <1>2, <1>3, <1>4, <1>5, <1>6, <1>7

\* The list tuple the loop has reached
LEMMA TupleIsNode ==
    ASSUME ProbesInv, l <= NumLists
    PROVE  /\ l \in Probing!Lists /\ Probing!ListOfTuple \in Node
           /\ Probing!ListOfTuple.list = l /\ Probing!ListOfTuple.distance = dist[l]
<1>1. l \in Probing!Lists
  BY ProbesTypes DEF Probing!Lists
<1> QED BY <1>1, ProbesTypes DEF Probing!ListOfTuple, Node

\* Nothing is taken while lists are read.
LEMMA NothingTaken ==
    ASSUME ProbesInv, l <= NumLists
    PROVE  list_pages = <<>> /\ queue = DOMAIN nodes
BY DEF ProbesInv, Probing!TypeOK

\* The nodes in use are counted by the heap.
LEMMA NoResultYet ==
    ASSUME NEW n \in Nat, NEW pages, NEW Q, pages = <<>>, Q = 1 .. n
    PROVE  Len(pages) + Cardinality(Q) = n /\ DOMAIN pages = {}
BY SMTT(30), FS_Interval

LEMMA AddListInv == ASSUME ProbesInv, Probing!AddList PROVE ProbesInv'
<1> USE ProbesTypes
<1>0. PICK new : new = Len(nodes) + 1
  OBVIOUS
<1>1. /\ l <= NumLists /\ Len(nodes) < max_probes
      /\ nodes' = Append(nodes, Probing!ListOfTuple) /\ l' = l + 1
      /\ queue' = queue \cup {Len(nodes')}
      /\ UNCHANGED <<dist, max_probes, list_pages>>
  BY DEF Probing!AddList
<1>2. /\ l \in Probing!Lists /\ Probing!ListOfTuple \in Node
      /\ Probing!ListOfTuple.list = l /\ Probing!ListOfTuple.distance = dist[l]
  BY <1>1, TupleIsNode
<1>3. /\ nodes' \in Seq(Node) /\ Len(nodes') = new /\ DOMAIN nodes' = 1 .. new
      /\ \A n \in DOMAIN nodes : nodes'[n] = nodes[n]
      /\ nodes'[new] = Probing!ListOfTuple
  BY <1>0, <1>1, <1>2
<1>4. /\ \A n \in DOMAIN nodes : nodes'[n].list = nodes[n].list /\ nodes'[n].distance = nodes[n].distance
      /\ nodes'[new].list = l /\ nodes'[new].distance = dist[l]
  BY <1>0, <1>2, <1>3
<1>5. list_pages' = <<>> /\ queue' = 1 .. new
  BY <1>1, <1>3, NothingTaken
<1>6. /\ new = l /\ l - 1 < max_probes
      /\ \A q \in 1 .. l - 1 : \E n \in DOMAIN nodes : nodes[n].list = q
  <2>1. new = l /\ l - 1 < max_probes
    BY <1>0, <1>1 DEF ProbesInv, NodesHoldLists
  <2>2. Len(nodes) # max_probes
    BY <1>1
  <2> QED BY <2>1, <2>2 DEF ProbesInv, LeftOutFarther
<1>13. \A n \in 1 .. new : n \in DOMAIN nodes \/ n = new
  BY <1>0
<1>7. NodesHoldLists'
  <2>1. Len(nodes') = IF l' - 1 < max_probes' THEN l' - 1 ELSE max_probes'
    BY <1>1, <1>3, <1>6
  <2>2. ASSUME NEW n \in 1 .. new
        PROVE  nodes'[n].list < l + 1 /\ nodes'[n].distance = dist[nodes'[n].list]
    <3>1. CASE n \in DOMAIN nodes
      <4>1. nodes[n].list < l /\ nodes[n].distance = dist[nodes[n].list]
        BY <3>1 DEF ProbesInv, NodesHoldLists
      <4>2. nodes[n].list < l + 1
        BY <3>1, <4>1
      <4>3. nodes'[n] = nodes[n]
        BY <1>3, <3>1
      <4> QED BY <4>1, <4>2, <4>3
    <3>2. CASE n = new
      BY <1>4, <3>2
    <3> QED BY <1>13, <3>1, <3>2
  <2>3. ASSUME NEW m \in 1 .. new, NEW n \in 1 .. new, nodes'[m].list = nodes'[n].list
        PROVE  m = n
    <3>1. \A k \in DOMAIN nodes : nodes'[k].list # l
      <4>1. \A k \in DOMAIN nodes : nodes[k].list < l
        BY DEF ProbesInv, NodesHoldLists
      <4>2. \A k \in DOMAIN nodes : nodes[k].list # l
        BY <4>1
      <4> QED BY <1>4, <4>2
    <3>2. CASE m \in DOMAIN nodes /\ n \in DOMAIN nodes
      BY <1>4, <2>3, <3>2 DEF ProbesInv, NodesHoldLists
    <3> QED BY <1>4, <1>13, <2>3, <3>1, <3>2
  <2> QED BY <1>1, <1>3, <2>1, <2>2, <2>3 DEF NodesHoldLists
<1>8. \A n \in 1 .. new : nodes'[n].distance \in ListDistances
  BY <1>2, <1>4, <1>13
<1>9. max_distance' \in ListDistances /\ GreatestKnown'
  <2>1. CASE Len(nodes') = max_probes
    <3>1. max_distance' = Probing!Greatest(nodes', queue')
      BY <2>1 DEF Probing!AddList
    <3>2. queue' # {} /\ \A n \in queue' : nodes'[n].distance \in ListDistances
      <4>1. 1 \in queue'
        BY <1>0, <1>5
      <4> QED BY <1>5, <1>8, <4>1
    <3>3. /\ max_distance' \in ListDistances
          /\ \E n \in queue' : nodes'[n].distance = max_distance'
          /\ \A n \in queue' : nodes'[n].distance <= max_distance'
      BY <3>1, <3>2, GreatestIs
    <3> QED BY <1>3, <1>5, <3>3 DEF GreatestKnown
  <2>2. CASE Len(nodes') # max_probes
    <3>1. max_distance' = max_distance
      BY <2>2 DEF Probing!AddList
    <3> QED BY <1>1, <2>2, <3>1 DEF GreatestKnown
  <2> QED BY <2>1, <2>2
<1>10. LeftOutFarther'
  <2>1. ASSUME NEW q \in 1 .. l PROVE \E n \in DOMAIN nodes' : nodes'[n].list = q
    <3>1. CASE q = l
      <4>1. new \in DOMAIN nodes'
        BY <1>0, <1>3
      <4> QED BY <1>4, <1>6, <3>1, <4>1
    <3>2. CASE q \in 1 .. l - 1
      <4>1. PICK n \in DOMAIN nodes : nodes[n].list = q
        BY <1>6, <3>2
      <4> QED BY <1>0, <1>3, <1>4, <4>1
    <3> QED BY <3>1, <3>2
  <2>2. l' - 1 = l
    BY <1>1
  <2> QED BY <2>1, <2>2 DEF LeftOutFarther
<1>11. TakenInOrder'
  BY <1>3, <1>5, NoResultYet DEF TakenInOrder
<1>12. Probing!TypeOK'
  BY <1>1, <1>3, <1>5, <1>9 DEF Probing!TypeOK, Node
<1> QED BY <1>5, <1>7, <1>9, <1>10, <1>11, <1>12 DEF ProbesInv

LEMMA ReplaceListInv == ASSUME ProbesInv, Probing!ReplaceList PROVE ProbesInv'
<1> USE ProbesTypes
<1>1. /\ l <= NumLists /\ Len(nodes) = max_probes /\ dist[l] < max_distance /\ l' = l + 1
      /\ max_distance' = Probing!Greatest(nodes', queue)
      /\ UNCHANGED <<dist, max_probes, queue, list_pages>>
  BY DEF Probing!ReplaceList, Probing!Refreshed
<1>2. PICK top \in queue : /\ Probing!IsFirst(top, queue)
                           /\ nodes' = [nodes EXCEPT ![top] = Probing!ListOfTuple]
  BY DEF Probing!ReplaceList, Probing!IsFirst
<1>3. /\ l \in Probing!Lists /\ Probing!ListOfTuple \in Node
      /\ Probing!ListOfTuple.list = l /\ Probing!ListOfTuple.distance = dist[l]
  BY <1>1, TupleIsNode
<1>4. list_pages = <<>> /\ queue = DOMAIN nodes
  BY <1>1, NothingTaken
<1>5. /\ nodes' \in Seq(Node) /\ Len(nodes') = Len(nodes) /\ DOMAIN nodes' = DOMAIN nodes
      /\ \A n \in DOMAIN nodes : nodes'[n] = IF n = top THEN Probing!ListOfTuple ELSE nodes[n]
  BY <1>2, <1>3, <1>4, ExceptSeq
<1>6. /\ \A n \in DOMAIN nodes \ {top} : nodes'[n].list = nodes[n].list /\ nodes'[n].distance = nodes[n].distance
      /\ nodes'[top].list = l /\ nodes'[top].distance = dist[l]
  BY <1>3, <1>4, <1>5
<1>7. /\ nodes[top].distance = max_distance
      /\ \A n \in DOMAIN nodes : nodes[n].distance <= max_distance
  BY <1>1, <1>2, <1>4 DEF ProbesInv, GreatestKnown, Probing!IsFirst
<1>8. NodesHoldLists'
  <2>1. Len(nodes') = IF l' - 1 < max_probes' THEN l' - 1 ELSE max_probes'
    BY <1>1, <1>5 DEF ProbesInv, NodesHoldLists
  <2>2. ASSUME NEW n \in DOMAIN nodes
        PROVE  nodes'[n].list < l + 1 /\ nodes'[n].distance = dist[nodes'[n].list]
    <3>1. CASE n = top
      BY <1>6, <3>1
    <3>2. CASE n # top
      <4>1. nodes[n].list < l /\ nodes[n].distance = dist[nodes[n].list]
        BY <3>2 DEF ProbesInv, NodesHoldLists
      <4> QED BY <1>6, <3>2, <4>1
    <3> QED BY <3>1, <3>2
  <2>3. ASSUME NEW m \in DOMAIN nodes, NEW n \in DOMAIN nodes, nodes'[m].list = nodes'[n].list
        PROVE  m = n
    <3>1. \A k \in DOMAIN nodes : nodes[k].list # l
      BY DEF ProbesInv, NodesHoldLists
    <3>2. CASE m # top /\ n # top
      BY <1>6, <2>3, <3>2 DEF ProbesInv, NodesHoldLists
    <3> QED BY <1>6, <2>3, <3>1, <3>2
  <2> QED BY <1>1, <1>5, <2>1, <2>2, <2>3 DEF NodesHoldLists
<1>9. ASSUME NEW n \in DOMAIN nodes
      PROVE  nodes'[n].distance \in ListDistances /\ nodes'[n].distance <= max_distance
  <2>1. CASE n = top
    BY <1>1, <1>3, <1>6, <2>1
  <2>2. CASE n # top
    BY <1>6, <1>7, <2>2
  <2> QED BY <2>1, <2>2
<1>10. max_distance' \in ListDistances /\ GreatestKnown'
  <2>1. queue # {} /\ \A n \in queue : nodes'[n].distance \in ListDistances
    BY <1>4, <1>9
  <2>2. /\ max_distance' \in ListDistances
        /\ \E n \in queue : nodes'[n].distance = max_distance'
        /\ \A n \in queue : nodes'[n].distance <= max_distance'
    BY <1>1, <2>1, GreatestIs
  <2> QED BY <1>4, <1>5, <2>2 DEF GreatestKnown
<1>11. LeftOutFarther'
  <2> SUFFICES ASSUME NEW q \in 1 .. l
               PROVE  \/ \E n \in DOMAIN nodes : nodes'[n].list = q
                      \/ \A n \in DOMAIN nodes : nodes'[n].distance <= dist[q]
    <3>1. l' - 1 = l /\ DOMAIN nodes' = DOMAIN nodes /\ Len(nodes') = max_probes' /\ dist' = dist
      BY <1>1, <1>5
    <3> QED BY <3>1 DEF LeftOutFarther
  <2>1. CASE q = l
    BY <1>4, <1>6, <2>1
  <2>2. CASE q # l /\ \E n \in DOMAIN nodes : nodes[n].list = q
    <3>1. PICK n \in DOMAIN nodes : nodes[n].list = q
      BY <2>2
    <3>2. CASE n = top
      <4>1. dist[q] = max_distance
        BY <1>7, <3>1, <3>2 DEF ProbesInv, NodesHoldLists
      <4> QED BY <1>9, <4>1
    <3>3. CASE n # top
      BY <1>6, <3>1, <3>3
    <3> QED BY <3>2, <3>3
  <2>3. CASE q # l /\ ~\E n \in DOMAIN nodes : nodes[n].list = q
    <3>1. q \in 1 .. l - 1 /\ q \in Probing!Lists
      BY <2>3, <1>1 DEF Probing!Lists
    <3>2. \A n \in DOMAIN nodes : nodes[n].distance <= dist[q]
      BY <2>3, <3>1 DEF ProbesInv, LeftOutFarther
    <3>3. max_distance <= dist[q]
      BY <1>4, <1>7, <3>2
    <3>4. \A n \in DOMAIN nodes : nodes'[n].distance \in Int
      BY <1>9, ListsAssumption
    <3> QED BY <1>9, <3>1, <3>3, <3>4
  <2> QED BY <2>1, <2>2, <2>3
<1>12. TakenInOrder'
  BY <1>1, <1>4, <1>5, NoResultYet DEF TakenInOrder
<1>13. Probing!TypeOK'
  BY SMTT(30), <1>1, <1>4, <1>5, <1>10 DEF Probing!TypeOK, Node, ProbesInv
<1> QED BY <1>1, <1>4, <1>8, <1>10, <1>11, <1>12, <1>13 DEF ProbesInv

LEMMA SkipListInv == ASSUME ProbesInv, Probing!SkipList PROVE ProbesInv'
<1> USE ProbesTypes
<1>1. /\ l <= NumLists /\ Len(nodes) = max_probes /\ dist[l] >= max_distance /\ l' = l + 1
      /\ UNCHANGED <<dist, max_probes, nodes, queue, max_distance, list_pages>>
  BY DEF Probing!SkipList
<1>2. list_pages = <<>> /\ queue = DOMAIN nodes
  BY <1>1, NothingTaken
<1>4. NodesHoldLists' /\ GreatestKnown'
  BY <1>1 DEF ProbesInv, NodesHoldLists, GreatestKnown
<1>5. LeftOutFarther'
  <2>1. l \in Probing!Lists /\ \A n \in DOMAIN nodes : nodes[n].distance <= dist[l]
    BY <1>1 DEF ProbesInv, GreatestKnown, Probing!Lists
  <2>2. \A q \in 1 .. l : q = l \/ q \in 1 .. l - 1
    OBVIOUS
  <2>3. \A q \in 1 .. l :
            \/ \E n \in DOMAIN nodes : nodes[n].list = q
            \/ Len(nodes) = max_probes /\ \A n \in DOMAIN nodes : nodes[n].distance <= dist[q]
    BY <1>1, <2>1, <2>2 DEF ProbesInv, LeftOutFarther
  <2>4. l' - 1 = l
    BY <1>1
  <2> QED BY <1>1, <2>3, <2>4 DEF LeftOutFarther
<1>6. TakenInOrder'
  BY <1>1, <1>2, NoResultYet DEF TakenInOrder
<1>7. Probing!TypeOK'
  BY <1>1, <1>2 DEF Probing!TypeOK, ProbesInv
<1> QED BY <1>1, <1>2, <1>4, <1>5, <1>6, <1>7 DEF ProbesInv

\* Places move up by one when a list is put in front.
LEMMA NextPlace == \A n \in Nat : \A k \in 1 .. n : k + 1 \in 1 .. n + 1
OBVIOUS

LEMMA TakeListInv == ASSUME ProbesInv, Probing!TakeList PROVE ProbesInv'
<1> USE ProbesTypes
<1>1. PICK top \in queue :
            /\ Probing!IsFirst(top, queue) /\ queue' = queue \ {top}
            /\ list_pages' = <<nodes[top].list>> \o list_pages
  BY DEF Probing!TakeList, Probing!IsFirst
<1>2. l > NumLists /\ UNCHANGED <<dist, max_probes, l, nodes, max_distance>>
  BY DEF Probing!TakeList
<1>3. queue \subseteq DOMAIN nodes /\ top \in DOMAIN nodes /\ nodes[top].list \in Probing!Lists
  <2>1. queue \subseteq DOMAIN nodes
    BY DEF ProbesInv, Probing!TypeOK
  <2> QED BY <1>1, <2>1
<1>4. PICK len : len = Len(list_pages)
  OBVIOUS
<1>5. /\ list_pages' \in Seq(Probing!Lists) /\ Len(list_pages') = len + 1 /\ len \in Nat
      /\ DOMAIN list_pages = 1 .. len /\ DOMAIN list_pages' = 1 .. len + 1
      /\ list_pages'[1] = nodes[top].list
      /\ \A k \in 1 .. len : list_pages'[k + 1] = list_pages[k]
  <2>1. /\ <<nodes[top].list>> \in Seq(Probing!Lists) /\ Len(<<nodes[top].list>>) = 1
        /\ <<nodes[top].list>>[1] = nodes[top].list
    BY <1>3
  <2> QED BY <1>1, <1>4, <2>1, ConcatProperties
<1>6. \A k \in 1 .. len + 1 : k = 1 \/ (k - 1 \in 1 .. len /\ list_pages'[k] = list_pages[k - 1])
  BY <1>5
<1>7. Cardinality(queue') = Cardinality(queue) - 1 /\ Cardinality(queue) \in Nat
  <2>1. IsFiniteSet(queue)
    <3>1. IsFiniteSet(1 .. Len(nodes))
      BY FS_Interval
    <3> QED BY <1>3, <3>1, FS_Subset
  <2> QED BY <1>1, <2>1, FS_RemoveElement, FS_CardinalityType
<1>8. /\ \A k \in 1 .. len : list_pages[k] \in Probing!Lists
      /\ \A n \in queue : nodes[n].distance <= nodes[top].distance
      /\ nodes[top].distance = dist[nodes[top].list]
  <2>1. \A k \in 1 .. len : list_pages[k] \in Probing!Lists
    BY <1>4, ElementOfSeq
  <2> QED BY <1>1, <1>3, <2>1 DEF ProbesInv, NodesHoldLists, Probing!IsFirst
<1>9. /\ \A n \in DOMAIN nodes \ queue' : n = top \/ n \in DOMAIN nodes \ queue
      /\ top \in DOMAIN nodes \ queue'
      /\ DOMAIN nodes \ queue \subseteq DOMAIN nodes \ queue'
  BY <1>1, <1>3
<1>10. TakenInOrder'
  <2>1. Len(list_pages') + Cardinality(queue') = Len(nodes')
    <3>1. len + Cardinality(queue) = Len(nodes) /\ Len(nodes') = Len(nodes)
      BY <1>2, <1>4 DEF ProbesInv, TakenInOrder
    <3>2. Len(list_pages') = len + 1 /\ len \in Nat
      BY <1>5
    <3> QED BY <1>7, <3>1, <3>2
  <2>2. ASSUME NEW k \in 1 .. len + 1
        PROVE  \E n \in DOMAIN nodes \ queue' : list_pages'[k] = nodes[n].list
    <3>1. CASE k = 1
      BY <1>5, <1>9, <3>1
    <3>2. CASE k # 1
      <4>1. k - 1 \in DOMAIN list_pages /\ list_pages'[k] = list_pages[k - 1]
        BY <1>5, <1>6, <3>2
      <4>2. PICK n \in DOMAIN nodes \ queue : list_pages[k - 1] = nodes[n].list
        BY <4>1 DEF ProbesInv, TakenInOrder
      <4> QED BY <1>9, <4>1, <4>2
    <3> QED BY <3>1, <3>2
  <2>3. ASSUME NEW n \in DOMAIN nodes \ queue'
        PROVE  \E k \in 1 .. len + 1 : list_pages'[k] = nodes[n].list
    <3>1. CASE n = top
      <4>1. 1 \in 1 .. len + 1
        BY <1>5
      <4> QED BY <1>5, <3>1, <4>1
    <3>2. CASE n # top
      <4>1. PICK k \in DOMAIN list_pages : list_pages[k] = nodes[n].list
        BY <1>9, <3>2 DEF ProbesInv, TakenInOrder
      <4>2. k + 1 \in 1 .. len + 1 /\ list_pages'[k + 1] = list_pages[k]
        <5>1. k \in 1 .. len /\ len \in Nat
          BY <1>5, <4>1
        <5>2. k + 1 \in 1 .. len + 1
          BY <5>1, NextPlace, Zenon
        <5> QED BY <1>5, <5>1, <5>2
      <4> QED BY <4>1, <4>2
    <3> QED BY <3>1, <3>2
  <2>4. ASSUME NEW k \in 1 .. len
        PROVE  nodes[top].list # list_pages[k] /\ dist[nodes[top].list] <= dist[list_pages[k]]
    <3>1. PICK n \in DOMAIN nodes \ queue : list_pages[k] = nodes[n].list
      BY <1>5 DEF ProbesInv, TakenInOrder
    <3>2. nodes[top].list # list_pages[k]
      BY <1>1, <1>3, <3>1 DEF ProbesInv, NodesHoldLists
    <3>3. nodes[top].distance <= dist[list_pages[k]]
      BY <1>1, <1>5 DEF ProbesInv, TakenInOrder
    <3> QED BY <1>8, <3>2, <3>3
  <2>5. ASSUME NEW j \in 1 .. len + 1, NEW k \in 1 .. len + 1, j < k
        PROVE  /\ list_pages'[j] # list_pages'[k]
               /\ dist[list_pages'[j]] <= dist[list_pages'[k]]
    <3>1. k - 1 \in 1 .. len /\ list_pages'[k] = list_pages[k - 1]
      BY <1>5, <1>6, <2>5
    <3>2. CASE j = 1
      BY <1>5, <2>4, <3>1, <3>2
    <3>3. CASE j # 1
      <4>1. j - 1 \in 1 .. len /\ list_pages'[j] = list_pages[j - 1] /\ j - 1 < k - 1
        BY <1>5, <1>6, <2>5, <3>3
      <4>2. j - 1 \in DOMAIN list_pages /\ k - 1 \in DOMAIN list_pages
        BY <1>5, <3>1, <4>1
      <4>3. /\ list_pages[j - 1] # list_pages[k - 1]
            /\ dist[list_pages[j - 1]] <= dist[list_pages[k - 1]]
        BY <4>1, <4>2 DEF ProbesInv, TakenInOrder
      <4> QED BY <3>1, <4>1, <4>3
    <3> QED BY <3>2, <3>3
  <2>6. ASSUME NEW n \in queue', NEW k \in 1 .. len + 1
        PROVE  nodes[n].distance <= dist[list_pages'[k]]
    <3>1. n \in queue
      BY <1>1
    <3>2. CASE k = 1
      BY <1>5, <1>8, <3>1, <3>2
    <3>3. CASE k # 1
      <4>1. k - 1 \in DOMAIN list_pages /\ list_pages'[k] = list_pages[k - 1]
        BY <1>5, <1>6, <3>3
      <4> QED BY <3>1, <4>1 DEF ProbesInv, TakenInOrder
    <3> QED BY <3>2, <3>3
  <2> QED BY <1>2, <1>5, <2>1, <2>2, <2>3, <2>5, <2>6 DEF TakenInOrder
<1>11. NodesHoldLists' /\ GreatestKnown' /\ LeftOutFarther'
  BY <1>2 DEF ProbesInv, NodesHoldLists, GreatestKnown, LeftOutFarther
<1>12. Probing!TypeOK'
  BY SMTT(30), <1>1, <1>2, <1>3, <1>5 DEF ProbesInv, Probing!TypeOK
<1>13. ~(l' <= NumLists)
  BY <1>2
<1> QED BY <1>10, <1>11, <1>12, <1>13 DEF ProbesInv

LEMMA ProbesStutterInv == ASSUME ProbesInv, UNCHANGED probingVars PROVE ProbesInv'
<1>1. /\ UNCHANGED dist /\ UNCHANGED max_probes /\ UNCHANGED l /\ UNCHANGED nodes
      /\ UNCHANGED queue /\ UNCHANGED max_distance /\ UNCHANGED list_pages
  BY DEF probingVars
<1> QED
  BY SMTT(30), <1>1
  DEF ProbesInv, Probing!TypeOK, NodesHoldLists, GreatestKnown, LeftOutFarther, TakenInOrder

LEMMA ProbesStepInv == ASSUME ProbesInv, Probing!Next PROVE ProbesInv'
<1>1. CASE UNCHANGED Probing!vars
  BY <1>1, ProbesStutterInv DEF Probing!vars, probingVars
<1> QED
  BY <1>1, AddListInv, ReplaceListInv, SkipListInv, TakeListInv DEF Probing!Next

\* When the heap is empty, the result is what a scan expects.
LEMMA ProbesDone == ASSUME ProbesInv PROVE Probing!ProbesNearest
<1> USE ProbesTypes
<1> SUFFICES ASSUME Probing!Done PROVE list_pages \in Probing!NearestLists(dist, max_probes)
  BY DEF Probing!ProbesNearest
<1>1. l = NumLists + 1 /\ queue = {} /\ Cardinality(queue) = 0
  <2>1. l > NumLists /\ queue = {}
    BY DEF Probing!Done
  <2>2. l = NumLists + 1
    BY <2>1
  <2>3. Cardinality({}) = 0
    BY FS_EmptySet
  <2> QED BY <2>1, <2>2, <2>3
<1>2. Len(nodes) = max_probes /\ max_probes \in Nat \ {0}
  BY <1>1 DEF ProbesInv, NodesHoldLists
<1>3. /\ Len(list_pages) = max_probes /\ DOMAIN list_pages = 1 .. max_probes
      /\ DOMAIN dist = Probing!Lists
  BY <1>1, <1>2 DEF ProbesInv, TakenInOrder
<1>4. list_pages \in [1 .. max_probes -> DOMAIN dist]
  BY <1>3
<1>5. \A j, k \in 1 .. max_probes :
            j < k => list_pages[j] # list_pages[k] /\ dist[list_pages[j]] <= dist[list_pages[k]]
  BY <1>3 DEF ProbesInv, TakenInOrder
<1>6. ASSUME NEW q \in DOMAIN dist, ~\E k \in 1 .. max_probes : list_pages[k] = q
      PROVE  dist[list_pages[max_probes]] <= dist[q]
  <2>1. \A n \in DOMAIN nodes : nodes[n].list # q
    <3>1. \A n \in DOMAIN nodes \ queue : \E k \in DOMAIN list_pages : list_pages[k] = nodes[n].list
      BY Zenon DEF ProbesInv, TakenInOrder
    <3>2. DOMAIN nodes \ queue = DOMAIN nodes
      BY <1>1, Zenon
    <3> QED BY <1>3, <1>6, <3>1, <3>2, Zenon
  <2>2. q \in 1 .. l - 1
    BY <1>1, <1>3 DEF Probing!Lists
  <2>3. \A n \in DOMAIN nodes : nodes[n].distance <= dist[q]
    BY <2>1, <2>2 DEF ProbesInv, LeftOutFarther
  <2>4. max_probes \in DOMAIN list_pages
    BY <1>2, <1>3
  <2>5. PICK n \in DOMAIN nodes : list_pages[max_probes] = nodes[n].list
    BY <2>4 DEF ProbesInv, TakenInOrder
  <2> QED BY <2>3, <2>5 DEF ProbesInv, NodesHoldLists
<1> QED BY <1>4, <1>5, <1>6 DEF Probing!NearestLists

\* A step of the machines is a step of the loop or leaves it alone.
LEMMA ProbingMoves ==
    ASSUME [Next]_vars, machine' = "probing"
    PROVE  machine = "probing" /\ (Probing!Next \/ UNCHANGED probingVars)
BY DEF Next, vars, Finished

\* ivfflat_get_scan_lists finds the nearest lists, each once and nearest first, for
\* every number of lists and of probes and however the centers lie; its array of
\* max_probes nodes is never overrun.
THEOREM ScansProbeNearest == Spec => []ProbesNearest
<1>1. Init => (machine = "probing" => ProbesInv)
  BY ProbesInitInv DEF Init
<1>2. (machine = "probing" => ProbesInv) /\ [Next]_vars => (machine = "probing" => ProbesInv)'
  <2> SUFFICES ASSUME machine = "probing" => ProbesInv, [Next]_vars, machine' = "probing"
               PROVE  ProbesInv'
    OBVIOUS
  <2>1. CASE Probing!Next
    BY <2>1, ProbingMoves, ProbesStepInv
  <2>2. CASE UNCHANGED probingVars
    BY <2>2, ProbingMoves, ProbesStutterInv
  <2> QED BY <2>1, <2>2, ProbingMoves
<1>3. (machine = "probing" => ProbesInv) => ProbesNearest
  BY ProbesDone DEF ProbesNearest, ProbesInv
<1> QED BY <1>1, <1>2, <1>3, PTL DEF Spec

-----------------------------------------------------------------------------
(* The order of a scan: IvfflatOpclass.                                    *)

\* Entries hold the stored form of their row, and the row has a direction if the
\* class normalizes.
OpclassInv ==
    /\ opclass \in Opclass!Opclasses
    /\ \A e \in index :
        /\ e.stored = Opclass!Stored(e.row)
        /\ Opclass!HasNormalization => e.row # Opclass!Zero

LEMMA OpclassStepInv == ASSUME OpclassInv, Opclass!Next PROVE OpclassInv'
<1>1. PICK v \in Opclass!Vectors : Opclass!Insert(v)
  BY DEF Opclass!Next
<1>2. opclass' = opclass
  BY <1>1 DEF Opclass!Insert
<1>3. PICK new : new = [row |-> v, stored |-> Opclass!Stored(v),
                        list |-> Opclass!ListOf(Opclass!Stored(v))]
  OBVIOUS
<1>4. \/ index' = index
      \/ /\ index' = index \cup {new}
         /\ Opclass!HasNormalization => v # Opclass!Zero
  BY <1>1, <1>3 DEF Opclass!Insert, Opclass!hvector_norm_nonzero
<1>5. new.stored = Opclass!Stored(new.row) /\ new.row = v
  BY <1>3
<1>6. \A e \in index' :
        /\ e.stored = Opclass!Stored(e.row)
        /\ Opclass!HasNormalization => e.row # Opclass!Zero
  BY <1>4, <1>5 DEF OpclassInv
<1> QED
  BY <1>2, <1>6 DEF OpclassInv, Opclass!Stored, Opclass!HasNormalization

\* The distance of a stored form to the value a scan looks for is the one the
\* operator has for the row: normalizing keeps the elements and divides by the norm.
LEMMA DistancesAgree ==
    ASSUME OpclassInv, NEW e \in index, NEW q,
           opclass = "hvector_cosine_ops" => q # Opclass!Zero
    PROVE  Opclass!VectorDistance(e.stored, Opclass!ScanValue(q))
               = Opclass!Operator(Opclass!Raw(e.row), Opclass!Raw(q))
<1>1. e.stored = Opclass!Stored(e.row)
  BY DEF OpclassInv
<1>2. CASE opclass = "hvector_l2_ops"
  BY <1>1, <1>2
  DEF Opclass!VectorDistance, Opclass!Operator, Opclass!ScanValue, Opclass!Stored,
      Opclass!HasNormalization, Opclass!hvector_l2_distance
<1>3. CASE opclass = "hvector_ip_ops"
  BY <1>1, <1>3
  DEF Opclass!VectorDistance, Opclass!Operator, Opclass!ScanValue, Opclass!Stored,
      Opclass!HasNormalization
<1>4. CASE opclass = "hvector_cosine_ops"
  <2>1. e.row # Opclass!Zero /\ q # Opclass!Zero
    BY <1>4 DEF OpclassInv, Opclass!HasNormalization
  <2>2. /\ e.stored = [v |-> e.row, n |-> Opclass!Dot(e.row, e.row)]
        /\ Opclass!ScanValue(q) = [v |-> q, n |-> Opclass!Dot(q, q)]
    BY <1>1, <1>4, <2>1
    DEF Opclass!ScanValue, Opclass!Stored, Opclass!HasNormalization, Opclass!Raw,
        Opclass!hvector_l2_normalize
  <2>3. Opclass!VectorDistance(e.stored, Opclass!ScanValue(q))
            = <<-Opclass!Square(Opclass!Dot(e.row, q)),
                Opclass!Dot(e.row, e.row) * Opclass!Dot(q, q)>>
    BY <1>4, <2>2 DEF Opclass!VectorDistance, Opclass!hvector_negative_inner_product
  <2>4. Opclass!Operator(Opclass!Raw(e.row), Opclass!Raw(q))
            = <<-Opclass!Square(Opclass!Dot(e.row, q)),
                Opclass!Dot(e.row, e.row) * Opclass!Dot(q, q)>>
    BY <1>4 DEF Opclass!Operator, Opclass!hvector_cosine_distance, Opclass!Raw
  <2> QED BY <2>3, <2>4
<1> QED BY <1>2, <1>3, <1>4 DEF OpclassInv, Opclass!Opclasses

\* A step of the machines is a step of the class or leaves it alone.
LEMMA OpclassMoves ==
    ASSUME [Next]_vars, machine' = "opclass"
    PROVE  machine = "opclass" /\ (Opclass!Next \/ UNCHANGED opclassVars)
BY DEF Next, vars, Finished

\* Support function 1 orders the stored forms as the operator of the class orders the
\* rows, in all three operator classes, for every dimension and all elements.
THEOREM ScansSortLikeOperators == Spec => []ScanOrderIsOperators
<1>1. Init => (machine = "opclass" => OpclassInv)
  BY DEF Init, Opclass!Init, OpclassInv
<1>2. (machine = "opclass" => OpclassInv) /\ [Next]_vars => (machine = "opclass" => OpclassInv)'
  <2> SUFFICES ASSUME machine = "opclass" => OpclassInv, [Next]_vars, machine' = "opclass"
               PROVE  OpclassInv'
    OBVIOUS
  <2>1. CASE Opclass!Next
    BY <2>1, OpclassMoves, OpclassStepInv
  <2>2. CASE UNCHANGED opclassVars
    BY <2>2, OpclassMoves
    DEF opclassVars, OpclassInv, Opclass!Stored, Opclass!HasNormalization
  <2> QED BY <2>1, <2>2, OpclassMoves
<1>3. (machine = "opclass" => OpclassInv) => ScanOrderIsOperators
  <2> SUFFICES ASSUME OpclassInv PROVE Opclass!ScanOrderIsOperators
    BY DEF ScanOrderIsOperators
  <2> SUFFICES ASSUME NEW q, opclass = "hvector_cosine_ops" => q # Opclass!Zero,
                      NEW e \in index, NEW f \in index
               PROVE  Opclass!Before(Opclass!VectorDistance(e.stored, Opclass!ScanValue(q)),
                                     Opclass!VectorDistance(f.stored, Opclass!ScanValue(q)))
                        <=> Opclass!Before(Opclass!Operator(Opclass!Raw(e.row), Opclass!Raw(q)),
                                           Opclass!Operator(Opclass!Raw(f.row), Opclass!Raw(q)))
    BY DEF Opclass!ScanOrderIsOperators
  <2> QED BY DistancesAgree
<1> QED BY <1>1, <1>2, <1>3, PTL DEF Spec
-----------------------------------------------------------------------------
(* Lists and clusters: IvfflatOpclass.                                     *)

\* A row is in the list the build or an insert has found for its stored form, and the
\* centers of the k-means have a direction.
ClustersInv ==
    /\ opclass \in Opclass!Opclasses
    /\ sampled => \E dirs \in [1 .. ListCount -> Opclass!Vectors \ {Opclass!Zero}] :
                      centers = [c \in 1 .. ListCount |-> Opclass!Center(dirs[c], TRUE)]
    /\ \A e \in index : e.row \in Opclass!Vectors /\ e.list = Opclass!ListOf(Opclass!Stored(e.row))

LEMMA ClustersInitInv == ASSUME Opclass!Init PROVE ClustersInv
<1>1. PICK dirs \in [1 .. ListCount -> Opclass!Vectors \ {Opclass!Zero}] :
        centers = [c \in 1 .. ListCount |-> Opclass!Center(dirs[c], sampled)]
  BY DEF Opclass!Init
<1>2. opclass \in Opclass!Opclasses /\ index = {}
  BY DEF Opclass!Init
<1>3. sampled => centers = [c \in 1 .. ListCount |-> Opclass!Center(dirs[c], TRUE)]
  <2>1. sampled \in BOOLEAN
    BY DEF Opclass!Init
  <2>2. CASE sampled = TRUE
    BY <1>1, <2>2
  <2> QED BY <2>1, <2>2
<1> QED BY <1>1, <1>2, <1>3 DEF ClustersInv

\* What the class and the centers make of a row does not change.
LEMMA SameLists ==
    ASSUME opclass' = opclass, centers' = centers, NEW v
    PROVE  (Opclass!ListOf(Opclass!Stored(v)))' = Opclass!ListOf(Opclass!Stored(v))
<1>1. \A x, y : Opclass!VectorDistance(x, y)' = Opclass!VectorDistance(x, y)
  BY DEF Opclass!VectorDistance
<1>2. Opclass!Stored(v)' = Opclass!Stored(v)
  BY DEF Opclass!Stored, Opclass!HasNormalization
<1> QED BY <1>1, <1>2 DEF Opclass!ListOf
LEMMA ClustersStepInv == ASSUME ClustersInv, Opclass!Next PROVE ClustersInv'
<1>1. PICK v \in Opclass!Vectors : Opclass!Insert(v)
  BY DEF Opclass!Next
<1>2. opclass' = opclass /\ sampled' = sampled /\ centers' = centers
  BY <1>1 DEF Opclass!Insert
<1>3. PICK new : new = [row |-> v, stored |-> Opclass!Stored(v),
                        list |-> Opclass!ListOf(Opclass!Stored(v))]
  OBVIOUS
<1>4. index' = index \/ index' = index \cup {new}
  BY <1>1, <1>3 DEF Opclass!Insert
<1>5. new.row = v /\ new.list = Opclass!ListOf(Opclass!Stored(new.row))
  BY <1>3
<1>6. \A e \in index' : e.row \in Opclass!Vectors /\ e.list = Opclass!ListOf(Opclass!Stored(e.row))
  BY <1>1, <1>4, <1>5 DEF ClustersInv
<1>7. \A e \in index' : e.list = Opclass!ListOf(Opclass!Stored(e.row))'
  BY <1>2, <1>6, SameLists
<1> QED BY <1>2, <1>6, <1>7 DEF ClustersInv, Opclass!Vectors, Opclass!Center, Opclass!HasKmeansNormalization,
                                Opclass!HasNormalization

\* Inner products are sums.
LEMMA DotIsSum ==
    ASSUME NEW x \in Opclass!Vectors, NEW y \in Opclass!Vectors
    PROVE  Opclass!Dot(x, y) = SumOn([k \in 1 .. Dim |-> x[k] * y[k]], 1 .. Dim)
<1> DEFINE S == 1 .. Dim
           F == [k \in S |-> x[k] * y[k]]
           Eq(f) == f = [s \in SUBSET S |->
                            IF s = {} THEN 0
                            ELSE x[CHOOSE k \in s : TRUE] * y[CHOOSE k \in s : TRUE]
                                    + f[s \ {CHOOSE k \in s : TRUE}]]
           g == CHOOSE f : Eq(f)
<1>1. Opclass!Dot(x, y) = g[S]
  BY Zenon DEF Opclass!Dot, Opclass!MapThenSumSet, Opclass!MapThenFoldSet
<1>2. ASSUME NEW f PROVE Eq(f) <=> Sums(f, F, S)
  <2>1. \A s \in SUBSET S : s # {} => F[Chosen(s)] = x[Chosen(s)] * y[Chosen(s)]
    BY ChosenIn
  <2>2. \A s \in SUBSET S : SumsBy(f, F, s) = IF s = {} THEN 0 ELSE x[Chosen(s)] * y[Chosen(s)] + f[s \ {Chosen(s)}]
    <3> HIDE DEF F
    <3> QED BY <2>1 DEF SumsBy
  <2>3. [s \in SUBSET S |-> SumsBy(f, F, s)]
            = [s \in SUBSET S |-> IF s = {} THEN 0 ELSE x[Chosen(s)] * y[Chosen(s)] + f[s \ {Chosen(s)}]]
    <3> HIDE DEF F
    <3> QED BY <2>2
  <2> HIDE DEF F
  <2> QED BY <2>3 DEF Sums, Chosen
<1>3. IsFiniteSet(S)
  BY ListsAssumption, FS_Interval
<1> HIDE DEF Eq, F, S
<1>4. Eq(g)
  BY <1>2, <1>3, SumsExist
<1> HIDE DEF g
<1>5. g[S] = SumOn(F, S)
  BY <1>2, <1>3, <1>4, SumIsSumOn
<1> QED BY <1>1, <1>5 DEF F, S

\* Vectors with a direction: squared norms are positive, and the Cauchy-Schwarz
\* inequality bounds the inner product.
LEMMA DotsAre ==
    ASSUME NEW x \in Opclass!Vectors, NEW y \in Opclass!Vectors, y # Opclass!Zero
    PROVE  /\ Opclass!Dot(x, y) \in Int /\ Opclass!Dot(x, x) \in Int
           /\ Opclass!Dot(y, y) \in Int /\ Opclass!Dot(y, y) > 0
           /\ Opclass!Dot(x, y) * Opclass!Dot(x, y) <= Opclass!Dot(x, x) * Opclass!Dot(y, y)
<1> DEFINE S == 1 .. Dim
           YY == [k \in S |-> y[k] * y[k]]
           XY == [k \in S |-> x[k] * y[k]]
           XX == [k \in S |-> x[k] * x[k]]
<1>1. IsFiniteSet(S) /\ \A k \in S : x[k] \in Int /\ y[k] \in Int
  <2>1. \A k \in S : x[k] \in Int /\ y[k] \in Int
    BY ListsAssumption DEF Opclass!Vectors
  <2>2. IsFiniteSet(S)
    BY ListsAssumption, FS_Interval
  <2> QED BY <2>1, <2>2
<1>2. PICK k \in S : y[k] # 0
  BY DEF Opclass!Vectors, Opclass!Zero
<1>3. /\ Opclass!Dot(x, x) = SumOn(XX, S) /\ Opclass!Dot(x, y) = SumOn(XY, S)
      /\ Opclass!Dot(y, y) = SumOn(YY, S)
  BY DotIsSum
<1> HIDE DEF S
<1>4. \A j \in S : /\ XX[j] \in Int /\ XY[j] \in Int /\ YY[j] \in Int /\ YY[j] >= 0
                   /\ YY[j] = y[j] * y[j]
  <2>1. \A p, q \in Int : p * q \in Int /\ q * q >= 0
    OBVIOUS
  <2> QED BY <1>1, <2>1
<1>5. YY[k] > 0
  <2>1. \A q \in Int : q # 0 => q * q > 0
    OBVIOUS
  <2> QED BY <1>1, <1>2, <1>4, <2>1
<1>6. SumOn(XY, S) * SumOn(XY, S) <= SumOn(XX, S) * SumOn(YY, S) /\ SumOn(YY, S) > 0
  <2>1. SumOn(YY, S) > 0
    <3> HIDE DEF YY
    <3> QED BY <1>1, <1>4, <1>5, SumOnPositive
  <2> QED BY <1>1, <2>1, CauchySchwarz
<1> HIDE DEF XX, XY, YY
<1>7. SumOn(XX, S) \in Int /\ SumOn(XY, S) \in Int /\ SumOn(YY, S) \in Int
  BY <1>1, <1>4, SumOnAdds
<1> QED BY <1>3, <1>6, <1>7
\* The spherical distance of normalized vectors is their negative inner product: there
\* is nothing to clamp.
LEMMA SphericalIs ==
    ASSUME NEW x \in Opclass!Vectors, x # Opclass!Zero, NEW y \in Opclass!Vectors, y # Opclass!Zero
    PROVE  Opclass!hvector_spherical_distance([v |-> x, n |-> Opclass!Dot(x, x)], [v |-> y, n |-> Opclass!Dot(y, y)])
             = <<-Opclass!Square(Opclass!Dot(x, y)), Opclass!Dot(x, x) * Opclass!Dot(y, y)>>
<1> DEFINE p == Opclass!Dot(x, y)
           n == Opclass!Dot(x, x)
           m == Opclass!Dot(y, y)
           d == <<-Opclass!Square(p), n * m>>
<1>1. p \in Int /\ n \in Int /\ m \in Int /\ p * p <= n * m
  BY DotsAre
<1>2. Opclass!hvector_negative_inner_product([v |-> x, n |-> n], [v |-> y, n |-> m]) = d
  BY DEF Opclass!hvector_negative_inner_product
<1>3. Opclass!hvector_spherical_distance([v |-> x, n |-> n], [v |-> y, n |-> m])
        = IF Opclass!Before(<<1, 1>>, d) THEN <<1, 1>>
          ELSE IF Opclass!Before(d, <<-1, 1>>) THEN <<-1, 1>> ELSE d
  BY <1>2 DEF Opclass!hvector_spherical_distance
<1> HIDE DEF p, n, m
<1>4. \A q \in Int : Opclass!Square(q) = q * q \/ Opclass!Square(q) = -(q * q)
  <2>1. \A q \in Int : q * (-q) = -(q * q)
    OBVIOUS
  <2> QED BY <2>1 DEF Opclass!Square, Opclass!Abs
<1>5. /\ Opclass!Square(p) \in Int /\ n * m \in Int
      /\ -(n * m) <= -Opclass!Square(p) /\ -Opclass!Square(p) <= n * m
  <2>1. p * p \in Int /\ p * p >= 0 /\ n * m \in Int
    BY <1>1
  <2> QED BY <1>1, <1>4, <2>1
<1>6. ~Opclass!Before(<<1, 1>>, d) /\ ~Opclass!Before(d, <<-1, 1>>)
  BY <1>5 DEF Opclass!Before
<1> HIDE DEF d
<1> QED BY <1>3, <1>6 DEF d, p, n, m

\* The order of the support functions of the index is that of the k-means.
LEMMA SameOrder ==
    ASSUME ClustersInv, NEW v \in Opclass!Vectors, v # Opclass!Zero,
           NEW x \in Opclass!Vectors, x # Opclass!Zero, NEW y \in Opclass!Vectors, y # Opclass!Zero
    PROVE  Opclass!Before(Opclass!VectorDistance(Opclass!Stored(v), Opclass!Center(x, TRUE)),
                          Opclass!VectorDistance(Opclass!Stored(v), Opclass!Center(y, TRUE)))
             <=> Opclass!Before(Opclass!KmeansDistance(Opclass!Sample(v), Opclass!Center(x, TRUE)),
                                Opclass!KmeansDistance(Opclass!Sample(v), Opclass!Center(y, TRUE)))
<1> DEFINE Normal(z) == [v |-> z, n |-> Opclass!Dot(z, z)]
           n == Opclass!Dot(v, v)
           p(z) == -Opclass!Square(Opclass!Dot(v, z))
           m(z) == Opclass!Dot(z, z)
<1>1. CASE opclass = "hvector_l2_ops"
  BY <1>1
  DEF Opclass!VectorDistance, Opclass!KmeansDistance, Opclass!Stored, Opclass!Sample,
      Opclass!HasNormalization, Opclass!HasKmeansNormalization, Opclass!hvector_l2_distance
<1>2. ASSUME opclass # "hvector_l2_ops", NEW z \in Opclass!Vectors, z # Opclass!Zero
      PROVE  /\ Opclass!Center(z, TRUE) = Normal(z)
             /\ Opclass!KmeansDistance(Opclass!Sample(v), Opclass!Center(z, TRUE)) = <<p(z), n * m(z)>>
  <2>1. opclass \in {"hvector_ip_ops", "hvector_cosine_ops"}
    BY <1>2 DEF ClustersInv, Opclass!Opclasses
  <2>2. Opclass!HasKmeansNormalization
    BY <2>1 DEF Opclass!HasKmeansNormalization
  <2>3. Opclass!Center(z, TRUE) = Normal(z) /\ Opclass!Sample(v) = Normal(v)
    BY <1>2, <2>2 DEF Opclass!Center, Opclass!Sample, Opclass!hvector_l2_normalize, Opclass!Raw
  <2>4. Opclass!KmeansDistance(Normal(v), Normal(z)) = Opclass!hvector_spherical_distance(Normal(v), Normal(z))
    BY <1>2 DEF Opclass!KmeansDistance
  <2> QED BY <1>2, <2>3, <2>4, SphericalIs
<1>3. ASSUME opclass = "hvector_cosine_ops", NEW z \in Opclass!Vectors, z # Opclass!Zero
      PROVE  Opclass!VectorDistance(Opclass!Stored(v), Opclass!Center(z, TRUE)) = <<p(z), n * m(z)>>
  <2>1. Opclass!Stored(v) = Normal(v)
    BY <1>3 DEF Opclass!Stored, Opclass!HasNormalization, Opclass!hvector_l2_normalize, Opclass!Raw
  <2>2. Opclass!Center(z, TRUE) = Normal(z)
    BY <1>2, <1>3
  <2>3. Opclass!VectorDistance(Normal(v), Normal(z)) = Opclass!hvector_negative_inner_product(Normal(v), Normal(z))
    BY <1>3 DEF Opclass!VectorDistance
  <2>4. Opclass!hvector_negative_inner_product(Normal(v), Normal(z)) = <<p(z), n * m(z)>>
    BY DEF Opclass!hvector_negative_inner_product
  <2> HIDE DEF Normal, p, n, m
  <2> QED BY <2>1, <2>2, <2>3, <2>4
<1>4. ASSUME opclass = "hvector_ip_ops", NEW z \in Opclass!Vectors, z # Opclass!Zero
      PROVE  Opclass!VectorDistance(Opclass!Stored(v), Opclass!Center(z, TRUE)) = <<p(z), m(z)>>
  <2>1. Opclass!Stored(v) = [v |-> v, n |-> 1]
    BY <1>4 DEF Opclass!Stored, Opclass!HasNormalization, Opclass!Raw
  <2>2. Opclass!Center(z, TRUE) = Normal(z)
    BY <1>2, <1>4
  <2>3. 1 * m(z) = m(z)
    BY <1>4, DotsAre
  <2>4. Opclass!VectorDistance([v |-> v, n |-> 1], Normal(z))
          = Opclass!hvector_negative_inner_product([v |-> v, n |-> 1], Normal(z))
    BY <1>4 DEF Opclass!VectorDistance
  <2>5. Opclass!hvector_negative_inner_product([v |-> v, n |-> 1], Normal(z)) = <<p(z), 1 * m(z)>>
    BY DEF Opclass!hvector_negative_inner_product
  <2> HIDE DEF Normal, p, n, m
  <2> QED BY <2>1, <2>2, <2>3, <2>4, <2>5
<1>5. CASE opclass = "hvector_cosine_ops"
  BY <1>2, <1>3, <1>5
<1>6. CASE opclass = "hvector_ip_ops"
  <2>1. \A q \in Int : Opclass!Square(q) \in Int
    BY DEF Opclass!Square, Opclass!Abs
  <2>2. /\ n \in Int /\ n > 0 /\ m(x) \in Int /\ m(y) \in Int
        /\ p(x) \in Int /\ p(y) \in Int
    BY <2>1, DotsAre
  <2>3. /\ Opclass!VectorDistance(Opclass!Stored(v), Opclass!Center(x, TRUE)) = <<p(x), m(x)>>
        /\ Opclass!VectorDistance(Opclass!Stored(v), Opclass!Center(y, TRUE)) = <<p(y), m(y)>>
        /\ Opclass!KmeansDistance(Opclass!Sample(v), Opclass!Center(x, TRUE)) = <<p(x), n * m(x)>>
        /\ Opclass!KmeansDistance(Opclass!Sample(v), Opclass!Center(y, TRUE)) = <<p(y), n * m(y)>>
    BY <1>2, <1>4, <1>6
  <2> HIDE DEF n, p, m
  <2>4. p(x) * m(y) < p(y) * m(x) <=> p(x) * (n * m(y)) < p(y) * (n * m(x))
    <3>1. \A a, b, c \in Int : c > 0 => (a < b <=> c * a < c * b)
      OBVIOUS
    <3>2. /\ p(x) * (n * m(y)) = n * (p(x) * m(y)) /\ p(y) * (n * m(x)) = n * (p(y) * m(x))
          /\ p(x) * m(y) \in Int /\ p(y) * m(x) \in Int
      BY <2>2
    <3> QED BY <2>2, <3>1, <3>2
  <2>5. /\ Opclass!Before(<<p(x), m(x)>>, <<p(y), m(y)>>) <=> p(x) * m(y) < p(y) * m(x)
        /\ Opclass!Before(<<p(x), n * m(x)>>, <<p(y), n * m(y)>>) <=> p(x) * (n * m(y)) < p(y) * (n * m(x))
    BY DEF Opclass!Before
  <2> QED BY <2>3, <2>4, <2>5
<1> QED BY <1>1, <1>5, <1>6 DEF ClustersInv, Opclass!Opclasses

LEMMA NearestIsSame ==
    ASSUME NEW f, NEW g, DOMAIN f = DOMAIN g,
           \A c, d \in DOMAIN f : Opclass!Before(f[c], f[d]) <=> Opclass!Before(g[c], g[d])
    PROVE  Opclass!NearestCenter(f) = Opclass!NearestCenter(g)
<1>1. {c \in DOMAIN f : \A e \in DOMAIN f : ~Opclass!Before(f[e], f[c])}
        = {c \in DOMAIN g : \A e \in DOMAIN g : ~Opclass!Before(g[e], g[c])}
  OBVIOUS
<1> QED BY <1>1 DEF Opclass!NearestCenter

LEMMA ClustersAre == ASSUME ClustersInv PROVE Opclass!ListsAreClusters
<1> SUFFICES ASSUME sampled, NEW e \in index, e.row # Opclass!Zero
    PROVE  e.list = Opclass!NearestCenter(
               [c \in 1 .. ListCount |-> Opclass!KmeansDistance(Opclass!Sample(e.row), centers[c])])
  BY DEF Opclass!ListsAreClusters, Opclass!hvector_norm_nonzero
<1>1. PICK dirs \in [1 .. ListCount -> Opclass!Vectors \ {Opclass!Zero}] :
        centers = [c \in 1 .. ListCount |-> Opclass!Center(dirs[c], TRUE)]
  BY DEF ClustersInv
<1> DEFINE row == e.row
           f == [c \in 1 .. ListCount |-> Opclass!VectorDistance(Opclass!Stored(row), centers[c])]
           g == [c \in 1 .. ListCount |-> Opclass!KmeansDistance(Opclass!Sample(row), centers[c])]
<1>2. row \in Opclass!Vectors /\ row # Opclass!Zero /\ e.list = Opclass!NearestCenter(f)
  BY DEF ClustersInv, Opclass!ListOf
<1> HIDE DEF row
<1>3. ASSUME NEW c \in 1 .. ListCount, NEW d \in 1 .. ListCount
      PROVE  Opclass!Before(f[c], f[d]) <=> Opclass!Before(g[c], g[d])
  <2>1. /\ dirs[c] \in Opclass!Vectors /\ dirs[c] # Opclass!Zero
        /\ dirs[d] \in Opclass!Vectors /\ dirs[d] # Opclass!Zero
        /\ centers[c] = Opclass!Center(dirs[c], TRUE) /\ centers[d] = Opclass!Center(dirs[d], TRUE)
    BY <1>1
  <2> QED BY <1>2, <2>1, SameOrder
<1>4. DOMAIN f = 1 .. ListCount /\ DOMAIN g = 1 .. ListCount
  OBVIOUS
<1> HIDE DEF f, g
<1>5. Opclass!NearestCenter(f) = Opclass!NearestCenter(g)
  BY <1>3, <1>4, NearestIsSame
<1> QED BY <1>2, <1>5 DEF g, row

\* With the centers of a k-means, the list of a row is the one of the center the k-means
\* would have assigned it to, whichever of the support functions of its class
\* normalizes what: for all vectors but the zero vector, of any dimension.
THEOREM RowsAreInTheirClusters == Spec => []ListsAreClusters
<1>1. Init => (machine = "opclass" => ClustersInv)
  BY ClustersInitInv DEF Init
<1>2. (machine = "opclass" => ClustersInv) /\ [Next]_vars => (machine = "opclass" => ClustersInv)'
  <2> SUFFICES ASSUME machine = "opclass" => ClustersInv, [Next]_vars, machine' = "opclass"
               PROVE  ClustersInv'
    OBVIOUS
  <2>1. CASE Opclass!Next
    BY <2>1, OpclassMoves, ClustersStepInv
  <2>2. CASE UNCHANGED opclassVars
    <3>1. /\ ClustersInv
          /\ opclass' = opclass /\ sampled' = sampled /\ centers' = centers /\ index' = index
      BY <2>2, OpclassMoves DEF opclassVars
    <3>2. \A e \in index' : e.list = Opclass!ListOf(Opclass!Stored(e.row))'
      BY <3>1, SameLists DEF ClustersInv
    <3> QED BY <3>1, <3>2 DEF ClustersInv, Opclass!Vectors, Opclass!Center, Opclass!HasKmeansNormalization,
                              Opclass!HasNormalization
  <2> QED BY <2>1, <2>2, OpclassMoves
<1>3. (machine = "opclass" => ClustersInv) => ListsAreClusters
  BY ClustersAre DEF ListsAreClusters
<1> QED BY <1>1, <1>2, <1>3, PTL DEF Spec
-----------------------------------------------------------------------------
(* The sample: IvfflatSampling.                                            *)

\* The rows of the chosen blocks before a place of the scan, those of them that take
\* part, and how many there are up to a row.
UpTo(s, r) == s[1] < r[1] \/ (s[1] = r[1] /\ s[2] <= r[2])
RowsBefore(h, ch, b, o) ==
    {r \in ch \X (Nat \ {0}) : r[2] <= Len(h[r[1]]) /\ (r[1] < b \/ (r[1] = b /\ r[2] < o))}
TakesPart(h, norm, r) == h[r[1]][r[2]] = "vector" \/ (h[r[1]][r[2]] = "zero" /\ ~norm)
CandidatesBefore(h, norm, ch, b, o) == {r \in RowsBefore(h, ch, b, o) : TakesPart(h, norm, r)}
PositionIn(C, r) == Cardinality({s \in C : UpTo(s, r)})

\* The place in the scan of the n-th row that replaces a sample
Steps(drs) == [k \in 1 .. Len(drs) |-> drs[k] + 1]
Place(drs, n) == MaxSamples + SumOn(Steps(drs), 1 .. n)
TakenBy(drs) == {Place(drs, n) : n \in DOMAIN drs}

\* The scan is at a row of a chosen block, or before the first.
ScanInv(h, ch, b, o) ==
    /\ h \in Seq(Seq({"null", "zero", "vector"}))
    /\ ch \in SUBSET (1 .. Len(h))
    /\ b \in {0} \cup ch /\ o \in Nat \ {0} /\ (b = 0 => o = 1)

\* The sample of the candidates: until it is full, all of them and nothing is drawn;
\* then the row after the counted one is the next to be taken, all taken before it
\* are candidates, and the last of these is in the sample.
ReservoirInv(C, smp, skip, drs) ==
    /\ drs \in Seq(Nat) /\ skip \in Int /\ skip >= -1
    /\ smp \in Seq(C) /\ \A j, k \in DOMAIN smp : smp[j] = smp[k] => j = k
    /\ Len(smp) = IF Cardinality(C) <= MaxSamples THEN Cardinality(C) ELSE MaxSamples
    /\ Len(smp) < MaxSamples => drs = <<>> /\ skip = -1
    /\ Len(smp) = MaxSamples => Place(drs, Len(drs)) = Cardinality(C) + skip + 1
    /\ \A n \in 0 .. Len(drs) : n < Len(drs) => Place(drs, n) <= Cardinality(C)
    /\ \A k \in DOMAIN smp : PositionIn(C, smp[k]) \in (1 .. MaxSamples) \cup TakenBy(drs)
    /\ \A r \in C :
        PositionIn(C, r) \in TakenBy(drs)
            /\ (\A n \in TakenBy(drs) : n <= PositionIn(C, r) \/ n > Cardinality(C))
        => \E k \in DOMAIN smp : smp[k] = r

SamplingInv ==
    /\ ScanInv(heap, chosen, block, offset)
    /\ ReservoirInv(CandidatesBefore(heap, normalize, chosen, block, offset), samples, skip_count, draws)

\* Drawing one more number adds a place after the others.
LEMMA PlaceOfNone == ASSUME NEW drs PROVE Place(drs, 0) = MaxSamples
<1>1. 1 .. 0 = {}
  OBVIOUS
<1>2. SumOn(Steps(drs), 1 .. 0) = 0
  BY <1>1, SumOnEmpty
<1> QED BY <1>2, ListsAssumption DEF Place

LEMMA Places ==
    ASSUME NEW drs \in Seq(Nat), NEW s \in Nat
    PROVE  /\ Append(drs, s) \in Seq(Nat) /\ Len(Append(drs, s)) = Len(drs) + 1
           /\ \A n \in 0 .. Len(drs) : /\ Place(drs, n) \in Int
                                       /\ Place(Append(drs, s), n) = Place(drs, n)
           /\ Place(Append(drs, s), Len(drs) + 1) = Place(drs, Len(drs)) + s + 1
<1> DEFINE e == Append(drs, s)
           N == Len(drs)
           F == Steps(drs)
           G == Steps(e)
<1>1. /\ e \in Seq(Nat) /\ Len(e) = N + 1 /\ N \in Nat
      /\ \A k \in 1 .. N : e[k] = drs[k] /\ drs[k] \in Nat
      /\ e[N + 1] = s
  OBVIOUS
<1> HIDE DEF e, N
<1>2. /\ \A k \in 1 .. N : F[k] = drs[k] + 1 /\ F[k] \in Int /\ G[k] = F[k]
      /\ G[N + 1] = s + 1
      /\ \A k \in 1 .. N + 1 : G[k] \in Int
  <2>1. \A k \in 1 .. N + 1 : G[k] = e[k] + 1
    BY <1>1 DEF Steps
  <2>2. \A k \in 1 .. N : F[k] = drs[k] + 1
    BY <1>1 DEF Steps, N
  <2>3. \A k \in 1 .. N : k \in 1 .. N + 1 /\ G[k] = F[k] /\ F[k] \in Int
    <3> TAKE k \in 1 .. N
    <3>1. k \in 1 .. N + 1
      BY <1>1
    <3>2. drs[k] \in Nat /\ G[k] = e[k] + 1 /\ F[k] = drs[k] + 1 /\ e[k] = drs[k]
      BY <1>1, <2>1, <2>2, <3>1
    <3> HIDE DEF F, G
    <3> QED BY <3>1, <3>2
  <2>4. N + 1 \in 1 .. N + 1 /\ G[N + 1] = s + 1
    <3>1. N + 1 \in 1 .. N + 1
      BY <1>1
    <3> HIDE DEF G
    <3> QED BY <1>1, <2>1, <3>1
  <2>5. \A k \in 1 .. N + 1 : k \in 1 .. N \/ k = N + 1
    BY <1>1
  <2>6. s + 1 \in Int
    OBVIOUS
  <2> HIDE DEF F, G
  <2> QED BY <2>2, <2>3, <2>4, <2>5, <2>6
<1> HIDE DEF F, G
<1>3. ASSUME NEW n \in 0 .. N
      PROVE  SumOn(F, 1 .. n) \in Int /\ SumOn(G, 1 .. n) = SumOn(F, 1 .. n)
  <2>1. n \in Int /\ \A k \in 1 .. n : k \in 1 .. N
    BY <1>1
  <2>2. IsFiniteSet(1 .. n)
    BY <2>1, FS_Interval
  <2>3. \A k \in 1 .. n : F[k] \in Int /\ G[k] = F[k]
    BY <1>2, <2>1
  <2> QED BY <2>2, <2>3, SumOnAdds, SumOnAgrees
<1>4. SumOn(G, 1 .. N + 1) = SumOn(F, 1 .. N) + (s + 1)
  <2>1. IsFiniteSet(1 .. N + 1) /\ N + 1 \in 1 .. N + 1
    BY <1>1, FS_Interval
  <2>2. (1 .. N + 1) \ {N + 1} = 1 .. N
    BY <1>1
  <2>3. SumOn(G, 1 .. N + 1) = G[N + 1] + SumOn(G, (1 .. N + 1) \ {N + 1})
    BY <1>2, <2>1, SumOnAdds
  <2>4. N \in 0 .. N
    BY <1>1
  <2>5. SumOn(G, 1 .. N) = SumOn(F, 1 .. N) /\ SumOn(F, 1 .. N) \in Int
    BY <1>3, <2>4
  <2>6. G[N + 1] = s + 1
    BY <1>2
  <2>7. SumOn(G, 1 .. N + 1) = (s + 1) + SumOn(F, 1 .. N)
    BY <2>2, <2>3, <2>5, <2>6, Zenon
  <2> QED BY <2>5, <2>7
<1>5. \A n \in 0 .. N : Place(drs, n) \in Int /\ Place(e, n) = Place(drs, n)
  BY <1>3, ListsAssumption DEF Place, F, G
<1>6. Place(e, N + 1) = Place(drs, N) + s + 1
  <2>1. N \in 0 .. N
    BY <1>1
  <2>2. SumOn(F, 1 .. N) \in Int
    BY <1>3, <2>1
  <2>3. Place(e, N + 1) = MaxSamples + SumOn(G, 1 .. N + 1) /\ Place(drs, N) = MaxSamples + SumOn(F, 1 .. N)
    BY DEF Place, F, G
  <2> QED BY <1>4, <2>2, <2>3, ListsAssumption
<1> QED BY <1>1, <1>5, <1>6 DEF e, N
\* A row that comes after all candidates
After(C, new) == \A r \in C : r[1] < new[1] \/ (r[1] = new[1] /\ r[2] < new[2])
Numbered(C) == IsFiniteSet(C) /\ \A r \in C : r[1] \in Nat /\ r[2] \in Nat

LEMMA Positions ==
    ASSUME NEW C, Numbered(C)
    PROVE  /\ Cardinality(C) \in Nat
           /\ \A r \in C : PositionIn(C, r) \in Nat /\ PositionIn(C, r) <= Cardinality(C)
<1>1. \A r : {s \in C : UpTo(s, r)} \in SUBSET C
  OBVIOUS
<1>2. \A s \in SUBSET C : IsFiniteSet(s) /\ Cardinality(s) <= Cardinality(C)
  BY FS_Subset DEF Numbered
<1>3. \A s : IsFiniteSet(s) => Cardinality(s) \in Nat
  BY FS_CardinalityType
<1> QED BY <1>1, <1>2, <1>3 DEF PositionIn, Numbered

LEMMA NewPosition ==
    ASSUME NEW C, Numbered(C), NEW new, After(C, new), new[1] \in Nat, new[2] \in Nat
    PROVE  /\ new \notin C /\ Numbered(C \cup {new})
           /\ Cardinality(C \cup {new}) = Cardinality(C) + 1
           /\ \A r \in C : PositionIn(C \cup {new}, r) = PositionIn(C, r)
           /\ PositionIn(C \cup {new}, new) = Cardinality(C) + 1
<1> DEFINE D == C \cup {new}
<1>1. new \notin C
  BY DEF After
<1>2. Numbered(D) /\ Cardinality(D) = Cardinality(C) + 1
  BY <1>1, FS_AddElement DEF Numbered
<1>3. ASSUME NEW r \in C PROVE {s \in D : UpTo(s, r)} = {s \in C : UpTo(s, r)}
  <2>1. ~UpTo(new, r)
    <3>1. r[1] \in Nat /\ r[2] \in Nat /\ (r[1] < new[1] \/ (r[1] = new[1] /\ r[2] < new[2]))
      BY DEF Numbered, After
    <3> QED BY <3>1 DEF UpTo
  <2> QED BY <2>1
<1>4. {s \in D : UpTo(s, new)} = D
  <2>1. ASSUME NEW r \in C PROVE UpTo(r, new)
    <3>1. r[1] \in Nat /\ r[2] \in Nat /\ (r[1] < new[1] \/ (r[1] = new[1] /\ r[2] < new[2]))
      BY DEF Numbered, After
    <3> QED BY <3>1 DEF UpTo
  <2>2. UpTo(new, new)
    BY DEF UpTo
  <2> QED BY <2>1, <2>2
<1> HIDE DEF D
<1>5. \A r \in C : PositionIn(D, r) = PositionIn(C, r)
  BY <1>3 DEF PositionIn
<1>6. PositionIn(D, new) = Cardinality(D)
  BY <1>4 DEF PositionIn
<1> QED BY <1>1, <1>2, <1>5, <1>6 DEF D

\* Drawing a number changes no sample.
LEMMA DrawInv ==
    ASSUME NEW C, Numbered(C), NEW smp, NEW skip, NEW drs, NEW s \in Nat,
           ReservoirInv(C, smp, skip, drs), Len(smp) = MaxSamples, skip < 0
    PROVE  ReservoirInv(C, smp, s, Append(drs, s))
<1> DEFINE c == Cardinality(C)
           e == Append(drs, s)
           N == Len(drs)
<1>1. /\ drs \in Seq(Nat) /\ N \in Nat /\ skip = -1 /\ c \in Nat
      /\ Place(drs, N) = c
      /\ \A n \in 0 .. N : n < N => Place(drs, n) <= c
  <2>1. drs \in Seq(Nat) /\ N \in Nat
    BY DEF ReservoirInv
  <2>2. skip = -1
    BY DEF ReservoirInv
  <2>3. c \in Nat
    BY Positions
  <2>4. Place(drs, N) = c + skip + 1
    BY DEF ReservoirInv
  <2>5. \A n \in 0 .. N : n < N => Place(drs, n) <= c
    BY DEF ReservoirInv
  <2> HIDE DEF c, N
  <2> QED BY <2>1, <2>2, <2>3, <2>4, <2>5
<1>2. /\ e \in Seq(Nat) /\ Len(e) = N + 1
      /\ \A n \in 0 .. N : Place(e, n) = Place(drs, n)
      /\ Place(e, N + 1) = c + s + 1
  BY <1>1, Places
<1>3. DOMAIN drs = 1 .. N /\ DOMAIN e = 1 .. N + 1
  BY <1>1, <1>2
<1> HIDE DEF e, N, c
<1>4. \A p : p \in TakenBy(e) <=> p \in TakenBy(drs) \/ p = c + s + 1
  <2>1. \A n \in 1 .. N : n \in 1 .. N + 1 /\ n \in 0 .. N
    BY <1>1
  <2>2. \A n \in 1 .. N + 1 : n \in 1 .. N \/ n = N + 1
    BY <1>1
  <2>3. N + 1 \in 1 .. N + 1
    BY <1>1
  <2> QED BY <1>2, <1>3, <2>1, <2>2, <2>3 DEF TakenBy
<1>5. \A n \in 0 .. N + 1 : n < N + 1 => Place(e, n) <= c
  <2> TAKE n \in 0 .. N + 1
  <2>1. n < N + 1 => n \in 0 .. N /\ (n < N \/ n = N)
    BY <1>1
  <2>2. c <= c
    BY <1>1
  <2> QED BY <1>1, <1>2, <2>1, <2>2
<1>6. ASSUME NEW r \in C,
             PositionIn(C, r) \in TakenBy(e),
             \A n \in TakenBy(e) : n <= PositionIn(C, r) \/ n > c
      PROVE  \E k \in DOMAIN smp : smp[k] = r
  <2>1. PositionIn(C, r) <= c /\ PositionIn(C, r) \in Nat
    BY Positions DEF c
  <2>2. PositionIn(C, r) # c + s + 1
    BY <1>1, <2>1
  <2>3. PositionIn(C, r) \in TakenBy(drs)
    BY <1>4, <1>6, <2>2
  <2>4. \A n \in TakenBy(drs) : n <= PositionIn(C, r) \/ n > c
    BY <1>4, <1>6
  <2> QED BY <2>3, <2>4 DEF ReservoirInv, c
<1>7. \A k \in DOMAIN smp : PositionIn(C, smp[k]) \in (1 .. MaxSamples) \cup TakenBy(e)
  BY <1>4 DEF ReservoirInv
<1>8. s \in Int /\ s >= -1
  OBVIOUS
<1> QED BY <1>2, <1>5, <1>6, <1>7, <1>8 DEF ReservoirInv, c, e, N
\* What the sample is, in parts
LEMMA ReservoirParts ==
    ASSUME NEW C, Numbered(C), NEW smp, NEW skip, NEW drs, ReservoirInv(C, smp, skip, drs)
    PROVE  /\ Cardinality(C) \in Nat /\ Len(drs) \in Nat /\ Len(smp) \in Nat /\ skip \in Int /\ skip >= -1
           /\ DOMAIN smp = 1 .. Len(smp) /\ DOMAIN drs = 1 .. Len(drs)
           /\ MaxSamples \in Nat \ {0}
           /\ \A n \in 0 .. Len(drs) : Place(drs, n) \in Int
           /\ \A k \in DOMAIN smp : smp[k] \in C
<1>1. drs \in Seq(Nat) /\ smp \in Seq(C) /\ skip \in Int /\ skip >= -1
  BY DEF ReservoirInv
<1>2. \A n \in 0 .. Len(drs) : Place(drs, n) \in Int
  BY <1>1, Places, 0 \in Nat
<1> QED BY <1>1, <1>2, Positions, ListsAssumption

\* A row is passed over: it is before the next place.
LEMMA PassInv ==
    ASSUME NEW C, Numbered(C), NEW new, After(C, new), new[1] \in Nat, new[2] \in Nat,
           NEW smp, NEW skip, NEW drs,
           ReservoirInv(C, smp, skip, drs), Len(smp) = MaxSamples, skip > 0
    PROVE  ReservoirInv(C \cup {new}, smp, skip - 1, drs)
<1> DEFINE D == C \cup {new}
           c == Cardinality(C)
           N == Len(drs)
<1>1. /\ Numbered(D) /\ Cardinality(D) = c + 1 /\ PositionIn(D, new) = c + 1
      /\ \A r \in C : PositionIn(D, r) = PositionIn(C, r)
  BY NewPosition
<1>2. /\ c \in Nat /\ N \in Nat /\ skip \in Int /\ MaxSamples \in Nat \ {0}
      /\ Len(smp) = MaxSamples /\ DOMAIN drs = 1 .. N
      /\ \A n \in 0 .. N : Place(drs, n) \in Int
      /\ \A k \in DOMAIN smp : smp[k] \in C
  BY ReservoirParts
<1>3. /\ Place(drs, N) = c + skip + 1
      /\ \A n \in 0 .. N : n < N => Place(drs, n) <= c
      /\ smp \in Seq(C)
      /\ MaxSamples = IF c <= MaxSamples THEN c ELSE MaxSamples
  BY DEF ReservoirInv
<1>4. smp \in Seq(D)
  <2>1. C \subseteq D
    OBVIOUS
  <2> HIDE DEF D
  <2> QED BY <1>3, <2>1
<1>5. ASSUME NEW r \in D,
             PositionIn(D, r) \in TakenBy(drs),
             \A n \in TakenBy(drs) : n <= PositionIn(D, r) \/ n > Cardinality(D)
      PROVE  \E k \in DOMAIN smp : smp[k] = r
  <2>1. CASE r = new
    <3>1. PICK n \in 1 .. N : Place(drs, n) = c + 1
      BY <1>1, <1>2, <1>5, <2>1 DEF TakenBy
    <3>2. N \in Nat
      BY <1>2
    <3> HIDE DEF c, N
    <3>3. n \in 0 .. N /\ (n < N \/ n = N)
      BY <3>2
    <3> QED BY <1>2, <1>3, <3>1, <3>3
  <2>2. CASE r # new
    <3>1. r \in C /\ PositionIn(C, r) \in TakenBy(drs)
      BY <1>1, <1>5, <2>2
    <3>2. ASSUME NEW n \in TakenBy(drs) PROVE n <= PositionIn(C, r) \/ n > c
      <4>1. n <= PositionIn(C, r) \/ n > c + 1
        BY <1>1, <1>5, <3>1
      <4>2. n \in Int
        <5>1. \A q \in 1 .. N : q \in 0 .. N
          BY <1>2
        <5> HIDE DEF N
        <5> QED BY <1>2, <5>1 DEF TakenBy
      <4> HIDE DEF c
      <4> QED BY <1>2, <4>1, <4>2
    <3> QED BY <3>1, <3>2 DEF ReservoirInv
  <2> QED BY <2>1, <2>2
<1>6. \A k \in DOMAIN smp : PositionIn(D, smp[k]) \in (1 .. MaxSamples) \cup TakenBy(drs)
  BY <1>1, <1>2 DEF ReservoirInv
<1>7. /\ drs \in Seq(Nat)
      /\ \A j, k \in DOMAIN smp : smp[j] = smp[k] => j = k
  BY DEF ReservoirInv
<1> HIDE DEF D, c
<1>8. \A n \in 0 .. N : n < N => Place(drs, n) <= Cardinality(D)
  <2> TAKE n \in 0 .. N
  <2> SUFFICES ASSUME n < N PROVE Place(drs, n) <= Cardinality(D)
    OBVIOUS
  <2>1. Place(drs, n) <= c /\ Place(drs, n) \in Int
    BY <1>2, <1>3
  <2> HIDE DEF N
  <2> QED BY <1>1, <1>2, <2>1
<1>9. /\ skip - 1 \in Int /\ skip - 1 >= -1
      /\ Len(smp) = IF Cardinality(D) <= MaxSamples THEN Cardinality(D) ELSE MaxSamples
      /\ ~(Len(smp) < MaxSamples)
      /\ Place(drs, N) = Cardinality(D) + (skip - 1) + 1
  <2> HIDE DEF N
  <2> QED BY <1>1, <1>2, <1>3
<1> QED BY <1>1, <1>4, <1>5, <1>6, <1>7, <1>8, <1>9 DEF ReservoirInv, D, N

\* A row is taken: the next place is its own.
LEMMA TakeInv ==
    ASSUME NEW C, Numbered(C), NEW new, After(C, new), new[1] \in Nat, new[2] \in Nat,
           NEW smp, NEW drs, NEW k \in 1 .. MaxSamples,
           ReservoirInv(C, smp, 0, drs), Len(smp) = MaxSamples
    PROVE  ReservoirInv(C \cup {new}, [smp EXCEPT ![k] = new], -1, drs)
<1> DEFINE D == C \cup {new}
           c == Cardinality(C)
           N == Len(drs)
           smp2 == [smp EXCEPT ![k] = new]
<1>1. /\ Numbered(D) /\ Cardinality(D) = c + 1 /\ PositionIn(D, new) = c + 1 /\ new \notin C
      /\ \A r \in C : PositionIn(D, r) = PositionIn(C, r) /\ PositionIn(C, r) <= c /\ PositionIn(C, r) \in Nat
  <2>1. \A r \in C : PositionIn(C, r) <= c /\ PositionIn(C, r) \in Nat
    BY Positions
  <2>2. /\ Numbered(D) /\ Cardinality(D) = c + 1 /\ PositionIn(D, new) = c + 1 /\ new \notin C
        /\ \A r \in C : PositionIn(D, r) = PositionIn(C, r)
    BY NewPosition
  <2> HIDE DEF D, c
  <2> QED BY <2>1, <2>2
<1>2. /\ c \in Nat /\ N \in Nat /\ MaxSamples \in Nat \ {0} /\ DOMAIN drs = 1 .. N
      /\ DOMAIN smp = 1 .. MaxSamples
      /\ \A n \in 0 .. N : Place(drs, n) \in Int
      /\ \A j \in DOMAIN smp : smp[j] \in C
  BY ReservoirParts
<1>3. /\ drs \in Seq(Nat) /\ smp \in Seq(C)
      /\ Place(drs, N) = c + 0 + 1
      /\ \A n \in 0 .. N : n < N => Place(drs, n) <= c
      /\ MaxSamples = IF c <= MaxSamples THEN c ELSE MaxSamples
      /\ \A i1, j \in DOMAIN smp : smp[i1] = smp[j] => i1 = j
      /\ \A j \in DOMAIN smp : PositionIn(C, smp[j]) \in (1 .. MaxSamples) \cup TakenBy(drs)
  BY DEF ReservoirInv
<1>4. /\ smp2 \in Seq(D) /\ Len(smp2) = MaxSamples /\ DOMAIN smp2 = DOMAIN smp
      /\ smp2[k] = new /\ \A j \in DOMAIN smp : j # k => smp2[j] = smp[j]
  <2>1. /\ DOMAIN smp2 = DOMAIN smp /\ smp2[k] = new
        /\ \A j \in DOMAIN smp : j # k => smp2[j] = smp[j]
    BY <1>2
  <2>2. \A j \in 1 .. MaxSamples : smp2[j] \in D
    BY <1>2, <2>1
  <2>3. smp2 = [j \in 1 .. MaxSamples |-> smp2[j]]
    BY <1>2
  <2> HIDE DEF smp2, D
  <2>4. smp2 \in [1 .. MaxSamples -> D]
    BY <2>2, <2>3
  <2>5. smp2 \in Seq(D) /\ Len(smp2) = MaxSamples
    BY <1>2, <2>4, LenProperties, SeqDef
  <2> QED BY <2>1, <2>5
<1> HIDE DEF D, c, smp2
<1>5. N >= 1 /\ c + 1 \in TakenBy(drs)
  <2>1. N # 0
    <3> SUFFICES ASSUME N = 0 PROVE FALSE
      OBVIOUS
    <3>1. Place(drs, 0) = MaxSamples
      BY PlaceOfNone
    <3> HIDE DEF N
    <3> QED BY <1>2, <1>3, <3>1
  <2> HIDE DEF N
  <2>2. N \in 1 .. N
    BY <1>2, <2>1
  <2>3. Place(drs, N) = c + 1
    BY <1>2, <1>3
  <2> QED BY <1>2, <2>1, <2>2, <2>3 DEF TakenBy
<1>6. ASSUME NEW r \in D,
             PositionIn(D, r) \in TakenBy(drs),
             \A n \in TakenBy(drs) : n <= PositionIn(D, r) \/ n > Cardinality(D)
      PROVE  \E j \in DOMAIN smp2 : smp2[j] = r
  <2>1. c + 1 <= PositionIn(D, r)
    <3>1. c + 1 <= PositionIn(D, r) \/ c + 1 > c + 1
      BY <1>1, <1>5, <1>6
    <3> QED BY <1>2, <3>1
  <2>2. r \notin C
    <3> SUFFICES ASSUME r \in C PROVE FALSE
      OBVIOUS
    <3> QED BY <1>1, <1>2, <2>1
  <2>3. r = new
    BY <2>2 DEF D
  <2> QED BY <1>2, <1>4, <2>3
<1>7. \A j \in DOMAIN smp2 : PositionIn(D, smp2[j]) \in (1 .. MaxSamples) \cup TakenBy(drs)
  <2> TAKE j \in DOMAIN smp2
  <2>1. CASE j = k
    BY <1>1, <1>4, <1>5, <2>1
  <2>2. CASE j # k
    <3>1. smp2[j] = smp[j] /\ j \in DOMAIN smp /\ smp[j] \in C
      BY <1>2, <1>4, <2>2
    <3> QED BY <1>1, <1>3, <3>1
  <2> QED BY <2>1, <2>2
<1>8. \A i1, j \in DOMAIN smp2 : smp2[i1] = smp2[j] => i1 = j
  BY <1>1, <1>2, <1>3, <1>4
<1>9. \A n \in 0 .. N : n < N => Place(drs, n) <= Cardinality(D)
  <2> TAKE n \in 0 .. N
  <2> SUFFICES ASSUME n < N PROVE Place(drs, n) <= Cardinality(D)
    OBVIOUS
  <2>1. Place(drs, n) <= c /\ Place(drs, n) \in Int
    BY <1>2, <1>3
  <2> HIDE DEF N
  <2> QED BY <1>1, <1>2, <2>1
<1>10. /\ Len(smp2) = IF Cardinality(D) <= MaxSamples THEN Cardinality(D) ELSE MaxSamples
       /\ ~(Len(smp2) < MaxSamples)
       /\ Place(drs, N) = Cardinality(D) + (-1) + 1
  <2> HIDE DEF N
  <2> QED BY <1>1, <1>2, <1>3, <1>4
<1>11. -1 \in Int /\ -1 >= -1
  OBVIOUS
<1> QED BY <1>1, <1>3, <1>4, <1>6, <1>7, <1>8, <1>9, <1>10, <1>11 DEF ReservoirInv, D, N, smp2

\* A row fills the sample: there are as many candidates as samples, and nothing is drawn.
LEMMA FillInv ==
    ASSUME NEW C, Numbered(C), NEW new, After(C, new), new[1] \in Nat, new[2] \in Nat,
           NEW smp, NEW skip, NEW drs, ReservoirInv(C, smp, skip, drs), Len(smp) < MaxSamples
    PROVE  ReservoirInv(C \cup {new}, Append(smp, new), skip, drs)
<1> DEFINE D == C \cup {new}
           c == Cardinality(C)
           smp2 == Append(smp, new)
<1>1. /\ Numbered(D) /\ Cardinality(D) = c + 1 /\ PositionIn(D, new) = c + 1 /\ new \notin C
      /\ \A r \in C : PositionIn(D, r) = PositionIn(C, r)
  BY NewPosition
<1>2. /\ c \in Nat /\ MaxSamples \in Nat \ {0} /\ DOMAIN smp = 1 .. Len(smp) /\ Len(smp) \in Nat
      /\ \A j \in DOMAIN smp : smp[j] \in C
  BY ReservoirParts
<1>3. /\ smp \in Seq(C) /\ drs = <<>> /\ skip = -1
      /\ Len(smp) = IF c <= MaxSamples THEN c ELSE MaxSamples
      /\ \A i1, j \in DOMAIN smp : smp[i1] = smp[j] => i1 = j
      /\ \A j \in DOMAIN smp : PositionIn(C, smp[j]) \in (1 .. MaxSamples) \cup TakenBy(drs)
  BY DEF ReservoirInv
<1>4. Len(smp) = c /\ c + 1 <= MaxSamples
  <2> HIDE DEF c
  <2> QED BY <1>2, <1>3
<1>5. /\ smp2 \in Seq(D) /\ Len(smp2) = c + 1 /\ DOMAIN smp2 = 1 .. c + 1
      /\ smp2[c + 1] = new /\ \A j \in 1 .. c : smp2[j] = smp[j] /\ smp[j] \in C
  <2>1. smp \in Seq(D) /\ new \in D
    <3>1. C \subseteq D /\ new \in D
      OBVIOUS
    <3> HIDE DEF D
    <3> QED BY <1>3, <3>1
  <2> HIDE DEF D, c
  <2>2. smp2 \in Seq(D) /\ Len(smp2) = Len(smp) + 1 /\ smp2[Len(smp) + 1] = new
        /\ \A j \in 1 .. Len(smp) : smp2[j] = smp[j]
    BY <2>1
  <2> QED BY <1>2, <1>4, <2>2
<1> HIDE DEF D, c, smp2
<1>6. TakenBy(drs) = {}
  BY <1>3 DEF TakenBy
<1>7. \A j \in DOMAIN smp2 : PositionIn(D, smp2[j]) \in 1 .. MaxSamples
  <2> TAKE j \in DOMAIN smp2
  <2>1. CASE j = c + 1
    BY <1>1, <1>2, <1>4, <1>5, <2>1
  <2>2. CASE j # c + 1
    <3>1. j \in 1 .. c
      BY <1>2, <1>5, <2>2
    <3>2. smp2[j] = smp[j] /\ j \in DOMAIN smp /\ smp[j] \in C
      BY <1>2, <1>4, <1>5, <3>1
    <3> QED BY <1>1, <1>3, <1>6, <3>2
  <2> QED BY <2>1, <2>2
<1>8. \A i1, j \in DOMAIN smp2 : smp2[i1] = smp2[j] => i1 = j
  <2> TAKE i1, j \in DOMAIN smp2
  <2>1. (i1 \in 1 .. c \/ i1 = c + 1) /\ (j \in 1 .. c \/ j = c + 1)
    BY <1>2, <1>5
  <2>2. 1 .. c = DOMAIN smp
    BY <1>2, <1>4
  <2> QED BY <1>1, <1>3, <1>5, <2>1, <2>2
<1>9. Place(drs, 0) = MaxSamples /\ Len(drs) = 0
  BY <1>3, PlaceOfNone
<1>10. /\ Len(smp2) = IF c + 1 <= MaxSamples THEN c + 1 ELSE MaxSamples
       /\ Len(smp2) < MaxSamples => drs = <<>> /\ skip = -1
       /\ Len(smp2) = MaxSamples => Place(drs, Len(drs)) = (c + 1) + skip + 1
       /\ \A n \in 0 .. Len(drs) : ~(n < Len(drs))
  BY <1>2, <1>3, <1>4, <1>5, <1>9
<1>11. drs \in Seq(Nat) /\ skip \in Int /\ skip >= -1
  BY DEF ReservoirInv
<1> QED BY <1>1, <1>5, <1>6, <1>7, <1>8, <1>10, <1>11 DEF ReservoirInv, D, smp2
\* The blocks have a longest one.
LEMMA LongestBlock ==
    ASSUME NEW h \in Seq(Seq({"null", "zero", "vector"})), NEW b \in DOMAIN h
    PROVE  /\ Sampling!Max({Len(h[d]) : d \in DOMAIN h}) \in Nat
           /\ \A d \in DOMAIN h :
                Len(h[d]) \in Nat /\ Len(h[d]) <= Sampling!Max({Len(h[e]) : e \in DOMAIN h})
<1> DEFINE D == DOMAIN h
           F == [d \in D |-> Len(h[d])]
           S == {Len(h[d]) : d \in D}
           m == SumOn(F, D)
<1>1. D = 1 .. Len(h) /\ Len(h) \in Nat /\ \A d \in D : Len(h[d]) \in Nat
  OBVIOUS
<1>2. IsFiniteSet(D)
  BY <1>1, FS_Interval
<1>3. \A d \in D : F[d] = Len(h[d]) /\ F[d] \in Int /\ F[d] >= 0
  BY <1>1
<1> HIDE DEF D, F
<1>4. ASSUME NEW d \in D PROVE F[d] <= m /\ m \in Int
  <2>1. m \in Int /\ m = F[d] + SumOn(F, D \ {d})
    BY <1>2, <1>3, SumOnAdds
  <2>2. IsFiniteSet(D \ {d})
    BY <1>2, FS_RemoveElement
  <2>3. \A e \in D \ {d} : F[e] \in Int /\ F[e] >= 0
    BY <1>3
  <2>4. SumOn(F, D \ {d}) >= 0 /\ SumOn(F, D \ {d}) \in Int
    BY <2>2, <2>3, SumOnNotNegative, SumOnAdds
  <2> HIDE DEF m
  <2> QED BY <1>3, <2>1, <2>4
<1> HIDE DEF m
<1> DEFINE T == {m - k : k \in S}
<1>5. T \in SUBSET Nat /\ T # {}
  <2>1. \A d \in D : m - Len(h[d]) \in Nat
    BY <1>1, <1>3, <1>4
  <2>2. b \in D
    BY DEF D
  <2> QED BY <2>1, <2>2
<1>6. PICK t \in T : \A k \in T : t <= k
  <2> HIDE DEF T
  <2> QED BY <1>5, LeastOf
<1>7. PICK x \in S : t = m - x
  BY <1>6
<1>8. \A y \in S : x >= y
  <2> SUFFICES ASSUME NEW y \in S PROVE x >= y
    OBVIOUS
  <2>1. \A z \in S : z \in Int
    BY <1>1
  <2>2. m \in Int
    <3>1. b \in D
      BY DEF D
    <3> QED BY <1>4, <3>1
  <2>3. m - y \in T
    OBVIOUS
  <2> HIDE DEF T, S
  <2>4. x \in Int /\ y \in Int
    BY <1>7, <2>1
  <2>5. m - x <= m - y
    BY <1>6, <1>7, <2>3
  <2> QED BY <2>2, <2>4, <2>5
<1>9. Sampling!Max(S) \in S /\ \A y \in S : Sampling!Max(S) >= y
  <2> HIDE DEF S
  <2> QED BY <1>8, <1>7 DEF Sampling!Max
<1>10. Sampling!Max(S) \in Nat /\ \A d \in D : Len(h[d]) <= Sampling!Max(S)
  <2>1. \A y \in S : y \in Nat
    BY <1>1
  <2>2. \A d \in D : Len(h[d]) \in S
    OBVIOUS
  <2> HIDE DEF S
  <2> QED BY <1>9, <2>1, <2>2
<1> QED BY <1>1, <1>10 DEF D

\* The rows of the scan, and those that take part
LEMMA ScannedAre ==
    ASSUME ScanInv(heap, chosen, block, offset)
    PROVE  /\ Sampling!Scanned = RowsBefore(heap, chosen, block, offset)
           /\ Sampling!Candidates = CandidatesBefore(heap, normalize, chosen, block, offset)
<1> DEFINE top == Sampling!Max({Len(heap[d]) : d \in DOMAIN heap})
<1>1. heap \in Seq(Seq({"null", "zero", "vector"})) /\ chosen \in SUBSET DOMAIN heap
  BY DEF ScanInv
<1>2. \A b \in chosen : Len(heap[b]) \in Nat /\ top \in Nat /\ Len(heap[b]) <= top
  <2> TAKE b \in chosen
  <2>1. b \in DOMAIN heap
    BY <1>1
  <2> QED BY <1>1, <2>1, LongestBlock
<1>3. Sampling!Scanned = {r \in chosen \X (1 .. top) :
        r[2] <= Len(heap[r[1]]) /\ (r[1] < block \/ (r[1] = block /\ r[2] < offset))}
  BY DEF Sampling!Scanned
<1> HIDE DEF top
<1>4. \A r : r \in chosen \X (1 .. top) /\ r[2] <= Len(heap[r[1]])
              <=> r \in chosen \X (Nat \ {0}) /\ r[2] <= Len(heap[r[1]])
  <2> TAKE r
  <2>1. ASSUME r[1] \in chosen, r[2] <= Len(heap[r[1]])
        PROVE  r[2] \in 1 .. top <=> r[2] \in Nat \ {0}
    <3>1. Len(heap[r[1]]) \in Nat /\ top \in Nat /\ Len(heap[r[1]]) <= top
      BY <1>2, <2>1
    <3> QED BY <2>1, <3>1
  <2> QED BY <2>1
<1>5. Sampling!Scanned = RowsBefore(heap, chosen, block, offset)
  BY <1>3, <1>4 DEF RowsBefore
<1> QED BY <1>5 DEF Sampling!Candidates, CandidatesBefore, TakesPart

LEMMA CandidatesNumbered ==
    ASSUME NEW h, NEW norm, NEW ch, NEW b, NEW o, ScanInv(h, ch, b, o)
    PROVE  Numbered(CandidatesBefore(h, norm, ch, b, o))
<1> DEFINE top == Sampling!Max({Len(h[d]) : d \in DOMAIN h})
           C == CandidatesBefore(h, norm, ch, b, o)
<1>1. h \in Seq(Seq({"null", "zero", "vector"})) /\ ch \in SUBSET (1 .. Len(h)) /\ Len(h) \in Nat
      /\ DOMAIN h = 1 .. Len(h)
  BY DEF ScanInv
<1>2. \A d \in ch : Len(h[d]) \in Nat /\ top \in Nat /\ Len(h[d]) <= top
  <2> TAKE d \in ch
  <2>1. d \in DOMAIN h
    BY <1>1
  <2> QED BY <1>1, <2>1, LongestBlock
<1>3. \A r \in C : r \in ch \X (Nat \ {0}) /\ r[2] <= Len(h[r[1]])
  BY DEF CandidatesBefore, RowsBefore
<1> HIDE DEF top, C
<1>4. \A r \in C : r[1] \in Nat /\ r[2] \in Nat
  <2> TAKE r \in C
  <2>1. r[1] \in ch /\ r[2] \in Nat \ {0}
    BY <1>3
  <2>2. r[1] \in 1 .. Len(h)
    BY <1>1, <2>1
  <2> QED BY <1>1, <2>1, <2>2
<1>5. IsFiniteSet(C)
  <2>1. CASE ch = {}
    <3>1. C = {}
      BY <1>3, <2>1
    <3> QED BY <3>1, FS_EmptySet
  <2>2. CASE ch # {}
    <3>1. top \in Nat
      BY <1>2, <2>2
    <3>2. IsFiniteSet(1 .. Len(h)) /\ IsFiniteSet(1 .. top)
      BY <1>1, <3>1, FS_Interval
    <3>3. IsFiniteSet((1 .. Len(h)) \X (1 .. top))
      BY <3>2, FS_Product
    <3>4. C \in SUBSET ((1 .. Len(h)) \X (1 .. top))
      <4> SUFFICES ASSUME NEW r \in C PROVE r \in (1 .. Len(h)) \X (1 .. top)
        OBVIOUS
      <4>1. r \in ch \X (Nat \ {0}) /\ r[2] <= Len(h[r[1]])
        BY <1>3
      <4>2. Len(h[r[1]]) \in Nat /\ Len(h[r[1]]) <= top
        BY <1>2, <4>1
      <4>3. r[1] \in 1 .. Len(h)
        BY <1>1, <4>1
      <4>4. r[2] \in 1 .. top
        BY <3>1, <4>1, <4>2
      <4> QED BY <4>1, <4>3, <4>4
    <3> QED BY <3>3, <3>4, FS_Subset
  <2> QED BY <2>1, <2>2
<1> QED BY <1>4, <1>5 DEF Numbered, C
\* The scan goes on to the next chosen block: no rows of the heap are in between.
LEMMA NextBlockInv == ASSUME SamplingInv, Sampling!NextBlock PROVE SamplingInv'
<1> DEFINE B == {b \in chosen : b > block}
<1>1. /\ heap' = heap /\ normalize' = normalize /\ chosen' = chosen
      /\ samples' = samples /\ skip_count' = skip_count /\ draws' = draws
      /\ block' = Sampling!Min(B) /\ offset' = 1
      /\ Sampling!BlockRead /\ ~Sampling!Finished
  BY DEF Sampling!NextBlock
<1>2. /\ heap \in Seq(Seq({"null", "zero", "vector"})) /\ chosen \in SUBSET (1 .. Len(heap))
      /\ block \in {0} \cup chosen /\ offset \in Nat \ {0} /\ (block = 0 => offset = 1)
  BY DEF SamplingInv, ScanInv
<1>3. /\ block \in Nat /\ \A b \in chosen : b \in Nat \ {0}
      /\ block # 0 => block \in chosen /\ Len(heap[block]) \in Nat /\ offset > Len(heap[block])
  <2>1. Len(heap) \in Nat
    BY <1>2
  <2>2. \A b \in chosen : b \in Nat \ {0} /\ Len(heap[b]) \in Nat
    <3> TAKE b \in chosen
    <3>1. b \in 1 .. Len(heap)
      BY <1>2
    <3> QED BY <1>2, <2>1, <3>1
  <2>3. block \in Nat
    BY <1>2, <2>2
  <2> QED BY <1>1, <1>2, <2>2, <2>3 DEF Sampling!BlockRead
<1>4. B # {}
  <2>1. PICK b \in chosen : ~(b <= block)
    BY <1>1 DEF Sampling!Finished
  <2> QED BY <1>3, <2>1
<1>5. block' \in B /\ \A b \in B : block' <= b
  <2>1. B \in SUBSET Nat
    BY <1>3
  <2> HIDE DEF B
  <2>2. \E x \in B : \A y \in B : x <= y
    BY <1>4, <2>1, LeastOf
  <2> QED BY <1>1, <2>2 DEF Sampling!Min
<1>6. ScanInv(heap, chosen, block', 1)
  BY <1>2, <1>3, <1>5 DEF ScanInv
<1>7. RowsBefore(heap, chosen, block', 1) = RowsBefore(heap, chosen, block, offset)
  <2>1. ASSUME NEW r \in chosen \X (Nat \ {0}), r[2] <= Len(heap[r[1]])
        PROVE  (r[1] < block' \/ (r[1] = block' /\ r[2] < 1))
                 <=> (r[1] < block \/ (r[1] = block /\ r[2] < offset))
    <3>1. /\ r[1] \in chosen /\ r[1] \in Nat \ {0} /\ r[2] \in Nat \ {0}
          /\ block' \in Nat /\ block < block' /\ block \in Nat
      BY <1>3, <1>5
    <3>2. r[1] > block => block' <= r[1]
      BY <1>5, <3>1
    <3>3. r[1] = block => r[2] < offset
      <4> SUFFICES ASSUME r[1] = block PROVE r[2] < offset
        OBVIOUS
      <4>1. Len(heap[block]) \in Nat /\ offset > Len(heap[block]) /\ r[2] <= Len(heap[block])
        BY <1>3, <2>1, <3>1
      <4> QED BY <1>2, <3>1, <4>1
    <3> QED BY <3>1, <3>2, <3>3
  <2> QED BY <2>1 DEF RowsBefore
<1>8. CandidatesBefore(heap, normalize, chosen, block', 1)
        = CandidatesBefore(heap, normalize, chosen, block, offset)
  BY <1>7 DEF CandidatesBefore
<1> QED BY <1>1, <1>6, <1>8 DEF SamplingInv

\* The scan goes on to the next row of the block: the one it leaves comes after all
\* before it.
LEMMA ScanRowInv ==
    ASSUME SamplingInv, Sampling!ScanRow
    PROVE  LET C == CandidatesBefore(heap, normalize, chosen, block, offset)
               new == <<block, offset>>
           IN  /\ ScanInv(heap, chosen, block, offset)'
               /\ CandidatesBefore(heap, normalize, chosen, block, offset)'
                    = IF Sampling!Eligible(new) THEN C \cup {new} ELSE C
               /\ Numbered(C) /\ After(C, new) /\ new[1] \in Nat /\ new[2] \in Nat
               /\ ReservoirInv(C, samples, skip_count, draws)
<1> DEFINE C == CandidatesBefore(heap, normalize, chosen, block, offset)
           R == RowsBefore(heap, chosen, block, offset)
           new == <<block, offset>>
<1>1. /\ heap' = heap /\ normalize' = normalize /\ chosen' = chosen /\ block' = block
      /\ offset' = offset + 1 /\ block > 0 /\ offset <= Len(heap[block])
  BY DEF Sampling!ScanRow
<1>2. /\ heap \in Seq(Seq({"null", "zero", "vector"})) /\ chosen \in SUBSET (1 .. Len(heap))
      /\ block \in {0} \cup chosen /\ offset \in Nat \ {0} /\ (block = 0 => offset = 1)
      /\ ScanInv(heap, chosen, block, offset)
  BY DEF SamplingInv, ScanInv
<1>3. /\ \A b \in chosen : b \in Nat \ {0} /\ Len(heap[b]) \in Nat
      /\ block \in chosen /\ block \in Nat \ {0} /\ Len(heap[block]) \in Nat
  <2>1. \A b \in chosen : b \in Nat \ {0} /\ Len(heap[b]) \in Nat
    <3> TAKE b \in chosen
    <3>1. b \in 1 .. Len(heap) /\ Len(heap) \in Nat
      BY <1>2
    <3> QED BY <1>2, <3>1
  <2>2. block \in chosen
    BY <1>1, <1>2
  <2> QED BY <2>1, <2>2
<1>4. ScanInv(heap, chosen, block, offset + 1)
  <2>1. offset + 1 \in Nat \ {0} /\ block # 0
    BY <1>2, <1>3
  <2> QED BY <1>2, <2>1 DEF ScanInv
<1>5. \A r \in R : /\ r \in chosen \X (Nat \ {0}) /\ r[2] <= Len(heap[r[1]])
                   /\ r[1] < block \/ (r[1] = block /\ r[2] < offset)
  BY DEF RowsBefore
<1>6. RowsBefore(heap, chosen, block, offset + 1) = R \cup {new}
  <2>1. ASSUME NEW r \in chosen \X (Nat \ {0})
        PROVE  r \in RowsBefore(heap, chosen, block, offset + 1) <=> r \in R \/ r = new
    <3>1. r[1] \in Nat /\ r[2] \in Nat /\ (r = new <=> r[1] = block /\ r[2] = offset)
      <4>1. r = <<r[1], r[2]>> /\ r[1] \in chosen /\ r[2] \in Nat
        OBVIOUS
      <4>2. r[1] \in Nat
        BY <1>3, <4>1
      <4>3. r = new => r[1] = block /\ r[2] = offset
        OBVIOUS
      <4>4. r[1] = block /\ r[2] = offset => <<r[1], r[2]>> = new
        OBVIOUS
      <4> HIDE DEF new
      <4> QED BY <4>1, <4>2, <4>3, <4>4
    <3>2. r[2] < offset + 1 <=> r[2] < offset \/ r[2] = offset
      BY <1>2, <3>1
    <3>3. r[1] = block /\ r[2] = offset => r[2] <= Len(heap[r[1]])
      BY <1>1
    <3> HIDE DEF new
    <3> QED BY <3>1, <3>2, <3>3 DEF RowsBefore
  <2>2. new \in chosen \X (Nat \ {0})
    BY <1>2, <1>3
  <2>3. \A r \in RowsBefore(heap, chosen, block, offset + 1) : r \in chosen \X (Nat \ {0})
    BY DEF RowsBefore
  <2> HIDE DEF R, new
  <2> QED BY <1>5, <2>1, <2>2, <2>3
<1>7. CandidatesBefore(heap, normalize, chosen, block, offset + 1)
        = IF Sampling!Eligible(new) THEN C \cup {new} ELSE C
  <2>1. Sampling!Eligible(new) <=> TakesPart(heap, normalize, new)
    BY DEF Sampling!Eligible, TakesPart
  <2> HIDE DEF new
  <2> QED BY <1>6, <2>1 DEF CandidatesBefore
<1>8. Numbered(C)
  BY <1>2, CandidatesNumbered
<1>9. After(C, new)
  <2>1. \A r \in C : r \in R
    BY DEF CandidatesBefore
  <2>2. new[1] = block /\ new[2] = offset
    OBVIOUS
  <2> HIDE DEF C, R, new
  <2> QED BY <1>5, <2>1, <2>2 DEF After
<1>10. new[1] \in Nat /\ new[2] \in Nat
  BY <1>2, <1>3
<1>11. ReservoirInv(C, samples, skip_count, draws)
  BY DEF SamplingInv
<1> HIDE DEF C
<1> QED BY <1>1, <1>4, <1>7, <1>8, <1>9, <1>10, <1>11 DEF C

LEMMA SamplingStepInv == ASSUME SamplingInv, Sampling!Next PROVE SamplingInv'
<1> DEFINE C == CandidatesBefore(heap, normalize, chosen, block, offset)
           D == CandidatesBefore(heap', normalize', chosen', block', offset')
           new == <<block, offset>>
<1>1. CASE Sampling!NextBlock
  BY <1>1, NextBlockInv
<1>2. ASSUME Sampling!ScanRow
      PROVE  /\ ScanInv(heap', chosen', block', offset')
             /\ D = IF Sampling!Eligible(new) THEN C \cup {new} ELSE C
             /\ Numbered(C) /\ After(C, new) /\ new[1] \in Nat /\ new[2] \in Nat
             /\ ReservoirInv(C, samples, skip_count, draws)
  BY <1>2, ScanRowInv
<1>3. SUFFICES ASSUME Sampling!ScanRow, ReservoirInv(D, samples', skip_count', draws')
               PROVE  SamplingInv'
  <2>1. ASSUME Sampling!ScanRow, ~Sampling!NextBlock PROVE ReservoirInv(D, samples', skip_count', draws')
    <3> HIDE DEF C, D, new
    <3>1. CASE Sampling!SkipIneligible
      BY <1>2, <2>1, <3>1 DEF Sampling!SkipIneligible, new
    <3>2. CASE Sampling!Fill
      <4>1. /\ Sampling!Eligible(new) /\ Len(samples) < MaxSamples
            /\ samples' = Append(samples, new) /\ skip_count' = skip_count /\ draws' = draws
        BY <3>2 DEF Sampling!Fill, new
      <4> QED BY <1>2, <2>1, <4>1, FillInv
    <3>3. CASE Sampling!Replace
      <4>1. PICK skip \in IF skip_count < 0 THEN 0 .. MaxSkip ELSE {skip_count} :
              /\ draws' = IF skip_count < 0 THEN Append(draws, skip) ELSE draws
              /\ skip_count' = Sampling!Countdown(skip)
              /\ IF skip <= 0 THEN \E k \in 1 .. MaxSamples : samples' = [samples EXCEPT ![k] = new]
                 ELSE samples' = samples
        BY <3>3 DEF Sampling!Replace, new
      <4>2. Sampling!Eligible(new) /\ Len(samples) = MaxSamples /\ skip_count' = skip - 1
        BY <3>3, <4>1 DEF Sampling!Replace, Sampling!Countdown, new
      <4>3. D = C \cup {new} /\ Numbered(C) /\ After(C, new) /\ new[1] \in Nat /\ new[2] \in Nat
            /\ ReservoirInv(C, samples, skip_count, draws)
        BY <1>2, <2>1, <4>2
      <4>4. skip_count \in Int
        BY <4>3 DEF ReservoirInv
      <4>5. skip \in Nat
        BY <4>1, <4>4, ListsAssumption
      <4>6. ReservoirInv(C, samples, skip, draws')
        <5>1. CASE skip_count < 0
          BY <4>1, <4>2, <4>3, <4>5, <5>1, DrawInv
        <5>2. CASE ~(skip_count < 0)
          BY <4>1, <4>3, <5>2
        <5> QED BY <5>1, <5>2
      <4>7. CASE skip > 0
        <5>1. samples' = samples
          BY <4>1, <4>5, <4>7
        <5> QED BY <4>2, <4>3, <4>5, <4>6, <4>7, <5>1, PassInv
      <4>8. CASE skip = 0
        <5>1. PICK k \in 1 .. MaxSamples : samples' = [samples EXCEPT ![k] = new]
          BY <4>1, <4>8
        <5>2. skip_count' = -1 /\ ReservoirInv(C, samples, 0, draws')
          BY <4>2, <4>6, <4>8
        <5>3. ReservoirInv(C \cup {new}, [samples EXCEPT ![k] = new], -1, draws')
          BY <4>2, <4>3, <5>2, TakeInv
        <5> QED BY <4>3, <5>1, <5>2, <5>3
      <4> QED BY <4>5, <4>7, <4>8
    <3>4. Sampling!SkipIneligible \/ Sampling!Fill \/ Sampling!Replace
      BY <2>1 DEF Sampling!Next
    <3> QED BY <3>1, <3>2, <3>3, <3>4
  <2>2. Sampling!NextBlock \/ Sampling!ScanRow
    BY DEF Sampling!Next, Sampling!SkipIneligible, Sampling!Fill, Sampling!Replace
  <2> QED BY <1>1, <2>1, <2>2
<1> HIDE DEF D
<1>4. ScanInv(heap', chosen', block', offset') /\ ReservoirInv(D, samples', skip_count', draws')
  BY <1>2, <1>3
<1> QED BY <1>4 DEF SamplingInv, D
LEMMA SamplingInitInv == ASSUME Sampling!Init PROVE SamplingInv
<1>1. /\ heap \in Seq(Seq({"null", "zero", "vector"})) /\ chosen \in SUBSET (1 .. Len(heap))
      /\ block = 0 /\ offset = 1 /\ samples = <<>> /\ skip_count = -1 /\ draws = <<>>
  BY ListsAssumption DEF Sampling!Init, Sampling!BlockChoices, Sampling!kSubset
<1>2. ScanInv(heap, chosen, block, offset)
  BY <1>1 DEF ScanInv
<1>3. \A b \in chosen : b \in Nat \ {0}
  <2> TAKE b \in chosen
  <2>1. b \in 1 .. Len(heap) /\ Len(heap) \in Nat
    BY <1>1
  <2> QED BY <2>1
<1>4. CandidatesBefore(heap, normalize, chosen, 0, 1) = {}
  <2>1. \A r \in RowsBefore(heap, chosen, 0, 1) : r[1] \in chosen /\ (r[1] < 0 \/ r[1] = 0)
    BY DEF RowsBefore
  <2> QED BY <1>3, <2>1 DEF CandidatesBefore
<1>5. ReservoirInv({}, <<>>, -1, <<>>)
  <2>1. Cardinality({}) = 0 /\ MaxSamples \in Nat \ {0}
    BY FS_EmptySet, ListsAssumption
  <2> QED BY <2>1 DEF ReservoirInv
<1> QED BY <1>1, <1>2, <1>4, <1>5 DEF SamplingInv

\* The sums of the model and those of the proofs
LEMMA TakenAre == ASSUME draws \in Seq(Nat) PROVE Sampling!Taken = TakenBy(draws)
<1> DEFINE Sum(n) == Sampling!MapThenSumSet(LAMBDA k : draws[k] + 1, 1 .. n)
<1>1. Sampling!Taken = {MaxSamples + Sum(n) : n \in DOMAIN draws}
  BY DEF Sampling!Taken
<1>2. ASSUME NEW n \in DOMAIN draws PROVE Sum(n) = SumOn(Steps(draws), 1 .. n)
  <2> DEFINE S == 1 .. n
             F == Steps(draws)
             Eq(f) == f = [s \in SUBSET S |->
                              IF s = {} THEN 0
                              ELSE (draws[CHOOSE k \in s : TRUE] + 1) + f[s \ {CHOOSE k \in s : TRUE}]]
             g == CHOOSE f : Eq(f)
  <2>1. Sum(n) = g[S]
    BY Zenon DEF Sampling!MapThenSumSet, Sampling!MapThenFoldSet
  <2>2. n \in Int /\ \A k \in S : F[k] = draws[k] + 1
    BY DEF Steps
  <2> HIDE DEF F
  <2>3. ASSUME NEW f PROVE Eq(f) <=> Sums(f, F, S)
    <3>1. \A s \in SUBSET S : s # {} => F[Chosen(s)] = draws[Chosen(s)] + 1
      BY <2>2, ChosenIn
    <3>2. \A s \in SUBSET S : SumsBy(f, F, s) = IF s = {} THEN 0 ELSE (draws[Chosen(s)] + 1) + f[s \ {Chosen(s)}]
      BY <3>1 DEF SumsBy
    <3>3. [s \in SUBSET S |-> SumsBy(f, F, s)]
              = [s \in SUBSET S |-> IF s = {} THEN 0 ELSE (draws[Chosen(s)] + 1) + f[s \ {Chosen(s)}]]
      BY <3>2
    <3> QED BY <3>3 DEF Sums, Chosen
  <2>4. IsFiniteSet(S)
    BY <2>2, FS_Interval
  <2> HIDE DEF Eq, S
  <2>5. Eq(g)
    BY <2>3, <2>4, SumsExist
  <2> HIDE DEF g
  <2>6. g[S] = SumOn(F, S)
    BY <2>3, <2>4, <2>5, SumIsSumOn
  <2> QED BY <2>1, <2>6 DEF F, S
<1> HIDE DEF Sum
<1> QED BY <1>1, <1>2 DEF TakenBy, Place

LEMMA SampleIs ==
    ASSUME SamplingInv
    PROVE  Sampling!SampleIsOfRows /\ Sampling!SkipsAsDrawn
<1> DEFINE C == Sampling!Candidates
           c == Cardinality(C)
<1>1. ScanInv(heap, chosen, block, offset) /\ C = CandidatesBefore(heap, normalize, chosen, block, offset)
  BY ScannedAre DEF SamplingInv
<1>2. ReservoirInv(C, samples, skip_count, draws) /\ Numbered(C)
  BY <1>1, CandidatesNumbered DEF SamplingInv
<1>3. \A S : Sampling!Cardinality(S) = Cardinality(S)
  BY Zenon DEF Cardinality, Sampling!Cardinality
<1>4. \A r : Sampling!Position(r) = PositionIn(C, r)
  BY <1>3 DEF Sampling!Position, PositionIn, UpTo
<1>5. Sampling!Taken = TakenBy(draws)
  BY <1>2, TakenAre DEF ReservoirInv
<1>6. /\ c \in Nat /\ MaxSamples \in Nat \ {0} /\ \A k \in DOMAIN samples : samples[k] \in C
  BY <1>2, ReservoirParts
<1> HIDE DEF C
<1>7. Sampling!Min({MaxSamples, c}) = IF c <= MaxSamples THEN c ELSE MaxSamples
  <2> HIDE DEF c
  <2>1. PICK m : m = IF c <= MaxSamples THEN c ELSE MaxSamples
    OBVIOUS
  <2>2. m \in {MaxSamples, c} /\ \A y \in {MaxSamples, c} : m <= y
    BY <1>6, <2>1
  <2>3. \A x \in {MaxSamples, c} : (\A y \in {MaxSamples, c} : x <= y) => x = m
    BY <1>6, <2>1
  <2> QED BY <2>1, <2>2, <2>3 DEF Sampling!Min
<1>8. Sampling!SampleIsOfRows
  <2>1. Len(samples) = Sampling!Min({MaxSamples, c})
    BY <1>2, <1>7 DEF ReservoirInv
  <2>2. \A j, k \in DOMAIN samples : samples[j] = samples[k] => j = k
    BY <1>2 DEF ReservoirInv
  <2> QED BY <1>3, <1>6, <2>1, <2>2 DEF Sampling!SampleIsOfRows, Sampling!IsInjective, C
<1>9. Sampling!SkipsAsDrawn
  BY <1>2, <1>3, <1>4, <1>5 DEF ReservoirInv, Sampling!SkipsAsDrawn, C
<1> QED BY <1>8, <1>9

\* A step of the machines is a step of the sampling or leaves it alone.
LEMMA SamplingMoves ==
    ASSUME [Next]_vars, machine' = "sampling"
    PROVE  machine = "sampling" /\ (Sampling!Next \/ UNCHANGED samplingVars)
BY DEF Next, vars, Finished

\* ivfflat_sample_tuples gives the k-means as many rows as it has room for, or all it
\* finds; they are different rows, none of them NULL or without a direction where one is
\* needed, and they are those the reservoir was drawn to take: for heaps of any size and
\* content, whichever blocks are chosen and numbers drawn.
THEOREM SamplesAreReservoir == Spec => []SampleIsReservoir
<1>1. Init => (machine = "sampling" => SamplingInv)
  BY SamplingInitInv DEF Init
<1>2. (machine = "sampling" => SamplingInv) /\ [Next]_vars => (machine = "sampling" => SamplingInv)'
  <2> SUFFICES ASSUME machine = "sampling" => SamplingInv, [Next]_vars, machine' = "sampling"
               PROVE  SamplingInv'
    OBVIOUS
  <2>1. CASE Sampling!Next
    BY <2>1, SamplingMoves, SamplingStepInv
  <2>2. CASE UNCHANGED samplingVars
    BY <2>2, SamplingMoves DEF samplingVars, SamplingInv
  <2> QED BY <2>1, <2>2, SamplingMoves
<1>3. (machine = "sampling" => SamplingInv) => SampleIsReservoir
  BY SampleIs DEF SampleIsReservoir
<1> QED BY <1>1, <1>2, <1>3, PTL DEF Spec
=============================================================================
