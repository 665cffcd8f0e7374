---------------------------- MODULE IvfflatLists ----------------------------
(***************************************************************************)
(* Where rows and queries find their lists: the sample for the k-means,    *)
(* the list of a row, its form in the index, the lists a scan probes, and  *)
(* the settings for it, side by side.  In each behaviour one of these      *)
(* machines runs, and the variables of the others are idle.                *)
(***************************************************************************)
EXTENDS Integers, Sequences

CONSTANTS
    MaxCenters, MaxDistance,              \* of CenterSearch
    Elements, Dim, ListCount, MaxRows,    \* of IvfflatOpclass
    NumLists, ListDistances, ProbeCounts, \* of IvfflatProbes
    Heaps, MaxSamples, MaxSkip,           \* of IvfflatSampling
    MaxListCount, Values, Unset,          \* of IvfflatSettings
    PageCounts, PageCosts, CpuCosts, LoopCounts,
    Idle

\* DBL_MAX is positive; distances are numbers, and one of them is the greatest;
\* a query probes at least one list; vectors have numbers as elements; a sample has
\* room for a row; sizes and costs are not negative; a scan runs once at least.
ASSUME ListsAssumption ==
    /\ MaxDistance \in Nat \ {0}
    /\ NumLists \in Nat \ {0} /\ ProbeCounts \subseteq Nat \ {0}
    /\ ListDistances \subseteq Int /\ \E d \in ListDistances : \A e \in ListDistances : e <= d
    /\ Elements \subseteq Int /\ Dim \in Nat
    /\ Heaps \subseteq Seq(Seq({"null", "zero", "vector"}))
    /\ MaxSamples \in Nat \ {0} /\ MaxSkip \in Nat
    /\ MaxListCount \in Nat \ {0}
    /\ PageCounts \subseteq Nat /\ PageCosts \subseteq Nat /\ CpuCosts \subseteq Nat
    /\ LoopCounts \subseteq Nat \ {0}

VARIABLES
    machine,
    distance, i, insertList, insertMin, buildList, buildMin,
    opclass, sampled, centers, rows, index,
    dist, max_probes, l, nodes, queue, max_distance, list_pages,
    heap, normalize, chosen, block, offset, samples, skip_count, draws,
    loaded, setting, list_count, costs

Search == INSTANCE CenterSearch
Opclass == INSTANCE IvfflatOpclass
Probing == INSTANCE IvfflatProbes WITH Distances <- ListDistances, Probes <- ProbeCounts
Sampling == INSTANCE IvfflatSampling
Settings == INSTANCE IvfflatSettings

searchVars == <<distance, i, insertList, insertMin, buildList, buildMin>>
opclassVars == <<opclass, sampled, centers, rows, index>>
probingVars == <<dist, max_probes, l, nodes, queue, max_distance, list_pages>>
samplingVars == <<heap, normalize, chosen, block, offset, samples, skip_count, draws>>
settingsVars == <<loaded, setting, list_count, costs>>
vars == <<machine, searchVars, opclassVars, probingVars, samplingVars, settingsVars>>

SearchIdle ==
    /\ distance = Idle /\ i = Idle /\ insertList = Idle /\ insertMin = Idle
    /\ buildList = Idle /\ buildMin = Idle
OpclassIdle ==
    opclass = Idle /\ sampled = Idle /\ centers = Idle /\ rows = Idle /\ index = Idle
ProbingIdle ==
    /\ dist = Idle /\ max_probes = Idle /\ l = Idle /\ nodes = Idle /\ queue = Idle
    /\ max_distance = Idle /\ list_pages = Idle
SamplingIdle ==
    /\ heap = Idle /\ normalize = Idle /\ chosen = Idle /\ block = Idle /\ offset = Idle
    /\ samples = Idle /\ skip_count = Idle /\ draws = Idle
SettingsIdle == loaded = Idle /\ setting = Idle /\ list_count = Idle /\ costs = Idle

Init ==
    \/ /\ machine = "search" /\ Search!Init
       /\ OpclassIdle /\ ProbingIdle /\ SamplingIdle /\ SettingsIdle
    \/ /\ machine = "opclass" /\ Opclass!Init
       /\ SearchIdle /\ ProbingIdle /\ SamplingIdle /\ SettingsIdle
    \/ /\ machine = "probing" /\ Probing!Init
       /\ SearchIdle /\ OpclassIdle /\ SamplingIdle /\ SettingsIdle
    \/ /\ machine = "sampling" /\ Sampling!Init
       /\ SearchIdle /\ OpclassIdle /\ ProbingIdle /\ SettingsIdle
    \/ /\ machine = "settings" /\ Settings!Init
       /\ SearchIdle /\ OpclassIdle /\ ProbingIdle /\ SamplingIdle

\* A machine stops only where its loop ends.
Finished ==
    /\ CASE machine = "search" -> Search!Found
         [] machine = "opclass" -> Opclass!Full
         [] machine = "sampling" -> Sampling!Finished
         [] OTHER -> FALSE
    /\ UNCHANGED vars

Next ==
    \/ /\ machine = "search" /\ Search!Next
       /\ UNCHANGED <<machine, opclassVars, probingVars, samplingVars, settingsVars>>
    \/ /\ machine = "opclass" /\ Opclass!Next
       /\ UNCHANGED <<machine, searchVars, probingVars, samplingVars, settingsVars>>
    \/ /\ machine = "probing" /\ Probing!Next
       /\ UNCHANGED <<machine, searchVars, opclassVars, samplingVars, settingsVars>>
    \/ /\ machine = "sampling" /\ Sampling!Next
       /\ UNCHANGED <<machine, searchVars, opclassVars, probingVars, settingsVars>>
    \/ /\ machine = "settings" /\ Settings!Next
       /\ UNCHANGED <<machine, searchVars, opclassVars, probingVars, samplingVars>>
    \/ Finished

Spec == Init /\ [][Next]_vars
-----------------------------------------------------------------------------
\* An insert chooses the list the build would have chosen: CenterSearch.
SameListAsBuild == machine = "search" => Search!SameListAsBuild

\* The support functions of an operator class fit together: IvfflatOpclass.
ScanOrderIsOperators == machine = "opclass" => Opclass!ScanOrderIsOperators
ListsAreClusters == machine = "opclass" => Opclass!ListsAreClusters

\* A scan probes the nearest lists, and its array holds them: IvfflatProbes.
ProbesNearest == machine = "probing" => Probing!TypeOK /\ Probing!ProbesNearest

\* The sample is the reservoir that was drawn: IvfflatSampling.
SampleIsReservoir == machine = "sampling" => Sampling!SampleIsOfRows /\ Sampling!SkipsAsDrawn

\* A scan has lists to probe, and the planner orderly costs: IvfflatSettings.
ScanHasLists == machine = "settings" => Settings!ScanHasLists
CostsInOrder == machine = "settings" => Settings!CostsInOrder

\* README.md on the name of the setting: IvfflatSettings.
DocumentedProbes == machine = "settings" => Settings!DocumentedProbes
=============================================================================
