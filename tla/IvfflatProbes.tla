---------------------------- MODULE IvfflatProbes ----------------------------
(***************************************************************************)
(* ivfflat_get_scan_lists: which lists a scan probes.  It reads the list   *)
(* tuples of page after page and keeps the nearest max_probes of them in   *)
(* an array of nodes, threaded into a pairing heap with the farthest one   *)
(* on top; a nearer list takes over the node of the farthest.              *)
(***************************************************************************)
EXTENDS NearestLists, FiniteSets

CONSTANTS
    NumLists,       \* lists in the index
    Distances,      \* distances of centers to the query
    Probes          \* values of pg_hybrid_ivfflat.probes

Lists == 1 .. NumLists

VARIABLES
    dist,           \* distance of the center of each list
    max_probes,     \* how many lists to probe
    l,              \* the list tuple the loop has reached
    nodes,          \* scan_opaque->lists: list and distance of each node in use
    queue,          \* nodes in scan_opaque->list_queue
    max_distance,   \* local variable max_distance
    list_pages      \* the result: lists in the order they are probed

vars == <<dist, max_probes, l, nodes, queue, max_distance, list_pages>>

DBL_MAX == CHOOSE d \in Distances : \A e \in Distances : e <= d

Init ==
    /\ dist \in [Lists -> Distances]
    /\ \E p \in Probes : max_probes = MaxProbes(p, NumLists)
    /\ l = 1 /\ nodes = <<>> /\ queue = {} /\ max_distance = DBL_MAX
    /\ list_pages = <<>>

\* pairingheap_first and pairingheap_remove_first: ivfflat_compare_lists puts
\* a node with the greatest distance on top.
IsFirst(n, Q) == n \in Q /\ \A m \in Q : nodes[m].distance <= nodes[n].distance

Greatest(ns, Q) == CHOOSE d \in Distances :
    \E n \in Q : ns[n].distance = d /\ \A m \in Q : ns[m].distance <= d

\* max_distance after a node was replaced (Refreshed_Stale: it is forgotten)
Refreshed_Stale(ns, Q) == max_distance
Refreshed(ns, Q) == Greatest(ns, Q)

ListOfTuple == [list |-> l, distance |-> dist[l]]

\* The array is not full yet.
AddList ==
    /\ l <= NumLists /\ Len(nodes) < max_probes
    /\ nodes' = Append(nodes, ListOfTuple)
    /\ queue' = queue \cup {Len(nodes')}
    /\ max_distance' = IF Len(nodes') = max_probes THEN Greatest(nodes', queue')
                                                   ELSE max_distance
    /\ l' = l + 1
    /\ UNCHANGED <<dist, max_probes, list_pages>>

\* A nearer list takes over the node of the farthest one.
ReplaceList ==
    /\ l <= NumLists /\ Len(nodes) = max_probes /\ dist[l] < max_distance
    /\ \E n \in queue : IsFirst(n, queue) /\ nodes' = [nodes EXCEPT ![n] = ListOfTuple]
    /\ max_distance' = Refreshed(nodes', queue)
    /\ l' = l + 1
    /\ UNCHANGED <<dist, max_probes, queue, list_pages>>

SkipList ==
    /\ l <= NumLists /\ Len(nodes) = max_probes /\ dist[l] >= max_distance
    /\ l' = l + 1
    /\ UNCHANGED <<dist, max_probes, nodes, queue, max_distance, list_pages>>

\* The heap gives the farthest first, so the result is filled from its end.
TakeList ==
    /\ l > NumLists
    /\ \E n \in queue :
          /\ IsFirst(n, queue)
          /\ queue' = queue \ {n}
          /\ list_pages' = <<nodes[n].list>> \o list_pages
    /\ UNCHANGED <<dist, max_probes, l, nodes, max_distance>>

Done == l > NumLists /\ queue = {}

Next == AddList \/ ReplaceList \/ SkipList \/ TakeList \/ (Done /\ UNCHANGED vars)

Spec == Init /\ [][Next]_vars
-----------------------------------------------------------------------------
\* Every variable has the type the code gives it: the array of max_probes nodes
\* is never overrun, and every node in use is in the heap while lists are read.
TypeOK ==
    /\ dist \in [Lists -> Distances] /\ max_probes \in 1 .. NumLists
    /\ l \in 1 .. NumLists + 1
    /\ nodes \in Seq([list : Lists, distance : Distances]) /\ Len(nodes) <= max_probes
    /\ queue \in SUBSET DOMAIN nodes /\ (l <= NumLists => queue = DOMAIN nodes)
    /\ max_distance \in Distances
    /\ list_pages \in Seq(Lists)

\* However the centers lie and whatever ties there are, the scan probes the
\* nearest max_probes lists, each once, the nearest first.
ProbesNearest == Done => list_pages \in NearestLists(dist, max_probes)
=============================================================================
