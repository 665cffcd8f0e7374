---------------------------- MODULE NearestLists ----------------------------
(***************************************************************************)
(* What a scan expects of ivfflat_get_scan_lists: the lists to probe,      *)
(* nearest first.  IvfflatProbes shows that the loop with its pairing heap *)
(* delivers it; IvfflatScan starts from it.                                *)
(***************************************************************************)
EXTENDS Integers, Sequences

\* ivfflat_beginscan: the setting may exceed the number of lists.
MaxProbes(probes, list_count) == IF probes > list_count THEN list_count ELSE probes

\* The ways to take the k nearest of the lists 1 .. Len(dist), nearest first.
NearestLists(dist, k) ==
    {s \in [1 .. k -> DOMAIN dist] :
        /\ \A i, j \in 1 .. k : i < j => s[i] # s[j] /\ dist[s[i]] <= dist[s[j]]
        /\ \A l \in DOMAIN dist : (\E i \in 1 .. k : s[i] = l) \/ dist[s[k]] <= dist[l]}
=============================================================================
