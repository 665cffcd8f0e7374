------------------------------ MODULE ElkanLloyd ------------------------------
(***************************************************************************)
(* ivfflat_elkan_kmeans beside what it promises: it implements Lloyd's     *)
(* iteration, and it ends.                                                 *)
(***************************************************************************)
EXTENDS ElkanKmeans

L == INSTANCE Lloyd WITH seeding <- pc = "seed"

\* The build runs in one process, which goes on until it is done.
FairSpec == Spec /\ WF_vars(Next)

\* However many distances it leaves out, and with stale bounds, every iteration of
\* ivfflat_elkan_kmeans is one of Lloyd's: the centers move to the means of the
\* clusters of a nearest assignment, and at no other time.
ImplementsLloyd == L!Spec

\* The k-means ends, though rounding and the random centers of empty clusters can
\* keep it from converging: after 500 iterations, it does.
KmeansEnds == <>(pc = "done")
=============================================================================
