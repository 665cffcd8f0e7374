--------------------------- MODULE MCIvfflatBuild ---------------------------
(* An instance of IvfflatBuild for TLC.                                    *)
EXTENDS IvfflatBuild, TLC

CONSTANTS r1, r2, r3, r4, r5, t1, t2, t3, t4, t5

\* Two rows and one in lists 1 and 3, none in list 2, one row not indexed.
ThreeLists == (r1 :> 1) @@ (r2 :> 1) @@ (r3 :> 3) @@ (r4 :> 0) @@ (r5 :> 1)
OwnTid == (r1 :> t1) @@ (r2 :> t2) @@ (r3 :> t3) @@ (r4 :> t4) @@ (r5 :> t5)
=============================================================================
