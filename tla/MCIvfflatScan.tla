---------------------------- MODULE MCIvfflatScan ----------------------------
(* An instance of IvfflatScan for TLC.                                     *)
EXTENDS IvfflatScan, TLC

CONSTANTS r1, r2, r3, t1, t2, q1, q2

\* Two rows in list 1 and one in list 2.
TwoLists == (r1 :> 1) @@ (r2 :> 1) @@ (r3 :> 2)

\* q1 is nearer to the center of list 1 but nearest to the row of list 2; q2 is
\* NULL, for which ivfflat_zero_distance makes all distances equal.
Centers == (q1 :> <<1, 2>>) @@ (q2 :> <<0, 0>>)
Vectors == (q1 :> ((r1 :> 1) @@ (r2 :> 2) @@ (r3 :> 0))) @@ (q2 :> [r \in Rows |-> 0])
=============================================================================
