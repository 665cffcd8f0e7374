-------------------------- MODULE MCIvfflatRecovery --------------------------
(* An instance of IvfflatRecovery for TLC.                                 *)
EXTENDS IvfflatRecovery

CONSTANTS r1, r2, r3, t1, t2, t3

Rows2 == {r1, r2}
Rows3 == {r1, r2, r3}

\* Everything in one list: contention for its tail page.
OneList == [r \in Rows |-> 1]

RowTidSymmetry == Permutations(Rows \ Built) \cup Permutations(Built) \cup Permutations(Tids)
=============================================================================
