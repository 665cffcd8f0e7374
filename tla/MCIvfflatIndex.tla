--------------------------- MODULE MCIvfflatIndex ---------------------------
(* Instances of IvfflatIndex for TLC.                                      *)
EXTENDS IvfflatIndex, TLC

CONSTANTS r1, r2, r3, r4, r5, t1, t2, t3, t4

Rows3 == {r1, r2, r3}
Rows4 == {r1, r2, r3, r4}
Rows5 == {r1, r2, r3, r4, r5}

\* Everything in one list: contention for its tail page.
OneList == [r \in Rows |-> 1]

\* Both lists filled by a row each, which has a line pointer of its own, and
\* extended at once by the others.  Only whether a row is dead matters to how
\* long a process waits, so that the line pointers need not be reused.
EachList == (r1 :> 1) @@ (r2 :> 2) @@ (r3 :> 1) @@ (r4 :> 2)
OwnTid == r1 :> t1 @@ r2 :> t2 @@ r3 :> t3 @@ r4 :> t4
OwnTidsInit == Init /\ \A r \in Built : tid[r] = OwnTid[r]
OwnTidsNext == Next /\ \A r \in Rows : tid'[r] \in {NoTid, OwnTid[r]}
OwnTidsSpec == OwnTidsInit /\ [][OwnTidsNext]_vars /\ Fairness

\* Contention in one list, another list, and a row that is not indexed.
TwoLists == (r1 :> 1) @@ (r2 :> 1) @@ (r3 :> 1) @@ (r4 :> 2) @@ (r5 :> 0)

\* Rows that are stored at the same time are interchangeable when they are in
\* the same list, line pointers always.
RowTidSymmetry ==
    Permutations(Tids)
        \cup UNION {Permutations({r \in S : ListOf[r] = l}) :
                       S \in {Built, Rows \ Built}, l \in 0 .. NumLists}
=============================================================================
