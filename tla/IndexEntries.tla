---------------------------- MODULE IndexEntries ----------------------------
(***************************************************************************)
(* What the heap and its transactions rely on when they use an index that  *)
(* gives no ordering promise: the contract of aminsert and ambulkdelete as *)
(* pg_hybrid_ivfflat_handler registers them.  The index is a set of        *)
(* entries.  An entry appears while its row is being inserted, a committed *)
(* row that has to be indexed has its entry, and a line pointer is freed   *)
(* only when no entry holds it any more.                                   *)
(***************************************************************************)
CONSTANTS Rows,       \* row versions
          Indexed     \* the rows that must have an entry

VARIABLES entries,    \* rows that have an entry
          heap        \* what the heap knows of each row

evars == <<entries, heap>>

\* The build makes an entry for every row that is not dead yet.
Init ==
    /\ heap \in [Rows -> {"new", "inserted", "live", "dead"}]
    /\ entries = {r \in Indexed : heap[r] \in {"inserted", "live"}}

Become(r, h) == heap' = [heap EXCEPT ![r] = h]

\* The heap stores a row version and calls aminsert.
Store(r) == heap[r] = "new" /\ Become(r, "inserting") /\ UNCHANGED entries

\* aminsert makes the entry reachable for scans, at one instant, ...
Add(r) ==
    /\ heap[r] = "inserting" /\ r \in Indexed /\ r \notin entries
    /\ entries' = entries \cup {r}
    /\ \/ UNCHANGED heap
       \/ Become(r, "inserted")

\* ... and returns when it is; it returns at once for a row left out.
Return(r) ==
    /\ heap[r] = "inserting" /\ (r \in Indexed => r \in entries)
    /\ Become(r, "inserted") /\ UNCHANGED entries

Fail(r) == heap[r] = "inserting" /\ Become(r, "dead") /\ UNCHANGED entries

Commit(r) == heap[r] = "inserted" /\ Become(r, "live") /\ UNCHANGED entries

Die(r) == heap[r] \in {"inserted", "live"} /\ Become(r, "dead") /\ UNCHANGED entries

\* ambulkdelete may take entries of dead rows away, at any time.
BulkDelete(D) ==
    /\ D \subseteq {r \in Rows : heap[r] = "dead"}
    /\ entries' = entries \ D /\ UNCHANGED heap

\* The heap frees line pointers after ambulkdelete: no entry may be left.
Free(D) ==
    /\ D \subseteq {r \in Rows : heap[r] = "dead"} /\ D \cap entries = {}
    /\ heap' = [r \in Rows |-> IF r \in D THEN "removed" ELSE heap[r]]
    /\ UNCHANGED entries

Next ==
    \/ \E r \in Rows : Store(r) \/ Add(r) \/ Return(r) \/ Fail(r) \/ Commit(r) \/ Die(r)
    \/ \E D \in SUBSET Rows : BulkDelete(D) \/ Free(D)

Spec == Init /\ [][Next]_evars
=============================================================================
