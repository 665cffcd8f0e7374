----------------------------- MODULE IvfflatScan -----------------------------
(***************************************************************************)
(* An index scan (ivfflat_scan.c) beside the backends that insert and the  *)
(* VACUUM that deletes.  A scan collects line pointers of the probed lists *)
(* page by page, keeps neither lock nor pin on the pages, sorts them by    *)
(* distance and hands them to the executor one by one, which looks the row *)
(* up in the heap much later.  The entry may be gone by then, and its line *)
(* pointer may belong to another row.                                      *)
(***************************************************************************)
EXTENDS IvfflatIndex, NearestLists

CONSTANTS
    Queries,        \* values of the ORDER BY operand
    CenterDistance, \* distance of each list's center to each query
    Distance,       \* distance of each row's vector to each query
    Probes          \* values of pg_hybrid_ivfflat.probes

ASSUME ScanAssumption ==
    /\ CenterDistance \in [Queries -> [Lists -> Int]]
    /\ Distance \in [Queries -> [Rows -> Int]]
    /\ Probes \subseteq Nat \ {0}

VARIABLES
    spc,         \* where the scan is
    snapshot,    \* the rows its MVCC snapshot sees
    query,       \* scan_opaque->value
    max_probes,  \* scan_opaque->max_probes
    list_pages,  \* scan_opaque->list_pages: the lists to probe
    list_index,  \* scan_opaque->list_index
    search_page, \* local variable search_page
    sort,        \* scan_opaque->sort_state: entries, each with its page
    out          \* rows the executor has got, with the distance they came for

scan == <<spc, snapshot, query, max_probes, list_pages, list_index, search_page, sort, out>>
svars == <<vars, scan>>

InitWithScan ==
    /\ Init
    /\ spc = "idle" /\ snapshot = {} /\ query \in Queries /\ max_probes = 1
    /\ list_pages = <<>> /\ list_index = 0 /\ search_page = InvalidBlockNumber
    /\ sort = {} /\ out = <<>>
-----------------------------------------------------------------------------
(* An operator whose name ends in _ and the name of a fault is the one     *)
(* after it with that fault seeded, to see the properties fail.            *)

\* IsMVCCSnapshot is enforced: the executor drops what its snapshot does not see.
Visible_NonMVCC(r) == stage[r] = "live"
Visible(r) == r \in snapshot

\* The page of a list a scan starts at.
FirstPage_AtHint(l) == insert_page[l]
FirstPage(l) == start_page[l]

\* Line pointers in the order of their distance.
Nearest_AnyOrder(S) == S
Nearest(S) == {e \in S : \A f \in S : Distance[query][e[1]] <= Distance[query][f[1]]}

\* A statement takes its snapshot and begins the scan.  A live row that is left
\* out was inserted by a transaction the snapshot does not see, or its deletion
\* is already visible.
BeginScan ==
    /\ spc = "idle"
    /\ spc' = "lists"
    /\ snapshot' \in SUBSET {r \in Rows : stage[r] = "live"}
    /\ query' \in Queries
    /\ \E p \in Probes : max_probes' = MaxProbes(p, NumLists)
    /\ list_index' = 0 /\ out' = <<>>
    /\ UNCHANGED <<vars, list_pages, search_page, sort>>

\* ivfflat_get_scan_lists, then ivfflat_get_scan_items from an empty sort.
GetScanLists ==
    /\ spc = "lists"
    /\ spc' = "items"
    /\ list_pages' \in NearestLists(CenterDistance[query], max_probes)
    /\ search_page' = InvalidBlockNumber /\ sort' = {}
    /\ UNCHANGED <<vars, snapshot, query, max_probes, list_index, out>>

\* The next list to probe.
NextList ==
    /\ spc = "items" /\ search_page = InvalidBlockNumber
    /\ list_index < max_probes
    /\ list_index' = list_index + 1
    /\ search_page' = FirstPage(list_pages[list_index'])
    /\ UNCHANGED <<vars, spc, snapshot, query, max_probes, list_pages, sort, out>>

\* All entries of a page, under its share lock, and the link to the next one.
ScanPage ==
    /\ spc = "items" /\ search_page # InvalidBlockNumber
    /\ LockFree(search_page)
    /\ sort' = sort \cup {<<r, search_page>> : r \in items[search_page]}
    /\ search_page' = next[search_page]
    /\ UNCHANGED <<vars, spc, snapshot, query, max_probes, list_pages, list_index, out>>

PerformSort ==
    /\ spc = "items" /\ search_page = InvalidBlockNumber
    /\ list_index = max_probes
    /\ spc' = "tuples"
    /\ UNCHANGED <<vars, snapshot, query, max_probes, list_pages, list_index,
                   search_page, sort, out>>

\* ivfflat_gettuple returns a line pointer; the executor fetches what the heap
\* has there now and gives it to the plan if its snapshot sees it.
GetTuple ==
    /\ spc = "tuples"
    /\ \E e \in Nearest(sort) :
          /\ sort' = sort \ {e}
          /\ out' = LET found == {q \in Rows : Stored(q) /\ tid[q] = tid[e[1]] /\ Visible(q)}
                    IN  IF found = {} THEN out
                        ELSE Append(out, [row |-> CHOOSE q \in found : TRUE,
                                          distance |-> Distance[query][e[1]]])
    /\ UNCHANGED <<vars, spc, snapshot, query, max_probes, list_pages, list_index, search_page>>

\* ivfflat_gettuple returns false.
NoMoreTuples ==
    /\ spc = "tuples" /\ sort = {}
    /\ spc' = "end"
    /\ UNCHANGED <<vars, snapshot, query, max_probes, list_pages, list_index,
                   search_page, sort, out>>

\* The inner side of a nested loop starts again, with another operand and the
\* same snapshot, wherever the scan is between two calls.
Rescan ==
    /\ spc \in {"tuples", "end"}
    /\ spc' = "lists"
    /\ query' \in Queries
    /\ list_index' = 0 /\ out' = <<>>
    /\ UNCHANGED <<vars, snapshot, max_probes, list_pages, search_page, sort>>

\* The end of the statement, early after a LIMIT or an error.
EndScan ==
    /\ spc # "idle"
    /\ spc' = "idle" /\ snapshot' = {} /\ list_pages' = <<>> /\ list_index' = 0
    /\ search_page' = InvalidBlockNumber /\ sort' = {} /\ out' = <<>>
    /\ UNCHANGED <<vars, query, max_probes>>

ScanStep == GetScanLists \/ NextList \/ ScanPage \/ PerformSort \/ GetTuple \/ NoMoreTuples

\* A step of the others.  The rows a snapshot sees are not dead to everybody.
IndexStep ==
    /\ Next
    /\ \A r \in snapshot : stage'[r] = "live"
    /\ UNCHANGED scan

NextWithScan == BeginScan \/ ScanStep \/ Rescan \/ EndScan \/ IndexStep

SpecWithScan == InitWithScan /\ [][NextWithScan]_svars
-----------------------------------------------------------------------------
Probed == {list_pages[i] : i \in DOMAIN list_pages}

\* Every variable of the scan has the type the code gives it; list_pages is
\* never read past its end.
ScanTypeOK ==
    /\ spc \in {"idle", "lists", "items", "tuples", "end"}
    /\ snapshot \in SUBSET Rows /\ query \in Queries
    /\ max_probes \in 1 .. NumLists
    /\ list_pages \in Seq(Lists) /\ list_index \in 0 .. max_probes
    /\ search_page \in Blkno
    /\ sort \in SUBSET (Rows \X Block)
    /\ out \in Seq([row : Rows, distance : Int])

\* What a statement gets is what its snapshot sees, each row once and with the
\* distance of its own vector: a line pointer that VACUUM freed and another row
\* took while it sat in the sort never brings that other row up, and a row that
\* concurrent inserts and deletions shift around is never met twice.
ResultSound ==
    /\ \A i \in DOMAIN out :
          /\ out[i].row \in snapshot /\ ListOf[out[i].row] \in Probed
          /\ out[i].distance = Distance[query][out[i].row]
    /\ \A i, j \in DOMAIN out : out[i].row = out[j].row => i = j

\* A scan that runs to its end has returned every row of its snapshot whose
\* list it probed, whatever was appended to the chain and deleted from it while
\* the scan walked along, and whether the scan was started anew or not.
ResultComplete ==
    spc = "end" =>
        \A r \in snapshot : ListOf[r] \in Probed => \E i \in DOMAIN out : out[i].row = r

\* Rows come in the order of their distance over all probed lists: the executor
\* does not sort again (xs_recheckorderby is false).
ResultSorted ==
    \A i, j \in DOMAIN out : i < j => out[i].distance <= out[j].distance
-----------------------------------------------------------------------------
(* The inductive invariant of the scan, beside IndexInv.                   *)

\* VACUUM's horizon: what a snapshot sees is not dead to everybody.
SnapshotInv ==
    /\ \A r \in snapshot : stage[r] = "live"
    /\ spc = "idle" => sort = {}

\* An entry in the sort may have lost its row, but its line pointer is not that
\* of another row the snapshot sees.  If the snapshot sees the row itself, the
\* entry is still on the page it came from.
SortInv ==
    \A e \in sort :
        /\ stage[e[1]] # "new" /\ ListOf[e[1]] \in Probed
        /\ \A q \in snapshot : tid[q] = tid[e[1]] => q = e[1]
        /\ e[1] \in snapshot => e[1] \in items[e[2]]

\* The scan is on a page of the list it reads; whatever of its snapshot is on
\* pages it has passed is in the sort, or returned already.
WalkInv ==
    /\ spc \in {"items", "tuples", "end"} => Len(list_pages) = max_probes
    /\ spc = "lists" => list_index = 0
    /\ spc \in {"tuples", "end"} => list_index = max_probes
    /\ spc = "items" =>
          /\ search_page # InvalidBlockNumber =>
                list_index > 0 /\ search_page \in Chain(list_pages[list_index])
          /\ \A m \in 1 .. list_index, r \in snapshot, b \in Block :
                (/\ r \in items[b] /\ ListOf[r] = list_pages[m]
                 /\ m < list_index \/ b < search_page)
                    => <<r, b>> \in sort
    /\ spc \in {"tuples", "end"} =>
          \A r \in snapshot : ListOf[r] \in Probed =>
              \/ \E i \in DOMAIN out : out[i].row = r
              \/ \E b \in Block : <<r, b>> \in sort

\* What is still in the sort is not out yet, and is not nearer than what is.
OutInv ==
    /\ spc \in {"idle", "lists", "items"} => out = <<>>
    /\ spc = "end" => sort = {}
    /\ \A i \in DOMAIN out, e \in sort :
          out[i].row # e[1] /\ out[i].distance <= Distance[query][e[1]]

ScanInv ==
    /\ ScanTypeOK /\ ResultSound /\ ResultComplete /\ ResultSorted
    /\ SnapshotInv /\ SortInv /\ WalkInv /\ OutInv
=============================================================================
