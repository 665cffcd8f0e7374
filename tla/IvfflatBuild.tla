---------------------------- MODULE IvfflatBuild ----------------------------
(***************************************************************************)
(* CREATE INDEX (ivfflat_build_index in ivfflat_build.c), after the        *)
(* centers have been calculated: the metapage, the list pages with one     *)
(* tuple per list, then the entry pages of each list from the tuples the   *)
(* sort returns in list order.  The build runs alone; it is taken one page *)
(* or tuple at a time because that is how its local variables and the      *)
(* pages drift apart when a step is wrong.  The state it ends in is the    *)
(* one the concurrent index of IvfflatIndex starts from.                   *)
(***************************************************************************)
EXTENDS Integers, Sequences, FiniteSets

CONSTANTS
    DefaultLists,  \* IVFFLAT_DEFAULT_LISTS_COUNT
    ListsOption,   \* lists in the WITH clause of CREATE INDEX
    Built,         \* row versions in the table
    Tids, TidOf,   \* their line pointers
    ListOf,        \* the list whose center is nearest to a row, 0: not indexed
    Capacity,      \* entries per page
    ListsPerPage,  \* list tuples per page
    MaxBlocks,     \* block numbers end here
    NoRow, NoTid

\* ctx->list_count, and the number of centers: the WITH clause is not looked at.
NumLists == DefaultLists

Lists == 1 .. NumLists
NotIndexed == 0
AllBlocks == 0 .. MaxBlocks - 1
InvalidBlockNumber == MaxBlocks
Zeroed == 0
HeadBlkno == 1                    \* IVFFLAT_HEAD_BLKNO

\* The list pages take up the blocks before this one.
FirstEntry == HeadBlkno + (NumLists + ListsPerPage - 1) \div ListsPerPage

ASSUME BuildAssumption ==
    /\ DefaultLists \in Nat \ {0} /\ ListsOption \in Nat \ {0}
    /\ Capacity \in Nat \ {0} /\ ListsPerPage \in Nat \ {0}
    /\ MaxBlocks \in Nat /\ FirstEntry + NumLists <= MaxBlocks
    /\ IsFiniteSet(Built) /\ ListOf \in [Built -> Lists \cup {NotIndexed}]
    /\ TidOf \in [Built -> Tids] /\ \A q, r \in Built : TidOf[q] = TidOf[r] => q = r
    /\ NoRow \notin Built /\ NoTid \notin Tids

VARIABLES
    status,        \* what the heap scan sees of each row: done, live, dead
    nblocks,       \* size of the index relation
    next,          \* nextblkno of each page
    lists,         \* list tuples on each page
    items,         \* entries on each page
    pc,            \* where the build is
    i,             \* loop variable of the two loops over the lists
    buf,           \* block of the local variable buf
    start,         \* local variable start_page
    infos,         \* ctx->list_infos: where the tuple of each list is
    sort,          \* rows still in ctx->sort_state
    itup           \* the tuple last read from the sort, NoRow: list_no = -1

file == <<nblocks, next, lists, items>>
locals == <<i, buf, start, infos>>
vars == <<status, file, pc, locals, sort, itup>>

Init ==
    /\ status \in [Built -> {"done", "live", "dead"}]
    /\ nblocks = 0
    /\ next = [b \in AllBlocks |-> Zeroed]
    /\ lists = [b \in AllBlocks |-> <<>>]
    /\ items = [b \in AllBlocks |-> {}]
    /\ pc = "meta" /\ i = 1
    /\ buf = InvalidBlockNumber /\ start = InvalidBlockNumber
    /\ infos = [l \in Lists |-> <<InvalidBlockNumber, 0>>]
    /\ sort = {} /\ itup = NoRow
-----------------------------------------------------------------------------
\* ivfflat_new_buffer and ivfflat_init_page: the next block, linked to nothing.
NewPage ==
    /\ nblocks < MaxBlocks
    /\ nblocks' = nblocks + 1
    /\ next' = [next EXCEPT ![nblocks] = InvalidBlockNumber]
    /\ buf' = nblocks

\* ivfflat_append_page: the next block, linked to the one that is full.
AppendPage_NotLinked == NewPage
AppendPage ==
    /\ nblocks < MaxBlocks
    /\ nblocks' = nblocks + 1
    /\ next' = [next EXCEPT ![nblocks] = InvalidBlockNumber, ![buf] = nblocks]
    /\ buf' = nblocks

\* Stay on the page, or go on to another one if there is no room.
Advance(full) ==
    IF full THEN AppendPage ELSE UNCHANGED <<nblocks, next, buf>>

\* The tuples come out of the sort by list, in any order within one.
FirstInOrder_Unsorted(S) == S
FirstInOrder(S) == {r \in S : \A q \in S : ListOf[r] <= ListOf[q]}

\* ivfflat_get_next_tuple, with S left in the sort
GetNextTuple(S) ==
    IF S = {} THEN itup' = NoRow /\ sort' = {}
    ELSE \E r \in FirstInOrder(S) : itup' = r /\ sort' = S \ {r}

\* ivfflat_update_list on a tuple that has neither page yet
UpdateList(info, insert, first) ==
    lists' = [lists EXCEPT ![info[1]][info[2]] =
                 [start_page |-> first, insert_page |-> insert]]
-----------------------------------------------------------------------------
(* ivfflat_build_index, one page or tuple at a time.  An operator whose    *)
(* name ends in _ and the name of a fault is the one after it with that    *)
(* fault seeded, to see the properties fail.                               *)

CreateMetaPage ==
    /\ pc = "meta"
    /\ NewPage
    /\ pc' = "head"
    /\ UNCHANGED <<status, lists, items, i, start, infos, sort, itup>>

\* ivfflat_create_list_pages starts a page before its loop.
CreateHeadPage ==
    /\ pc = "head"
    /\ NewPage
    /\ pc' = "lists"
    /\ UNCHANGED <<status, lists, items, i, start, infos, sort, itup>>

AddList ==
    /\ pc = "lists" /\ i <= NumLists
    /\ Advance(Len(lists[buf]) >= ListsPerPage)
    /\ lists' = [lists EXCEPT ![buf'] =
                    Append(@, [start_page |-> InvalidBlockNumber,
                               insert_page |-> InvalidBlockNumber])]
    /\ infos' = [infos EXCEPT ![i] = <<buf', Len(lists[buf']) + 1>>]
    /\ i' = i + 1
    /\ UNCHANGED <<status, items, pc, start, sort, itup>>

\* The rows that are not dead, NULL or without direction
TuplesToSort == {r \in Built : status[r] # "dead" /\ ListOf[r] # NotIndexed}

\* The heap scan puts them into the sort; then the first tuple is read.
ScanTuples ==
    /\ pc = "lists" /\ i > NumLists
    /\ GetNextTuple(TuplesToSort)
    /\ i' = 1
    /\ pc' = "list"
    /\ UNCHANGED <<status, file, buf, start, infos>>

\* The first page of list i, which may stay empty.
StartList ==
    /\ pc = "list"
    /\ NewPage
    /\ start' = nblocks
    /\ pc' = "entries"
    /\ UNCHANGED <<status, lists, items, i, infos, sort, itup>>

InList == itup # NoRow /\ ListOf[itup] = i

AddEntry ==
    /\ pc = "entries" /\ InList
    /\ Advance(Cardinality(items[buf]) >= Capacity)
    /\ items' = [items EXCEPT ![buf'] = @ \cup {itup}]
    /\ GetNextTuple(sort)
    /\ UNCHANGED <<status, lists, pc, i, start, infos>>

LastList == i = NumLists

FinishList ==
    /\ pc = "entries" /\ ~InList
    /\ UpdateList(infos[i], buf, start)
    /\ i' = i + 1
    /\ pc' = IF LastList THEN "built" ELSE "list"
    /\ UNCHANGED <<status, nblocks, next, items, buf, start, infos, sort, itup>>

\* A cancelled statement, a failing read or extension: the transaction aborts
\* and the file goes away with it.
BuildError ==
    /\ pc \notin {"built", "failed"}
    /\ pc' = "failed"
    /\ UNCHANGED <<status, file, locals, sort, itup>>

Ended == pc \in {"built", "failed"} /\ UNCHANGED vars

Next ==
    \/ CreateMetaPage \/ CreateHeadPage \/ AddList
    \/ ScanTuples \/ StartList \/ AddEntry \/ FinishList
    \/ BuildError \/ Ended

Spec == Init /\ [][Next]_vars
-----------------------------------------------------------------------------
\* Every variable has the type the code gives it, and the loops over the lists
\* end with the last one.
Blkno == AllBlocks \cup {InvalidBlockNumber}
ListTuple == [start_page : Blkno, insert_page : Blkno]
TypeOK ==
    /\ status \in [Built -> {"done", "live", "dead"}]
    /\ nblocks \in 0 .. MaxBlocks
    /\ next \in [AllBlocks -> Blkno]
    /\ lists \in [AllBlocks -> Seq(ListTuple)]
    /\ items \in [AllBlocks -> SUBSET Built]
    /\ pc \in {"meta", "head", "lists", "list", "entries", "built", "failed"}
    /\ i \in 1 .. NumLists + 1 /\ (pc \in {"list", "entries"} => i \in Lists)
    /\ pc = "built" => i = NumLists + 1
    /\ buf \in Blkno /\ start \in Blkno
    /\ infos \in [Lists -> Blkno \X Nat]
    /\ sort \in SUBSET Built /\ itup \in Built \cup {NoRow}

\* What a reader finds that starts at IVFFLAT_HEAD_BLKNO and follows nextblkno,
\* as ivfflat_find_insert_page, ivfflat_get_scan_lists and ivfflat_bulkdelete do.
TuplesFrom[n \in 0 .. MaxBlocks] ==
    IF n = InvalidBlockNumber THEN <<>>
    ELSE IF next[n] > n THEN lists[n] \o TuplesFrom[next[n]] ELSE lists[n]
ListTuples == TuplesFrom[HeadBlkno]

\* The index as the backends and VACUUM of IvfflatIndex see it.
Entries == FirstEntry .. MaxBlocks - 1
Nobody == [b \in Entries |-> NoRow]
Nowhere == [r \in Built |-> InvalidBlockNumber]
Index == INSTANCE IvfflatIndex WITH
    Rows <- Built, stage <- status, tid <- TidOf,
    next <- [b \in Entries |-> next[b]], items <- [b \in Entries |-> items[b]],
    start_page <- [l \in Lists |-> ListTuples[l].start_page],
    insert_page <- [l \in Lists |-> ListTuples[l].insert_page],
    xlock <- Nobody, extlock <- NoRow,
    page <- Nowhere, orig <- Nowhere, newbuf <- Nowhere,
    vpc <- "idle", vdead <- {}, vlist <- 1,
    vpage <- InvalidBlockNumber, vins <- InvalidBlockNumber

\* The list tuples a reader finds are those of the build, list by list, and the
\* build knows where each is: entries of one list never end up under the center
\* of another, whichever page the tuple is on.
ListTuplesFound ==
    pc \in {"list", "entries", "built"} =>
        /\ Len(ListTuples) = NumLists
        /\ \A l \in Lists : ListTuples[l] = lists[infos[l][1]][infos[l][2]]

\* New blocks come one after the other, and those ahead are untouched.
BlocksInv ==
    /\ \A b \in AllBlocks : b >= nblocks =>
            next[b] = Zeroed /\ lists[b] = <<>> /\ items[b] = {}
    /\ pc = "meta" => nblocks = 0
    /\ pc = "head" => nblocks = HeadBlkno
    /\ pc \in {"meta", "head"} => i = 1
    /\ pc \in {"meta", "head", "lists"} => \A b \in AllBlocks : items[b] = {}
    /\ pc \in {"lists", "entries"} => nblocks > 0 /\ buf = nblocks - 1

\* The list pages so far are full, but for the last, and linked in block order;
\* the tuples are where ctx->list_infos says, and those found from the head.
Listing == pc \in {"lists", "list", "entries", "built"}
LastListPage == IF pc = "lists" THEN buf ELSE FirstEntry - 1
ListsAdded == IF pc = "lists" THEN i - 1 ELSE NumLists
ListPagesInv ==
    Listing =>
        /\ LastListPage \in HeadBlkno .. FirstEntry - 1
        /\ ListsAdded = (LastListPage - 1) * ListsPerPage + Len(lists[LastListPage])
        /\ Len(lists[LastListPage]) <= ListsPerPage
        /\ next[LastListPage] = InvalidBlockNumber
        /\ \A b \in HeadBlkno .. LastListPage - 1 :
                Len(lists[b]) = ListsPerPage /\ next[b] = b + 1
        /\ \A l \in 1 .. ListsAdded :
                /\ infos[l][1] \in HeadBlkno .. LastListPage
                /\ infos[l][2] \in 1 .. Len(lists[infos[l][1]])
                /\ l = (infos[l][1] - 1) * ListsPerPage + infos[l][2]

\* The chains of the lists so far follow each other and take up all blocks behind
\* the list pages.
Layout == pc \in {"list", "entries", "built"}
Begun == IF pc = "entries" THEN 1 .. i ELSE 1 .. i - 1
Tuple(l) == lists[infos[l][1]][infos[l][2]]
First(l) == IF l < i THEN Tuple(l).start_page ELSE start
Last(l) == IF l < i THEN Tuple(l).insert_page ELSE buf
ChainsInv ==
    Layout =>
        /\ nblocks >= FirstEntry
        /\ \A l \in Begun : FirstEntry <= First(l) /\ First(l) <= Last(l) /\ Last(l) < nblocks
        /\ \A l, m \in Begun : l < m => Last(l) < First(m)
        /\ \A b \in FirstEntry .. nblocks - 1 : \E l \in Begun : b \in First(l) .. Last(l)
        /\ \A b \in FirstEntry .. nblocks - 1 :
                next[b] = IF \E l \in Begun : b = Last(l) THEN InvalidBlockNumber ELSE b + 1

\* Every row is in the sort, in itup, or once in the chain of its list; the rows that
\* are left belong to the list the build is at or to later ones.
SortInv ==
    Layout =>
        /\ sort \subseteq TuplesToSort /\ itup \notin sort
        /\ itup = NoRow => sort = {}
        /\ itup # NoRow =>
            /\ itup \in TuplesToSort /\ ListOf[itup] >= i
            /\ \A r \in sort : ListOf[itup] <= ListOf[r]
EntriesInv ==
    Layout =>
        /\ \A b \in AllBlocks : \A r \in items[b] :
            /\ r \in TuplesToSort \ (sort \cup {itup})
            /\ ListOf[r] \in Begun /\ b \in First(ListOf[r]) .. Last(ListOf[r])
            /\ \A c \in AllBlocks : r \in items[c] => c = b
        /\ \A r \in TuplesToSort : r \in sort \/ r = itup \/ \E b \in AllBlocks : r \in items[b]
        /\ \A b \in AllBlocks : Cardinality(items[b]) <= Capacity
        /\ \A l \in Begun : \A b \in First(l) .. Last(l) :
            /\ b < Last(l) => Cardinality(items[b]) = Capacity
            /\ b > First(l) => items[b] # {}

\* What holds at every step of the build.
BuildInv ==
    /\ TypeOK /\ BlocksInv /\ ListPagesInv /\ ListTuplesFound
    /\ ChainsInv /\ SortInv /\ EntriesInv

\* A finished build is a state the concurrent index may start from: every row
\* that is not dead is in the chain of its list once, every chain runs from
\* start_page to insert_page, and no block is outside of them.
BuiltIndexIsReady == pc = "built" => Index!Init

\* README.md says of the option lists that it is the number of inverted lists
\* of the index.  It is not: the metapage and the list pages have the default.
ListsAsRequested == pc = "built" => Len(ListTuples) = ListsOption
=============================================================================
