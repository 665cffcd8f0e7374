------------------------- MODULE IvfflatScanProofs -------------------------
(***************************************************************************)
(* What a statement gets from a scan of IvfflatScan is sound, complete and *)
(* sorted, whatever backends and VACUUM do to the index meanwhile.         *)
(***************************************************************************)
EXTENDS IvfflatScan, IvfflatIndexProofs

(* What a scan can rely on from one step of the index to the next.         *)

LEMMA ChainGrows ==
    ASSUME IndexInv, [Next]_vars, NEW l \in Lists
    PROVE  Chain(l) \subseteq Chain(l)'
<1>1. CASE Chain(l)' = Chain(l)
  BY <1>1
<1>2. CASE \E r \in Rows : LinkPage(r) /\ ListOf[r] = l
  <2>1. PICK r \in Rows : LinkPage(r) /\ ListOf[r] = l
    BY <1>2
  <2>2. Chain(l)' = Chain(l) \cup {newbuf[r]}
    BY <2>1, LinkPageFacts DEF IndexInv
  <2> QED BY <2>2
<1> QED BY <1>1, <1>2, ChainSteps DEF IndexInv

\* A row that has been stored keeps its line pointer, even when it is removed.
LEMMA TidStays ==
    ASSUME TypeOK, Next, NEW r \in Rows, stage[r] # "new"
    PROVE  tid'[r] = tid[r] /\ stage'[r] # "new"
<1>1. ASSUME NEW q \in Rows, NEW t \in Tids, StoreRow(q, t)
      PROVE  tid'[r] = tid[r] /\ stage'[r] # "new"
  BY <1>1 DEF StoreRow, TypeOK
<1>2. ASSUME NEW q \in Rows, NEW v \in Stages \ {"new"}, stage' = [stage EXCEPT ![q] = v]
      PROVE  stage'[r] # "new"
  BY <1>2 DEF TypeOK
<1>3. ASSUME NEW q \in Rows, InsertStep(q)
      PROVE  tid' = tid /\ stage'[r] # "new"
  <2>1. tid' = tid
    BY <1>3 DEF InsertStep, SkipRow, FindInsertPage, ReadBuffer, AddItem, MoveRight, HoldTail,
       LockExtension, NewBuffer, LinkPage, FillPage, UpdateList, OutOfBlocks, Fail
  <2>2. \E v \in Stages \ {"new"} : stage' = [stage EXCEPT ![q] = v]
    BY <1>3 DEF InsertStep, SkipRow, FindInsertPage, ReadBuffer, AddItem, MoveRight, HoldTail,
       LockExtension, NewBuffer, LinkPage, FillPage, UpdateList, OutOfBlocks, Fail, PutEntry,
       Leave, Stages, Inserting, Walking, Extending
  <2> QED BY <1>2, <2>1, <2>2
<1>4. ASSUME NEW q \in Rows, InsertError(q) \/ Commit(q) \/ Abort(q) \/ Delete(q)
      PROVE  tid' = tid /\ stage'[r] # "new"
  <2>1. tid' = tid /\ \E v \in {"live", "dead"} : stage' = [stage EXCEPT ![q] = v]
    BY <1>4 DEF InsertError, Fail, Leave, Commit, Abort, Delete
  <2> QED BY <1>2, <2>1 DEF Stages
<1>5. ASSUME RecycleTids
      PROVE  tid' = tid /\ stage'[r] # "new"
  BY <1>5 DEF RecycleTids
<1>6. ASSUME VacuumPage \/ VacuumList \/ CancelVacuum \/ AllRemoved
             \/ \E D \in SUBSET Tids : StartVacuum(D)
      PROVE  tid' = tid /\ stage' = stage
  BY <1>6 DEF VacuumPage, VacuumList, CancelVacuum, AllRemoved, StartVacuum, vars, rows
<1> QED BY <1>1, <1>3, <1>4, <1>5, <1>6 DEF Next, VacuumStep

\* The entries of a live row stay where they are: a page that holds one is never
\* initialized again, and VACUUM takes only what is dead.
LEMMA LiveEntriesKept ==
    ASSUME IndexInv, Next, NEW r \in Rows, stage[r] = "live", NEW b \in Block, r \in items[b]
    PROVE  r \in items'[b]
<1>1. TypeOK /\ ChainsWellFormed /\ BackendInv /\ EntryInv /\ VacuumInv
  BY DEF IndexInv, EntryPagesInv
<1>2. ListOf[r] \in Lists /\ b \in Chain(ListOf[r]) /\ b < nblocks /\ next[b] > b
  BY <1>1 DEF EntryInv, ChainsWellFormed
<1>3. items[b] \subseteq Rows /\ items \in [Block -> SUBSET Rows]
  BY <1>1 DEF TypeOK
<1>4. ASSUME NEW q \in Rows, NewBuffer(q) PROVE r \in items'[b]
  <2>1. newbuf[q] = nblocks
    BY <1>1, <1>4 DEF BackendInv, NewBuffer, Extending
  <2>2. newbuf[q] # b
    BY <1>2, <2>1, IndexAssumption DEF Block
  <2> QED BY <1>3, <1>4, <2>2 DEF NewBuffer
<1>5. ASSUME NEW q \in Rows, LinkPage(q) PROVE r \in items'[b]
  <2>1. next[newbuf[q]] = Zeroed
    BY <1>1, <1>5 DEF BackendInv, LinkPage
  <2>2. newbuf[q] # b
    BY <1>2, <2>1, IndexAssumption DEF Block, Zeroed
  <2> QED BY <1>3, <1>5, <2>2 DEF LinkPage
<1>6. ASSUME NEW q \in Rows, NEW c, PutEntry(q, c) PROVE r \in items'[b]
  BY <1>3, <1>6 DEF PutEntry
<1>7. ASSUME NEW q \in Rows, InsertStep(q) PROVE r \in items'[b]
  <2>1. CASE AddItem(q) \/ FillPage(q)
    BY <1>6, <2>1 DEF AddItem, FillPage
  <2>2. CASE NewBuffer(q) \/ LinkPage(q)
    BY <1>4, <1>5, <2>2
  <2>3. CASE ~(AddItem(q) \/ FillPage(q) \/ NewBuffer(q) \/ LinkPage(q))
    BY <1>7, <2>3 DEF InsertStep, SkipRow, FindInsertPage, ReadBuffer, MoveRight, HoldTail,
       LockExtension, UpdateList, OutOfBlocks, Fail, pages
  <2> QED BY <2>1, <2>2, <2>3
<1>8. ASSUME VacuumPage PROVE r \in items'[b]
  <2>1. ~IsDead(r)
    BY <1>1, OnlyDeadAreCollected DEF Stored
  <2> QED BY <1>3, <1>8, <2>1 DEF VacuumPage
<1>9. ASSUME NEW q \in Rows,
             (\E t \in Tids : StoreRow(q, t)) \/ InsertError(q) \/ Commit(q) \/ Abort(q) \/ Delete(q)
      PROVE  items' = items
  BY <1>9 DEF StoreRow, InsertError, Fail, Commit, Abort, Delete, pages
<1>10. ASSUME VacuumList \/ RecycleTids \/ CancelVacuum \/ AllRemoved
              \/ \E D \in SUBSET Tids : StartVacuum(D)
       PROVE  items' = items
  BY <1>10 DEF VacuumList, RecycleTids, CancelVacuum, AllRemoved, StartVacuum, vars, pages
<1> QED BY <1>7, <1>8, <1>9, <1>10 DEF Next, VacuumStep

LEMMA LiveEntriesStay ==
    ASSUME IndexInv, Next, NEW r \in Rows, stage[r] = "live", ListOf[r] \in Lists
    PROVE  \A b \in Block : r \in items'[b] <=> r \in items[b]
<1>1. PICK c \in Block : r \in items[c]
  BY DEF IndexInv, EntryPagesInv, EntryInv, RowIndexedOnce, Chain, Reachable, Lists, NotIndexed
<1>2. r \in items'[c]
  BY <1>1, LiveEntriesKept
<1>3. IndexInv'
  BY NextInv
<1>4. ASSUME NEW b \in Block, r \in items'[b] PROVE b = c
  BY <1>2, <1>3, <1>4 DEF IndexInv, EntryPagesInv, EntryInv, RowIndexedOnce
<1> QED BY <1>1, <1>4, LiveEntriesKept

-----------------------------------------------------------------------------
(* Every step preserves the invariant of the scan.                         *)

LEMMA InitScanInv ==
    ASSUME InitWithScan
    PROVE  ScanInv
<1>1. ScanTypeOK
  BY IndexAssumption DEF InitWithScan, ScanTypeOK, Blkno, Lists
<1>2. ResultSound /\ ResultComplete /\ ResultSorted
  BY DEF InitWithScan, ResultSound, ResultComplete, ResultSorted
<1>3. SnapshotInv /\ SortInv /\ WalkInv /\ OutInv
  BY DEF InitWithScan, SnapshotInv, SortInv, WalkInv, OutInv
<1> QED BY <1>1, <1>2, <1>3 DEF ScanInv

\* The others leave the scan alone, and its snapshot's rows where they are.
LEMMA IndexStepScanInv ==
    ASSUME IndexInv, ScanInv, IndexStep
    PROVE  ScanInv'
<1>1. /\ ScanTypeOK /\ ResultSound /\ ResultComplete /\ ResultSorted
      /\ SnapshotInv /\ SortInv /\ WalkInv /\ OutInv
  BY DEF ScanInv
<1>2. /\ UNCHANGED <<spc, snapshot, query, max_probes, list_pages, list_index, search_page,
                     sort, out>>
      /\ Next /\ TypeOK
      /\ \A r \in snapshot : stage[r] = "live" /\ stage'[r] = "live"
  BY <1>1 DEF IndexStep, scan, IndexInv, EntryPagesInv, SnapshotInv
<1>3. ASSUME NEW r \in snapshot, ListOf[r] \in Lists
      PROVE  \A b \in Block : r \in items'[b] <=> r \in items[b]
  BY <1>1, <1>2, <1>3, LiveEntriesStay DEF ScanTypeOK
<1>4. Probed \subseteq Lists /\ Probed' = Probed
  BY <1>1, <1>2 DEF ScanTypeOK, Probed
<1>5. ScanTypeOK' /\ ResultSound' /\ ResultComplete' /\ ResultSorted' /\ OutInv'
  BY <1>1, <1>2 DEF ScanTypeOK, ResultSound, ResultComplete, ResultSorted, OutInv, Probed
<1>6. SnapshotInv'
  BY <1>1, <1>2 DEF SnapshotInv
<1>7. SortInv'
  <2> SUFFICES ASSUME NEW e \in sort
               PROVE  /\ stage'[e[1]] # "new" /\ ListOf[e[1]] \in Probed
                      /\ \A q \in snapshot : tid'[q] = tid'[e[1]] => q = e[1]
                      /\ e[1] \in snapshot => e[1] \in items'[e[2]]
    BY <1>2, <1>4 DEF SortInv
  <2>1. e[1] \in Rows /\ e[2] \in Block /\ snapshot \subseteq Rows
    BY <1>1 DEF ScanTypeOK
  <2>2. /\ stage[e[1]] # "new" /\ ListOf[e[1]] \in Probed
        /\ \A q \in snapshot : tid[q] = tid[e[1]] => q = e[1]
        /\ e[1] \in snapshot => e[1] \in items[e[2]]
    BY <1>1 DEF SortInv
  <2>3. tid'[e[1]] = tid[e[1]] /\ stage'[e[1]] # "new"
    BY <1>2, <2>1, <2>2, TidStays
  <2>4. \A q \in snapshot : tid'[q] = tid[q]
    BY <1>2, <2>1, TidStays
  <2> QED BY <1>3, <1>4, <2>1, <2>2, <2>3, <2>4
<1>8. WalkInv'
  <2>1. ASSUME spc = "items", search_page # InvalidBlockNumber
        PROVE  search_page \in Chain(list_pages[list_index])'
    <3>1. list_index \in 1 .. Len(list_pages) /\ search_page \in Chain(list_pages[list_index])
      BY <1>1, <2>1, IndexAssumption DEF WalkInv, ScanTypeOK, Lists
    <3>2. PICK l \in Lists : l = list_pages[list_index]
      BY <1>1, <3>1 DEF ScanTypeOK
    <3>3. Chain(l) \subseteq Chain(l)'
      BY <1>2, ChainGrows
    <3> QED BY <1>2, <3>1, <3>2, <3>3 DEF Chain
  <2>2. ASSUME spc = "items", NEW m \in 1 .. list_index, NEW r \in snapshot, NEW b \in Block,
               r \in items'[b], ListOf[r] = list_pages[m], m < list_index \/ b < search_page
        PROVE  <<r, b>> \in sort
    <3>1. list_pages[m] \in Lists
      BY <1>1, <2>2, IndexAssumption DEF WalkInv, ScanTypeOK, Lists
    <3>2. r \in items[b]
      BY <1>3, <2>2, <3>1
    <3> QED BY <1>1, <2>2, <3>2 DEF WalkInv
  <2>3. (spc \in {"tuples", "end"} =>
          \A r \in snapshot : ListOf[r] \in Probed =>
              \/ \E i \in DOMAIN out : out[i].row = r
              \/ \E b \in Block : <<r, b>> \in sort)'
    BY <1>1, <1>2, <1>4 DEF WalkInv
  <2> QED BY <1>1, <1>2, <2>1, <2>2, <2>3 DEF WalkInv
<1> QED BY <1>5, <1>6, <1>7, <1>8 DEF ScanInv

LEMMA BeginScanInv ==
    ASSUME IndexInv, ScanInv, BeginScan
    PROVE  ScanInv'
<1>1. ScanTypeOK /\ SnapshotInv /\ spc = "idle"
  BY DEF ScanInv, BeginScan
<1>2. sort' = {} /\ out' = <<>> /\ list_index' = 0 /\ spc' = "lists"
  BY <1>1 DEF BeginScan, SnapshotInv
<1>3. max_probes' \in 1 .. NumLists
  BY ScanAssumption, IndexAssumption DEF BeginScan, MaxProbes
<1>4. ScanTypeOK'
  BY <1>1, <1>2, <1>3, IndexAssumption DEF BeginScan, ScanTypeOK, vars, pages
<1>5. SnapshotInv'
  BY <1>2 DEF BeginScan, SnapshotInv, vars, rows
<1>6. ResultSound' /\ ResultComplete' /\ ResultSorted' /\ SortInv' /\ WalkInv' /\ OutInv'
  BY <1>2 DEF ResultSound, ResultComplete, ResultSorted, SortInv, WalkInv, OutInv
<1> QED BY <1>4, <1>5, <1>6 DEF ScanInv

LEMMA GetScanListsInv ==
    ASSUME IndexInv, ScanInv, GetScanLists
    PROVE  ScanInv'
<1>1. ScanTypeOK /\ SnapshotInv /\ WalkInv /\ OutInv /\ spc = "lists"
  BY DEF ScanInv, GetScanLists
<1>2. /\ sort' = {} /\ out' = <<>> /\ list_index' = 0 /\ spc' = "items"
      /\ search_page' = InvalidBlockNumber /\ max_probes' = max_probes
  BY <1>1 DEF GetScanLists, WalkInv, OutInv
<1>3. list_pages' \in [1 .. max_probes -> Lists]
  <2>1. DOMAIN CenterDistance[query] = Lists
    BY <1>1, ScanAssumption DEF ScanTypeOK
  <2> QED BY <2>1 DEF GetScanLists, NearestLists
<1>4. list_pages' \in Seq(Lists) /\ Len(list_pages') = max_probes
  BY <1>1, <1>3, IndexAssumption DEF ScanTypeOK
<1>5. ScanTypeOK'
  BY <1>1, <1>2, <1>4 DEF GetScanLists, ScanTypeOK, Blkno
<1>6. SnapshotInv'
  BY <1>1, <1>2 DEF GetScanLists, SnapshotInv, vars, rows
<1>7. ResultSound' /\ ResultComplete' /\ ResultSorted' /\ SortInv' /\ OutInv'
  BY <1>2 DEF ResultSound, ResultComplete, ResultSorted, SortInv, OutInv
<1>8. WalkInv'
  BY <1>2, <1>4 DEF WalkInv
<1> QED BY <1>5, <1>6, <1>7, <1>8 DEF ScanInv

\* The entries of the list read before are all in the sort; those of the next
\* list are on its first page or behind.
LEMMA NextListInv ==
    ASSUME IndexInv, ScanInv, NextList
    PROVE  ScanInv'
<1>1. /\ ScanTypeOK /\ SnapshotInv /\ SortInv /\ WalkInv /\ OutInv /\ TypeOK /\ EntryInv
      /\ ChainsWellFormed /\ spc = "items" /\ search_page = InvalidBlockNumber
      /\ list_index < max_probes
  BY DEF ScanInv, NextList, IndexInv, EntryPagesInv
<1>2. /\ UNCHANGED <<vars, spc, snapshot, query, max_probes, list_pages, sort, out>>
      /\ list_index' = list_index + 1 /\ search_page' = start_page[list_pages[list_index']]
  BY DEF NextList, FirstPage
<1>3. list_index \in Nat /\ list_index' \in 1 .. Len(list_pages) /\ list_index' \in 0 .. max_probes
  BY <1>1, <1>2, IndexAssumption DEF ScanTypeOK, WalkInv
<1>4. PICK l \in Lists : l = list_pages[list_index']
  BY <1>1, <1>3 DEF ScanTypeOK
<1>5. search_page' \in Block /\ search_page' \in Chain(l)
  BY <1>1, <1>2, <1>4, StartPageInBlock
<1>6. ScanTypeOK'
  BY <1>1, <1>2, <1>3, <1>5 DEF ScanTypeOK, Blkno
<1>7. SnapshotInv' /\ SortInv' /\ OutInv'
  BY <1>1, <1>2 DEF SnapshotInv, SortInv, OutInv, Probed, vars, rows, pages
<1>8. ResultSound' /\ ResultComplete' /\ ResultSorted'
  BY <1>1, <1>2 DEF OutInv, ResultSound, ResultComplete, ResultSorted
<1>9. (search_page \in Chain(list_pages[list_index]))'
  BY <1>2, <1>4, <1>5 DEF Chain, vars, pages
<1>10. ASSUME NEW m \in 1 .. list_index', NEW r \in snapshot, NEW b \in Block,
              r \in items[b], ListOf[r] = list_pages[m], m < list_index' \/ b < search_page'
       PROVE  <<r, b>> \in sort
  <2>1. CASE m < list_index'
    <3>1. m \in 1 .. list_index /\ b < search_page
      BY <1>1, <1>2, <1>3, <1>10, <2>1, IndexAssumption DEF InvalidBlockNumber, Block
    <3> QED BY <1>1, <1>10, <3>1 DEF WalkInv
  <2>2. CASE m = list_index' /\ b < search_page'
    <3>1. b \in Chain(l)
      BY <1>1, <1>4, <1>10, <2>2 DEF EntryInv
    <3>2. start_page[l] <= b
      BY <1>1, <3>1, FirstIsLeast
    <3> QED BY <1>2, <1>4, <1>5, <2>2, <3>2, IndexAssumption DEF Block
  <2> QED BY <1>3, <1>10, <2>1, <2>2
<1>11. WalkInv'
  BY <1>1, <1>2, <1>3, <1>9, <1>10 DEF WalkInv, vars, pages
<1> QED BY <1>6, <1>7, <1>8, <1>11 DEF ScanInv

\* A page is passed with all its entries, and none of the list is between it and
\* the next one.
LEMMA ScanPageInv ==
    ASSUME IndexInv, ScanInv, ScanPage
    PROVE  ScanInv'
<1> DEFINE p == search_page
           L == list_pages[list_index]
<1>1. /\ ScanTypeOK /\ SnapshotInv /\ SortInv /\ WalkInv /\ OutInv /\ TypeOK /\ EntryInv
      /\ VacuumInv /\ ChainsWellFormed /\ spc = "items" /\ p # InvalidBlockNumber
  BY DEF ScanInv, ScanPage, IndexInv, EntryPagesInv
<1>2. /\ UNCHANGED <<vars, spc, snapshot, query, max_probes, list_pages, list_index, out>>
      /\ sort' = sort \cup {<<r, p>> : r \in items[p]} /\ search_page' = next[p]
  BY DEF ScanPage
<1>3. list_index \in 1 .. Len(list_pages) /\ L \in Lists /\ L \in Probed /\ p \in Chain(L)
  <2>1. list_index \in 1 .. Len(list_pages) /\ p \in Chain(L)
    BY <1>1, IndexAssumption DEF ScanTypeOK, WalkInv, Lists
  <2> QED BY <1>1, <2>1 DEF ScanTypeOK, Probed
<1>4. p \in Block /\ next[p] \in Chain(L) \cup {InvalidBlockNumber}
  BY <1>1, <1>3, ChainNext
<1>5. next[p] \in Blkno
  BY <1>4 DEF Chain, Reachable, Blkno
<1>6. items[p] \subseteq Rows
  BY <1>1, <1>4 DEF TypeOK
<1>7. ScanTypeOK'
  BY <1>1, <1>2, <1>4, <1>5, <1>6 DEF ScanTypeOK
<1>8. SnapshotInv' /\ OutInv'
  BY <1>1, <1>2 DEF SnapshotInv, OutInv, vars, rows
<1>9. ResultSound' /\ ResultComplete' /\ ResultSorted'
  BY <1>1, <1>2 DEF OutInv, ResultSound, ResultComplete, ResultSorted
<1>10. ASSUME NEW r \in items[p]
       PROVE  /\ stage[r] # "new" /\ ListOf[r] = L
              /\ \A q \in snapshot : tid[q] = tid[r] => q = r
  <2>1. ListOf[r] \in Lists /\ p \in Chain(ListOf[r]) /\ Stored(r)
    BY <1>1, <1>4, <1>10 DEF EntryInv, Stored
  <2>2. ListOf[r] = L
    BY <1>1, <1>3, <2>1 DEF ChainsWellFormed
  <2>3. ASSUME NEW q \in snapshot, tid[q] = tid[r] PROVE q = r
    <3>1. q \in Rows /\ Stored(q)
      BY <1>1, <2>3 DEF ScanTypeOK, SnapshotInv, Stored
    <3> QED BY <1>1, <1>6, <1>10, <2>1, <2>3, <3>1 DEF VacuumInv
  <2> QED BY <2>1, <2>2, <2>3 DEF Stored
<1>11. SortInv'
  <2> SUFFICES ASSUME NEW e \in sort'
               PROVE  /\ stage[e[1]] # "new" /\ ListOf[e[1]] \in Probed
                      /\ \A q \in snapshot : tid[q] = tid[e[1]] => q = e[1]
                      /\ e[1] \in snapshot => e[1] \in items[e[2]]
    BY <1>2 DEF SortInv, Probed, vars, rows, pages
  <2>1. CASE e \in sort
    BY <1>1, <2>1 DEF SortInv
  <2>2. CASE \E r \in items[p] : e = <<r, p>>
    BY <1>3, <1>10, <2>2
  <2> QED BY <1>2, <2>1, <2>2
<1>12. ASSUME search_page' # InvalidBlockNumber
       PROVE  list_index > 0 /\ (search_page \in Chain(list_pages[list_index]))'
  <2>1. search_page' \in Chain(L)
    BY <1>2, <1>4, <1>12
  <2> QED BY <1>2, <1>3, <2>1 DEF Chain, vars, pages
<1>13. ASSUME NEW m \in 1 .. list_index, NEW r \in snapshot, NEW b \in Block,
              r \in items[b], ListOf[r] = list_pages[m], m < list_index \/ b < search_page'
       PROVE  <<r, b>> \in sort'
  <2>1. CASE m < list_index \/ b < p
    BY <1>1, <1>2, <1>13, <2>1 DEF WalkInv
  <2>2. CASE m = list_index /\ b = p
    BY <1>2, <1>13, <2>2
  <2>3. CASE m = list_index /\ b > p
    <3>1. b \in Chain(L)
      BY <1>1, <1>13, <2>3 DEF EntryInv
    <3>2. next[p] \in Block /\ next[p] <= b
      BY <1>1, <1>3, <2>3, <3>1 DEF ChainsWellFormed
    <3> QED BY <1>2, <1>3, <1>13, <2>3, <3>2, IndexAssumption DEF Block
  <2> QED BY <1>3, <1>4, <1>13, <2>1, <2>2, <2>3, IndexAssumption DEF Block
<1>14. WalkInv'
  BY <1>1, <1>2, <1>12, <1>13 DEF WalkInv, vars, pages
<1> QED BY <1>7, <1>8, <1>9, <1>11, <1>14 DEF ScanInv

LEMMA PerformSortInv ==
    ASSUME IndexInv, ScanInv, PerformSort
    PROVE  ScanInv'
<1>1. /\ ScanTypeOK /\ SnapshotInv /\ SortInv /\ WalkInv /\ OutInv /\ EntryInv
      /\ spc = "items" /\ search_page = InvalidBlockNumber /\ list_index = max_probes
  BY DEF ScanInv, PerformSort, IndexInv, EntryPagesInv
<1>2. /\ UNCHANGED <<vars, snapshot, query, max_probes, list_pages, list_index, search_page,
                     sort, out>>
      /\ spc' = "tuples"
  BY DEF PerformSort
<1>3. ASSUME NEW r \in snapshot, ListOf[r] \in Probed
      PROVE  \E b \in Block : <<r, b>> \in sort
  <2>1. PICK m \in 1 .. list_index : ListOf[r] = list_pages[m]
    BY <1>1, <1>3, IndexAssumption DEF Probed, WalkInv, ScanTypeOK
  <2>2. r \in Rows /\ stage[r] = "live" /\ ListOf[r] \in Lists
    BY <1>1, <1>3 DEF ScanTypeOK, SnapshotInv, Probed
  <2>3. PICK b \in Block : r \in items[b]
    BY <1>1, <2>2 DEF EntryInv, RowIndexedOnce, Chain, Reachable, Lists, NotIndexed
  <2>4. b < search_page
    BY <1>1, <2>3, IndexAssumption DEF Block, InvalidBlockNumber
  <2> QED BY <1>1, <2>1, <2>3, <2>4 DEF WalkInv
<1>4. ScanTypeOK' /\ SnapshotInv' /\ SortInv' /\ OutInv'
  BY <1>1, <1>2 DEF ScanTypeOK, SnapshotInv, SortInv, OutInv, Probed, vars, rows, pages
<1>5. ResultSound' /\ ResultComplete' /\ ResultSorted'
  BY <1>1, <1>2 DEF OutInv, ResultSound, ResultComplete, ResultSorted
<1>6. WalkInv'
  BY <1>1, <1>2, <1>3 DEF WalkInv, Probed
<1> QED BY <1>4, <1>5, <1>6 DEF ScanInv

\* The heap's row at the entry's line pointer is the entry's row or invisible.
LEMMA FoundIsEntry ==
    ASSUME SortInv, NEW e \in sort, NEW q \in snapshot, tid[q] = tid[e[1]]
    PROVE  q = e[1]
BY DEF SortInv

LEMMA GetTupleInv ==
    ASSUME IndexInv, ScanInv, GetTuple
    PROVE  ScanInv'
<1>1. /\ ScanTypeOK /\ ResultSound /\ ResultSorted /\ SnapshotInv /\ SortInv /\ WalkInv
      /\ OutInv /\ EntryInv /\ spc = "tuples"
  BY DEF ScanInv, GetTuple, IndexInv, EntryPagesInv
<1>2. PICK e \in Nearest(sort) :
          /\ sort' = sort \ {e}
          /\ out' = LET found == {q \in Rows : Stored(q) /\ tid[q] = tid[e[1]] /\ Visible(q)}
                    IN  IF found = {} THEN out
                        ELSE Append(out, [row |-> CHOOSE q \in found : TRUE,
                                          distance |-> Distance[query][e[1]]])
  BY DEF GetTuple
<1> DEFINE r == e[1]
           dist == Distance[query][r]
<1>3. /\ UNCHANGED <<vars, spc, snapshot, query, max_probes, list_pages, list_index, search_page>>
      /\ sort' \subseteq sort
  BY <1>2 DEF GetTuple
<1>4. /\ e \in sort /\ r \in Rows /\ dist \in Int /\ e[2] \in Block /\ e = <<r, e[2]>>
      /\ \A f \in sort : dist <= Distance[query][f[1]]
  BY <1>1, <1>2, ScanAssumption DEF Nearest, ScanTypeOK
<1>5. CASE r \notin snapshot
  <2>1. out' = out
    <3>1. ASSUME NEW q \in Rows, tid[q] = tid[r], Visible(q) PROVE FALSE
      BY <1>1, <1>4, <1>5, <3>1, FoundIsEntry DEF Visible
    <3> QED BY <1>2, <3>1
  <2>2. ASSUME NEW q \in snapshot, NEW b \in Block, <<q, b>> \in sort
        PROVE  <<q, b>> \in sort'
    BY <1>2, <1>4, <1>5, <2>2
  <2>3. ScanTypeOK' /\ SnapshotInv' /\ SortInv' /\ OutInv'
    BY <1>1, <1>3, <2>1 DEF ScanTypeOK, SnapshotInv, SortInv, OutInv, Probed, vars, rows, pages
  <2>4. ResultSound' /\ ResultComplete' /\ ResultSorted'
    BY <1>1, <1>3, <2>1 DEF ResultSound, ResultComplete, ResultSorted, Probed
  <2>5. WalkInv'
    BY <1>1, <1>3, <2>1, <2>2 DEF WalkInv, Probed
  <2> QED BY <2>3, <2>4, <2>5 DEF ScanInv
<1>6. CASE r \in snapshot
  <2> DEFINE n == Len(out) + 1
             new == [row |-> r, distance |-> dist]
  <2>1. out' = Append(out, new)
    <3> DEFINE found == {q \in Rows : Stored(q) /\ tid[q] = tid[r] /\ Visible(q)}
    <3>1. r \in found
      BY <1>1, <1>4, <1>6 DEF SnapshotInv, Stored, Visible
    <3>2. \A q \in found : q = r
      BY <1>1, <1>4, FoundIsEntry DEF Visible
    <3>3. (CHOOSE q \in found : TRUE) = r
      BY <3>1, <3>2
    <3> QED BY <1>2, <3>1, <3>3
  <2>2. new \in [row : Rows, distance : Int] /\ out \in Seq([row : Rows, distance : Int])
    BY <1>1, <1>4 DEF ScanTypeOK
  <2> HIDE DEF new
  <2>3. /\ out' \in Seq([row : Rows, distance : Int])
        /\ DOMAIN out' = DOMAIN out \cup {n} /\ n \notin DOMAIN out /\ DOMAIN out = 1 .. Len(out)
        /\ Len(out) \in Nat
        /\ out'[n] = new /\ \A i \in DOMAIN out : out'[i] = out[i]
    BY <2>1, <2>2
  <2>4. new.row = r /\ new.distance = dist
    BY DEF new
  <2> HIDE DEF n
  <2>5. ListOf[r] \in Probed /\ r \in items[e[2]]
    BY <1>1, <1>4, <1>6 DEF SortInv
  <2>6. ASSUME NEW i \in DOMAIN out PROVE out[i].row # r /\ out[i].distance <= dist
    BY <1>1, <1>4, <2>6 DEF OutInv
  <2>7. ASSUME NEW f \in sort' PROVE f[1] # r /\ f \in sort
    <3>1. f \in sort /\ f # e /\ f = <<f[1], f[2]>> /\ f[2] \in Block
      BY <1>1, <1>2, <2>7 DEF ScanTypeOK
    <3>2. ASSUME f[1] = r PROVE FALSE
      <4>1. r \in items[f[2]]
        BY <1>1, <1>6, <3>1, <3>2 DEF SortInv
      <4>2. f[2] = e[2]
        BY <1>1, <1>4, <2>5, <3>1, <4>1 DEF EntryInv, RowIndexedOnce
      <4> QED BY <1>4, <3>1, <3>2, <4>2
    <3> QED BY <3>1, <3>2
  <2>8. ScanTypeOK'
    BY <1>1, <1>3, <2>3 DEF ScanTypeOK
  <2>9. SnapshotInv' /\ SortInv'
    BY <1>1, <1>3 DEF SnapshotInv, SortInv, Probed, vars, rows, pages
  <2>10. OutInv'
    <3>1. ASSUME NEW i \in DOMAIN out', NEW f \in sort'
          PROVE  out'[i].row # f[1] /\ out'[i].distance <= Distance[query][f[1]]
      <4>1. CASE i \in DOMAIN out
        BY <1>1, <1>3, <2>3, <2>7, <3>1, <4>1 DEF OutInv
      <4>2. CASE i = n
        BY <1>4, <2>3, <2>4, <2>7, <3>1, <4>2
      <4> QED BY <2>3, <3>1, <4>1, <4>2
    <3> QED BY <1>1, <1>3, <3>1 DEF OutInv
  <2>11. ResultSound'
    <3>1. ASSUME NEW i \in DOMAIN out'
          PROVE  /\ out'[i].row \in snapshot /\ ListOf[out'[i].row] \in Probed
                 /\ out'[i].distance = Distance[query][out'[i].row]
      <4>1. CASE i \in DOMAIN out
        BY <1>1, <2>3, <4>1 DEF ResultSound
      <4>2. CASE i = n
        BY <1>6, <2>3, <2>4, <2>5, <4>2
      <4> QED BY <2>3, <3>1, <4>1, <4>2
    <3>2. ASSUME NEW i \in DOMAIN out', NEW j \in DOMAIN out', out'[i].row = out'[j].row
          PROVE  i = j
      <4>1. CASE i \in DOMAIN out /\ j \in DOMAIN out
        BY <1>1, <2>3, <3>2, <4>1 DEF ResultSound
      <4>2. CASE i = n \/ j = n
        BY <2>3, <2>4, <2>6, <3>2, <4>2
      <4> QED BY <2>3, <3>2, <4>1, <4>2
    <3> QED BY <1>3, <3>1, <3>2 DEF ResultSound, Probed
  <2>12. ResultSorted'
    <3>1. ASSUME NEW i \in DOMAIN out', NEW j \in DOMAIN out', i < j
          PROVE  out'[i].distance <= out'[j].distance
      <4>1. CASE j \in DOMAIN out
        <5>1. i \in DOMAIN out
          BY <2>3, <3>1, <4>1 DEF n
        <5> QED BY <1>1, <2>3, <3>1, <4>1, <5>1 DEF ResultSorted
      <4>2. CASE j = n
        <5>1. i \in DOMAIN out
          BY <2>3, <3>1, <4>2 DEF n
        <5> QED BY <2>3, <2>4, <2>6, <4>2, <5>1
      <4> QED BY <2>3, <3>1, <4>1, <4>2
    <3> QED BY <3>1 DEF ResultSorted
  <2>13. WalkInv'
    <3>1. ASSUME NEW q \in snapshot, ListOf[q] \in Probed
          PROVE  \/ \E i \in DOMAIN out' : out'[i].row = q
                 \/ \E b \in Block : <<q, b>> \in sort'
      <4>1. CASE q = r
        BY <2>3, <2>4, <4>1
      <4>2. CASE q # r
        <5>1. CASE \E i \in DOMAIN out : out[i].row = q
          BY <2>3, <5>1
        <5>2. CASE \E b \in Block : <<q, b>> \in sort
          <6>1. PICK b \in Block : <<q, b>> \in sort
            BY <5>2
          <6>2. <<q, b>> # e
            BY <1>4, <4>2
          <6> QED BY <1>2, <6>1, <6>2
        <5> QED BY <1>1, <3>1, <5>1, <5>2 DEF WalkInv
      <4> QED BY <4>1, <4>2
    <3> QED BY <1>1, <1>3, <3>1 DEF WalkInv, Probed
  <2>14. ResultComplete'
    BY <1>1, <1>3 DEF ResultComplete
  <2> QED BY <2>8, <2>9, <2>10, <2>11, <2>12, <2>13, <2>14 DEF ScanInv
<1> QED BY <1>5, <1>6

LEMMA EndStepsInv ==
    ASSUME IndexInv, ScanInv, NoMoreTuples \/ Rescan \/ EndScan
    PROVE  ScanInv'
<1>1. /\ ScanTypeOK /\ ResultSound /\ ResultSorted /\ SnapshotInv /\ SortInv /\ WalkInv /\ OutInv
  BY DEF ScanInv
<1>2. CASE NoMoreTuples
  <2>1. /\ UNCHANGED <<vars, snapshot, query, max_probes, list_pages, list_index, search_page,
                       sort, out>>
        /\ spc = "tuples" /\ spc' = "end" /\ sort = {}
    BY <1>2 DEF NoMoreTuples
  <2>2. ScanTypeOK' /\ SnapshotInv' /\ SortInv' /\ WalkInv' /\ OutInv'
    BY <1>1, <2>1 DEF ScanTypeOK, SnapshotInv, SortInv, WalkInv, OutInv, Probed, vars, rows, pages
  <2>3. ResultSound' /\ ResultSorted'
    BY <1>1, <2>1 DEF ResultSound, ResultSorted, Probed
  <2>4. ResultComplete'
    BY <1>1, <2>1 DEF ResultComplete, WalkInv, Probed
  <2> QED BY <2>2, <2>3, <2>4 DEF ScanInv
<1>3. CASE Rescan
  <2>1. /\ UNCHANGED <<vars, snapshot, max_probes, list_pages, search_page, sort>>
        /\ spc' = "lists" /\ query' \in Queries /\ list_index' = 0 /\ out' = <<>>
    BY <1>3 DEF Rescan
  <2>2. ScanTypeOK'
    BY <1>1, <2>1, IndexAssumption DEF ScanTypeOK
  <2>3. SnapshotInv' /\ SortInv' /\ WalkInv' /\ OutInv'
    BY <1>1, <2>1 DEF SnapshotInv, SortInv, WalkInv, OutInv, Probed, vars, rows, pages
  <2>4. ResultSound' /\ ResultSorted' /\ ResultComplete'
    BY <2>1 DEF ResultSound, ResultSorted, ResultComplete
  <2> QED BY <2>2, <2>3, <2>4 DEF ScanInv
<1>4. CASE EndScan
  <2>1. /\ UNCHANGED <<vars, query, max_probes>>
        /\ spc' = "idle" /\ snapshot' = {} /\ list_pages' = <<>> /\ list_index' = 0
        /\ search_page' = InvalidBlockNumber /\ sort' = {} /\ out' = <<>>
    BY <1>4 DEF EndScan
  <2>2. ScanTypeOK'
    BY <1>1, <2>1, IndexAssumption DEF ScanTypeOK, Blkno
  <2>3. SnapshotInv' /\ SortInv' /\ WalkInv' /\ OutInv'
    BY <2>1 DEF SnapshotInv, SortInv, WalkInv, OutInv
  <2>4. ResultSound' /\ ResultSorted' /\ ResultComplete'
    BY <2>1 DEF ResultSound, ResultSorted, ResultComplete
  <2> QED BY <2>2, <2>3, <2>4 DEF ScanInv
<1> QED BY <1>2, <1>3, <1>4

-----------------------------------------------------------------------------
(* The invariant of a scan beside backends and VACUUM: where it has been,  *)
(* what it has in its sort, and what has become of that in the index.      *)
THEOREM ScanInvariant == SpecWithScan => [](IndexInv /\ ScanInv)
<1>1. InitWithScan => IndexInv /\ ScanInv
  BY InitInv, InitScanInv DEF InitWithScan
<1>2. IndexInv /\ ScanInv /\ [NextWithScan]_svars => (IndexInv /\ ScanInv)'
  <2> SUFFICES ASSUME IndexInv, ScanInv, [NextWithScan]_svars
               PROVE  IndexInv' /\ ScanInv'
    OBVIOUS
  <2>1. IndexInv'
    <3>1. [Next]_vars
      BY DEF NextWithScan, svars, BeginScan, ScanStep, GetScanLists, NextList, ScanPage,
         PerformSort, GetTuple, NoMoreTuples, Rescan, EndScan, IndexStep
    <3> QED BY <3>1, NextInv
  <2>2. CASE BeginScan
    BY <2>1, <2>2, BeginScanInv
  <2>3. CASE ScanStep
    BY <2>1, <2>3, GetScanListsInv, NextListInv, ScanPageInv, PerformSortInv, GetTupleInv, EndStepsInv
       DEF ScanStep
  <2>4. CASE Rescan \/ EndScan
    BY <2>1, <2>4, EndStepsInv
  <2>5. CASE IndexStep
    BY <2>1, <2>5, IndexStepScanInv
  <2>6. CASE UNCHANGED svars
    <3>1. /\ UNCHANGED <<spc, snapshot, query, max_probes, list_pages, list_index, search_page,
                         sort, out>>
          /\ UNCHANGED <<start_page, next, items, stage, tid>>
      BY <2>6 DEF svars, scan, vars, pages, rows
    <3>2. /\ ScanTypeOK' /\ ResultSound' /\ ResultComplete' /\ ResultSorted'
          /\ SnapshotInv' /\ SortInv' /\ OutInv'
      BY <3>1 DEF ScanInv, ScanTypeOK, ResultSound, ResultComplete, ResultSorted, SnapshotInv,
                  SortInv, OutInv, Probed
    <3>3. WalkInv'
      BY <3>1 DEF ScanInv, WalkInv, Probed, Chain
    <3> QED BY <2>1, <3>2, <3>3 DEF ScanInv
  <2> QED BY <2>1, <2>2, <2>3, <2>4, <2>5, <2>6 DEF NextWithScan
<1> QED BY <1>1, <1>2, PTL DEF SpecWithScan

(* What ivfflat_gettuple and the executor's visit to the heap give to a    *)
(* statement is in its snapshot, once, with its own distance: line         *)
(* pointers that changed hands meanwhile do no harm.                       *)
THEOREM ScanSound == SpecWithScan => []ResultSound
<1>1. ScanInv => ResultSound
  BY DEF ScanInv
<1> QED BY <1>1, ScanInvariant, PTL

(* A scan that has ended has returned all its snapshot sees in the probed  *)
(* lists, although ivfflat_get_scan_items locks one page at a time.        *)
THEOREM ScanComplete == SpecWithScan => []ResultComplete
<1>1. ScanInv => ResultComplete
  BY DEF ScanInv
<1> QED BY <1>1, ScanInvariant, PTL

(* Rows are returned in the order of their distance.                       *)
THEOREM ScanSorted == SpecWithScan => []ResultSorted
<1>1. ScanInv => ResultSorted
  BY DEF ScanInv
<1> QED BY <1>1, ScanInvariant, PTL

(* The local variables and the state of a scan keep their types, and       *)
(* list_pages is not read behind its end.                                  *)
THEOREM ScanTypeCorrect == SpecWithScan => []ScanTypeOK
<1>1. ScanInv => ScanTypeOK
  BY DEF ScanInv
<1> QED BY <1>1, ScanInvariant, PTL
=============================================================================
