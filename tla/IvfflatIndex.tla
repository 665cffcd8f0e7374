---------------------------- MODULE IvfflatIndex ----------------------------
(***************************************************************************)
(* The entry pages of a pg_hybrid ivfflat index under concurrent inserts   *)
(* (ivfflat_insert.c) and VACUUM (ivfflat_delete.c).  Each inverted list   *)
(* owns a singly linked chain of entry pages.  The list tuple records its  *)
(* first page (start_page, fixed when the index is built) and a hint where *)
(* to insert next (insert_page).  Backends synchronise with page content   *)
(* locks, page pins and the relation extension lock only.                  *)
(*                                                                         *)
(* A process of the model is a heap row version together with the backend  *)
(* that stores, indexes, commits and deletes it.  The entry of row r is    *)
(* the pair (tid[r], vector of r); it is represented by r.                 *)
(***************************************************************************)
EXTENDS Integers, FiniteSets

CONSTANTS
    NumLists,     \* number of inverted lists
    Rows,         \* row versions; each is stored at most once
    Tids,         \* heap line pointers; reused once VACUUM has freed them
    ListOf,       \* the list whose center is nearest to a row, 0: not indexed
    Built,        \* the rows in the table when the index is built
    Capacity,     \* entries per page (entries of one index have equal size)
    FirstEntry,   \* first block after the metapage and the list pages
    MaxBlocks,    \* block numbers end here, as at MaxBlockNumber
    NoRow, NoTid

Lists == 1 .. NumLists
NotIndexed == 0
Block == FirstEntry .. MaxBlocks - 1
InvalidBlockNumber == MaxBlocks
Blkno == Block \cup {InvalidBlockNumber}
Zeroed == 0                       \* what an all-zero page shows as nextblkno

ASSUME IndexAssumption ==
    /\ NumLists \in Nat \ {0}
    /\ Capacity \in Nat \ {0}
    /\ FirstEntry \in Nat /\ FirstEntry > 1
    /\ MaxBlocks \in Nat /\ FirstEntry + NumLists <= MaxBlocks
ASSUME RowAssumption ==
    /\ IsFiniteSet(Rows)
    /\ ListOf \in [Rows -> Lists \cup {NotIndexed}]
    /\ Built \subseteq Rows
    /\ NoRow \notin Rows
    /\ NoTid \notin Tids

VARIABLES
    nblocks,      \* size of the index relation
    next,         \* nextblkno in the special space of each entry page
    items,        \* entries on each page
    start_page,   \* start_page of each list tuple
    insert_page,  \* insert_page of each list tuple
    xlock,        \* holder of the exclusive content lock of each page
    extlock,      \* holder of the relation extension lock
    stage,        \* where each row is in its life
    tid,          \* heap line pointer of each row
    page,         \* local variable insert_page of ivfflat_insert_tuple
    orig,         \* local variable original_insert_page
    newbuf,       \* local variable new_buf
    vpc,          \* where VACUUM is
    vdead,        \* dead line pointers VACUUM collected from the heap
    vlist, vpage, \* list and page VACUUM has reached
    vins          \* local variable insert_page of ivfflat_bulkdelete

pages == <<nblocks, next, items, start_page, insert_page>>
locks == <<xlock, extlock>>
rows  == <<stage, tid>>
locals == <<page, orig, newbuf>>
vacuum == <<vpc, vdead, vlist, vpage, vins>>
vars == <<pages, locks, rows, locals, vacuum>>

Walking   == {"read", "lock"}               \* looking for a page with room
Extending == {"tail", "extend", "link"}     \* holding the full tail page
Inserting == {"find", "fill", "update"} \cup Walking \cup Extending
Stages    == {"new", "done", "live", "dead", "removed"} \cup Inserting

\* A line pointer belongs to its row until VACUUM has freed it.
Stored(r) == stage[r] \notin {"new", "removed"}

\* What ivfflat_insert_tuples leaves behind: the pages of each list, one at
\* least, follow those of the list before it and are linked in block order.
PagesOf(l) == start_page[l] .. insert_page[l]
BuiltPages ==
    /\ nblocks \in FirstEntry .. MaxBlocks
    /\ start_page \in [Lists -> Block] /\ insert_page \in [Lists -> Block]
    /\ \A l \in Lists : start_page[l] <= insert_page[l]
    /\ \A l, m \in Lists : l < m => insert_page[l] < start_page[m]
    /\ UNION {PagesOf(l) : l \in Lists} = FirstEntry .. nblocks - 1
    /\ next = [b \in Block |-> IF b >= nblocks THEN Zeroed
                              ELSE IF \E l \in Lists : b = insert_page[l]
                              THEN InvalidBlockNumber ELSE b + 1]

\* Rows stored before the build.  It indexes every one that is not dead yet,
\* and starts another page of a list only when an entry does not fit.
Present == {"done", "live"}
BuiltRows ==
    /\ stage \in [Rows -> {"new", "dead"} \cup Present]
    /\ \A r \in Rows : stage[r] = "new" <=> r \notin Built
    /\ tid \in [Rows -> Tids \cup {NoTid}]
    /\ \A r \in Rows : tid[r] = NoTid <=> r \notin Built
    /\ \A q, r \in Built : tid[q] = tid[r] => q = r
BuiltItems ==
    /\ \E at \in [Rows -> Blkno] :
          /\ \A r \in Rows : IF stage[r] \in Present /\ ListOf[r] # NotIndexed
                              THEN at[r] \in PagesOf(ListOf[r])
                              ELSE at[r] = InvalidBlockNumber
          /\ items = [b \in Block |-> {r \in Rows : at[r] = b}]
    /\ \A b \in Block : Cardinality(items[b]) <= Capacity
    /\ \A l \in Lists : \A b \in PagesOf(l) :
          /\ b < insert_page[l] => Cardinality(items[b]) = Capacity
          /\ b > start_page[l] => items[b] # {}

Init ==
    /\ BuiltRows /\ BuiltPages /\ BuiltItems
    /\ xlock = [b \in Block |-> NoRow]
    /\ extlock = NoRow
    /\ page = [r \in Rows |-> InvalidBlockNumber]
    /\ orig = [r \in Rows |-> InvalidBlockNumber]
    /\ newbuf = [r \in Rows |-> InvalidBlockNumber]
    /\ vpc = "idle" /\ vdead = {} /\ vlist = 1
    /\ vpage = InvalidBlockNumber /\ vins = InvalidBlockNumber
-----------------------------------------------------------------------------
(* Buffers and locks.  An operator whose name ends in _ and the name of a  *)
(* fault is the one after it with that fault seeded; it is used only to    *)
(* see the properties fail.                                                *)

\* LockBuffer(BUFFER_LOCK_EXCLUSIVE) gets through.
LockFree_Unlocked(b) == TRUE
LockFree(b) == xlock[b] = NoRow

\* UnlockRelationForExtension
UnlockExtension_Forgotten == UNCHANGED extlock
UnlockExtension == extlock' = NoRow

\* nextblkno of a page ivfflat_init_page has set up
InitialNext_NotSet == Zeroed
InitialNext == InvalidBlockNumber

\* A backend pins the page before it waits for its lock, and keeps it until
\* UnlockReleaseBuffer.
Pinned(b) == \E r \in Rows : stage[r] = "lock" /\ page[r] = b

\* LockBufferForCleanup also waits for the last foreign pin to go away.
CleanupLockFree(b) == LockFree(b) /\ ~Pinned(b)

\* PageGetFreeSpace(page) >= sz
HasSpace_OffByOne(b) == Cardinality(items[b]) <= Capacity
HasSpace_Reserve(b) == Cardinality(items[b]) + 1 < Capacity
HasSpace(b) == Cardinality(items[b]) < Capacity

\* The tests ivfflat_update_list makes before it overwrites cur by ins.
NewInsertPage(cur, ins, original) ==
    IF /\ ins # InvalidBlockNumber
       /\ original = InvalidBlockNumber \/ ins >= original
    THEN ins ELSE cur

\* The backend leaves ivfflat_insert_tuple for stage s with nothing locked.
Leave(r, s) ==
    /\ stage' = [stage EXCEPT ![r] = s]
    /\ page' = [page EXCEPT ![r] = InvalidBlockNumber]
    /\ orig' = [orig EXCEPT ![r] = InvalidBlockNumber]
    /\ newbuf' = [newbuf EXCEPT ![r] = InvalidBlockNumber]
-----------------------------------------------------------------------------
(* ivfflat_insert, one step between two points where a backend can wait.   *)

\* The heap stores the row version, then calls aminsert with its line pointer.
StoreRow(r, t) ==
    /\ stage[r] = "new"
    /\ \A q \in Rows : Stored(q) => tid[q] # t
    /\ stage' = [stage EXCEPT ![r] = "find"]
    /\ tid' = [tid EXCEPT ![r] = t]
    /\ UNCHANGED <<pages, locks, locals, vacuum>>

\* NULL, or a zero vector under an opclass that normalizes: no entry.
SkipRow(r) ==
    /\ stage[r] = "find" /\ ListOf[r] = NotIndexed
    /\ stage' = [stage EXCEPT ![r] = "done"]
    /\ UNCHANGED <<pages, locks, tid, locals, vacuum>>

\* ivfflat_find_insert_page copies insert_page of the nearest list under a
\* share lock it gives up at once.
FindInsertPage(r) ==
    /\ stage[r] = "find" /\ ListOf[r] # NotIndexed
    /\ stage' = [stage EXCEPT ![r] = "read"]
    /\ page' = [page EXCEPT ![r] = insert_page[ListOf[r]]]
    /\ orig' = [orig EXCEPT ![r] = insert_page[ListOf[r]]]
    /\ UNCHANGED <<pages, locks, tid, newbuf, vacuum>>

\* ReadBuffer pins the page.
ReadBuffer(r) ==
    /\ stage[r] = "read"
    /\ stage' = [stage EXCEPT ![r] = "lock"]
    /\ UNCHANGED <<pages, locks, tid, locals, vacuum>>

\* The list tuple needs an update unless the entry went to the hinted page.
PutEntry(r, b) ==
    /\ items' = [items EXCEPT ![b] = @ \cup {r}]
    /\ IF b # orig[r]
       THEN stage' = [stage EXCEPT ![r] = "update"] /\ UNCHANGED locals
       ELSE Leave(r, "done")

\* The page has room: add the entry and release the page.
AddItem(r) ==
    /\ stage[r] = "lock" /\ LockFree(page[r])
    /\ HasSpace(page[r])
    /\ PutEntry(r, page[r])
    /\ UNCHANGED <<nblocks, next, start_page, insert_page, locks, tid, vacuum>>

\* The page is full and not the last one: release it, go to the next.
MoveRight(r) ==
    /\ stage[r] = "lock" /\ LockFree(page[r])
    /\ ~HasSpace(page[r]) /\ next[page[r]] # InvalidBlockNumber
    /\ stage' = [stage EXCEPT ![r] = "read"]
    /\ page' = [page EXCEPT ![r] = next[page[r]]]
    /\ UNCHANGED <<pages, locks, tid, orig, newbuf, vacuum>>

\* The page is full and the last one: keep it locked while extending.
HoldTail(r) ==
    /\ stage[r] = "lock" /\ LockFree(page[r])
    /\ ~HasSpace(page[r]) /\ next[page[r]] = InvalidBlockNumber
    /\ stage' = [stage EXCEPT ![r] = "tail"]
    /\ xlock' = [xlock EXCEPT ![page[r]] = r]
    /\ UNCHANGED <<pages, extlock, tid, locals, vacuum>>

\* LockRelationForExtension, then P_NEW looks up the size of the relation.
LockExtension(r) ==
    /\ stage[r] = "tail" /\ extlock = NoRow
    /\ stage' = [stage EXCEPT ![r] = "extend"]
    /\ extlock' = r
    /\ newbuf' = [newbuf EXCEPT ![r] = nblocks]
    /\ UNCHANGED <<pages, xlock, tid, page, orig, vacuum>>

\* P_NEW grows the file by an all-zero page; the extension lock is given up
\* once the lock of the page is there.
NewBuffer(r) ==
    /\ stage[r] = "extend" /\ newbuf[r] \in Block /\ LockFree(newbuf[r])
    /\ stage' = [stage EXCEPT ![r] = "link"]
    /\ nblocks' = newbuf[r] + 1
    /\ next' = [next EXCEPT ![newbuf[r]] = Zeroed]
    /\ items' = [items EXCEPT ![newbuf[r]] = {}]
    /\ xlock' = [xlock EXCEPT ![newbuf[r]] = r]
    /\ UnlockExtension
    /\ UNCHANGED <<start_page, insert_page, tid, locals, vacuum>>

\* One WAL record initializes the new page and links it to the old tail; then
\* the old tail is released, and the new page stays locked.
LinkPage(r) ==
    /\ stage[r] = "link"
    /\ stage' = [stage EXCEPT ![r] = "fill"]
    /\ next' = [next EXCEPT ![newbuf[r]] = InitialNext, ![page[r]] = newbuf[r]]
    /\ items' = [items EXCEPT ![newbuf[r]] = {}]
    /\ xlock' = [xlock EXCEPT ![page[r]] = NoRow]
    /\ page' = [page EXCEPT ![r] = newbuf[r]]
    /\ UNCHANGED <<nblocks, start_page, insert_page, extlock, tid, orig, newbuf, vacuum>>

\* The entry goes to the new page without another look at its free space.
FillPage(r) ==
    /\ stage[r] = "fill"
    /\ PutEntry(r, page[r])
    /\ xlock' = [xlock EXCEPT ![page[r]] = NoRow]
    /\ UNCHANGED <<nblocks, next, start_page, insert_page, extlock, tid, vacuum>>

\* ivfflat_update_list moves the hint to the page that took the entry.
UpdateList(r) ==
    /\ stage[r] = "update"
    /\ insert_page' = [insert_page EXCEPT ![ListOf[r]] = NewInsertPage(@, page[r], orig[r])]
    /\ Leave(r, "done")
    /\ UNCHANGED <<nblocks, next, items, start_page, locks, tid, vacuum>>

\* The transaction aborts inside the insert and gives up its locks; what the
\* insert has written to the index stays.
Fail(r) ==
    /\ Leave(r, "dead")
    /\ xlock' = [b \in Block |-> IF xlock[b] = r THEN NoRow ELSE xlock[b]]
    /\ extlock' = IF extlock = r THEN NoRow ELSE extlock
    /\ UNCHANGED <<pages, tid, vacuum>>

\* A statement is cancelled, a read, the request for the extension lock or the
\* extension fails, memory runs out.  (LockBuffer cannot fail, and a backend
\* holding a page lock is not cancelled.)
Fallible == {"find", "read", "tail", "extend", "fill", "update"}
InsertError(r) == stage[r] \in Fallible /\ Fail(r)

\* "cannot extend file beyond ... blocks"
OutOfBlocks(r) == stage[r] = "extend" /\ newbuf[r] = InvalidBlockNumber /\ Fail(r)
-----------------------------------------------------------------------------
(* The rest of the transaction's life: the heap and its transactions.      *)

Commit(r) ==
    /\ stage[r] = "done"
    /\ stage' = [stage EXCEPT ![r] = "live"]
    /\ UNCHANGED <<pages, locks, tid, locals, vacuum>>

Abort(r) ==
    /\ stage[r] = "done"
    /\ stage' = [stage EXCEPT ![r] = "dead"]
    /\ UNCHANGED <<pages, locks, tid, locals, vacuum>>

\* A committed deletion no snapshot can see behind.
Delete(r) ==
    /\ stage[r] = "live"
    /\ stage' = [stage EXCEPT ![r] = "dead"]
    /\ UNCHANGED <<pages, locks, tid, locals, vacuum>>
-----------------------------------------------------------------------------
(* VACUUM: it collects dead line pointers, calls ivfflat_bulkdelete, then  *)
(* frees those line pointers in the heap.                                  *)

DeadRows == {r \in Rows : stage[r] = "dead"}

\* callback(heap_tid): is the entry's line pointer one of those collected?
IsDead_SamePage(r) == \E b \in Block : r \in items[b] /\ \E q \in items[b] : tid[q] \in vdead
IsDead(r) == tid[r] \in vdead

\* Where ivfflat_bulkdelete enters list l.
ScanStart_AtHint(l) == insert_page[l]
ScanStart(l) == start_page[l]

\* The page it goes to from page b.
ScanNext_StopAtHint(b) == IF b = insert_page[vlist] THEN InvalidBlockNumber ELSE next[b]
ScanNext_OnlyAfterDelete(b) == IF \E r \in items[b] : IsDead(r) THEN next[b] ELSE b
ScanNext(b) == next[b]

StartVacuum(D) ==
    /\ vpc = "idle"
    /\ D # {} /\ D \subseteq {tid[r] : r \in DeadRows}
    /\ vpc' = "scan" /\ vdead' = D
    /\ vlist' = 1 /\ vpage' = ScanStart(1) /\ vins' = InvalidBlockNumber
    /\ UNCHANGED <<pages, locks, rows, locals>>

\* The first page of the list something was deleted from becomes the hint.
VacuumPage ==
    LET deletable == {r \in items[vpage] : IsDead(r)}
    IN  /\ vpc = "scan" /\ vpage # InvalidBlockNumber
        /\ CleanupLockFree(vpage)
        /\ items' = [items EXCEPT ![vpage] = @ \ deletable]
        /\ vins' = IF vins = InvalidBlockNumber /\ deletable # {} THEN vpage ELSE vins
        /\ vpage' = ScanNext(vpage)
        /\ UNCHANGED <<nblocks, next, start_page, insert_page, locks, rows, locals, vpc, vdead, vlist>>

\* The end of a chain: ivfflat_update_list without a lower bound, next list.
VacuumList ==
    /\ vpc = "scan" /\ vpage = InvalidBlockNumber
    /\ insert_page' = [insert_page EXCEPT ![vlist] =
                          NewInsertPage(@, vins, InvalidBlockNumber)]
    /\ vins' = InvalidBlockNumber
    /\ IF vlist < NumLists
       THEN vlist' = vlist + 1 /\ vpage' = ScanStart(vlist + 1) /\ vpc' = "scan"
       ELSE vpc' = "reap" /\ UNCHANGED <<vlist, vpage>>
    /\ UNCHANGED <<nblocks, next, items, start_page, locks, rows, locals, vdead>>

\* Back in the heap: the collected line pointers become free.
RecycleTids ==
    /\ vpc = "reap"
    /\ stage' = [r \in Rows |-> IF Stored(r) /\ IsDead(r) THEN "removed" ELSE stage[r]]
    /\ vpc' = "idle" /\ vdead' = {} /\ vlist' = 1
    /\ UNCHANGED <<pages, locks, tid, locals, vpage, vins>>

\* vacuum_delay_point, before each page, is where VACUUM can be cancelled; it
\* can also be cancelled before it frees the line pointers, and a read or a WAL
\* record may fail in between, at the end of a chain, too.
CancelVacuum ==
    /\ vpc # "idle"
    /\ vpc' = "idle" /\ vdead' = {} /\ vlist' = 1
    /\ vpage' = InvalidBlockNumber /\ vins' = InvalidBlockNumber
    /\ UNCHANGED <<pages, locks, rows, locals>>
-----------------------------------------------------------------------------
InsertStep(r) ==
    \/ SkipRow(r) \/ FindInsertPage(r) \/ ReadBuffer(r)
    \/ AddItem(r) \/ MoveRight(r) \/ HoldTail(r)
    \/ LockExtension(r) \/ NewBuffer(r) \/ LinkPage(r) \/ FillPage(r)
    \/ UpdateList(r) \/ OutOfBlocks(r)

VacuumStep == VacuumPage \/ VacuumList \/ RecycleTids

\* Every row version has come and gone: the environment has nothing left to do.
AllRemoved == (\A r \in Rows : stage[r] = "removed") /\ vpc = "idle" /\ UNCHANGED vars

Next ==
    \/ \E r \in Rows :
        \/ \E t \in Tids : StoreRow(r, t)
        \/ InsertStep(r)
        \/ InsertError(r) \/ Commit(r) \/ Abort(r) \/ Delete(r)
    \/ \E D \in SUBSET Tids : StartVacuum(D)
    \/ VacuumStep \/ CancelVacuum
    \/ AllRemoved

Spec == Init /\ [][Next]_vars

\* A backend that can go on does: lock queues of the buffer manager and the
\* lock manager are first come first served.  Rows is finite, so only finitely
\* many others can get in between and weak fairness is all that is needed.
Fairness == (\A r \in Rows : WF_vars(InsertStep(r))) /\ WF_vars(VacuumStep)
FairSpec == Spec /\ Fairness
-----------------------------------------------------------------------------
(* Correctness.                                                            *)

\* The pages reachable from page b along the links nx, and those of list l.
Closed(nx, S) == \A b \in S : nx[b] \in Block => nx[b] \in S
Reachable(nx, b) ==
    {c \in Block : \A S \in SUBSET Block : b \in S /\ Closed(nx, S) => c \in S}
Chain(l) == Reachable(next, start_page[l])

\* Every variable has the type the code gives it; a list always has a page to
\* insert into (list->insert_page is never InvalidBlockNumber after the build).
TypeOK ==
    /\ nblocks \in FirstEntry .. MaxBlocks
    /\ next \in [Block -> Blkno \cup {Zeroed}]
    /\ items \in [Block -> SUBSET Rows]
    /\ start_page \in [Lists -> Block] /\ insert_page \in [Lists -> Block]
    /\ xlock \in [Block -> Rows \cup {NoRow}] /\ extlock \in Rows \cup {NoRow}
    /\ stage \in [Rows -> Stages]
    /\ tid \in [Rows -> Tids \cup {NoTid}]
    /\ page \in [Rows -> Blkno] /\ orig \in [Rows -> Blkno] /\ newbuf \in [Rows -> Blkno]
    /\ vpc \in {"idle", "scan", "reap"} /\ vdead \in SUBSET Tids
    /\ vlist \in Lists /\ vpage \in Blkno /\ vins \in Blkno

\* The chains stay what every reader of nextblkno takes them for, however many
\* backends extend them at once: all pages initialized and inside the file,
\* none in two chains, links that only lead to higher blocks (so a walk ends),
\* no page of the chain passed over.
ChainsWellFormed ==
    \A l \in Lists : \A b \in Chain(l) :
        /\ b < nblocks /\ next[b] > b
        /\ \A m \in Lists : b \in Chain(m) => m = l
        /\ \A c \in Chain(l) : c > b => next[b] \in Block /\ next[b] <= c

\* The hint in a list tuple, which backends and VACUUM overwrite from values
\* they read long before, never leaves the list's own chain.
InsertPageInChain == \A l \in Lists : insert_page[l] \in Chain(l)

\* A row whose insert got past PageAddItem keeps exactly one entry until its
\* line pointer is freed or it is dead, where scans of its list find it; no
\* entry is lost to a page that a concurrent extension unlinks or reinitializes.
RowIndexedOnce ==
    \A r \in Rows :
        /\ stage[r] \in {"update", "done", "live"} /\ ListOf[r] # NotIndexed =>
              \E b \in Chain(ListOf[r]) : r \in items[b]
        /\ \A b, c \in Block : r \in items[b] /\ r \in items[c] => b = c

\* No entry outlives its row: once VACUUM frees a line pointer, which a new row
\* may then take, no page holds an entry that points there, even if inserts
\* appended pages and moved entries' targets while VACUUM walked the chains.
NoEntryOfFreedTid ==
    \A r \in Rows : ~Stored(r) => \A b \in Block : r \notin items[b]

\* ivfflat_insert adds to the page it just appended without testing for room;
\* PageAddItem never fails there ("failed to add index item"), and no page gets
\* more entries than fit.
PageNeverOverfull ==
    /\ \A b \in Block : Cardinality(items[b]) <= Capacity
    /\ \A r \in Rows : stage[r] = "fill" => Cardinality(items[page[r]]) < Capacity

\* No allocated page is lost: it is in a chain, or a backend is about to link it.
NoPageLost ==
    \A b \in Block : b < nblocks =>
        \/ \E l \in Lists : b \in Chain(l)
        \/ \E r \in Rows : stage[r] = "link" /\ newbuf[r] = b

\* A page enters a chain only at its end, once, behind a page that was full
\* when the backend decided and nobody could change since.
AppendOnlyWhenFull ==
    [][\A l \in Lists : Chain(l)' # Chain(l) =>
          \E p \in Chain(l) :
             /\ next[p] = InvalidBlockNumber /\ Cardinality(items[p]) >= Capacity
             /\ Chain(l)' = Chain(l) \cup {next'[p]}]_vars

\* Every insert comes to an end (an entry, or an error): no backend walks a
\* chain for ever, and none waits for ever for a page whose holder waits for the
\* extension lock, while that lock's holder, which keeps the tail of another
\* list, has yet to get the lock of the new page.
InsertTerminates == \A r \in Rows : stage[r] \in Inserting ~> stage[r] \notin Inserting

\* VACUUM ends although it waits for pins and chains grow while it walks.
VacuumTerminates == vpc # "idle" ~> vpc = "idle"
-----------------------------------------------------------------------------
(* What the backends and VACUUM rely on between their steps: the inductive *)
(* invariant from which the invariants above follow.                       *)

\* A backend that walks list ListOf[r] is on a page of its chain; one that
\* extends it keeps the full tail locked, and owns the block it will link.
BackendInv ==
    \A r \in Rows :
        /\ stage[r] \in Walking \cup Extending \cup {"fill", "update"} =>
              ListOf[r] \in Lists /\ page[r] \in Chain(ListOf[r])
        /\ stage[r] \in Extending =>
              /\ xlock[page[r]] = r /\ next[page[r]] = InvalidBlockNumber
              /\ Cardinality(items[page[r]]) >= Capacity
        /\ stage[r] = "extend" => extlock = r /\ newbuf[r] = nblocks
        /\ stage[r] = "link" =>
              /\ newbuf[r] \in Block /\ page[r] < newbuf[r] /\ newbuf[r] < nblocks
              /\ xlock[newbuf[r]] = r /\ next[newbuf[r]] = Zeroed
        /\ stage[r] = "fill" => xlock[page[r]] = r /\ items[page[r]] = {}

\* Entries sit in the chain of their row's list, once, while their row is
\* anything from stored to dead.
EntryInv ==
    /\ \A b \in Block : \A r \in items[b] :
          /\ ListOf[r] \in Lists /\ b \in Chain(ListOf[r])
          /\ stage[r] \in {"update", "done", "live", "dead"}
    /\ RowIndexedOnce
    /\ \A b \in Block : Cardinality(items[b]) <= Capacity

\* Line pointers VACUUM collected stay with their dead rows, and pages it has
\* passed stay free of entries for them.
Passed(b, l) ==
    \/ vpc = "reap"
    \/ vpc = "scan" /\ (l < vlist \/ (l = vlist /\ b < vpage))
VacuumInv ==
    /\ \A q, r \in Rows : Stored(q) /\ Stored(r) /\ tid[q] = tid[r] => q = r
    /\ \A t \in vdead : \E r \in Rows : stage[r] = "dead" /\ tid[r] = t
    /\ vpc = "scan" => /\ vpage \in Chain(vlist) \cup {InvalidBlockNumber}
                       /\ vins \in Chain(vlist) \cup {InvalidBlockNumber}
    /\ \A b \in Block : \A r \in items[b] : Passed(b, ListOf[r]) => ~IsDead(r)

\* All of it but NoPageLost holds across crashes, too (IvfflatRecovery).
EntryPagesInv ==
    /\ TypeOK /\ ChainsWellFormed /\ InsertPageInChain
    /\ BackendInv /\ EntryInv /\ VacuumInv
IndexInv == EntryPagesInv /\ NoPageLost
-----------------------------------------------------------------------------
(* The pages implement the set of entries the heap relies on.              *)

ReachableEntries == UNION {items[b] : b \in UNION {Chain(l) : l \in Lists}}

\* What the heap knows of a row in stage s.
Known(s) == CASE s \in Inserting -> "inserting"
              [] s = "done" -> "inserted"
              [] OTHER -> s
HeapState == [r \in Rows |-> Known(stage[r])]

Contract == INSTANCE IndexEntries WITH
    Indexed <- {r \in Rows : ListOf[r] # NotIndexed},
    entries <- ReachableEntries,
    heap <- HeapState

\* Every step of backends and VACUUM is a step the index's contract allows.
ImplementsContract == Contract!Spec
=============================================================================
