--------------------------- MODULE IvfflatRecovery ---------------------------
(***************************************************************************)
(* The entry pages of IvfflatIndex when the server crashes.  ivfflat_insert *)
(* changes an index in up to three WAL records (link the new page, add the  *)
(* entry, move the hint) and one unlogged extension of the file;           *)
(* ivfflat_bulkdelete writes one record per page and one per list.  A      *)
(* crash keeps a prefix of the WAL that contains every commit, and recovery *)
(* replays it over whatever pages have reached the disk.                   *)
(*                                                                         *)
(* A record stands for what replay makes of the index and the heap: log is *)
(* the sequence of states that replay reaches after each record that can   *)
(* still be lost, and log[1] is the state it reaches without any of them.  *)
(***************************************************************************)
EXTENDS IvfflatIndex, SequencesExt

CONSTANT WalBuffers       \* records the WAL buffers hold before they are flushed

ASSUME RecoveryAssumption == WalBuffers \in Nat \ {0}

VARIABLE log

rvars == <<vars, log>>

\* What recovery makes of a row: a transaction whose commit is not in the
\* WAL has aborted.
Recovered(s) == IF s \in {"new", "live", "removed"} THEN s ELSE "dead"

\* The index and the heap as replay restores them; size is what it extends the
\* file to.
Durable ==
    [size |-> nblocks, next |-> next, items |-> items, insert_page |-> insert_page,
     heap |-> [r \in Rows |-> Recovered(stage[r])], tid |-> tid]

\* CREATE INDEX commits with all its pages on disk.
InitWithLog == Init /\ log = <<Durable>>
-----------------------------------------------------------------------------
(* Writing records.  An operator whose name ends in _ and the name of a    *)
(* fault is the one after it with that fault seeded, to see the properties *)
(* fail.                                                                   *)

Override(f, g, S) == [x \in DOMAIN f |-> IF x \in S THEN g[x] ELSE f[x]]

\* Replay of the record a step writes: the images of the pages B of the file,
\* of the tuples of lists L, and of the heap rows R, as they are after the step.
Redo(s, B, L, R) ==
    [size |-> Max({s.size} \cup {b + 1 : b \in B}),
     next |-> Override(s.next, next', B),
     items |-> Override(s.items, items', B),
     insert_page |-> Override(s.insert_page, insert_page', L),
     heap |-> Override(s.heap, [r \in Rows |-> Recovered(stage'[r])], R),
     tid |-> Override(s.tid, tid', R)]

\* A step that changes something writes one record, which waits in the WAL
\* buffers; it needs room there.
Write(B, L, R) ==
    /\ Len(log) <= WalBuffers
    /\ log' = Append(log, Redo(Last(log), B, L, R))

NotLogged == UNCHANGED log

\* GenericXLogRegisterBuffer for the old tail and, in ivfflat_append_xlog, for
\* the new page.
LinkBuffers_NewPageOnly(r) == {newbuf[r]}
LinkBuffers_OldTailOnly(r) == {page[r]}
LinkBuffers(r) == {page[r], newbuf[r]}

\* The page PageAddItem changes was registered before.
EntryBuffers_Forgotten(r) == {}
EntryBuffers(r) == {page[r]}

\* GenericXLogFinish if anything was deleted from the page, else GenericXLogAbort.
DeletedFrom == {b \in {vpage} : \E r \in items[b] : IsDead(r)}

VacuumBuffers_Aborted == {}
VacuumBuffers == DeletedFrom

\* ivfflat_update_list finishes the record if insert_page of the tuple changes,
\* and aborts it otherwise.
UpdatedLists == {l \in Lists : insert_page'[l] # insert_page[l]}

\* XLogFlush of the commit record, and with it of every record before it.
FlushCommit(r) == log' = <<Redo(Last(log), {}, {}, {r})>>
-----------------------------------------------------------------------------
(* The steps of IvfflatIndex with the records they write.                  *)

LogStoreRow(r, t) == StoreRow(r, t) /\ Write({}, {}, {r})

\* NewBuffer extends the file without a record.
ReadOnlyStep(r) ==
    /\ \/ SkipRow(r) \/ FindInsertPage(r) \/ ReadBuffer(r) \/ MoveRight(r)
       \/ HoldTail(r) \/ LockExtension(r) \/ NewBuffer(r) \/ OutOfBlocks(r)
       \/ InsertError(r) \/ Abort(r)
    /\ NotLogged

LogAddItem(r) == AddItem(r) /\ Write(EntryBuffers(r), {}, {})
LogLinkPage(r) == LinkPage(r) /\ Write(LinkBuffers(r), {}, {})
LogFillPage(r) == FillPage(r) /\ Write(EntryBuffers(r), {}, {})

LogUpdateList(r) ==
    /\ UpdateList(r)
    /\ IF UpdatedLists # {} THEN Write({}, UpdatedLists, {}) ELSE NotLogged

LogCommit(r) == (Commit(r) \/ Delete(r)) /\ FlushCommit(r)

LogVacuumPage ==
    /\ VacuumPage
    /\ IF DeletedFrom # {} THEN Write(VacuumBuffers, {}, {}) ELSE NotLogged

LogVacuumList ==
    /\ VacuumList
    /\ IF UpdatedLists # {} THEN Write({}, UpdatedLists, {}) ELSE NotLogged

\* The heap's second pass frees the line pointers in a record of its own.
LogRecycleTids == RecycleTids /\ Write({}, {}, {r \in Rows : stage'[r] # stage[r]})

\* The WAL writer, or a backend that needs room, flushes some of the records.
FlushWal ==
    /\ \E k \in 2 .. Len(log) : log' = SubSeq(log, k, Len(log))
    /\ UNCHANGED vars

\* The server stops and recovers.  Backends, locks and VACUUM are gone; the file
\* may still have pages whose extension no record speaks of.
Crash ==
    LET s == Head(log)
    IN  /\ nblocks' \in s.size .. nblocks
        /\ next' = s.next /\ items' = s.items /\ insert_page' = s.insert_page
        /\ stage' = s.heap /\ tid' = s.tid
        /\ xlock' = [b \in Block |-> NoRow] /\ extlock' = NoRow
        /\ page' = [r \in Rows |-> InvalidBlockNumber]
        /\ orig' = [r \in Rows |-> InvalidBlockNumber]
        /\ newbuf' = [r \in Rows |-> InvalidBlockNumber]
        /\ vpc' = "idle" /\ vdead' = {} /\ vlist' = 1
        /\ vpage' = InvalidBlockNumber /\ vins' = InvalidBlockNumber
        /\ log' = <<s>>
        /\ UNCHANGED start_page

LogStep(r) ==
    \/ \E t \in Tids : LogStoreRow(r, t)
    \/ ReadOnlyStep(r)
    \/ LogAddItem(r) \/ LogLinkPage(r) \/ LogFillPage(r) \/ LogUpdateList(r)
    \/ LogCommit(r)

NextWithLog ==
    \/ \E r \in Rows : LogStep(r)
    \/ (\E D \in SUBSET Tids : StartVacuum(D)) /\ NotLogged
    \/ LogVacuumPage \/ LogVacuumList \/ LogRecycleTids
    \/ CancelVacuum /\ NotLogged
    \/ AllRemoved /\ NotLogged
    \/ FlushWal \/ Crash

SpecWithLog == InitWithLog /\ [][NextWithLog]_rvars
-----------------------------------------------------------------------------
(* Correctness.  The invariants of IvfflatIndex but NoPageLost are meant   *)
(* to hold across crashes, too.                                            *)

\* Replay of the whole log restores what the shared buffers show: no step
\* changes a page without a record that holds the change, and a page that was
\* added to the file without one is still empty and unreachable.
LogComplete == Last(log) = [Durable EXCEPT !.size = Last(log).size] /\ Last(log).size <= nblocks

\* Wherever the log is cut, the index that recovery restores has no entry for a
\* row the heap has not stored or has freed, and finds every committed row.
RecoveredIn(s, r) == \E b \in Reachable(s.next, start_page[ListOf[r]]) : r \in s.items[b]
EveryPrefixConsistent ==
    \A s \in ToSet(log) : \A r \in Rows :
        /\ s.heap[r] \in {"new", "removed"} => \A b \in Block : r \notin s.items[b]
        /\ s.heap[r] = "live" /\ ListOf[r] # NotIndexed => RecoveredIn(s, r)

\* A recovered index is one that backends and VACUUM can go on with: what they
\* rely on without crashes, but for lost pages, holds again.
RecoveredIsIndex ==
    ChainsWellFormed /\ InsertPageInChain /\ RowIndexedOnce /\ NoEntryOfFreedTid

\* A crash inside an extension can leave pages no chain leads to, but only empty
\* ones nobody has initialized; no crash unlinks a page.
LostPagesAreEmpty ==
    \A b \in Block : b < nblocks =>
        \/ \E l \in Lists : b \in Chain(l)
        \/ next[b] = Zeroed /\ items[b] = {}
-----------------------------------------------------------------------------
(* The inductive invariant from which they follow.                         *)

\* A state replay reaches is an index at rest: what holds of the pages when no
\* backend and no VACUUM is at work, with every row dead that was on its way in,
\* and nothing on the pages outside the chains.
ReplayedType ==
    [size : FirstEntry .. MaxBlocks, next : [Block -> Blkno \cup {Zeroed}],
     items : [Block -> SUBSET Rows], insert_page : [Lists -> Block],
     heap : [Rows -> {"new", "live", "dead", "removed"}], tid : [Rows -> Tids \cup {NoTid}]]

ReplayedChains(s) ==
    LET chain(l) == Reachable(s.next, start_page[l])
    IN  \A l \in Lists :
          /\ s.insert_page[l] \in chain(l)
          /\ \A b \in chain(l) :
                /\ b < s.size /\ s.next[b] > b
                /\ \A m \in Lists : b \in chain(m) => m = l
                /\ \A c \in chain(l) : c > b => s.next[b] \in Block /\ s.next[b] <= c

ReplayedEntries(s) ==
    /\ \A b \in Block :
          /\ Cardinality(s.items[b]) <= Capacity
          /\ \A r \in s.items[b] :
                /\ ListOf[r] \in Lists /\ b \in Reachable(s.next, start_page[ListOf[r]])
                /\ s.heap[r] \in {"live", "dead"}
                /\ \A c \in Block : r \in s.items[c] => b = c
          /\ \/ \E l \in Lists : b \in Reachable(s.next, start_page[l])
             \/ s.next[b] = Zeroed /\ s.items[b] = {}
    /\ \A r \in Rows : s.heap[r] = "live" /\ ListOf[r] # NotIndexed => RecoveredIn(s, r)

ReplayedTids(s) ==
    \A q, r \in Rows :
        s.heap[q] \in {"live", "dead"} /\ s.heap[r] \in {"live", "dead"} /\ s.tid[q] = s.tid[r]
            => q = r

Replayed == {s \in ReplayedType : ReplayedChains(s) /\ ReplayedEntries(s) /\ ReplayedTids(s)}

\* Nothing was ever written to a page that is in no chain.
UnlinkedEmpty ==
    \A b \in Block :
        (\E l \in Lists : b \in Chain(l)) \/ (next[b] = Zeroed /\ items[b] = {})

\* The log can be cut anywhere: replay reaches an index at rest, in no more
\* blocks than the file has.
LogInv ==
    /\ log \in Seq(Replayed) /\ log # <<>>
    /\ \A i \in DOMAIN log : log[i].size <= nblocks
    /\ LogComplete
    /\ \A l \in Lists : \A b \in Chain(l) : b < Last(log).size

RecoveryInv == EntryPagesInv /\ UnlinkedEmpty /\ LogInv
=============================================================================
