# A verification model of pg_hybrid

pg_hybrid is a PostgreSQL 16 extension: a vector type `hvector` and an index access method
`pg_hybrid_ivfflat` for nearest-neighbour search. An ivfflat index divides the rows into lists
around centers calculated by k-means; an insert puts its entry into the list of the nearest
center; a scan looks through the few lists whose centers are nearest to the query.

This directory holds TLA+ modules translated from the C code, TLC configurations that check them
on small instances, and TLAPS proofs. Paths below are relative to the repository (`src/…` is the
directory of the C files in it).

## 1. Inventory

| Part | State | Operations | Interacts with |
|---|---|---|---|
| `pg_hybrid.c` | none | `_PG_init` | calls `ivfflat_init_options` in each session, at some time |
| `ivffat.c` | none | `pg_hybrid_ivfflat_handler` | gives the server the callbacks below |
| `ivfflat_options.c` | settings `probes`, `iterative_scan`, `max_probes`; option `lists` | registration, which takes over values that were SET before; parsing of `lists` | `probes` is read by the scan and the cost estimate; nothing reads the rest |
| `ivfflat_page.c` | – | new, initialized and appended pages, search for the list to insert into, generic WAL helpers | all that follow |
| `ivfflat_build.c`, layout | the file: metapage, list pages, entry pages; `list_infos`, sort | `ivfflat_create_meta_page`, `_list_pages`, `_entry_pages` | runs alone; leaves the pages for insert, VACUUM and scan |
| `ivfflat_build.c`, sampling | block and reservoir sampler, samples, `skip_count` | `ivfflat_sample_rows`, `_sample_tuples`, `_add_sample` | reads the heap; gives the k-means its samples |
| `ivfflat_build.c`, k-means | centers, bounds | k-means++, Elkan's iteration, random centers for an empty sample | gives the layout its centers |
| `ivfflat_insert.c` | entry pages, hint `insert_page` of a list | `ivfflat_insert` | other backends and VACUUM through page locks, pins, the extension lock |
| `ivfflat_delete.c` | the same | `ivfflat_bulkdelete`, `ivfflat_vacuumcleanup` | the heap, which collects dead line pointers before and frees them after |
| `ivfflat_scan.c` | lists to probe, sort of line pointers | begin, rescan, gettuple, end; cost estimate | reads what the others write; the executor looks its line pointers up in the heap |
| `vector.c` | none but the values; the transition states of the aggregates | text and binary input and output, casts, arithmetic, slices, quantization, distances, comparison, `avg` and `sum` | support functions called by build, insert and scan; aggregates called by parallel workers |
| `pg_hybrid--1.0.sql` | none | declarations: operator classes say which functions build, insert and scan call | the planner and the access method |

**Where it is hard.** Several backends insert into the chain of entry pages of one list while
VACUUM walks it and scans read it. They share only short page locks; every one of them holds
block numbers (`insert_page`, `original_insert_page`, `nextblkno`, `list_infos`, line pointers in
a sort) that were read under a lock it has given up. A page is full, the last one, or empty only
until somebody else gets its lock. Appending a page takes a page lock, then the extension lock,
then another page lock. Any step can end in an error that leaves what has been written. VACUUM
must have removed every entry of a line pointer before the heap gives it to another row. In the
build, one sorted stream of tuples is cut into lists, and the positions of list tuples are
remembered while their pages grow. Elkan's k-means relies on bounds that outlive the centers they
were calculated for. An insert changes the index in up to three WAL records and one extension of
the file that is not logged; a crash can fall between any two of them. The type has no state, but
its functions are called in any order on each other's results, on floats that overflow and
underflow and 32-bit arguments of any value, and its aggregates by parallel workers in any order.

**What makes each part correct.**

* Pages, insert, VACUUM: chains are disjoint, ascending and complete; the hint stays in its
  chain; a row has exactly one entry from the moment its insert added it until it is dead; no entry
  survives its line pointer; pages are not overfilled, not lost, and appended only behind a full
  one; inserts and VACUUM end. In short: an index of this kind is, to the heap, a set of entries
  that appear and disappear atomically.
* Build: what it leaves is exactly such an index over the rows it was given.
* Scan: it probes the nearest lists, and returns each row its snapshot sees in those lists once,
  in the order of distance, and nothing else.
* Crashes: whatever suffix of the WAL is lost, the index that recovery restores is one the running
  backends could have left, but for pages nobody has initialized.
* Sampling: the sample is exactly the reservoir that was drawn, of different rows that take part.
* k-means: leaving out distances never changes an assignment; it is Lloyd's iteration, and it ends.
* Operator classes: the order of distances in the index is that of the operator, and the list of a
  row is its cluster, whichever of the support functions normalizes what. An insert chooses the
  list the build would have chosen.
* Settings: a scan has at least one list to probe, in whatever order the library is loaded and
  values are SET.
* `hvector`: no sequence of calls yields a vector with an infinity, a NaN or a wrong dimension; slices
  and bit strings are what was asked for; the order is total; texts, messages and arrays are read back; a
  parallel plan does not change `avg`, and changes `sum` only by the rounding of its additions.

The hazards, line by line, are in `PROJECT.json`.

## 2. Modules

| Module | What it is | Code |
|---|---|---|
| `IndexEntries` | abstract: the contract of `aminsert` and `ambulkdelete` | `ivffat.c`, the heap |
| `IvfflatIndex` | entry pages, inserts, VACUUM, errors, the life of a row | `ivfflat_insert.c`, `ivfflat_delete.c`, `ivfflat_page.c`, `ivfflat_update_list` |
| `IvfflatIndexProofs` | the inductive invariant and what follows from it; `IvfflatIndex` implements `IndexEntries` | |
| `IvfflatRecovery` | EXTENDS `IvfflatIndex` with the WAL, crashes and recovery | WAL calls in `ivfflat_insert.c`, `ivfflat_delete.c`, `ivfflat_page.c`, `ivfflat_build.c` |
| `IvfflatRecoveryProofs` | every prefix of the WAL is an index | |
| `IvfflatBuild` | CREATE INDEX after the centers are known | `ivfflat_build.c` 864-1205 |
| `IvfflatBuildProofs` | a finished build is an initial state of `IvfflatIndex` | |
| `NearestLists` | abstract: how many and which lists a scan should probe | `ivfflat_scan.c` 132 |
| `IvfflatProbes` | the loop that finds them with a pairing heap | `ivfflat_get_scan_lists` |
| `IvfflatScan` | a scan; EXTENDS `IvfflatIndex`, whose steps go on beside it | `ivfflat_scan.c` |
| `IvfflatScanProofs` | what a statement gets is sound, complete and sorted | |
| `IvfflatSampling` | the sample of the rows for the k-means | `ivfflat_build.c`, sampling |
| `ElkanKmeans` | k-means++ and Elkan's iteration | `ivfflat_build.c` 369-862 |
| `ElkanKmeansProofs` | bounds and assignments are right; `ElkanKmeans` implements `Lloyd` | |
| `Lloyd` | abstract: k-means without bounds | – |
| `ElkanLloyd` | `ElkanKmeans` under fairness, and what it should implement | the same code |
| `CenterSearch` | the two loops that choose the list of a row | `ivfflat_find_insert_page`, `ivfflat_sort_tuples` |
| `IvfflatOpclass` | stored forms and distances of the three operator classes | `vector.c` distances, the SQL operator classes, normalization in build, insert and scan |
| `IvfflatSettings` | SET, loading the library, the cost estimate | `ivfflat_options.c`, `ivfflat_costestimate` |
| `IvfflatLists` | the five machines between a row or a query and its list, side by side | the same code |
| `IvfflatListsProofs` | they choose, order, probe and sample as they should | |
| `HVector` | values and functions of the type | `vector.c` |
| `HVectorCalls` | any sequence of calls of them | `vector.c` |
| `HVectorText` | `hvector_in` piece by piece, `hvector_out`, dump and restore | `vector.c` |
| `HVectorAggregates` | `avg` and `sum` in a parallel plan | `vector.c`, the SQL aggregates |
| `HVectorMachines` | the three of them side by side | the same code |
| `HVectorProofs` | values, slices, bits, order, text and aggregates are right | |
| `SumProofs` | sums over sets, powers and binary digits, for the two modules of proofs above that need them | – |
| `MC…` | instances for TLC | |

`IvfflatBuild` instantiates `IvfflatIndex` and ends in one of its initial states. `IvfflatIndex`
instantiates `IndexEntries` under a refinement mapping. `IvfflatScan` and `IvfflatProbes` meet in
`NearestLists`, and `IvfflatSettings` shows that there is at least one to start from. `ElkanLloyd`
instantiates `Lloyd`. What `IvfflatIndex` takes for granted of a row, the constant `ListOf`, is what
`CenterSearch` and `IvfflatOpclass` are about.

Small machines that share nothing are checked side by side in one run: `HVectorMachines` instantiates
the three machines of the type, `IvfflatLists` those of the way to a list (`CenterSearch`,
`IvfflatOpclass`, `IvfflatProbes`, `IvfflatSampling`, `IvfflatSettings`). The variable `machine` says which of
them a behaviour is of; the variables of the others are `Idle`.

### IvfflatIndex

`next`, `items` are `nextblkno` and the line pointer array of each entry page; an entry is
represented by its row. `start_page`, `insert_page` are the two fields of a list tuple. `xlock` and
`extlock` are the holders of the exclusive content locks and the extension lock. `stage[r]` is where
the backend of row `r` is inside `ivfflat_insert`, or where the row is in its life; `page`, `orig`,
`newbuf` are its local variables. `vpc`, `vdead`, `vlist`, `vpage`, `vins` belong to VACUUM.

A step is what a backend does between two points at which it can wait or be interrupted:

| Actions | Code |
|---|---|
| `SkipRow`, `FindInsertPage` | `ivfflat_insert` up to `ivfflat_find_insert_page` |
| `ReadBuffer` | pins the page: this is what VACUUM's cleanup lock waits for |
| `AddItem`, `MoveRight`, `HoldTail` | the loop, by what the locked page looks like |
| `LockExtension`, `NewBuffer` | extension lock; `P_NEW` finds the size, then grows the file by a zeroed page |
| `LinkPage`, `FillPage` | the two WAL records of an append |
| `UpdateList` | `ivfflat_update_list`, with its test against `original_insert_page` |
| `InsertError`, `OutOfBlocks` | errors where the code can meet them, the wait for the extension lock at a full tail included: what was written stays |
| `Commit`, `Abort`, `Delete` | the row's transactions |
| `StartVacuum`, `VacuumPage`, `VacuumList`, `RecycleTids`, `CancelVacuum` | the heap's first pass, `ivfflat_bulkdelete`, the heap's second pass |

An action that takes a page lock and gives it up without waiting in between is one step that needs
the lock to be free; `xlock` records only the locks that are held over such a point. Generic WAL
records are atomic. `NewBuffer` is the one step that waits for a page lock with locks in hand: the tail's
and the extension lock. `CancelVacuum` can end a VACUUM anywhere. `HasSpace` counts entries: within one index all have the same size.
`Init` is any state a build can end in.

### IvfflatRecovery

`log` is the WAL that can still be lost, each record represented by what replay makes of the index
and the heap up to and including it; `log[1]` is what is on disk already. `Redo` says what a record
holds: the pages that were registered, the list tuples, the heap rows. Every step of `IvfflatIndex`
that changes something is conjoined with the record it writes (`LogAddItem`, `LogLinkPage` with two
pages in one record, `LogFillPage`, `LogUpdateList`, `LogVacuumPage`, `LogVacuumList`, `LogRecycleTids`), or with
`NotLogged`, for locks, cursors and the extension of the file. A step may need room in the WAL buffers
(`WalBuffers`, the bound on `log`); `FlushWal` makes it at any time, a commit flushes everything up to
its own record. `Crash` restores `log[1]`: backends, locks and VACUUM are gone, transactions without a
commit record have aborted, and the file may be longer than any record says.

### IvfflatBuild

`pc` follows `ivfflat_build_index`; `i`, `buf`, `start`, `infos`, `sort`, `itup` are its local
variables. Each row is live, dead, or of a transaction still in progress (`done`) as the heap scan
finds it. `ListTuples` is what a reader finds by following `nextblkno` from `IVFFLAT_HEAD_BLKNO`.

### IvfflatProbes and IvfflatScan

`IvfflatProbes` keeps the array of nodes and the pairing heap threaded through it; a tie on top of the
heap is broken either way. `IvfflatScan` starts from `NearestLists` (the list tuples' centers and
start pages never change, so reading them is one step), then takes a page at a time under a share
lock, sorts, and gives the executor one line pointer per call. The executor's part is in `GetTuple`:
look the line pointer up in the heap *as it is then*, keep the row if the snapshot sees it.
A snapshot is any set of live rows: rows left out were committed too late for it or deleted
early enough. VACUUM's horizon appears in `IndexStep`: rows of a snapshot in use do not become dead.

### ElkanKmeans

One step per sample and center in the loops that leave distances out, one per loop elsewhere.
Samples and centers are points on a line, where distances are exact and satisfy the triangle
inequality; `half_distances` and `s` are kept doubled to stay integers. A mean is rounded either
way, a center without samples goes anywhere. The seeds after the first are drawn by weight; as in the code, the last sample
may be one whatever its weight. Not modelled are rounding errors of `float` bounds, the clamp of a sum of samples to
`FLT_MAX`, and the division of a mean by its norm with `hvector_ip_ops` and `hvector_cosine_ops`: what is proved about the bounds does not
depend on where centers move, the refinement of `Lloyd` is of its iteration for `hvector_l2_ops`.
`Lloyd` has the samples and the centers only, and one step per seed and iteration; the mapping of
`ElkanLloyd` is the identity on them, and `seeding` is `pc = "seed"`. `MoveCenters` is `Iterate`, with `closest`
for the assignment; all that lies between two of them is a stutter.

### IvfflatSampling

A row is known by its block and place, and is a NULL, a zero vector or another. `Fill` and `Replace` are the
two branches of `ivfflat_add_sample`; the blocks, the numbers of rows to pass over and the sample that is
replaced are whatever the server's samplers return. `draws` is a history variable: what
`reservoir_get_next_S` has returned.

### CenterSearch, IvfflatOpclass, IvfflatSettings

`CenterSearch` runs the loop of the build and that of an insert over the same distances; they
initialize and compare differently. Distances go up to infinity and include NaN, with which every
comparison is false. `IvfflatOpclass` has exact arithmetic: a normalized vector is kept as the vector and its
squared norm, a distance as a fraction that orders as the distance does. `Stored`, `Center`, `Sample` and
`ScanValue` are the four places where a vector may be normalized, each by its own support function.
`IvfflatSettings` has the setting as a placeholder before `_PG_init` and as a checked value after it, and
the estimate with all costs multiplied by `2 * list_count * loops`, so that no fraction is rounded. `loops` is the `loop_count` of
`ivfflat_costestimate`, above 1 for the inner side of a join; the server's `genericcostestimate` then charges each scan its share of `fetched` pages,
fewer than all scans read, while the number of pages the reductions are made for stays that of one scan.

### HVector, HVectorCalls, HVectorText, HVectorAggregates

A float is an integer number of units, one of `Magnitudes` or its negative; the larger ones are further apart, as with a
mantissa of a few bits. `ToFloat` rounds a result to the nearest, half way to the one with an even mantissa, and to infinity
beyond `MaxFloat` and half its last place (`Ulp`), so that sums lose digits and overflow and underflow both occur. `NaN` is one more
value. Machine integers wrap at `MaxInt`. `ereport(ERROR)` is the value `Error`.
`HVectorCalls` calls the functions in any order on what they have returned before; whatever they return is sent and received in the binary
formats (`hvector_send`, `hvector_recv`, the casts from and to `float4[]`) by `BinaryRestores`, a part of `DumpRestores`. `HVectorText` reads a
sequence of tokens (a character, or what `strtof` takes for a number); its actions are the parts of
`hvector_in`. `%g` is modelled by what it does: numbers are rounded to `Digits` digits in base `Base`. `hvector_out` says
which token the loop leaves at which place: element `i` at `3 * i - 1`, with a comma and a space before it. `Dump` prints a value
and reads it again. `AcceptsGrammar` compares with the grammar of the text without its spaces (`NoSpace`: each token at its rank among
those written). Sums are folds over sets and powers recursive functions, so that proofs can be about them. In `HVectorAggregates`, workers take rows and leader combines states in any order; the
executor's rules for strict functions and NULL are in `Advance`. `sum` adds `float4`s and rounds each time, `avg` adds `double`s, which is
exact here, and rounds the mean.

## 3. Runs

| Run | Instance | Question |
|---|---|---|
| `onelist` | 1 list, 4 rows, 3 line pointers, 1 entry per page, room for 3 pages, empty table | do the chains, the hint and VACUUM survive contention for the tail? Every interleaving of four backends, VACUUM, its cancellation and reuse of line pointers; is the invariant of the proof one (`IndexInv`)? |
| `contract` | 3 rows in list 1, 1 in list 2, 1 not indexed, 1 row from the build, 2 entries per page, room for 4 pages | refinement of `IndexEntries`; entries of dead and live rows on one page; pages that are emptied and filled again, never overfilled, appended only behind full ones |
| `liveness` | 2 lists with a full page of 1 entry each, another row for each list, a line pointer for each row, room for both extensions | inserts and VACUUM end, also when both tails are full at once: one backend waits for the extension lock, the other extends the file while it keeps the tail of its list |
| `recovery` | 1 list, 3 rows, 1 entry per page, room for 4 pages, 2 records in the WAL buffers | a crash at any point, any number of times: is every prefix of the WAL an index in which committed rows are found and no entry is stale, are lost pages empty, and can backends go on with what is replayed? |
| `build` | 3 lists (one empty), 2 list tuples and 2 entries per page, 5 rows in any state, room for exactly the pages needed or fewer | does the build leave an initial state of `IvfflatIndex`? |
| `scan` | 2 lists, 3 rows, 2 line pointers, 2 queries of which one has only ties, 1 and all lists probed | soundness, completeness and order of what a statement gets |
| `kmeans` | 3 samples on 4 points, 3 centers, 3 iterations | are bounds and assignments right, is the invariant of the proof one, is it Lloyd's iteration, and does it end? |
| `lists` | 4 distances and centers; 2 lists, rows of 2 dimensions; 4 lists and 1 to 5 probes; heaps of up to 3 blocks of 3 rows and a sample of 2; settings below, in and above the range; costs of scans in one loop and in two | does an insert choose the list of the build, does the index order rows as the operator does and lists as the k-means, are the nearest lists probed, is the sample the reservoir drawn, and are settings and costs in range? |
| `vector` | 3 dimensions, floats 0, 1, 2, 3, 4, 6, 8, 12 units with 1.0 = 2, 32-bit integers shrunk to 5, 2 bits per byte; texts of 5 tokens and lists with one error; tables of 4 rows, 3 workers | are values vectors, slices slices and the order total; is exactly the grammar accepted, and what is dumped or sent restored; what may a parallel plan change? |
| `lists_option` | `build` with `lists = 2` | the documented meaning of the option: violated, see below |
| `normalize_unit` | `vector` | what the SQL file says of `hvector_l2_normalize`: violated, see below |
| `documented_probes` | `lists` | the documented name of the setting: violated, see below |

*Why these bounds are enough to be of interest.* Two backends at one full tail, a third that
follows the link they made, and VACUUM in the chain need three rows and three pages; the fourth row
of `onelist` makes a line pointer be used again while the others are still at it. `MaxBlocks` bounds
the file as `MaxBlockNumber` does; runs with room to spare and runs that hit it are both there: in `onelist` the third extension fails.
In `liveness` two lists are the fewest for the extension lock to have a waiter, since the holder of a full tail is alone in its list. There each row has its own
line pointer (`OwnTidsSpec`), which keeps the graph small enough for TLC's liveness check; how long a process waits does not depend
on which line pointer a row has. The other runs reuse them.
In `recovery` two waiting records let the link of a page be lost with the entry on it, and the
entry without the hint; two crashes in a row occur. In `scan`, three rows with two line pointers
force a line pointer to change hands between the page read and the heap lookup. In `kmeans`
three centers are the fewest for which the triangle inequality between centers can exclude one and
keep another, and three iterations let bounds age twice; `MaxIterations` stands for 500. In `lists`, more
lists than probes and all ties occur, and a block is left out of the sample when there are more blocks than
samples; `MaxSkip` bounds what is drawn and `MaxRows` the table. In `vector`, every pair of machine
integers is an argument of a slice of up to three elements, the smallest that has elements on both
sides of a cut; 12 units with a mantissa of 2 bits are enough for sums to overflow, to be rounded half way (1 and 12, -1 and 12) and to depend
on the order of their terms, 1.0 = 2 units for products to underflow and 12 * 12 / 2 to overflow; with three workers one can be without rows while
two states are joined. In `lists`, two loops save up to the cost of five random pages, more and less than the CPU costs.

The type invariants are parts of `IndexInv`, `ScanInv`, `KmeansInv`, `BuildInv` and `ProbesNearest`. Deadlock is checked
everywhere but in `vector`; stages in which nothing can happen any more (`AllRemoved`, `Ended`, `Done`,
`Finished` in `IvfflatLists`) are explicit stuttering steps. In `vector` the machines of the text and the aggregates really stop at
their result or error.

Every property of a passing run has a mutant in `PROJECT.json`: a definition with a plausible fault
(the operators whose names end in `_` and a fault), under which TLC finds the property violated.

*Fairness.* `FairSpec` assumes weak fairness for every insert in progress and for VACUUM. Waiting
is for content locks, the cleanup lock and the extension lock, whose queues the server serves in
order of arrival; other backends can delay one only finitely often because every row version is
stored once. Nothing is assumed about new inserts, commits, errors or the start of VACUUM. A
backend that holds a page lock does not wait for the client, so the assumption that it goes on is
that the server schedules its processes.

The `FairSpec` of `ElkanLloyd` is weak fairness of `Next`: the build is one process that goes on until
it is done. `KmeansEnds` then rests on the limit of 500 iterations, since rounded means and random
centers can change assignments for ever.

*Findings.*

* `README.md` of the repository describes the index option `lists`, but
  `ivfflat_build_init_ctx` takes the number of lists from a constant: `CREATE INDEX … WITH (lists = n)`
  builds an index with the default number of lists whatever `n` is (run `lists_option`).
* It also documents a setting `ivfflat.probes`; the code registers `pg_hybrid_ivfflat.probes`. `SET ivfflat.probes = 10`
  succeeds, since the server takes it for a placeholder of a library to come, and changes nothing
  (run `documented_probes`).
* `hvector_l2_normalize` is to "normalize a vector to unit length", but squares each element as a `float`
  before it adds to the `double` norm: vectors with large or with only tiny elements become the
  zero vector (run `normalize_unit`).

*Met on the way, and not checked by a run.* The example in the comment of `hvector_sub` is wrong
(the code returns `[0,0,0,-1,1]`). Random centers of an index on an empty table are not normalized with
`hvector_ip_ops`, as the centers of its k-means are: `ListsAreClusters` is about centers of the k-means
only. `reservoir_get_next_S` is given the number of samples instead of the number of rows seen, so that later rows are
more likely to be taken than earlier ones: the sample is a reservoir, not a uniform one, and
probabilities are out of the reach of these models. `SameListAsBuild` needs the distance to the first center to be a number:
an insert stays with the first list if it is NaN, the build does not. `sum` of 1e8, 1 and -1e8 is 0 or 1 by the plan, as with the
server's own `float4` sums; `SumIsRounded` says how far it can go. `ivfflat_costestimate` passes `loop_count` on but takes the number of index pages
for that of one scan: for the inner side of a join with many loops the reductions for sequential reads can exceed the shared page
costs, and the startup and total costs can be negative. `CostsInOrder` is therefore about scans in which the loops save no more than
the CPU costs, one loop among them.

## 4. Proofs

`IvfflatIndexProofs` proves for all values of the constants that satisfy `IndexAssumption` and
`RowAssumption` (at least one list, one entry per page, room for a page per list; a finite set of rows):

* `IndexInvariant`: `Spec => []IndexInv`. The safety properties are not inductive. `IndexInv` adds what the
  actors rely on between their steps: a walking backend is in the chain of its row's list, an
  extending one keeps the full tail locked and owns the zeroed block it will link (`BackendInv`);
  entries sit in the chain of their list while their row is anything from stored to dead
  (`EntryInv`); line pointers VACUUM collected stay with their dead rows, and pages it has
  passed are free of entries for them (`VacuumInv`). The last is the heart of the matter: an
  entry can be added behind VACUUM's back, but only for a row whose line pointer was not collected.
  `IndexInv` is `EntryPagesInv`, which the proof of recovery uses again, and `NoPageLost`, which a crash breaks.
* `TypeCorrect`, `ChainsCorrect`, `RowsIndexed`, `NoStaleEntries`, `PagesNeverOverfull` follow.
* `AppendsCorrect` is the action property `AppendOnlyWhenFull`.

* `IndexImplementsContract`: the initial states map to initial states of `IndexEntries`, and each action to one of its actions
  or a stutter.

`Chain(l)`, the pages reachable from `start_page[l]`, is defined as the intersection of the sets
closed under `next`, so that no recursion or induction over paths is needed: a lemma shows when two
link functions have the same closure, one what an append adds to it. `LeastOf` (a non-empty set of
numbers has a least element, from well-foundedness of `<`) replaces induction where a chain has to be
followed: `BuiltChain` shows that the chain of a list after the build is the interval from
`start_page` to `insert_page`.

`IvfflatScanProofs` proves for `SpecWithScan`, under the assumptions above and `ScanAssumption`:

* `ScanInvariant`: `[](IndexInv /\ ScanInv)`; a scan's steps leave the index alone, so `IndexInv` carries over.
  From a step of the index to the next, a scan can rely on three facts: chains only grow
  (`ChainGrows`), a row that has been stored keeps its line pointer (`TidStays`), and the entry of a live row
  stays on its page (`LiveEntriesStay`). `SortInv` says why a line pointer that waits in the sort
  is harmless: when the page was read its row was stored, so no other row of the snapshot, all of them
  live, has or ever gets the same one. `WalkInv` says why nothing is missed although only one page is locked at a
  time: an entry of the snapshot is never put behind the scan, because chains are in block order.
* `ScanTypeCorrect`, `ScanSound`, `ScanComplete`, `ScanSorted` follow.

`ElkanKmeansProofs` proves for every sample, number of centers and limit of iterations (`KmeansAssumption`:
points are integers whose squared distances are below `FLT_MAX`):

* `KmeansInvariant`: `Spec => []KmeansInv`. `BoundsSound` needs to know that an upper bound that is not
  recalculated is exact (`ExactInv`: before the centers have moved, or once `jreset` is cleared), since a bound
  that is only an upper one must not be compared with the distance to another center and then
  be kept. `AssignedToNearest` needs `AroundInv` (distances between centers are those of the present
  centers while samples are visited) and `VisitedInv` (no center before `i` is nearer to sample `j`).
  `HalfwayIsNearest` is the step at which the triangle inequality enters; `Metric` the one at which the
  centers move.
* `KmeansTypeCorrect`, `KmeansBoundsSound`, `KmeansAssignsNearest` follow.
* `KmeansIsLloyds`: `Spec => ImplementsLloyd`. The step that matters is `MoveCenters`: by `KmeansInv`, when all samples have been
  visited `closest` is one of Lloyd's assignments (`VisitedIsAssignment`), and both modules take the same means of it (`SameMeans`,
  for which sum and cardinality are expanded, because those of an instance are symbols of their own to the prover).

`IvfflatRecoveryProofs` proves for `SpecWithLog`, under the assumptions of `IvfflatIndex` and at least one record in
the WAL buffers:

* `RecoveryInvariant`: `[]RecoveryInv`, which is `EntryPagesInv` (what backends and VACUUM rely on), `UnlinkedEmpty` (pages
  in no chain have no entries, which is what remains of `NoPageLost`) and `LogInv`. `LogInv` says what replay
  makes of the index and the heap up to *every* record that can still be lost: chains that are ascending,
  complete and disjoint, entries of rows the heap has, in the chain of their list, at most one of each, one of every committed
  row, a hint in its chain. Its link to the shared buffers is `LogComplete`: replay of the last record is what they show. So a
  step that writes a record needs to be looked at once, at the end of the log (`WriteInv`, with
  `DurableIsReplayed`: what `EntryPagesInv` says of the shared buffers holds of what replay makes of them), one that writes none
  must not touch what is logged (`NotLoggedInv`), and a crash turns one entry of the log into the state (`CrashInv`).
* `LogIsComplete`, `PrefixesConsistent`, `LostPagesEmpty`, `RecoveredIndexWorks` follow.

`IvfflatBuildProofs` proves under `BuildAssumption` (room for one page per list behind the list pages; different rows have
different line pointers):

* `BuildInvariant`: `Spec => []BuildInv`. `BuiltIndexIsReady` is about the last state only. `BuildInv` says how
  far the file is at every step: list pages are full but for the last, and list `l` has place
  `(page - 1) * ListsPerPage + offset` (`ListPagesInv`), so that `infos` can name no tuple of another list; the chains of the lists begun
  so far follow each other without a gap, and within one every page links to the next block
  (`ChainsInv`); what is left in the sort belongs to the list at hand or to later ones (`SortInv`), and every other row is
  once in the chain of its list, whose pages are full but for the last (`EntriesInv`). `TuplesFound` shows by
  induction from the last list page down that a reader who follows `nextblkno` finds the tuples of all lists in order.
* `BuiltIndexReady`: in the state `pc = "built"` this is `Init` of `IvfflatIndex`, with which the proofs above start.

`IvfflatListsProofs` proves under `ListsAssumption` (`DBL_MAX` is positive, distances have a greatest one, elements are integers,
a query probes at least one list, a block of the heap is a sequence of rows that are NULLs, zero vectors or others, at least one sample is taken,
sizes and costs are natural numbers, a scan runs at least once), each from an invariant of its machine:

* `InsertsLikeBuild`: `SearchInv` says that the insert's list is the first of the nearest so far and that the build's is the same one,
  or that the build has seen nothing below infinity yet.
* `ScansProbeNearest`: `ProbesInv` says that the lists in the heap are the nearest of those read, that `max_distance` is the
  distance of the one on top once the array is full, and, while they are taken (farthest first, each put in front), that the result is in order
  and behind what is left.
* `SettingsInvariant`, from which `ScansHaveLists` and `CostsAreInOrder` follow. `EstimateInOrder` shows that the reductions are at most the
  price of the pages of one scan, which is what page sharing can have left out of the generic costs; where the CPU costs make up for that, nothing gets below zero.
* `ScansSortLikeOperators`: what is stored of a row and of a query, normalized or not, keeps its order
  for every dimension. Sums over the elements are only compared with themselves, so nothing is to be known of the fold.
* `RowsAreInTheirClusters`: a row gets its list by support function 1, the k-means assigns its samples by support function 3. For L2 one is the
  square of the other; for inner product and cosine the first is the negative inner product of what is stored, the other the angle. `SameOrder` says that
  they order the centers of a k-means, which have unit length, alike. The angle is calculated from a product that is clamped to -1 .. 1; by `CauchySchwarz`
  (of `SumProofs`) it never was outside, so that the clamping makes no two centers equal that are not.
* `SamplesAreReservoir`: `SamplingInv` numbers the candidates (rows of chosen blocks that take part) in the order they are read.
  `ReservoirInv` says that the samples are different candidates, that nothing is drawn before there are `MaxSamples` of them, and that
  from then on the place of the next row to be taken, `MaxSamples` plus all that was drawn plus one for each draw, is the number of
  candidates read, plus `skip_count`, plus 1. Each sample has one of the first places or one that was drawn; at the end of the heap the property follows.

`HVectorProofs` proves under `HVectorAssumption`, `HVectorMachinesAssumption` and `HVectorTextAssumption` (at least one dimension, fewer
than machine integers can count; there is a zero and a greatest float, and floats are nowhere further apart than at `FLT_MAX`; vectors and tables are what
the server has decoded; texts are sequences of tokens; numbers are printed in a base of at least 2, with at least one digit, so few that
a number of that many digits survives `float` (`FLT_DIG` is 6, `%g` prints 6), and `FLT_MAX` is not printed as a number out of range, which is so for
`%g`: 3.40282e+38):

* `ValuesAreVectors`, from the invariant of the calls and the text: each function that returns an `hvector` tests what can fail, and
  `hvector_l2_normalize`, which tests nothing, need not.
* `SlicesAreExact`: `WrapIs` says when 32-bit arithmetic is exact; where `start + count` or `dim - count` wraps around, its result is not used.
* `BitsArePositiveElements`: a byte is the sum of different powers of 2. `DigitOfSum` (of `SumProofs`) cuts the sum at a place: what
  stands before is a multiple of twice its power, what stands behind is less than the power. `BytesAre` has the last byte, for which the code
  has a loop of its own, as a sum of the same kind with zeros in it.
* `VectorsAreOrdered`: `hvector_cmp0` decides the lexicographic order (`CompareIs`), which is strict, transitive and total.
* `TextsAreParsed`: `PartInv` says for every part of `hvector_in` how many tokens other than spaces it has passed, and that they
  are a bracket, the elements it has stored and the commas between them. It is the whole text in the end. Where a part fails, the token at hand is one that no
  text of the grammar has there, so that *no* vector with the column's dimension is denoted by the text (`Rejected`).
* `DumpsAreRestored`: `PrintedDenotes` says that `hvector_out` prints a text of the grammar, for the elements as they are shown; a text denotes
  one vector (`DenotesOne`), so that this is what the parts above return. `ShownIs` says that a number that is printed is in range and is printed as itself: rounding
  stays below the next power of the base that needs another digit, so the digits of the result stand for the same power or a smaller one that divides it.
  A message and an array hold the elements themselves, which pass every test of a vector again.
* `AvgIsTheMean`, `SumIsTheRoundedSum`: workers take rows and the leader combines states in any order. `AggregatesInv` says that *some* assignment `owner` of the
  rows read so far to the workers explains everything: the state of a worker is the number and the sum of its rows, that of the leader the ones of the
  workers that have handed theirs over, or an error that these rows excuse. A sum over disjoint sets of rows is a sum of sums (`SumOnUnion`), and a mean of finite
  numbers is finite (`MeanIsFinite`): `avg` never overflows. For `sum`, "the sum of its rows" is `SumIs`: off by at most half of `Ulp` for each addition it took, whoever made it,
  and not at all if every sum of rows is a float. Joining two such states adds one rounding to theirs, which is what joining the numbers of their additions allows.

`SumProofs` stands below both. `MapThenSumSet` of the community modules adds up a set by recursion in the order of `CHOOSE`; the induction
theorems of the library cannot be used for it here, since they take an operator as a parameter. Every fact is proved instead with a smallest set, or number, for which
it would be wrong (`SmallestOf`, `LeastOf`): that the recursive function exists and any summand can be taken out first, bounds, unions, the
Cauchy-Schwarz inequality, powers, digits.

Only model-checked:

* Liveness (`InsertTerminates`, `VacuumTerminates`, `KmeansEnds`), which is out of the prover's reach.
* The documented claims that are violated need no proof.

Every invariant of a passing run is stated by a theorem.

## 5. Not modelled

* `hvector_l1_distance`, which no operator class uses, and `hvector_dims`, which returns a field.
* Rounding of `float` bounds and the clamp of sums to `FLT_MAX` in the k-means, and of `double` sums in distances and `avg`: the
  properties are about exact values, except in `HVector`, where every `float` result is rounded, over- or underflows.
* The means of a spherical k-means (inner product, cosine), which are divided by their norm.
* Commit, its WAL record and the recovery of the heap are the server's, and nothing is claimed of them: `IvfflatRecovery` models them as far as
  entries of committed rows and dead line pointers depend on their order in the WAL.
* Distances that are not numbers outside `CenterSearch`.
* The settings `iterative_scan` and `max_probes`, which nothing reads.
* Declarations in the SQL file other than operator classes, aggregates and operators; makefiles.
* `ivfflat_vacuumcleanup` and the counters of `IndexBulkDeleteResult`: statistics, which nothing here depends on.
* Torn pages and the replay of single WAL records: the server's, behind `GenericXLogFinish`.
* Scans in parallel, backwards, or by bitmap: the handler does not offer them.

## 6. What could follow

1. Rounding: `float` bounds in the k-means and `double` sums in distances, of which the properties are checked and proved for exact values only.
2. Probabilities of the sampling, for which a model of another kind is needed.
3. A run and a proof for centers of an index on an empty table, once the code normalizes them as it does those of its k-means.
