------------------------ MODULE IvfflatRecoveryProofs ------------------------
(***************************************************************************)
(* Proofs about IvfflatRecovery: wherever the WAL is cut, recovery restores *)
(* an index that backends and VACUUM can go on with, and every committed    *)
(* row with it, for every number of lists, rows, line pointers, blocks,     *)
(* entries per page and records in the WAL buffers.                         *)
(***************************************************************************)
EXTENDS IvfflatRecovery, IvfflatIndexProofs

-----------------------------------------------------------------------------
(* A bounded set of numbers has a greatest element.                        *)

LEMMA GreatestOf ==
    ASSUME NEW S \in SUBSET Nat, S # {}, NEW n \in Nat, \A k \in S : k <= n
    PROVE  Max(S) \in S /\ \A k \in S : k <= Max(S)
<1> DEFINE T == {n - k : k \in S}
<1>1. T \in SUBSET Nat /\ T # {}
  <2>1. \A k \in S : k \in Nat /\ k <= n /\ n - k \in Nat
    OBVIOUS
  <2> QED BY <2>1
<1>2. PICK m \in T : \A k \in T : m <= k
  BY <1>1, LeastOf
<1>3. PICK x \in S : m = n - x
  BY <1>2
<1>4. \A y \in S : x >= y
  <2> SUFFICES ASSUME NEW y \in S PROVE x >= y
    OBVIOUS
  <2>1. n - y \in T
    OBVIOUS
  <2> QED BY <2>1, <1>2, <1>3
<1>5. Max(S) \in S /\ \A y \in S : Max(S) >= y
  BY <1>4 DEF Max
<1> QED BY <1>5

-----------------------------------------------------------------------------
(* The index as it stands is one replay can restore.                       *)

\* What the heap looks like after recovery: a row is live or free just as it is
\* now, and dead if it is stored but not committed.
LEMMA RecoveredStage ==
    ASSUME TypeOK, NEW r \in Rows
    PROVE  /\ Recovered(stage[r]) \in {"new", "live", "dead", "removed"}
           /\ Recovered(stage[r]) = "live" <=> stage[r] = "live"
           /\ Recovered(stage[r]) \in {"live", "dead"} <=> Stored(r)
           /\ stage[r] \in {"update", "done", "live", "dead"} => Recovered(stage[r]) \in {"live", "dead"}
BY DEF Recovered, Stored

\* s restores what the shared buffers show, whatever size it gives the file.
IsDurable(s) ==
    s = [size |-> s.size, next |-> next, items |-> items, insert_page |-> insert_page,
         heap |-> [r \in Rows |-> Recovered(stage[r])], tid |-> tid]

\* LogComplete with the EXCEPT spelled out.
LEMMA LogCompleteMeans == LogComplete <=> IsDurable(Last(log)) /\ Last(log).size <= nblocks
<1> DEFINE h == [r \in Rows |-> Recovered(stage[r])]
<1>1. Durable = [size |-> nblocks, next |-> next, items |-> items, insert_page |-> insert_page,
                 heap |-> h, tid |-> tid]
  BY DEF Durable
<1>2. [Durable EXCEPT !.size = Last(log).size] =
          [size |-> Last(log).size, next |-> next, items |-> items, insert_page |-> insert_page,
           heap |-> h, tid |-> tid]
  <2> HIDE DEF h
  <2> QED BY <1>1
<1> QED BY <1>2 DEF LogComplete, IsDurable

LEMMA DurableIsReplayed ==
    \A s : /\ EntryPagesInv /\ UnlinkedEmpty
           /\ IsDurable(s)
           /\ s.size \in FirstEntry .. nblocks
           /\ \A l \in Lists : \A b \in Chain(l) : b < s.size
        => s \in Replayed
<1> SUFFICES ASSUME NEW s,
                    EntryPagesInv, UnlinkedEmpty,
                    IsDurable(s),
                    s.size \in FirstEntry .. nblocks,
                    \A l \in Lists : \A b \in Chain(l) : b < s.size
             PROVE  s \in Replayed
  OBVIOUS
<1> USE DEF EntryPagesInv
<1>1. /\ s = [size |-> s.size, next |-> next, items |-> items, insert_page |-> insert_page,
              heap |-> [r \in Rows |-> Recovered(stage[r])], tid |-> tid]
  BY DEF IsDurable
<1>2. /\ s.next = next /\ s.items = items /\ s.insert_page = insert_page /\ s.tid = tid
      /\ \A r \in Rows : s.heap[r] = Recovered(stage[r])
  BY <1>1
<1>3. s.size \in FirstEntry .. MaxBlocks
  BY IndexAssumption DEF TypeOK
<1>4. s \in ReplayedType
  <2>1. [r \in Rows |-> Recovered(stage[r])] \in [Rows -> {"new", "live", "dead", "removed"}]
    BY RecoveredStage
  <2> QED BY <1>1, <1>3, <2>1 DEF ReplayedType, TypeOK
<1>5. \A l \in Lists : Reachable(s.next, start_page[l]) = Chain(l)
  BY <1>2 DEF Chain
<1>6. ReplayedChains(s)
  BY <1>2, <1>5 DEF ReplayedChains, ChainsWellFormed, InsertPageInChain
<1>7. ReplayedEntries(s)
  <2>1. ASSUME NEW b \in Block
        PROVE  /\ Cardinality(s.items[b]) <= Capacity
               /\ (\E l \in Lists : b \in Reachable(s.next, start_page[l]))
                     \/ (s.next[b] = Zeroed /\ s.items[b] = {})
    BY <1>2, <1>5 DEF EntryInv, UnlinkedEmpty
  <2>2. ASSUME NEW b \in Block, NEW r \in s.items[b]
        PROVE  /\ ListOf[r] \in Lists /\ b \in Reachable(s.next, start_page[ListOf[r]])
               /\ s.heap[r] \in {"live", "dead"}
               /\ \A c \in Block : r \in s.items[c] => b = c
    <3>1. r \in items[b] /\ r \in Rows
      BY <1>2 DEF TypeOK
    <3>2. /\ ListOf[r] \in Lists /\ b \in Chain(ListOf[r])
          /\ stage[r] \in {"update", "done", "live", "dead"}
          /\ \A c \in Block : r \in items[c] => b = c
      BY <3>1 DEF EntryInv, RowIndexedOnce
    <3> QED BY <3>1, <3>2, <1>2, <1>5, RecoveredStage
  <2>3. ASSUME NEW r \in Rows, s.heap[r] = "live", ListOf[r] # NotIndexed
        PROVE  RecoveredIn(s, r)
    <3>1. ListOf[r] \in Lists /\ stage[r] = "live"
      BY <2>3, <1>2, RowAssumption, RecoveredStage
    <3>2. \E b \in Chain(ListOf[r]) : r \in items[b]
      BY <3>1, <2>3 DEF EntryInv, RowIndexedOnce
    <3> QED BY <3>1, <3>2, <1>2, <1>5 DEF RecoveredIn
  <2> QED BY <2>1, <2>2, <2>3 DEF ReplayedEntries
<1>8. ReplayedTids(s)
  BY <1>2, RecoveredStage DEF ReplayedTids, VacuumInv
<1> QED BY <1>4, <1>6, <1>7, <1>8 DEF Replayed

LEMMA DurableIsReplayedNext ==
    (\A s : /\ EntryPagesInv /\ UnlinkedEmpty
            /\ IsDurable(s)
            /\ s.size \in FirstEntry .. nblocks
            /\ \A l \in Lists : \A b \in Chain(l) : b < s.size
         => s \in Replayed)'
BY DurableIsReplayed, PTL

LEMMA InitRecovery == InitWithLog => RecoveryInv
<1> SUFFICES ASSUME InitWithLog PROVE RecoveryInv
  OBVIOUS
<1>1. Init /\ log = <<Durable>> /\ EntryPagesInv /\ NoPageLost
  BY InitInv DEF InitWithLog, IndexInv
<1>2. UnlinkedEmpty
  <2> SUFFICES ASSUME NEW b \in Block, \A l \in Lists : b \notin Chain(l)
               PROVE  next[b] = Zeroed /\ items[b] = {}
    BY DEF UnlinkedEmpty
  <2>1. ~(b < nblocks)
    BY <1>1 DEF NoPageLost, Init, BuiltRows, Present
  <2>2. next[b] = Zeroed
    BY <2>1, <1>1, IndexAssumption DEF Init, BuiltPages, Block
  <2>3. items[b] = {}
    BY <1>1 DEF EntryPagesInv, EntryInv, TypeOK
  <2> QED BY <2>2, <2>3
<1>3. /\ Durable.size = nblocks /\ nblocks \in FirstEntry .. nblocks /\ nblocks <= nblocks
      /\ IsDurable(Durable)
  <2>1. nblocks \in FirstEntry .. MaxBlocks
    BY <1>1 DEF EntryPagesInv, TypeOK
  <2> QED BY <2>1, IndexAssumption DEF Durable, IsDurable
<1>4. \A l \in Lists : \A b \in Chain(l) : b < nblocks
  BY <1>1 DEF EntryPagesInv, ChainsWellFormed
<1>5. Durable \in Replayed
  BY <1>1, <1>2, <1>3, <1>4, DurableIsReplayed
<1>6. Last(log) = Durable /\ log \in Seq(Replayed) /\ DOMAIN log = {1} /\ log[1] = Durable
  BY <1>1, <1>5 DEF Last
<1>7. LogInv
  BY <1>3, <1>4, <1>5, <1>6, LogCompleteMeans DEF LogInv
<1> QED BY <1>1, <1>2, <1>7 DEF RecoveryInv

-----------------------------------------------------------------------------
(* Steps that write a record.                                              *)

\* Replay of a record that has every page, tuple and heap row the step changes
\* makes of the last state of the log what the step makes of the index.
LEMMA RedoIsDurable ==
    ASSUME RecoveryInv, EntryPagesInv', UnlinkedEmpty', nblocks' = nblocks,
           NEW B \in SUBSET Block, NEW L \in SUBSET Lists, NEW R \in SUBSET Rows,
           \A b \in B : b < nblocks,
           \A b \in Block \ B : next'[b] = next[b] /\ items'[b] = items[b],
           \A l \in Lists \ L : insert_page'[l] = insert_page[l],
           \A r \in Rows \ R : Recovered(stage'[r]) = Recovered(stage[r]) /\ tid'[r] = tid[r],
           \A l \in Lists : Chain(l)' \subseteq Chain(l) \cup B,
           NEW s, s = Redo(Last(log), B, L, R)
    PROVE  /\ IsDurable(s)'
           /\ s.size <= nblocks' /\ \A l \in Lists : \A b \in Chain(l)' : b < s.size
           /\ s \in Replayed'
<1> DEFINE d == Last(log)
           S == {d.size} \cup {b + 1 : b \in B}
           m == Max(S)
<1>1. /\ d.next = next /\ d.items = items /\ d.insert_page = insert_page /\ d.tid = tid
      /\ d.heap = [r \in Rows |-> Recovered(stage[r])]
      /\ d.size <= nblocks /\ d.size \in FirstEntry .. MaxBlocks
      /\ \A l \in Lists : \A b \in Chain(l) : b < d.size
  <2>1. /\ d = [size |-> d.size, next |-> next, items |-> items, insert_page |-> insert_page,
                heap |-> [r \in Rows |-> Recovered(stage[r])], tid |-> tid]
        /\ d.size <= nblocks /\ \A l \in Lists : \A b \in Chain(l) : b < d.size
    BY LogCompleteMeans DEF RecoveryInv, LogInv, IsDurable
  <2>2. d \in Replayed
    BY DEF RecoveryInv, LogInv, Last
  <2> HIDE DEF d
  <2> QED BY <2>1, <2>2 DEF Replayed, ReplayedType
<1> HIDE DEF d
<1>2. m \in Nat /\ d.size <= m /\ m <= nblocks /\ \A b \in B : b < m
  <2>1. nblocks \in Nat
    BY IndexAssumption DEF RecoveryInv, EntryPagesInv, TypeOK
  <2>2. /\ S \in SUBSET Nat /\ \A k \in S : k \in Nat /\ k <= nblocks
        /\ d.size \in S /\ \A b \in B : b \in Nat /\ b + 1 \in S
    BY <2>1, <1>1, IndexAssumption DEF Block
  <2>3. m \in S /\ \A k \in S : k <= m
    <3> HIDE DEF S
    <3> QED BY <2>1, <2>2, GreatestOf
  <2>4. m \in Nat /\ d.size <= m /\ m <= nblocks
    <3> HIDE DEF S, m
    <3> QED BY <2>2, <2>3
  <2>5. ASSUME NEW b \in B PROVE b < m
    <3>1. b + 1 <= m /\ b \in Nat
      <4> HIDE DEF S, m
      <4> QED BY <2>2, <2>3
    <3> HIDE DEF S, m
    <3> QED BY <2>4, <3>1
  <2> QED BY <2>4, <2>5
<1> HIDE DEF m
<1>4. s = [size |-> m,
           next |-> Override(d.next, next', B),
           items |-> Override(d.items, items', B),
           insert_page |-> Override(d.insert_page, insert_page', L),
           heap |-> Override(d.heap, [r \in Rows |-> Recovered(stage'[r])], R),
           tid |-> Override(d.tid, tid', R)]
  BY DEF Redo, d, m
<1>5. /\ Override(d.next, next', B) = next' /\ Override(d.items, items', B) = items'
      /\ Override(d.insert_page, insert_page', L) = insert_page'
      /\ Override(d.tid, tid', R) = tid'
  BY <1>1 DEF Override, RecoveryInv, EntryPagesInv, TypeOK
<1>6. Override(d.heap, [r \in Rows |-> Recovered(stage'[r])], R) =
          [r \in Rows |-> Recovered(stage'[r])]
  BY <1>1 DEF Override
<1>7. IsDurable(s)' /\ s.size = m
  BY <1>4, <1>5, <1>6 DEF IsDurable
<1>8. s.size \in FirstEntry .. nblocks' /\ s.size <= nblocks'
  BY <1>1, <1>2, <1>7, IndexAssumption
<1>9. ASSUME NEW l \in Lists, NEW b \in Chain(l)' PROVE b < s.size
  <2>1. CASE b \in B
    BY <2>1, <1>2, <1>7
  <2>2. CASE b \in Chain(l)
    <3>1. b < d.size /\ b \in Block
      BY <2>2, <1>1 DEF Chain, Reachable
    <3> QED BY <3>1, <1>1, <1>2, <1>7, IndexAssumption DEF Block
  <2> QED BY <2>1, <2>2
<1>10. s \in Replayed'
  BY <1>7, <1>8, <1>9, DurableIsReplayedNext
<1> QED BY <1>7, <1>8, <1>9, <1>10

LEMMA LogCompleteMeansNext == (LogComplete <=> IsDurable(Last(log)) /\ Last(log).size <= nblocks)'
BY LogCompleteMeans, PTL

\* What a list's chain is depends on the links and on where the list starts only.
LEMMA ReplayedSame ==
    ASSUME start_page' = start_page
    PROVE  Replayed' = Replayed
BY DEF Replayed, ReplayedType, ReplayedChains, ReplayedEntries, ReplayedTids, RecoveredIn

LEMMA WriteInv ==
    ASSUME RecoveryInv, EntryPagesInv', UnlinkedEmpty', nblocks' = nblocks,
           start_page' = start_page,
           NEW B \in SUBSET Block, NEW L \in SUBSET Lists, NEW R \in SUBSET Rows, Write(B, L, R),
           \A b \in B : b < nblocks,
           \A b \in Block \ B : next'[b] = next[b] /\ items'[b] = items[b],
           \A l \in Lists \ L : insert_page'[l] = insert_page[l],
           \A r \in Rows \ R : Recovered(stage'[r]) = Recovered(stage[r]) /\ tid'[r] = tid[r],
           \A l \in Lists : Chain(l)' \subseteq Chain(l) \cup B
    PROVE  RecoveryInv'
<1>1. PICK s : s = Redo(Last(log), B, L, R)
  OBVIOUS
<1>2. /\ IsDurable(s)'
      /\ s.size <= nblocks' /\ \A l \in Lists : \A b \in Chain(l)' : b < s.size
      /\ s \in Replayed'
  BY <1>1, RedoIsDurable, ZenonT(60)
<1>3. log' = Append(log, s)
  BY <1>1 DEF Write
<1>4. /\ log \in Seq(Replayed) /\ s \in Replayed
      /\ \A i \in DOMAIN log : log[i].size <= nblocks
  BY <1>2, ReplayedSame DEF RecoveryInv, LogInv
<1>5. /\ log' \in Seq(Replayed) /\ log' # <<>> /\ Last(log') = s
      /\ \A i \in DOMAIN log' : (i \in DOMAIN log /\ log'[i] = log[i]) \/ log'[i] = s
  BY <1>3, <1>4 DEF Last
<1>6. LogComplete'
  BY <1>2, <1>5, LogCompleteMeansNext
<1>7. LogInv'
  BY <1>2, <1>4, <1>5, <1>6, ReplayedSame DEF LogInv
<1> QED BY <1>7 DEF RecoveryInv

\* The commit record, and all before it, reaches the disk.
LEMMA FlushCommitInv ==
    ASSUME RecoveryInv, EntryPagesInv', UnlinkedEmpty', start_page' = start_page,
           UNCHANGED <<nblocks, next, items, insert_page>>,
           NEW r \in Rows, FlushCommit(r),
           \A q \in Rows \ {r} : stage'[q] = stage[q], tid' = tid
    PROVE  RecoveryInv'
<1>0. PICK B \in SUBSET Block, L \in SUBSET Lists, R \in SUBSET Rows :
          B = {} /\ L = {} /\ R = {r}
  OBVIOUS
<1>1. PICK s : s = Redo(Last(log), B, L, R)
  OBVIOUS
<1>2. /\ IsDurable(s)'
      /\ s.size <= nblocks' /\ \A l \in Lists : \A b \in Chain(l)' : b < s.size
      /\ s \in Replayed'
  <2>1. \A l \in Lists : Chain(l)' \subseteq Chain(l) \cup B
    BY DEF Chain
  <2>2. \A q \in Rows \ R : Recovered(stage'[q]) = Recovered(stage[q]) /\ tid'[q] = tid[q]
    BY <1>0
  <2>3. \A b \in B : b < nblocks
    BY <1>0
  <2> QED BY <1>1, <2>1, <2>2, <2>3, RedoIsDurable, ZenonT(60)
<1>3. /\ log' = <<s>> /\ log' \in Seq(Replayed') /\ log' # <<>> /\ Last(log') = s
      /\ \A i \in DOMAIN log' : log'[i] = s
  <2>1. log' = <<s>>
    BY <1>0, <1>1 DEF FlushCommit
  <2> QED BY <1>2, <2>1 DEF Last
<1>4. LogInv'
  BY <1>2, <1>3, LogCompleteMeansNext DEF LogInv
<1> QED BY <1>4 DEF RecoveryInv

\* A step that changes nothing a crash could lose, or that recovery would keep.
LEMMA NotLoggedInv ==
    ASSUME RecoveryInv, EntryPagesInv', NotLogged,
           UNCHANGED <<next, items, insert_page, start_page, tid>>,
           nblocks' \in Nat, nblocks <= nblocks',
           \A r \in Rows : Recovered(stage'[r]) = Recovered(stage[r])
    PROVE  RecoveryInv'
<1>1. UnlinkedEmpty'
  BY DEF RecoveryInv, UnlinkedEmpty, Chain
<1>2. log' = log
  BY DEF NotLogged
<1>3. \A i \in DOMAIN log : log[i].size \in Nat /\ log[i].size <= nblocks'
  <2>1. nblocks \in Nat
    BY IndexAssumption DEF RecoveryInv, EntryPagesInv, TypeOK
  <2>2. \A i \in DOMAIN log : log[i] \in Replayed /\ log[i].size <= nblocks
    BY DEF RecoveryInv, LogInv
  <2> QED BY <2>1, <2>2, IndexAssumption DEF Replayed, ReplayedType
<1>4. LogComplete'
  <2>1. IsDurable(Last(log)) /\ Len(log) \in DOMAIN log
    BY LogCompleteMeans DEF RecoveryInv, LogInv
  <2>2. PICK s : s = log[Len(log)]
    OBVIOUS
  <2>3. IsDurable(s)' /\ s.size <= nblocks'
    BY <1>3, <2>1, <2>2 DEF IsDurable, Last
  <2> QED BY <1>2, <2>2, <2>3, LogCompleteMeansNext DEF Last
<1>5. LogInv'
  BY <1>2, <1>3, <1>4, ReplayedSame DEF RecoveryInv, LogInv, Chain
<1> QED BY <1>1, <1>5 DEF RecoveryInv

\* What is flushed can no longer be lost.
LEMMA FlushWalInv ==
    ASSUME RecoveryInv, FlushWal
    PROVE  RecoveryInv'
<1>1. PICK k \in 2 .. Len(log) : log' = SubSeq(log, k, Len(log))
  BY DEF FlushWal
<1>2. log \in Seq(Replayed)
  BY DEF RecoveryInv, LogInv
<1>3. EntryPagesInv' /\ UnlinkedEmpty' /\ UNCHANGED vars
  BY StutterInv DEF RecoveryInv, FlushWal, UnlinkedEmpty, Chain, vars, pages
<1>4. /\ log' \in Seq(Replayed) /\ log' # <<>> /\ Last(log') = Last(log)
      /\ \A i \in DOMAIN log' : \E j \in DOMAIN log : log'[i] = log[j]
  <2>1. /\ Len(log') = Len(log) - k + 1 /\ Len(log') \in Nat \ {0}
        /\ log' \in Seq(Replayed)
        /\ \A i \in 1 .. Len(log') : i + k - 1 \in DOMAIN log /\ log'[i] = log[i + k - 1]
    BY <1>1, <1>2
  <2>2. log'[Len(log')] = log[Len(log)]
    BY <2>1, <1>1, <1>2
  <2> QED BY <2>1, <2>2 DEF Last
<1>5. LogComplete'
  <2>1. PICK s : s = Last(log)
    OBVIOUS
  <2>2. IsDurable(s) /\ s.size <= nblocks
    BY <2>1, LogCompleteMeans DEF RecoveryInv, LogInv
  <2>3. IsDurable(s)' /\ s.size <= nblocks'
    BY <2>2, <1>3 DEF IsDurable, vars, pages, rows
  <2> QED BY <2>1, <2>3, <1>4, LogCompleteMeansNext
<1>6. LogInv'
  BY <1>3, <1>4, <1>5, ReplayedSame DEF RecoveryInv, LogInv, Chain, vars, pages, rows
<1> QED BY <1>3, <1>6 DEF RecoveryInv

\* Recovery makes of any state replay can reach an index at rest.
LEMMA CrashInv ==
    ASSUME RecoveryInv, Crash
    PROVE  RecoveryInv'
<1>1. PICK s : s = Head(log)
  OBVIOUS
<1>2. /\ s \in Replayed /\ s.size <= nblocks
      /\ s.size \in FirstEntry .. MaxBlocks /\ nblocks \in FirstEntry .. MaxBlocks
      /\ s \in ReplayedType /\ ReplayedChains(s) /\ ReplayedEntries(s) /\ ReplayedTids(s)
  <2>1. log \in Seq(Replayed) /\ 1 \in DOMAIN log /\ s = log[1]
    BY <1>1 DEF RecoveryInv, LogInv
  <2>2. s \in Replayed /\ s.size <= nblocks
    BY <2>1 DEF RecoveryInv, LogInv
  <2> QED BY <2>2 DEF Replayed, ReplayedType, RecoveryInv, EntryPagesInv, TypeOK
<1>3. /\ nblocks' \in s.size .. nblocks /\ start_page' = start_page
      /\ next' = s.next /\ items' = s.items /\ insert_page' = s.insert_page
      /\ stage' = s.heap /\ tid' = s.tid
      /\ log' = <<s>>
  BY <1>1 DEF Crash
<1>4. /\ nblocks' \in FirstEntry .. MaxBlocks /\ nblocks' \in Nat /\ s.size \in Nat
      /\ s.size <= nblocks'
  BY <1>2, <1>3, IndexAssumption
<1>5. /\ s.next \in [Block -> Blkno \cup {Zeroed}] /\ s.items \in [Block -> SUBSET Rows]
      /\ s.insert_page \in [Lists -> Block] /\ s.tid \in [Rows -> Tids \cup {NoTid}]
      /\ s.heap \in [Rows -> {"new", "live", "dead", "removed"}]
      /\ start_page \in [Lists -> Block]
  BY <1>2 DEF ReplayedType, RecoveryInv, EntryPagesInv, TypeOK
<1>6. TypeOK'
  <2>1. s.heap \in [Rows -> Stages] /\ 1 \in Lists /\ InvalidBlockNumber \in Blkno
    BY <1>5, IndexAssumption DEF Stages, Lists, Blkno
  <2> QED BY <2>1, <1>3, <1>4, <1>5 DEF TypeOK, Crash
<1>7. \A l \in Lists : Chain(l)' = Reachable(s.next, start_page[l]) /\ Chain(l)' \subseteq Block
  BY <1>3 DEF Chain, Reachable
<1>8. ChainsWellFormed'
  <2>1. \A l \in Lists : \A b \in Chain(l)' : b < nblocks' /\ b < s.size
    BY <1>2, <1>4, <1>7, IndexAssumption DEF ReplayedChains, Block
  <2> QED BY <2>1, <1>2, <1>3, <1>7 DEF ChainsWellFormed, ReplayedChains
<1>9. InsertPageInChain'
  BY <1>2, <1>3, <1>7 DEF InsertPageInChain, ReplayedChains
<1>10. BackendInv'
  BY <1>3, <1>5 DEF BackendInv, Walking, Extending
<1>11. EntryInv' /\ UnlinkedEmpty'
  <2>1. RowIndexedOnce'
    <3> SUFFICES ASSUME NEW r \in Rows
                 PROVE  /\ s.heap[r] \in {"update", "done", "live"} /\ ListOf[r] # NotIndexed =>
                              \E b \in Chain(ListOf[r])' : r \in s.items[b]
                        /\ \A b, c \in Block : r \in s.items[b] /\ r \in s.items[c] => b = c
      BY <1>3 DEF RowIndexedOnce
    <3>1. ListOf[r] # NotIndexed => ListOf[r] \in Lists
      BY RowAssumption
    <3>2. s.heap[r] \in {"new", "live", "dead", "removed"}
      BY <1>5
    <3> QED BY <3>1, <3>2, <1>2, <1>5, <1>7 DEF ReplayedEntries, RecoveredIn
  <2>2. \A b \in Block :
          /\ Cardinality(items'[b]) <= Capacity
          /\ \A r \in items'[b] :
                /\ ListOf[r] \in Lists /\ b \in Chain(ListOf[r])'
                /\ stage'[r] \in {"update", "done", "live", "dead"}
          /\ (\E l \in Lists : b \in Chain(l)') \/ (next'[b] = Zeroed /\ items'[b] = {})
    BY <1>2, <1>3, <1>7 DEF ReplayedEntries
  <2> QED BY <2>1, <2>2 DEF EntryInv, UnlinkedEmpty
<1>12. VacuumInv'
  <2>1. vpc' = "idle" /\ vdead' = {}
    BY DEF Crash
  <2>2. \A q, r \in Rows : Stored(q)' /\ Stored(r)' /\ tid'[q] = tid'[r] => q = r
    <3>1. \A r \in Rows : Stored(r)' => s.heap[r] \in {"live", "dead"}
      BY <1>3, <1>5 DEF Stored
    <3> QED BY <3>1, <1>2, <1>3 DEF ReplayedTids
  <2> QED BY <2>1, <2>2 DEF VacuumInv, IsDead, Passed
<1>13. IsDurable(s)'
  <2>1. \A r \in Rows : Recovered(s.heap[r]) = s.heap[r]
    BY <1>5 DEF Recovered
  <2>2. [r \in Rows |-> Recovered(s.heap[r])] = s.heap
    BY <2>1, <1>5
  <2>3. s = [size |-> s.size, next |-> s.next, items |-> s.items, insert_page |-> s.insert_page,
             heap |-> s.heap, tid |-> s.tid]
    BY <1>2 DEF ReplayedType
  <2> QED BY <2>2, <2>3, <1>3 DEF IsDurable
<1>14. LogInv'
  <2>1. /\ log' \in Seq(Replayed) /\ log' # <<>> /\ Last(log') = s
        /\ \A i \in DOMAIN log' : log'[i] = s
    BY <1>2, <1>3 DEF Last
  <2>2. \A l \in Lists : \A b \in Chain(l)' : b < s.size
    BY <1>2, <1>7 DEF ReplayedChains
  <2> QED BY <2>1, <2>2, <1>3, <1>4, <1>13, LogCompleteMeansNext, ReplayedSame DEF LogInv
<1> QED BY <1>6, <1>8, <1>9, <1>10, <1>11, <1>12, <1>14 DEF RecoveryInv, EntryPagesInv

-----------------------------------------------------------------------------
(* Every step preserves the invariant.                                     *)

LEMMA PagesKept ==
    ASSUME RecoveryInv, UNCHANGED <<next, items, start_page>>
    PROVE  UnlinkedEmpty' /\ \A l \in Lists : Chain(l)' = Chain(l)
BY DEF RecoveryInv, UnlinkedEmpty, Chain

\* An entry is added to, or removed from, pages of chains only.
LEMMA LinksKept ==
    ASSUME RecoveryInv, UNCHANGED <<next, start_page>>,
           \A b \in Block : items'[b] = items[b] \/ \E l \in Lists : b \in Chain(l)
    PROVE  UnlinkedEmpty' /\ \A l \in Lists : Chain(l)' = Chain(l)
BY DEF RecoveryInv, UnlinkedEmpty, Chain

LEMMA LogStoreRowInv ==
    ASSUME RecoveryInv, NEW r \in Rows, NEW t \in Tids, LogStoreRow(r, t)
    PROVE  RecoveryInv'
<1>1. StoreRow(r, t) /\ Write({}, {}, {r}) /\ EntryPagesInv /\ TypeOK
  BY DEF LogStoreRow, RecoveryInv, EntryPagesInv
<1>2. EntryPagesInv'
  BY <1>1, StoreRowInv
<1>3. PICK B \in SUBSET Block, L \in SUBSET Lists, R \in SUBSET Rows :
          B = {} /\ L = {} /\ R = {r}
  OBVIOUS
<1>4. UNCHANGED <<nblocks, next, items, start_page, insert_page>>
  BY <1>1 DEF StoreRow, pages
<1>5. UnlinkedEmpty' /\ \A l \in Lists : Chain(l)' = Chain(l)
  BY <1>4, PagesKept
<1>6. \A q \in Rows \ R : stage'[q] = stage[q] /\ tid'[q] = tid[q]
  BY <1>1, <1>3 DEF StoreRow, TypeOK
<1>7. Write(B, L, R) /\ \A b \in B : b < nblocks
  BY <1>1, <1>3
<1> QED BY <1>2, <1>4, <1>5, <1>6, <1>7, WriteInv

\* The only page such a step can change is the one it adds to the file, which
\* looks as if nothing had happened to it.
LEMMA ReadOnlyStepInv ==
    ASSUME RecoveryInv, NEW r \in Rows, ReadOnlyStep(r)
    PROVE  RecoveryInv'
<1> USE DEF RecoveryInv
<1>0. NotLogged /\ TypeOK /\ nblocks \in Nat
  BY IndexAssumption DEF ReadOnlyStep, EntryPagesInv, TypeOK
<1>1. CASE \/ SkipRow(r) \/ FindInsertPage(r) \/ ReadBuffer(r) \/ MoveRight(r)
           \/ HoldTail(r) \/ LockExtension(r)
  <2>1. EntryPagesInv'
    BY <1>1, SkipRowInv, FindInsertPageInv, ReadBufferInv, MoveRightInv, HoldTailInv,
       LockExtensionInv
  <2>2. UNCHANGED <<pages, tid>>
    BY <1>1 DEF SkipRow, FindInsertPage, ReadBuffer, MoveRight, HoldTail, LockExtension
  <2>3. \A q \in Rows : Recovered(stage'[q]) = Recovered(stage[q])
    BY <1>0, <1>1 DEF SkipRow, FindInsertPage, ReadBuffer, MoveRight, HoldTail, LockExtension,
       TypeOK, Recovered
  <2> QED BY <1>0, <2>1, <2>2, <2>3, NotLoggedInv DEF pages
<1>2. CASE NewBuffer(r)
  <2>1. EntryPagesInv'
    BY <1>2, NewBufferInv
  <2>2. /\ newbuf[r] \in Block /\ nblocks' = nblocks + 1 /\ items' = items
        /\ \A l \in Lists : newbuf[r] \notin Chain(l)
    BY <1>2, NewBufferFacts
  <2>3. next' = next
    BY <1>0, <1>2, <2>2 DEF NewBuffer, UnlinkedEmpty, TypeOK
  <2>4. UNCHANGED <<start_page, insert_page, tid>>
    BY <1>2 DEF NewBuffer
  <2>5. \A q \in Rows : Recovered(stage'[q]) = Recovered(stage[q])
    BY <1>0, <1>2 DEF NewBuffer, TypeOK, Recovered
  <2> QED BY <1>0, <2>1, <2>2, <2>3, <2>4, <2>5, NotLoggedInv
<1>3. CASE OutOfBlocks(r) \/ InsertError(r)
  <2>1. Fail(r) /\ stage[r] \in Fallible
    BY <1>3 DEF OutOfBlocks, InsertError, Fallible
  <2>2. EntryPagesInv'
    BY <2>1, FailInv
  <2>3. UNCHANGED <<pages, tid>>
    BY <2>1 DEF Fail
  <2>4. \A q \in Rows : Recovered(stage'[q]) = Recovered(stage[q])
    BY <1>0, <2>1 DEF Fail, Leave, Fallible, TypeOK, Recovered
  <2> QED BY <1>0, <2>2, <2>3, <2>4, NotLoggedInv DEF pages
<1>4. CASE Abort(r)
  <2>1. EntryPagesInv'
    BY <1>4, TransactionInv
  <2>2. UNCHANGED <<pages, tid>>
    BY <1>4 DEF Abort
  <2>3. \A q \in Rows : Recovered(stage'[q]) = Recovered(stage[q])
    BY <1>0, <1>4 DEF Abort, TypeOK, Recovered
  <2> QED BY <1>0, <2>1, <2>2, <2>3, NotLoggedInv DEF pages
<1> QED BY <1>1, <1>2, <1>3, <1>4 DEF ReadOnlyStep

\* The record of a new entry has the image of its page.
LEMMA LogEntryInv ==
    ASSUME RecoveryInv, NEW r \in Rows, LogAddItem(r) \/ LogFillPage(r)
    PROVE  RecoveryInv'
<1> USE DEF RecoveryInv
<1>1. /\ AddItem(r) \/ FillPage(r)
      /\ Write(EntryBuffers(r), {}, {}) /\ TypeOK
  BY DEF LogAddItem, LogFillPage, EntryPagesInv
<1>2. EntryPagesInv'
  BY <1>1, AddItemInv, FillPageInv
<1>3. ListOf[r] \in Lists /\ page[r] \in Block /\ page[r] \in Chain(ListOf[r]) /\ page[r] < nblocks
  BY <1>1 DEF AddItem, FillPage, EntryPagesInv, BackendInv, ChainsWellFormed, Walking, Chain,
     Reachable
<1>4. PICK B \in SUBSET Block, L \in SUBSET Lists, R \in SUBSET Rows :
          B = {page[r]} /\ L = {} /\ R = {}
  BY <1>3
<1>5. /\ UNCHANGED <<nblocks, next, start_page, insert_page, tid>>
      /\ \A b \in Block \ B : items'[b] = items[b]
  BY <1>1, <1>3, <1>4 DEF AddItem, FillPage, PutEntry, TypeOK
<1>6. UnlinkedEmpty' /\ \A l \in Lists : Chain(l)' = Chain(l)
  BY <1>3, <1>4, <1>5, LinksKept
<1>7. \A q \in Rows : Recovered(stage'[q]) = Recovered(stage[q])
  BY <1>1 DEF AddItem, FillPage, PutEntry, Leave, TypeOK, Recovered
<1>8. Write(B, L, R) /\ \A b \in B : b < nblocks
  BY <1>1, <1>3, <1>4 DEF EntryBuffers
<1> QED BY <1>2, <1>5, <1>6, <1>7, <1>8, WriteInv

\* One record has both ends of the new link.
LEMMA LogLinkPageInv ==
    ASSUME RecoveryInv, NEW r \in Rows, LogLinkPage(r)
    PROVE  RecoveryInv'
<1> USE DEF RecoveryInv
<1>1. LinkPage(r) /\ Write(LinkBuffers(r), {}, {}) /\ TypeOK
  BY DEF LogLinkPage, EntryPagesInv
<1>2. EntryPagesInv'
  BY <1>1, LinkPageInv
<1>3. PICK p, q, k : p = page[r] /\ q = newbuf[r] /\ k = ListOf[r]
  OBVIOUS
<1>4. /\ k \in Lists /\ p \in Block /\ q \in Block /\ p \in Chain(k) /\ q < nblocks
      /\ \A c \in Block \ {p, q} : next'[c] = next[c]
      /\ \A l \in Lists \ {k} : Chain(l)' = Chain(l)
      /\ Chain(k)' = Chain(k) \cup {q}
      /\ items' = items
  BY <1>1, <1>3, LinkPageFacts
<1>5. PICK B \in SUBSET Block, L \in SUBSET Lists, R \in SUBSET Rows :
          B = {p, q} /\ L = {} /\ R = {}
  BY <1>4
<1>6. UNCHANGED <<nblocks, start_page, insert_page, tid>>
  BY <1>1 DEF LinkPage
<1>7. UnlinkedEmpty'
  <2> SUFFICES ASSUME NEW b \in Block, \A l \in Lists : b \notin Chain(l)'
               PROVE  next'[b] = Zeroed /\ items'[b] = {}
    BY DEF UnlinkedEmpty
  <2>1. b # p /\ b # q /\ \A l \in Lists : b \notin Chain(l)
    BY <1>4
  <2> QED BY <2>1, <1>4 DEF UnlinkedEmpty
<1>8. \A s \in Rows : Recovered(stage'[s]) = Recovered(stage[s])
  BY <1>1 DEF LinkPage, TypeOK, Recovered
<1>9. Write(B, L, R) /\ \A b \in B : b < nblocks
  BY <1>1, <1>3, <1>4, <1>5 DEF LinkBuffers, EntryPagesInv, ChainsWellFormed
<1>10. \A l \in Lists : Chain(l)' \subseteq Chain(l) \cup B
  BY <1>4, <1>5
<1> QED BY <1>2, <1>4, <1>5, <1>6, <1>7, <1>8, <1>9, <1>10, WriteInv

\* A list tuple that changes is in the record; if none changes there is none.
LEMMA ListTuplesInv ==
    ASSUME RecoveryInv, EntryPagesInv',
           IF UpdatedLists # {} THEN Write({}, UpdatedLists, {}) ELSE NotLogged,
           UNCHANGED <<nblocks, next, items, start_page, tid>>,
           \A r \in Rows : Recovered(stage'[r]) = Recovered(stage[r])
    PROVE  RecoveryInv'
<1>1. UnlinkedEmpty' /\ \A l \in Lists : Chain(l)' = Chain(l)
  BY PagesKept
<1>2. CASE UpdatedLists = {}
  <2>1. \A l \in Lists : insert_page'[l] = insert_page[l]
    BY <1>2 DEF UpdatedLists
  <2>2. insert_page' = insert_page
    BY <2>1 DEF RecoveryInv, EntryPagesInv, TypeOK
  <2>3. nblocks' \in Nat /\ nblocks <= nblocks'
    BY IndexAssumption DEF RecoveryInv, EntryPagesInv, TypeOK
  <2> QED BY <1>2, <2>2, <2>3, NotLoggedInv
<1>3. CASE UpdatedLists # {}
  <2>1. PICK B \in SUBSET Block, L \in SUBSET Lists, R \in SUBSET Rows :
            B = {} /\ L = UpdatedLists /\ R = {}
    BY DEF UpdatedLists
  <2>2. Write(B, L, R) /\ \A b \in B : b < nblocks
    BY <1>3, <2>1
  <2>3. \A l \in Lists \ L : insert_page'[l] = insert_page[l]
    BY <2>1 DEF UpdatedLists
  <2> QED BY <1>1, <2>2, <2>3, WriteInv
<1> QED BY <1>2, <1>3

LEMMA LogUpdateListInv ==
    ASSUME RecoveryInv, NEW r \in Rows, LogUpdateList(r)
    PROVE  RecoveryInv'
<1>1. EntryPagesInv /\ TypeOK /\ UpdateList(r)
  BY DEF RecoveryInv, EntryPagesInv, LogUpdateList
<1>2. EntryPagesInv'
  BY <1>1, UpdateListInv
<1>3. /\ UNCHANGED <<nblocks, next, items, start_page, tid>>
      /\ \A q \in Rows : Recovered(stage'[q]) = Recovered(stage[q])
  BY <1>1 DEF UpdateList, Leave, TypeOK, Recovered
<1>4. IF UpdatedLists # {} THEN Write({}, UpdatedLists, {}) ELSE NotLogged
  BY DEF LogUpdateList
<1> QED BY <1>2, <1>3, <1>4, ListTuplesInv

LEMMA LogCommitInv ==
    ASSUME RecoveryInv, NEW r \in Rows, LogCommit(r)
    PROVE  RecoveryInv'
<1>1. EntryPagesInv /\ TypeOK /\ (Commit(r) \/ Delete(r)) /\ FlushCommit(r)
  BY DEF RecoveryInv, EntryPagesInv, LogCommit
<1>2. EntryPagesInv'
  BY <1>1, TransactionInv
<1>3. UNCHANGED <<nblocks, next, items, insert_page, start_page, tid>>
  BY <1>1 DEF Commit, Delete, pages
<1>4. UnlinkedEmpty' /\ \A q \in Rows \ {r} : stage'[q] = stage[q]
  BY <1>1, <1>3, PagesKept DEF Commit, Delete, TypeOK
<1> QED BY <1>1, <1>2, <1>3, <1>4, FlushCommitInv

\* A page VACUUM deletes from is in the record; if it deletes nothing there is none.
LEMMA LogVacuumPageInv ==
    ASSUME RecoveryInv, LogVacuumPage
    PROVE  RecoveryInv'
<1>1. EntryPagesInv /\ TypeOK /\ VacuumPage
  BY DEF RecoveryInv, EntryPagesInv, LogVacuumPage
<1>2. EntryPagesInv'
  BY <1>1, VacuumPageInv
<1>3. vlist \in Lists /\ vpage \in Block /\ vpage \in Chain(vlist) /\ vpage < nblocks
  BY <1>1 DEF VacuumPage, EntryPagesInv, VacuumInv, ChainsWellFormed, TypeOK, Chain, Reachable
<1>4. /\ UNCHANGED <<nblocks, next, start_page, insert_page, tid, stage>>
      /\ items' = [items EXCEPT ![vpage] = @ \ {r \in items[vpage] : IsDead(r)}]
  BY <1>1 DEF VacuumPage, rows
<1>5. UnlinkedEmpty' /\ \A l \in Lists : Chain(l)' = Chain(l)
  <2>1. \A b \in Block : items'[b] = items[b] \/ b = vpage
    BY <1>1, <1>4 DEF TypeOK
  <2> QED BY <1>3, <1>4, <2>1, LinksKept
<1>6. CASE DeletedFrom = {}
  <2>1. {r \in items[vpage] : IsDead(r)} = {}
    BY <1>6 DEF DeletedFrom
  <2>2. items' = items
    BY <1>1, <1>4, <2>1 DEF TypeOK
  <2>3. NotLogged /\ nblocks' \in Nat /\ nblocks <= nblocks'
    BY <1>1, <1>4, <1>6, IndexAssumption DEF LogVacuumPage, TypeOK
  <2> QED BY <1>2, <1>4, <2>2, <2>3, NotLoggedInv
<1>7. CASE DeletedFrom # {}
  <2>1. PICK B \in SUBSET Block, L \in SUBSET Lists, R \in SUBSET Rows :
            B = {vpage} /\ L = {} /\ R = {}
    BY <1>3
  <2>2. Write(B, L, R) /\ \A b \in B : b < nblocks
    <3>1. DeletedFrom = {vpage}
      BY <1>7 DEF DeletedFrom
    <3> QED BY <1>3, <1>7, <2>1, <3>1 DEF LogVacuumPage, VacuumBuffers
  <2>3. \A b \in Block \ B : next'[b] = next[b] /\ items'[b] = items[b]
    BY <1>1, <1>4, <2>1 DEF TypeOK
  <2> QED BY <1>2, <1>4, <1>5, <2>2, <2>3, WriteInv
<1> QED BY <1>6, <1>7

LEMMA LogVacuumListInv ==
    ASSUME RecoveryInv, LogVacuumList
    PROVE  RecoveryInv'
<1>1. EntryPagesInv /\ VacuumList
  BY DEF RecoveryInv, LogVacuumList
<1>2. EntryPagesInv'
  BY <1>1, VacuumListInv
<1>3. UNCHANGED <<nblocks, next, items, start_page, tid, stage>>
  BY <1>1 DEF VacuumList, rows
<1>4. IF UpdatedLists # {} THEN Write({}, UpdatedLists, {}) ELSE NotLogged
  BY DEF LogVacuumList
<1> QED BY <1>2, <1>3, <1>4, ListTuplesInv

LEMMA LogRecycleTidsInv ==
    ASSUME RecoveryInv, LogRecycleTids
    PROVE  RecoveryInv'
<1>1. EntryPagesInv /\ VacuumInv /\ TypeOK /\ RecycleTids
  BY DEF RecoveryInv, EntryPagesInv, LogRecycleTids
<1>2. EntryPagesInv'
  BY <1>1, RecycleTidsInv
<1>3. UNCHANGED <<nblocks, next, items, start_page, insert_page, tid>>
  BY <1>1 DEF RecycleTids, pages
<1>4. UnlinkedEmpty' /\ \A l \in Lists : Chain(l)' = Chain(l)
  BY <1>3, PagesKept
<1>5. PICK B \in SUBSET Block, L \in SUBSET Lists, R \in SUBSET Rows :
          B = {} /\ L = {} /\ R = {r \in Rows : stage'[r] # stage[r]}
  OBVIOUS
<1>6. \A r \in Rows \ R : stage'[r] = stage[r]
  BY <1>5
<1>7. Write(B, L, R) /\ \A b \in B : b < nblocks
  BY <1>5 DEF LogRecycleTids
<1> QED BY <1>2, <1>3, <1>4, <1>6, <1>7, WriteInv

\* VACUUM starts or stops, or nothing happens.
LEMMA QuietInv ==
    ASSUME RecoveryInv, NotLogged,
           \/ \E D \in SUBSET Tids : StartVacuum(D)
           \/ CancelVacuum \/ UNCHANGED vars
    PROVE  RecoveryInv'
<1>1. EntryPagesInv'
  BY StartVacuumInv, CancelVacuumInv, StutterInv DEF RecoveryInv
<1>2. UNCHANGED <<pages, rows>>
  BY DEF StartVacuum, CancelVacuum, vars
<1>3. nblocks' \in Nat /\ nblocks <= nblocks'
  BY <1>2, IndexAssumption DEF RecoveryInv, EntryPagesInv, TypeOK, pages
<1> QED BY <1>1, <1>2, <1>3, NotLoggedInv DEF pages, rows

LEMMA NextRecovery == RecoveryInv /\ [NextWithLog]_rvars => RecoveryInv'
<1> SUFFICES ASSUME RecoveryInv, [NextWithLog]_rvars PROVE RecoveryInv'
  OBVIOUS
<1>1. ASSUME NEW r \in Rows, LogStep(r) PROVE RecoveryInv'
  BY <1>1, LogStoreRowInv, ReadOnlyStepInv, LogEntryInv, LogLinkPageInv, LogUpdateListInv,
     LogCommitInv DEF LogStep
<1>2. CASE LogVacuumPage \/ LogVacuumList \/ LogRecycleTids
  BY <1>2, LogVacuumPageInv, LogVacuumListInv, LogRecycleTidsInv
<1>3. CASE ((\E D \in SUBSET Tids : StartVacuum(D)) \/ CancelVacuum \/ AllRemoved) /\ NotLogged
  BY <1>3, QuietInv DEF AllRemoved
<1>4. CASE FlushWal \/ Crash
  BY <1>4, FlushWalInv, CrashInv
<1>5. CASE UNCHANGED rvars
  BY <1>5, QuietInv DEF rvars, NotLogged
<1> QED BY <1>1, <1>2, <1>3, <1>4, <1>5 DEF NextWithLog

\* The invariant holds in every reachable state, however often the server crashes.
THEOREM RecoveryInvariant == SpecWithLog => []RecoveryInv
<1>1. InitWithLog => RecoveryInv
  BY InitRecovery
<1>2. RecoveryInv /\ [NextWithLog]_rvars => RecoveryInv'
  BY NextRecovery
<1> QED BY <1>1, <1>2, PTL DEF SpecWithLog

-----------------------------------------------------------------------------
(* What recovery promises, for every value of the constants.               *)

\* Replay of the whole WAL restores what the shared buffers show.
THEOREM LogIsComplete == SpecWithLog => []LogComplete
<1>1. RecoveryInv => LogComplete
  BY DEF RecoveryInv, LogInv
<1> QED BY <1>1, RecoveryInvariant, PTL

\* Wherever a crash cuts the WAL, the index has no entry of a row the heap does
\* not have, and one of every committed row.
THEOREM PrefixesConsistent == SpecWithLog => []EveryPrefixConsistent
<1>1. RecoveryInv => EveryPrefixConsistent
  <2> SUFFICES ASSUME RecoveryInv, NEW i \in DOMAIN log, NEW s, s = log[i], NEW r \in Rows
               PROVE  /\ s.heap[r] \in {"new", "removed"} => \A b \in Block : r \notin s.items[b]
                      /\ s.heap[r] = "live" /\ ListOf[r] # NotIndexed => RecoveredIn(s, r)
    BY DEF EveryPrefixConsistent, ToSet
  <2>1. ReplayedEntries(s)
    BY DEF RecoveryInv, LogInv, Replayed
  <2> QED BY <2>1 DEF ReplayedEntries
<1> QED BY <1>1, RecoveryInvariant, PTL

\* What a crash inside an extension leaves behind is empty.
THEOREM LostPagesEmpty == SpecWithLog => []LostPagesAreEmpty
<1>1. RecoveryInv => LostPagesAreEmpty
  BY DEF RecoveryInv, UnlinkedEmpty, LostPagesAreEmpty
<1> QED BY <1>1, RecoveryInvariant, PTL

\* Everything backends and VACUUM rely on holds again after a crash.
THEOREM RecoveredIndexWorks == SpecWithLog => []RecoveredIsIndex
<1>1. RecoveryInv => RecoveredIsIndex
  BY DEF RecoveryInv, EntryPagesInv, EntryInv, RecoveredIsIndex, NoEntryOfFreedTid, Stored
<1> QED BY <1>1, RecoveryInvariant, PTL
=============================================================================
