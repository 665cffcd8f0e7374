------------------------- MODULE IvfflatIndexProofs -------------------------
(***************************************************************************)
(* Proofs about IvfflatIndex for every number of lists, rows, line         *)
(* pointers, blocks and entries per page; last, that it implements the     *)
(* contract IndexEntries.                                                  *)
(***************************************************************************)
EXTENDS IvfflatIndex, FiniteSetTheorems, WellFoundedInduction, TLAPS

-----------------------------------------------------------------------------
(* Reachable(nx, b) is the least set of blocks with b in it that is closed *)
(* under the links nx.                                                     *)

LEMMA ReachableStart ==
    ASSUME NEW nx, NEW b \in Block
    PROVE  b \in Reachable(nx, b)
BY DEF Reachable

LEMMA ReachableClosed ==
    ASSUME NEW nx, NEW b \in Block, NEW c \in Reachable(nx, b), nx[c] \in Block
    PROVE  nx[c] \in Reachable(nx, b)
BY DEF Reachable, Closed

LEMMA ReachableLeast ==
    ASSUME NEW nx, NEW b \in Block, NEW S \in SUBSET Block, b \in S, Closed(nx, S)
    PROVE  Reachable(nx, b) \subseteq S
BY DEF Reachable

\* Links of pages outside a chain do not matter to it.
LEMMA ReachableSame ==
    ASSUME NEW nx, NEW ny, NEW b \in Block,
           \A c \in Reachable(nx, b) : ny[c] = nx[c]
    PROVE  Reachable(ny, b) = Reachable(nx, b)
<1> DEFINE R == Reachable(nx, b)
<1>1. R \in SUBSET Block /\ b \in R
  BY ReachableStart DEF Reachable
<1>2. Closed(nx, R)
  BY ReachableClosed DEF Closed
<1>3. Closed(ny, R)
  BY <1>2 DEF Closed
<1>4. Reachable(ny, b) \subseteq R
  BY <1>1, <1>3, ReachableLeast
<1>5. ASSUME NEW S \in SUBSET Block, b \in S, Closed(ny, S)
      PROVE  R \subseteq S
  <2>1. Closed(nx, S \cap R)
    BY <1>2, <1>5 DEF Closed
  <2>2. R \subseteq S \cap R
    BY <2>1, <1>1, <1>5, ReachableLeast
  <2> QED BY <2>2
<1>6. R \subseteq Reachable(ny, b)
  BY <1>1, <1>5 DEF Reachable
<1> QED BY <1>4, <1>6

\* Linking page q to the last page p of a chain adds q to the chain.
LEMMA ReachableAppend ==
    ASSUME NEW nx, NEW ny, NEW b \in Block,
           NEW p \in Reachable(nx, b), NEW q \in Block,
           nx[p] \notin Block, ny[p] = q, ny[q] \notin Block,
           \A c \in Reachable(nx, b) \ {p} : ny[c] = nx[c]
    PROVE  Reachable(ny, b) = Reachable(nx, b) \cup {q}
<1> DEFINE R == Reachable(nx, b)
<1>1. R \in SUBSET Block /\ b \in R
  BY ReachableStart DEF Reachable
<1>2. Closed(nx, R)
  BY ReachableClosed DEF Closed
<1>3. Closed(ny, R \cup {q})
  BY <1>2 DEF Closed
<1>4. Reachable(ny, b) \subseteq R \cup {q}
  BY <1>1, <1>3, ReachableLeast
<1>5. ASSUME NEW S \in SUBSET Block, b \in S, Closed(ny, S)
      PROVE  R \cup {q} \subseteq S
  <2>1. Closed(nx, S \cap R)
    BY <1>2, <1>5 DEF Closed
  <2>2. R \subseteq S
    BY <2>1, <1>1, <1>5, ReachableLeast
  <2> QED BY <2>2, <1>5 DEF Closed
<1>6. R \cup {q} \subseteq Reachable(ny, b)
  BY <1>1, <1>5 DEF Reachable
<1> QED BY <1>4, <1>6

\* The first page of every list is a block of the index.
LEMMA StartPageInBlock ==
    ASSUME TypeOK, NEW l \in Lists
    PROVE  start_page[l] \in Block /\ start_page[l] \in Chain(l)
<1>1. start_page[l] \in Block
  BY DEF TypeOK
<1> QED BY <1>1, ReachableStart DEF Chain

\* The link of a page in a chain leads to another page of it, or nowhere.
LEMMA ChainNext ==
    ASSUME TypeOK, ChainsWellFormed, NEW l \in Lists, NEW b \in Chain(l)
    PROVE  b \in Block /\ next[b] \in Chain(l) \cup {InvalidBlockNumber}
<1>1. b \in Block
  BY DEF Chain, Reachable
<1>2. next[b] \in Block \cup {InvalidBlockNumber}
  BY <1>1, IndexAssumption DEF TypeOK, ChainsWellFormed, Blkno, Zeroed, Block
<1>3. CASE next[b] \in Block
  BY <1>3, <1>1, ReachableClosed, StartPageInBlock DEF Chain
<1> QED BY <1>1, <1>2, <1>3

\* Links lead upwards, so the first page of a chain has the lowest number.
LEMMA FirstIsLeast ==
    ASSUME TypeOK, ChainsWellFormed, NEW l \in Lists, NEW b \in Chain(l)
    PROVE  start_page[l] <= b
<1> DEFINE S == {c \in Chain(l) : start_page[l] <= c}
<1>1. start_page[l] \in Int /\ start_page[l] \in S /\ S \in SUBSET Block
  BY StartPageInBlock, IndexAssumption DEF Block, Chain, Reachable
<1>2. ASSUME NEW c \in S, next[c] \in Block PROVE next[c] \in S
  <2>1. next[c] \in Chain(l)
    BY <1>2, ReachableClosed, StartPageInBlock DEF Chain
  <2>2. next[c] > c
    BY DEF ChainsWellFormed
  <2> QED BY <1>1, <1>2, <2>1, <2>2, IndexAssumption DEF Block
<1>3. Closed(next, S)
  BY <1>2 DEF Closed
<1>4. Chain(l) \subseteq S
  <2> HIDE DEF S
  <2> QED BY <1>1, <1>3, ReachableLeast, StartPageInBlock DEF Chain
<1> QED BY <1>4

\* A line pointer VACUUM collected belongs to a dead row and to no other.
LEMMA OnlyDeadAreCollected ==
    ASSUME VacuumInv, NEW r \in Rows, Stored(r), IsDead(r)
    PROVE  stage[r] = "dead"
<1>1. PICK q \in Rows : stage[q] = "dead" /\ tid[q] = tid[r]
  BY DEF VacuumInv, IsDead
<1>2. Stored(q)
  BY <1>1 DEF Stored
<1> QED BY <1>1, <1>2 DEF VacuumInv

\* A page holds finitely many entries; one more makes a difference of one.
LEMMA PageCardinality ==
    ASSUME TypeOK, NEW b \in Block, NEW r \in Rows, r \notin items[b]
    PROVE  /\ Cardinality(items[b]) \in Nat
           /\ Cardinality(items[b] \cup {r}) = Cardinality(items[b]) + 1
<1>1. IsFiniteSet(items[b])
  BY RowAssumption, FS_Subset DEF TypeOK
<1> QED BY <1>1, FS_CardinalityType, FS_AddElement

\* Entries are not affected by a backend on its way to its own entry, nor by
\* chains that grow.
LEMMA EntriesKept ==
    ASSUME TypeOK, EntryInv, items' = items,
           \A l \in Lists : Chain(l) \subseteq Chain(l)',
           NEW r \in Rows, NEW s \in Inserting \ {"update"},
           stage[r] \in Inserting \ {"update"}, stage' = [stage EXCEPT ![r] = s]
    PROVE  EntryInv'
<1>1. \A q \in Rows \ {r} : stage'[q] = stage[q]
  BY DEF TypeOK
<1>2. stage'[r] = s /\ s \notin {"update", "done", "live"}
  BY DEF TypeOK, Inserting, Walking, Extending
<1>3. \A b \in Block : r \notin items[b] /\ items[b] \subseteq Rows
  BY DEF TypeOK, EntryInv, Inserting, Walking, Extending
<1>4. RowIndexedOnce'
  <2> SUFFICES ASSUME NEW q \in Rows
               PROVE  /\ stage'[q] \in {"update", "done", "live"} /\ ListOf[q] # NotIndexed =>
                            \E b \in Chain(ListOf[q])' : q \in items'[b]
                      /\ \A b, c \in Block : q \in items'[b] /\ q \in items'[c] => b = c
    BY DEF RowIndexedOnce
  <2>1. ListOf[q] # NotIndexed => ListOf[q] \in Lists
    BY RowAssumption
  <2> QED BY <2>1, <1>1, <1>2 DEF EntryInv, RowIndexedOnce
<1> QED BY <1>1, <1>3, <1>4 DEF EntryInv

-----------------------------------------------------------------------------
(* Sets of numbers have a least element.                                   *)

LEMMA LeastOf ==
    ASSUME NEW S \in SUBSET Nat, S # {}
    PROVE  \E m \in S : \A k \in S : m <= k
<1> DEFINE R == {ss \in Nat \X Nat : ss[1] < ss[2]}
<1>1. IsWellFoundedOn(R, Nat)
  BY NatLessThanWellFounded DEF OpToRel
<1>2. \A k, m \in Nat : k < m => <<k, m>> \in R
  OBVIOUS
<1> HIDE DEF R
<1>3. \E m \in S : \A k \in S : ~ (<<k, m>> \in R)
  BY <1>1, WFMin
<1>4. PICK m \in S : \A k \in S : ~ (<<k, m>> \in R)
  BY <1>3
<1>5. \A k \in S : ~(k < m)
  BY <1>2, <1>4
<1> QED BY <1>5

-----------------------------------------------------------------------------
(* The inductive invariant holds initially: the build has linked the pages *)
(* of each list in block order.                                            *)

\* The chain of a list is the interval of blocks the build gave it.  The least
\* block of the interval that were not in the chain would be linked from one
\* that is.
LEMMA BuiltChain ==
    ASSUME BuiltPages, NEW l \in Lists
    PROVE  Chain(l) = PagesOf(l)
<1>1. /\ start_page[l] \in Block /\ insert_page[l] \in Block /\ start_page[l] <= insert_page[l]
      /\ insert_page[l] < nblocks /\ nblocks \in Nat /\ nblocks <= MaxBlocks
  <2>1. /\ start_page[l] \in Block /\ insert_page[l] \in Block /\ start_page[l] <= insert_page[l]
        /\ nblocks \in FirstEntry .. MaxBlocks
    BY DEF BuiltPages
  <2>2. insert_page[l] \in UNION {PagesOf(m) : m \in Lists}
    BY <2>1, IndexAssumption DEF PagesOf, Block
  <2>3. insert_page[l] \in FirstEntry .. nblocks - 1
    BY <2>2 DEF BuiltPages
  <2> QED BY <2>1, <2>3, IndexAssumption DEF Block
<1>2. PagesOf(l) \in SUBSET Block /\ start_page[l] \in PagesOf(l)
  BY <1>1, IndexAssumption DEF PagesOf, Block
<1>3. \A b \in PagesOf(l) : next[b] = IF b = insert_page[l] THEN InvalidBlockNumber ELSE b + 1
  <2> SUFFICES ASSUME NEW b \in PagesOf(l)
               PROVE  next[b] = IF b = insert_page[l] THEN InvalidBlockNumber ELSE b + 1
    OBVIOUS
  <2>1. b \in Block /\ b < nblocks
    BY <1>1, <1>2, IndexAssumption DEF PagesOf, Block
  <2>2. next[b] = IF \E m \in Lists : b = insert_page[m] THEN InvalidBlockNumber ELSE b + 1
    BY <2>1, IndexAssumption DEF BuiltPages, Block
  <2>3. ASSUME NEW m \in Lists, b = insert_page[m] PROVE m = l
    <3>1. m \in Nat /\ l \in Nat /\ insert_page[m] \in Int /\ start_page[m] \in Int
      BY IndexAssumption DEF Lists, BuiltPages, Block
    <3>2. ~(m < l) /\ ~(l < m)
      BY <1>1, <3>1, <2>3, IndexAssumption DEF BuiltPages, PagesOf, Block
    <3> QED BY <3>1, <3>2
  <2> QED BY <2>2, <2>3
<1>4. Closed(next, PagesOf(l))
  BY <1>1, <1>3, IndexAssumption DEF Closed, PagesOf, Block, InvalidBlockNumber
<1>5. Chain(l) \subseteq PagesOf(l)
  BY <1>1, <1>2, <1>4, ReachableLeast DEF Chain
<1>6. ASSUME PagesOf(l) \ Chain(l) # {} PROVE FALSE
  <2> DEFINE S == PagesOf(l) \ Chain(l)
  <2>1. S \in SUBSET Nat
    BY <1>2, IndexAssumption DEF Block
  <2>2. PICK b \in S : \A c \in S : b <= c
    BY <1>6, <2>1, LeastOf
  <2>3. b # start_page[l] /\ b \in PagesOf(l) /\ b \in Nat
    BY <1>1, <2>1, ReachableStart DEF Chain
  <2>4. b - 1 \in PagesOf(l) /\ b - 1 \in Nat /\ b - 1 # insert_page[l] /\ b - 1 + 1 = b
    BY <2>3, <1>1, IndexAssumption DEF PagesOf, Block
  <2>5. b - 1 \in Chain(l)
    BY <2>2, <2>3, <2>4
  <2>6. next[b - 1] = b
    BY <2>4, <1>3
  <2> QED BY <2>2, <2>3, <2>5, <2>6, <1>1, <1>2, ReachableClosed DEF Chain
<1> QED BY <1>5, <1>6

LEMMA InitInv == Init => IndexInv
<1> SUFFICES ASSUME Init PROVE IndexInv
  OBVIOUS
<1>0. BuiltPages /\ BuiltRows /\ BuiltItems
  BY DEF Init
<1>1. \A l \in Lists : Chain(l) = PagesOf(l)
  BY <1>0, BuiltChain
<1>2. \A l \in Lists : /\ l \in Nat /\ start_page[l] \in Block /\ insert_page[l] \in Block
                       /\ start_page[l] \in Nat /\ insert_page[l] \in Nat
                       /\ start_page[l] <= insert_page[l]
  BY <1>0, IndexAssumption DEF BuiltPages, Block, Lists
<1>3. PICK at \in [Rows -> Blkno] :
          /\ \A r \in Rows : IF stage[r] \in Present /\ ListOf[r] # NotIndexed
                             THEN at[r] \in PagesOf(ListOf[r])
                             ELSE at[r] = InvalidBlockNumber
          /\ items = [b \in Block |-> {r \in Rows : at[r] = b}]
  BY <1>0 DEF BuiltItems
<1>4. TypeOK
  <2>1. 1 \in Lists
    BY IndexAssumption DEF Lists
  <2>2. next \in [Block -> Blkno \cup {Zeroed}] /\ InvalidBlockNumber \in Blkno
    <3>1. ASSUME NEW b \in Block, b < nblocks, \A l \in Lists : b # insert_page[l]
          PROVE  b + 1 \in Block
      <4>1. b \in FirstEntry .. nblocks - 1
        BY <3>1, <1>0, IndexAssumption DEF Block, BuiltPages
      <4>2. PICK l \in Lists : b \in PagesOf(l)
        BY <4>1, <1>0 DEF BuiltPages
      <4> QED BY <4>2, <3>1, <1>2, IndexAssumption DEF PagesOf, Block
    <3>2. \A b \in Block : b >= nblocks \/ b < nblocks
      BY <1>0, IndexAssumption DEF BuiltPages, Block
    <3> QED BY <3>1, <3>2, <1>0 DEF BuiltPages, Blkno
  <2>3. items \in [Block -> SUBSET Rows]
    BY <1>3
  <2>4. stage \in [Rows -> Stages] /\ tid \in [Rows -> Tids \cup {NoTid}]
    BY <1>0 DEF BuiltRows, Present, Stages
  <2>5. /\ nblocks \in FirstEntry .. MaxBlocks
        /\ start_page \in [Lists -> Block] /\ insert_page \in [Lists -> Block]
    BY <1>0 DEF BuiltPages
  <2> QED BY <2>1, <2>2, <2>3, <2>4, <2>5 DEF Init, TypeOK
<1>5. ChainsWellFormed
  <2> SUFFICES ASSUME NEW l \in Lists, NEW b \in PagesOf(l)
               PROVE  /\ b < nblocks /\ next[b] > b
                      /\ \A m \in Lists : b \in PagesOf(m) => m = l
                      /\ \A c \in PagesOf(l) : c > b => next[b] \in Block /\ next[b] <= c
    BY <1>1 DEF ChainsWellFormed
  <2>1. b \in FirstEntry .. nblocks - 1
    BY <1>0 DEF BuiltPages
  <2>2. b \in Block /\ b < nblocks /\ b \in Nat /\ nblocks \in Nat /\ nblocks <= MaxBlocks
    BY <2>1, <1>0, IndexAssumption DEF BuiltPages, Block
  <2>3. ASSUME NEW m \in Lists, b \in PagesOf(m) PROVE m = l
    <3>1. ~(m < l) /\ ~(l < m)
      BY <1>0, <1>2, <2>2, <2>3 DEF BuiltPages, PagesOf
    <3> QED BY <3>1, <1>2
  <2>4. next[b] = IF b = insert_page[l] THEN InvalidBlockNumber ELSE b + 1
    <3>1. ASSUME NEW m \in Lists, b = insert_page[m] PROVE m = l
      BY <3>1, <1>2, <2>3 DEF PagesOf
    <3>2. next[b] = IF \E m \in Lists : b = insert_page[m] THEN InvalidBlockNumber ELSE b + 1
      BY <2>2, <1>0 DEF BuiltPages
    <3> QED BY <3>1, <3>2
  <2>5. next[b] > b
    BY <2>2, <2>4, IndexAssumption DEF InvalidBlockNumber
  <2>6. ASSUME NEW c \in PagesOf(l), c > b PROVE next[b] \in Block /\ next[b] <= c
    BY <2>6, <2>2, <2>4, <1>2, IndexAssumption DEF PagesOf, Block
  <2> QED BY <2>2, <2>3, <2>5, <2>6
<1>6. InsertPageInChain
  BY <1>1, <1>2 DEF InsertPageInChain, PagesOf
<1>7. NoPageLost
  <2> SUFFICES ASSUME NEW b \in Block, b < nblocks
               PROVE  \E l \in Lists : b \in Chain(l)
    BY DEF NoPageLost
  <2>1. b \in FirstEntry .. nblocks - 1
    BY <1>0, IndexAssumption DEF BuiltPages, Block
  <2> QED BY <2>1, <1>0, <1>1 DEF BuiltPages
<1>8. BackendInv
  BY <1>0 DEF BackendInv, BuiltRows, Present, Walking, Extending
<1>9. EntryInv
  <2>1. InvalidBlockNumber \notin Block
    BY IndexAssumption DEF InvalidBlockNumber, Block
  <2>2. \A r \in Rows : ListOf[r] # NotIndexed => ListOf[r] \in Lists
    BY RowAssumption
  <2>3. \A b \in Block : \A r \in items[b] :
            /\ r \in Rows /\ at[r] = b /\ stage[r] \in Present
            /\ ListOf[r] \in Lists /\ b \in Chain(ListOf[r])
    BY <1>1, <1>3, <2>1, <2>2
  <2>4. ASSUME NEW r \in Rows, stage[r] \in Present, ListOf[r] # NotIndexed
        PROVE  \E b \in Chain(ListOf[r]) : r \in items[b]
    <3>1. at[r] \in Chain(ListOf[r])
      BY <2>4, <2>2, <1>1, <1>3
    <3>2. r \in items[at[r]]
      BY <3>1, <1>3 DEF Chain, Reachable
    <3> QED BY <3>1, <3>2
  <2>5. RowIndexedOnce
    BY <2>3, <2>4, <1>0 DEF RowIndexedOnce, BuiltRows, Present
  <2>6. \A b \in Block : Cardinality(items[b]) <= Capacity
    BY <1>0 DEF BuiltItems
  <2> QED BY <2>3, <2>5, <2>6 DEF EntryInv, Present
<1>10. VacuumInv
  BY <1>0 DEF VacuumInv, Init, Stored, BuiltRows, IsDead, Passed
<1> QED BY <1>4, <1>5, <1>6, <1>7, <1>8, <1>9, <1>10 DEF IndexInv, EntryPagesInv

-----------------------------------------------------------------------------
(* Every step preserves it.                                                *)

\* Steps that change no page: the life of a row outside the index.
LEMMA StoreRowInv ==
    ASSUME EntryPagesInv, NEW r \in Rows, NEW t \in Tids, StoreRow(r, t)
    PROVE  EntryPagesInv' /\ (NoPageLost => NoPageLost')
<1> USE DEF EntryPagesInv
<1>1. TypeOK'
  BY DEF TypeOK, StoreRow, Stages, Inserting, pages, locks, locals, vacuum
<1>2. ChainsWellFormed' /\ InsertPageInChain'
  BY DEF ChainsWellFormed, InsertPageInChain, Chain, StoreRow, pages
<1>3. NoPageLost => NoPageLost'
  BY DEF NoPageLost, Chain, StoreRow, pages, locals, TypeOK
<1>4. BackendInv'
  BY DEF BackendInv, StoreRow, Chain, TypeOK, pages, locks, locals, Walking, Extending
<1>5. EntryInv'
  BY DEF EntryInv, RowIndexedOnce, StoreRow, Chain, TypeOK, pages
<1>6. VacuumInv'
  BY RowAssumption DEF VacuumInv, StoreRow, Chain, TypeOK, pages, vacuum, Stored, IsDead, Passed, EntryInv
<1> QED BY <1>1, <1>2, <1>3, <1>4, <1>5, <1>6

LEMMA SkipRowInv ==
    ASSUME EntryPagesInv, NEW r \in Rows, SkipRow(r)
    PROVE  EntryPagesInv' /\ (NoPageLost => NoPageLost')
<1> USE DEF EntryPagesInv
<1>1. TypeOK'
  BY DEF TypeOK, SkipRow, Stages, pages, locks, locals, vacuum
<1>2. ChainsWellFormed' /\ InsertPageInChain'
  BY DEF ChainsWellFormed, InsertPageInChain, Chain, SkipRow, pages
<1>3. NoPageLost => NoPageLost'
  BY DEF NoPageLost, Chain, SkipRow, pages, locals, TypeOK
<1>4. BackendInv'
  BY DEF BackendInv, SkipRow, Chain, TypeOK, pages, locks, locals, Walking, Extending
<1>5. EntryInv'
  BY DEF EntryInv, RowIndexedOnce, SkipRow, Chain, TypeOK, pages
<1>6. VacuumInv'
  BY DEF VacuumInv, SkipRow, Chain, TypeOK, pages, vacuum, Stored, IsDead, Passed
<1> QED BY <1>1, <1>2, <1>3, <1>4, <1>5, <1>6

LEMMA FindInsertPageInv ==
    ASSUME EntryPagesInv, NEW r \in Rows, FindInsertPage(r)
    PROVE  EntryPagesInv' /\ (NoPageLost => NoPageLost')
<1> USE DEF EntryPagesInv
<1>0. ListOf[r] \in Lists /\ insert_page[ListOf[r]] \in Block \cap Chain(ListOf[r])
  BY RowAssumption DEF FindInsertPage, InsertPageInChain, Chain, Reachable
<1>1. TypeOK'
  BY <1>0 DEF TypeOK, FindInsertPage, Stages, Inserting, Walking, Blkno, pages, locks, vacuum
<1>2. ChainsWellFormed' /\ InsertPageInChain'
  BY DEF ChainsWellFormed, InsertPageInChain, Chain, FindInsertPage, pages
<1>3. NoPageLost => NoPageLost'
  BY DEF NoPageLost, Chain, FindInsertPage, pages, TypeOK
<1>4. BackendInv'
  BY <1>0 DEF BackendInv, FindInsertPage, Chain, TypeOK, pages, locks, Walking, Extending
<1>5. EntryInv'
  BY DEF EntryInv, RowIndexedOnce, FindInsertPage, Chain, TypeOK, pages
<1>6. VacuumInv'
  BY DEF VacuumInv, FindInsertPage, Chain, TypeOK, pages, vacuum, Stored, IsDead, Passed
<1> QED BY <1>1, <1>2, <1>3, <1>4, <1>5, <1>6

LEMMA ReadBufferInv ==
    ASSUME EntryPagesInv, NEW r \in Rows, ReadBuffer(r)
    PROVE  EntryPagesInv' /\ (NoPageLost => NoPageLost')
<1> USE DEF EntryPagesInv
<1>1. TypeOK'
  BY DEF TypeOK, ReadBuffer, Stages, Inserting, Walking, pages, locks, locals, vacuum
<1>2. ChainsWellFormed' /\ InsertPageInChain'
  BY DEF ChainsWellFormed, InsertPageInChain, Chain, ReadBuffer, pages
<1>3. NoPageLost => NoPageLost'
  BY DEF NoPageLost, Chain, ReadBuffer, pages, locals, TypeOK
<1>4. BackendInv'
  BY DEF BackendInv, ReadBuffer, Chain, TypeOK, pages, locks, locals, Walking, Extending
<1>5. EntryInv'
  BY DEF EntryInv, RowIndexedOnce, ReadBuffer, Chain, TypeOK, pages
<1>6. VacuumInv'
  BY DEF VacuumInv, ReadBuffer, Chain, TypeOK, pages, vacuum, Stored, IsDead, Passed
<1> QED BY <1>1, <1>2, <1>3, <1>4, <1>5, <1>6

LEMMA MoveRightInv ==
    ASSUME EntryPagesInv, NEW r \in Rows, MoveRight(r)
    PROVE  EntryPagesInv' /\ (NoPageLost => NoPageLost')
<1> USE DEF EntryPagesInv
<1>0. next[page[r]] \in Block \cap Chain(ListOf[r])
  BY ChainNext DEF BackendInv, MoveRight, Walking, Chain, Reachable
<1>1. TypeOK'
  BY <1>0 DEF TypeOK, MoveRight, Stages, Inserting, Walking, Blkno, pages, locks, vacuum
<1>2. ChainsWellFormed' /\ InsertPageInChain'
  BY DEF ChainsWellFormed, InsertPageInChain, Chain, MoveRight, pages
<1>3. NoPageLost => NoPageLost'
  BY DEF NoPageLost, Chain, MoveRight, pages, TypeOK
<1>4. BackendInv'
  BY <1>0 DEF BackendInv, MoveRight, Chain, TypeOK, pages, locks, Walking, Extending
<1>5. EntryInv'
  BY DEF EntryInv, RowIndexedOnce, MoveRight, Chain, TypeOK, pages
<1>6. VacuumInv'
  BY DEF VacuumInv, MoveRight, Chain, TypeOK, pages, vacuum, Stored, IsDead, Passed
<1> QED BY <1>1, <1>2, <1>3, <1>4, <1>5, <1>6

\* Adding an entry to a page whose lock is free or is the backend's own.
LEMMA AddItemInv ==
    ASSUME EntryPagesInv, NEW r \in Rows, AddItem(r)
    PROVE  EntryPagesInv' /\ (NoPageLost => NoPageLost')
<1> USE DEF EntryPagesInv
<1>0. /\ ListOf[r] \in Lists /\ page[r] \in Block /\ page[r] \in Chain(ListOf[r])
      /\ xlock[page[r]] = NoRow /\ stage[r] = "lock"
      /\ items' = [items EXCEPT ![page[r]] = @ \cup {r}]
      /\ \A q \in Rows \ {r} : stage'[q] = stage[q] /\ page'[q] = page[q] /\ newbuf'[q] = newbuf[q]
      /\ stage'[r] \in {"update", "done"}
      /\ stage'[r] = "update" => page'[r] = page[r]
      /\ next' = next /\ nblocks' = nblocks /\ start_page' = start_page
  BY DEF BackendInv, AddItem, PutEntry, Leave, LockFree, Walking, Chain, Reachable, TypeOK, locals
<1>00. \A b \in Block : r \notin items[b]
  BY <1>0 DEF EntryInv
<1>1. TypeOK'
  BY DEF TypeOK, AddItem, PutEntry, Leave, Stages, Inserting, Blkno, locks, locals, vacuum
<1>2. ChainsWellFormed' /\ InsertPageInChain'
  BY DEF ChainsWellFormed, InsertPageInChain, Chain, AddItem
<1>3. NoPageLost => NoPageLost'
  BY <1>0 DEF NoPageLost, Chain
<1>4. BackendInv'
  BY <1>0, RowAssumption DEF BackendInv, Chain, TypeOK, Walking, Extending, AddItem, locks
<1>5. EntryInv'
  <2>1. Cardinality(items[page[r]] \cup {r}) <= Capacity
    BY <1>0, <1>00, PageCardinality, IndexAssumption DEF AddItem, HasSpace
  <2>2. RowIndexedOnce'
    BY <1>0, <1>00 DEF EntryInv, RowIndexedOnce, Chain, TypeOK
  <2> QED BY <1>0, <2>1, <2>2 DEF EntryInv, Chain, TypeOK
<1>6. VacuumInv'
  <2>1. ~IsDead(r)
    BY <1>0, OnlyDeadAreCollected DEF Stored
  <2> QED BY <1>0, <2>1 DEF VacuumInv, AddItem, Chain, TypeOK, vacuum, Stored, IsDead, Passed
<1> QED BY <1>1, <1>2, <1>3, <1>4, <1>5, <1>6

LEMMA HoldTailInv ==
    ASSUME EntryPagesInv, NEW r \in Rows, HoldTail(r)
    PROVE  EntryPagesInv' /\ (NoPageLost => NoPageLost')
<1> USE DEF EntryPagesInv
<1>0. /\ ListOf[r] \in Lists /\ page[r] \in Block /\ page[r] \in Chain(ListOf[r])
      /\ xlock[page[r]] = NoRow
      /\ Cardinality(items[page[r]]) >= Capacity
  <2>1. page[r] \in Block /\ page[r] \in Chain(ListOf[r]) /\ ListOf[r] \in Lists
    BY DEF BackendInv, HoldTail, Walking, Chain, Reachable
  <2>2. Cardinality(items[page[r]]) \in Nat
    BY <2>1, RowAssumption, FS_Subset, FS_CardinalityType DEF TypeOK
  <2> QED BY <2>1, <2>2, IndexAssumption DEF HoldTail, HasSpace, LockFree
<1>1. TypeOK'
  BY DEF TypeOK, HoldTail, Stages, Inserting, Extending, pages, locals, vacuum
<1>2. ChainsWellFormed' /\ InsertPageInChain'
  BY DEF ChainsWellFormed, InsertPageInChain, Chain, HoldTail, pages
<1>3. NoPageLost => NoPageLost'
  BY DEF NoPageLost, Chain, HoldTail, pages, locals, TypeOK
<1>4. BackendInv'
  BY <1>0, RowAssumption DEF BackendInv, HoldTail, Chain, TypeOK, pages, locals, Walking, Extending
<1>5. EntryInv'
  BY DEF EntryInv, RowIndexedOnce, HoldTail, Chain, TypeOK, pages
<1>6. VacuumInv'
  BY DEF VacuumInv, HoldTail, Chain, TypeOK, pages, vacuum, Stored, IsDead, Passed
<1> QED BY <1>1, <1>2, <1>3, <1>4, <1>5, <1>6

LEMMA LockExtensionInv ==
    ASSUME EntryPagesInv, NEW r \in Rows, LockExtension(r)
    PROVE  EntryPagesInv' /\ (NoPageLost => NoPageLost')
<1> USE DEF EntryPagesInv
<1>1. TypeOK'
  BY IndexAssumption DEF TypeOK, LockExtension, Stages, Inserting, Extending, Blkno, Block,
     InvalidBlockNumber, pages, vacuum
<1>2. ChainsWellFormed' /\ InsertPageInChain'
  BY DEF ChainsWellFormed, InsertPageInChain, Chain, LockExtension, pages
<1>3. NoPageLost => NoPageLost'
  BY DEF NoPageLost, Chain, LockExtension, pages, TypeOK
<1>4. BackendInv'
  BY RowAssumption DEF BackendInv, LockExtension, Chain, TypeOK, pages, Walking, Extending
<1>5. EntryInv'
  BY DEF EntryInv, RowIndexedOnce, LockExtension, Chain, TypeOK, pages
<1>6. VacuumInv'
  BY DEF VacuumInv, LockExtension, Chain, TypeOK, pages, vacuum, Stored, IsDead, Passed
<1> QED BY <1>1, <1>2, <1>3, <1>4, <1>5, <1>6

\* The new block is behind every chain, so its link and its entries are nobody's.
LEMMA NewBufferFacts ==
    ASSUME EntryPagesInv, NEW r \in Rows, NewBuffer(r), NEW q, q = newbuf[r]
    PROVE  /\ ListOf[r] \in Lists /\ page[r] \in Block /\ page[r] \in Chain(ListOf[r])
           /\ q \in Block /\ q = nblocks /\ nblocks \in Nat /\ nblocks' = q + 1 /\ page[r] < q
           /\ stage[r] = "extend" /\ extlock = r
           /\ \A l \in Lists : /\ q \notin Chain(l) /\ Chain(l)' = Chain(l)
                               /\ \A b \in Chain(l) : b \in Block /\ next'[b] = next[b]
           /\ items' = items
<1> USE DEF EntryPagesInv
<1>1. /\ ListOf[r] \in Lists /\ page[r] \in Block /\ page[r] \in Chain(ListOf[r])
      /\ q \in Block /\ q = nblocks /\ nblocks \in Nat /\ nblocks' = q + 1 /\ page[r] < q
      /\ stage[r] = "extend" /\ extlock = r
  <2>1. stage[r] = "extend" /\ q \in Block /\ nblocks' = q + 1
    BY DEF NewBuffer
  <2>2. /\ ListOf[r] \in Lists /\ page[r] \in Chain(ListOf[r])
        /\ extlock = r /\ q = nblocks
    BY <2>1 DEF BackendInv, Extending
  <2>3. page[r] \in Block /\ page[r] < q
    BY <2>2 DEF ChainsWellFormed, Chain, Reachable
  <2> QED BY <2>1, <2>2, <2>3, IndexAssumption DEF Block
<1>2. ASSUME NEW l \in Lists
      PROVE  /\ q \notin Chain(l) /\ Chain(l)' = Chain(l)
             /\ \A b \in Chain(l) : b \in Block /\ next'[b] = next[b]
  <2>1. q \notin Chain(l) /\ Chain(l) \subseteq Block
    BY <1>1 DEF ChainsWellFormed, Chain, Reachable
  <2>2. \A b \in Chain(l) : b \in Block /\ next'[b] = next[b]
    BY <2>1 DEF NewBuffer, TypeOK
  <2>3. start_page' = start_page
    BY DEF NewBuffer
  <2> QED BY <2>1, <2>2, <2>3, ReachableSame, StartPageInBlock DEF Chain
<1>3. items' = items
  BY <1>1, <1>2 DEF EntryInv, NewBuffer, TypeOK
<1> QED BY <1>1, <1>2, <1>3

LEMMA NewBufferInv ==
    ASSUME EntryPagesInv, NEW r \in Rows, NewBuffer(r)
    PROVE  EntryPagesInv' /\ (NoPageLost => NoPageLost')
<1> DEFINE q == newbuf[r]
<1> USE DEF EntryPagesInv
<1>0. /\ ListOf[r] \in Lists /\ page[r] \in Block /\ page[r] \in Chain(ListOf[r])
      /\ q \in Block /\ q = nblocks /\ nblocks \in Nat /\ nblocks' = q + 1 /\ page[r] < q
      /\ stage[r] = "extend" /\ extlock = r
  BY NewBufferFacts
<1>00. ASSUME NEW l \in Lists
       PROVE  /\ q \notin Chain(l) /\ Chain(l)' = Chain(l)
              /\ \A b \in Chain(l) : b # q /\ b \in Block /\ next'[b] = next[b]
                                     /\ items'[b] = items[b]
  BY NewBufferFacts
<1>1. TypeOK'
  BY <1>0, IndexAssumption DEF TypeOK, NewBuffer, UnlockExtension, Stages, Inserting, Extending,
     Blkno, Block, locals, vacuum
<1>2. ChainsWellFormed' /\ InsertPageInChain'
  <2>1. ChainsWellFormed'
    BY <1>0, <1>00 DEF ChainsWellFormed, Block
  <2>2. InsertPageInChain'
    BY <1>00 DEF InsertPageInChain, NewBuffer
  <2> QED BY <2>1, <2>2
<1>3. NoPageLost => NoPageLost'
  <2> SUFFICES ASSUME NoPageLost, NEW b \in Block, b < nblocks'
               PROVE  \/ \E l \in Lists : b \in Chain(l)'
                      \/ \E p \in Rows : stage'[p] = "link" /\ newbuf'[p] = b
    BY DEF NoPageLost
  <2>1. /\ stage'[r] = "link" /\ newbuf' = newbuf
        /\ \A p \in Rows \ {r} : stage'[p] = stage[p]
    BY DEF NewBuffer, locals, TypeOK
  <2>2. CASE b = q
    BY <2>1, <2>2
  <2>3. CASE b < nblocks
    BY <2>1, <2>3, <1>0, <1>00 DEF NoPageLost
  <2> QED BY <2>2, <2>3, <1>0, IndexAssumption DEF Block
<1>4. BackendInv'
  BY <1>0, <1>00, RowAssumption DEF BackendInv, NewBuffer, UnlockExtension, TypeOK, Walking,
     Extending, locals, Block
<1>5. EntryInv'
  <2>1. items' = items
    BY NewBufferFacts
  <2>2. stage' = [stage EXCEPT ![r] = "link"]
    BY DEF NewBuffer
  <2>3. stage[r] \in Inserting \ {"update"} /\ "link" \in Inserting \ {"update"}
    BY <1>0 DEF Inserting, Extending
  <2> QED BY <2>1, <2>2, <2>3, <1>00, EntriesKept
<1>6. VacuumInv'
  BY <1>00 DEF VacuumInv, NewBuffer, TypeOK, vacuum, Stored, IsDead, Passed
<1> QED BY <1>1, <1>2, <1>3, <1>4, <1>5, <1>6

\* The page appended to the chain is the backend's own and behind all others.
LEMMA LinkPageFacts ==
    ASSUME EntryPagesInv, NEW r \in Rows, LinkPage(r),
           NEW p, p = page[r], NEW q, q = newbuf[r], NEW L, L = ListOf[r]
    PROVE  /\ stage[r] = "link" /\ L \in Lists /\ p \in Chain(L) /\ p \in Block /\ q \in Block
           /\ next[p] = InvalidBlockNumber /\ p < q /\ q < nblocks
           /\ xlock[p] = r /\ xlock[q] = r /\ next[q] = Zeroed
           /\ \A c \in Block \ {p, q} : next'[c] = next[c]
           /\ next'[p] = q /\ next'[q] = InvalidBlockNumber
           /\ \A l \in Lists : q \notin Chain(l) /\ Chain(l) \subseteq Block
           /\ \A l \in Lists \ {L} : Chain(l)' = Chain(l)
           /\ Chain(L)' = Chain(L) \cup {q}
           /\ items' = items
<1> USE DEF EntryPagesInv
<1>0. /\ stage[r] = "link" /\ L \in Lists /\ p \in Chain(L) /\ p \in Block /\ q \in Block
      /\ next[p] = InvalidBlockNumber /\ p < q /\ q < nblocks
      /\ xlock[p] = r /\ xlock[q] = r /\ next[q] = Zeroed
  BY DEF LinkPage, BackendInv, Extending, Chain, Reachable
<1>1. /\ \A c \in Block \ {p, q} : next'[c] = next[c]
      /\ next'[p] = q /\ next'[q] = InvalidBlockNumber
  BY <1>0 DEF LinkPage, TypeOK, InitialNext, Blkno
<1>01. start_page' = start_page
  BY DEF LinkPage
<1>2. ASSUME NEW l \in Lists PROVE q \notin Chain(l) /\ Chain(l) \subseteq Block
  BY <1>0, IndexAssumption DEF ChainsWellFormed, Zeroed, Block, Chain, Reachable
<1>3. \A l \in Lists \ {L} : Chain(l)' = Chain(l)
  <2> SUFFICES ASSUME NEW l \in Lists \ {L} PROVE Chain(l)' = Chain(l)
    OBVIOUS
  <2>1. p \notin Chain(l)
    BY <1>0 DEF ChainsWellFormed
  <2>2. \A c \in Chain(l) : next'[c] = next[c]
    BY <1>1, <1>2, <2>1
  <2> QED BY <1>01, <2>2, ReachableSame, StartPageInBlock DEF Chain
<1>4. Chain(L)' = Chain(L) \cup {q}
  <2>1. \A c \in Chain(L) \ {p} : next'[c] = next[c]
    BY <1>0, <1>1, <1>2
  <2>2. next[p] \notin Block /\ next'[q] \notin Block
    BY <1>0, <1>1 DEF Block, InvalidBlockNumber
  <2> QED BY <1>01, <2>1, <2>2, <1>0, <1>1, ReachableAppend, StartPageInBlock DEF Chain
<1>5. items' = items
  BY <1>0, <1>2 DEF EntryInv, LinkPage, TypeOK
<1> QED BY <1>0, <1>1, <1>2, <1>3, <1>4, <1>5

LEMMA LinkPageInv ==
    ASSUME EntryPagesInv, NEW r \in Rows, LinkPage(r)
    PROVE  EntryPagesInv' /\ (NoPageLost => NoPageLost')
<1> DEFINE p == page[r]  q == newbuf[r]  L == ListOf[r]
<1> USE DEF EntryPagesInv
<1>0. /\ stage[r] = "link" /\ L \in Lists /\ p \in Chain(L) /\ p \in Block /\ q \in Block
      /\ next[p] = InvalidBlockNumber /\ p < q /\ q < nblocks
      /\ xlock[p] = r /\ xlock[q] = r /\ next[q] = Zeroed
  BY LinkPageFacts
<1>1. /\ \A c \in Block \ {p, q} : next'[c] = next[c]
      /\ next'[p] = q /\ next'[q] = InvalidBlockNumber
      /\ stage'[r] = "fill" /\ page'[r] = q
      /\ \A s \in Rows \ {r} : stage'[s] = stage[s] /\ page'[s] = page[s]
  <2>1. /\ \A c \in Block \ {p, q} : next'[c] = next[c]
        /\ next'[p] = q /\ next'[q] = InvalidBlockNumber
    BY LinkPageFacts
  <2> QED BY <2>1, <1>0 DEF LinkPage, TypeOK
<1>2. ASSUME NEW l \in Lists PROVE q \notin Chain(l) /\ Chain(l) \subseteq Block
  BY LinkPageFacts
<1>3. \A l \in Lists \ {L} : Chain(l)' = Chain(l)
  BY LinkPageFacts
<1>4. Chain(L)' = Chain(L) \cup {q}
  BY LinkPageFacts
<1>5. items' = items
  BY LinkPageFacts
<1>6. TypeOK'
  BY <1>0, <1>5 DEF TypeOK, LinkPage, InitialNext, Stages, Inserting, Blkno, Extending, vacuum
<1>7. ChainsWellFormed'
  <2> SUFFICES ASSUME NEW l \in Lists, NEW b \in Chain(l)'
               PROVE  /\ b < nblocks' /\ next'[b] > b
                      /\ \A m \in Lists : b \in Chain(m)' => m = l
                      /\ \A c \in Chain(l)' : c > b => next'[b] \in Block /\ next'[b] <= c
    BY DEF ChainsWellFormed
  <2>1. nblocks' = nblocks
    BY DEF LinkPage
  <2>2. \A c \in Chain(L) : c <= p
    BY <1>0, <1>2 DEF ChainsWellFormed, Block, InvalidBlockNumber
  <2>3. CASE b = q
    <3>1. l = L /\ \A m \in Lists : b \in Chain(m)' => m = l
      BY <2>3, <1>2, <1>3
    <3>2. \A c \in Chain(L)' : c <= b
      BY <2>2, <2>3, <1>0, <1>2, <1>4 DEF Block
    <3>3. next'[b] > b /\ b < nblocks'
      BY <2>1, <2>3, <1>0, <1>1, IndexAssumption DEF Block, InvalidBlockNumber
    <3> QED BY <3>1, <3>2, <3>3, <1>0, <1>2, <1>4 DEF Block
  <2>4. CASE b = p
    <3>1. l = L
      BY <2>4, <1>0, <1>3, <1>4 DEF ChainsWellFormed
    <3>2. \A m \in Lists : b \in Chain(m)' => m = l
      BY <3>1, <2>4, <1>0, <1>3 DEF ChainsWellFormed
    <3>3. \A c \in Chain(L)' : c > b => c = q
      BY <2>2, <2>4, <1>0, <1>2, <1>4 DEF Block
    <3> QED BY <3>1, <3>2, <3>3, <2>1, <2>4, <1>0, <1>1, IndexAssumption DEF Block, TypeOK
  <2>5. CASE b # p /\ b # q
    <3>1. b \in Chain(l) /\ b \in Block /\ next'[b] = next[b]
      BY <2>5, <1>1, <1>2, <1>3, <1>4
    <3>2. \A m \in Lists : b \in Chain(m)' => m = l
      BY <3>1, <2>5, <1>3, <1>4 DEF ChainsWellFormed
    <3>3. ASSUME NEW c \in Chain(l)', c > b PROVE next'[b] \in Block /\ next'[b] <= c
      <4>1. CASE c \in Chain(l)
        BY <4>1, <3>1, <3>3 DEF ChainsWellFormed
      <4>2. CASE c \notin Chain(l)
        <5>1. l = L /\ c = q
          BY <4>2, <1>3, <1>4
        <5>2. p > b
          BY <5>1, <3>1, <2>2, <2>5, <1>0 DEF Block
        <5>3. next[b] \in Block /\ next[b] <= p
          BY <5>1, <5>2, <3>1, <1>0 DEF ChainsWellFormed
        <5> QED BY <5>1, <5>3, <3>1, <1>0 DEF Block
      <4> QED BY <4>1, <4>2
    <3> QED BY <3>1, <3>2, <3>3, <2>1 DEF ChainsWellFormed
  <2> QED BY <2>3, <2>4, <2>5
<1>8. InsertPageInChain'
  BY <1>3, <1>4 DEF InsertPageInChain, LinkPage
<1>9. NoPageLost => NoPageLost'
  BY <1>0, <1>1, <1>3, <1>4 DEF NoPageLost, LinkPage
<1>10. BackendInv'
  <2>1. items[q] = {}
    BY <1>0, <1>2 DEF EntryInv
  <2>2. xlock'[q] = r /\ \A b \in Block \ {p} : xlock'[b] = xlock[b]
    BY <1>0 DEF LinkPage, TypeOK, Block
  <2>3. ASSUME NEW s \in Rows \ {r}, stage[s] \in Extending \cup {"fill"}
        PROVE  /\ page[s] \in Block /\ xlock[page[s]] = s /\ page[s] # p /\ page[s] # q
               /\ stage[s] = "link" => newbuf[s] # p /\ newbuf[s] # q
    BY <2>3, <1>0 DEF BackendInv, Extending, Chain, Reachable
  <2>4. newbuf' = newbuf /\ nblocks' = nblocks /\ extlock' = extlock
    BY DEF LinkPage
  <2>5. ASSUME NEW s \in Rows \ {r}
        PROVE  /\ stage[s] \in Walking \cup Extending \cup {"fill", "update"} =>
                     ListOf[s] \in Lists /\ page'[s] \in Chain(ListOf[s])'
               /\ stage[s] \in Extending =>
                     /\ xlock'[page'[s]] = s /\ next'[page'[s]] = InvalidBlockNumber
                     /\ Cardinality(items'[page'[s]]) >= Capacity
               /\ stage[s] = "extend" => extlock' = s /\ newbuf'[s] = nblocks'
               /\ stage[s] = "link" =>
                     /\ newbuf'[s] \in Block /\ page'[s] < newbuf'[s] /\ newbuf'[s] < nblocks'
                     /\ xlock'[newbuf'[s]] = s /\ next'[newbuf'[s]] = Zeroed
               /\ stage[s] = "fill" => xlock'[page'[s]] = s /\ items'[page'[s]] = {}
    <3>1. CASE stage[s] \in Extending \cup {"fill"}
      BY <3>1, <2>2, <2>3, <2>4, <1>1, <1>3, <1>4, <1>5 DEF BackendInv, Extending
    <3>2. CASE stage[s] \notin Extending \cup {"fill"}
      BY <3>2, <1>1, <1>3, <1>4 DEF BackendInv, Extending
    <3> QED BY <3>1, <3>2
  <2>6. page'[r] \in Chain(L)' /\ xlock'[page'[r]] = r /\ items'[page'[r]] = {}
    BY <1>1, <1>4, <1>5, <2>1, <2>2
  <2> QED BY <2>5, <2>6, <1>0, <1>1 DEF BackendInv, Walking, Extending
<1>11. EntryInv'
  <2>1. stage' = [stage EXCEPT ![r] = "fill"]
    BY DEF LinkPage
  <2>2. stage[r] \in Inserting \ {"update"} /\ "fill" \in Inserting \ {"update"}
    BY <1>0 DEF Inserting, Extending
  <2> QED BY <2>1, <2>2, <1>3, <1>4, <1>5, EntriesKept
<1>12. VacuumInv'
  BY <1>0, <1>1, <1>3, <1>4, <1>5 DEF VacuumInv, LinkPage, vacuum, Stored, IsDead, Passed, TypeOK
<1> QED BY <1>6, <1>7, <1>8, <1>9, <1>10, <1>11, <1>12

LEMMA FillPageInv ==
    ASSUME EntryPagesInv, NEW r \in Rows, FillPage(r)
    PROVE  EntryPagesInv' /\ (NoPageLost => NoPageLost')
<1> USE DEF EntryPagesInv
<1>0. /\ ListOf[r] \in Lists /\ page[r] \in Block /\ page[r] \in Chain(ListOf[r])
      /\ xlock[page[r]] = r /\ stage[r] = "fill" /\ items[page[r]] = {}
      /\ items' = [items EXCEPT ![page[r]] = @ \cup {r}]
      /\ \A q \in Rows \ {r} : stage'[q] = stage[q] /\ page'[q] = page[q] /\ newbuf'[q] = newbuf[q]
      /\ stage'[r] \in {"update", "done"}
      /\ stage'[r] = "update" => page'[r] = page[r]
      /\ next' = next /\ nblocks' = nblocks /\ start_page' = start_page
  BY DEF BackendInv, FillPage, PutEntry, Leave, Chain, Reachable, TypeOK, locals
<1>00. \A b \in Block : r \notin items[b]
  BY <1>0 DEF EntryInv
<1>1. TypeOK'
  <2>1. page' \in [Rows -> Blkno] /\ orig' \in [Rows -> Blkno] /\ newbuf' \in [Rows -> Blkno]
    BY DEF TypeOK, FillPage, PutEntry, Leave, Blkno, locals
  <2>2. stage' \in [Rows -> Stages]
    BY DEF TypeOK, FillPage, PutEntry, Leave, Stages, Inserting
  <2>3. items' \in [Block -> SUBSET Rows] /\ xlock' \in [Block -> Rows \cup {NoRow}]
    BY <1>0 DEF TypeOK, FillPage
  <2> QED BY <2>1, <2>2, <2>3 DEF TypeOK, FillPage, vacuum
<1>2. ChainsWellFormed' /\ InsertPageInChain'
  BY DEF ChainsWellFormed, InsertPageInChain, Chain, FillPage
<1>3. NoPageLost => NoPageLost'
  BY <1>0 DEF NoPageLost, Chain
<1>4. BackendInv'
  <2>1. ASSUME NEW s \in Rows \ {r}, stage[s] \in Extending \cup {"fill"}
        PROVE  /\ page[s] \in Block /\ xlock[page[s]] = s /\ page[s] # page[r]
               /\ stage[s] = "link" => newbuf[s] # page[r]
    BY <2>1, <1>0 DEF BackendInv, Extending, Chain, Reachable
  <2> QED BY <1>0, <2>1 DEF BackendInv, Chain, TypeOK, Walking, Extending, FillPage
<1>5. EntryInv'
  <2>1. Cardinality(items[page[r]] \cup {r}) <= Capacity
    <3>1. Cardinality(items[page[r]]) = 0
      BY <1>0, FS_EmptySet
    <3>2. Cardinality(items[page[r]] \cup {r}) = Cardinality(items[page[r]]) + 1
      BY <1>0, <1>00, PageCardinality
    <3> QED BY <3>1, <3>2, IndexAssumption
  <2>2. RowIndexedOnce'
    BY <1>0, <1>00 DEF EntryInv, RowIndexedOnce, Chain, TypeOK
  <2> QED BY <1>0, <2>1, <2>2 DEF EntryInv, Chain, TypeOK
<1>6. VacuumInv'
  <2>1. ~IsDead(r)
    BY <1>0, OnlyDeadAreCollected DEF Stored
  <2> QED BY <1>0, <2>1 DEF VacuumInv, FillPage, Chain, TypeOK, vacuum, Stored, IsDead, Passed
<1> QED BY <1>1, <1>2, <1>3, <1>4, <1>5, <1>6

LEMMA UpdateListInv ==
    ASSUME EntryPagesInv, NEW r \in Rows, UpdateList(r)
    PROVE  EntryPagesInv' /\ (NoPageLost => NoPageLost')
<1> USE DEF EntryPagesInv
<1>0. /\ ListOf[r] \in Lists /\ page[r] \in Block /\ page[r] \in Chain(ListOf[r])
      /\ NewInsertPage(insert_page[ListOf[r]], page[r], orig[r]) \in {insert_page[ListOf[r]], page[r]}
  BY DEF BackendInv, UpdateList, NewInsertPage, Chain, Reachable
<1>1. TypeOK'
  BY <1>0 DEF TypeOK, UpdateList, Leave, Stages, Blkno, locks, vacuum
<1>2. ChainsWellFormed' /\ InsertPageInChain'
  BY <1>0 DEF ChainsWellFormed, InsertPageInChain, Chain, UpdateList, TypeOK
<1>3. NoPageLost => NoPageLost'
  BY DEF NoPageLost, Chain, UpdateList, Leave, TypeOK
<1>4. BackendInv'
  BY DEF BackendInv, UpdateList, Leave, Chain, TypeOK, locks, Walking, Extending
<1>5. EntryInv'
  BY DEF EntryInv, RowIndexedOnce, UpdateList, Leave, Chain, TypeOK
<1>6. VacuumInv'
  BY DEF VacuumInv, UpdateList, Leave, Chain, TypeOK, vacuum, Stored, IsDead, Passed
<1> QED BY <1>1, <1>2, <1>3, <1>4, <1>5, <1>6

\* An aborted insert that holds no block of its own.
LEMMA FailInv ==
    ASSUME EntryPagesInv, NEW r \in Rows, Fail(r), stage[r] \in Fallible
    PROVE  EntryPagesInv' /\ (NoPageLost => NoPageLost')
<1> USE DEF EntryPagesInv
<1>0. /\ stage[r] # "link" /\ Stored(r) /\ stage[r] # "dead"
      /\ stage' = [stage EXCEPT ![r] = "dead"]
      /\ \A q \in Rows \ {r} : page'[q] = page[q] /\ newbuf'[q] = newbuf[q]
  BY DEF Fail, Leave, Fallible, Stored, TypeOK
<1>1. TypeOK'
  BY DEF TypeOK, Fail, Leave, Stages, Blkno, pages, vacuum
<1>2. ChainsWellFormed' /\ InsertPageInChain'
  BY DEF ChainsWellFormed, InsertPageInChain, Chain, Fail, pages
<1>3. NoPageLost => NoPageLost'
  BY <1>0 DEF NoPageLost, Chain, Fail, pages, TypeOK
<1>4. BackendInv'
  <2>1. ASSUME NEW s \in Rows \ {r}
        PROVE  /\ stage'[s] = stage[s]
               /\ \A b \in Block : xlock[b] = s => xlock'[b] = s
               /\ extlock = s => extlock' = s
    BY <1>0 DEF Fail, TypeOK
  <2>2. stage'[r] = "dead"
    BY <1>0 DEF TypeOK
  <2> QED BY <1>0, <2>1, <2>2 DEF BackendInv, Fail, Chain, Reachable, pages, Walking, Extending
<1>5. EntryInv'
  BY <1>0 DEF EntryInv, RowIndexedOnce, Fail, Chain, TypeOK, pages
<1>6. VacuumInv'
  BY <1>0 DEF VacuumInv, Fail, Chain, TypeOK, pages, vacuum, Stored, IsDead, Passed
<1> QED BY <1>1, <1>2, <1>3, <1>4, <1>5, <1>6

\* Commit, abort and deletion leave the index alone.
LEMMA TransactionInv ==
    ASSUME EntryPagesInv, NEW r \in Rows, Commit(r) \/ Abort(r) \/ Delete(r)
    PROVE  EntryPagesInv' /\ (NoPageLost => NoPageLost')
<1> USE DEF EntryPagesInv
<1>0. PICK s \in {"live", "dead"} :
        /\ stage[r] \in {"done", "live"} /\ stage' = [stage EXCEPT ![r] = s]
        /\ UNCHANGED <<pages, locks, tid, locals, vacuum>>
  BY DEF Commit, Abort, Delete
<1>1. TypeOK'
  BY <1>0 DEF TypeOK, Stages, pages, locks, locals, vacuum
<1>2. ChainsWellFormed' /\ InsertPageInChain'
  BY <1>0 DEF ChainsWellFormed, InsertPageInChain, Chain, pages
<1>3. NoPageLost => NoPageLost'
  BY <1>0 DEF NoPageLost, Chain, pages, locals, TypeOK
<1>4. BackendInv'
  BY <1>0 DEF BackendInv, Chain, TypeOK, pages, locks, locals, Walking, Extending
<1>5. EntryInv'
  BY <1>0 DEF EntryInv, RowIndexedOnce, Chain, TypeOK, pages
<1>6. VacuumInv'
  BY <1>0 DEF VacuumInv, Chain, TypeOK, pages, vacuum, Stored, IsDead, Passed
<1> QED BY <1>1, <1>2, <1>3, <1>4, <1>5, <1>6

LEMMA StartVacuumInv ==
    ASSUME EntryPagesInv, NEW D \in SUBSET Tids, StartVacuum(D)
    PROVE  EntryPagesInv' /\ (NoPageLost => NoPageLost')
<1> USE DEF EntryPagesInv
<1>0. 1 \in Lists /\ start_page[1] \in Block /\ start_page[1] \in Chain(1)
  <2>1. 1 \in Lists
    BY IndexAssumption DEF Lists
  <2> QED BY <2>1, StartPageInBlock
<1>1. TypeOK'
  BY <1>0 DEF TypeOK, StartVacuum, ScanStart, Blkno, pages, locks, rows, locals
<1>2. ChainsWellFormed' /\ InsertPageInChain'
  BY DEF ChainsWellFormed, InsertPageInChain, Chain, StartVacuum, pages
<1>3. NoPageLost => NoPageLost'
  BY DEF NoPageLost, Chain, StartVacuum, pages, rows, locals
<1>4. BackendInv'
  BY DEF BackendInv, StartVacuum, Chain, pages, locks, rows, locals
<1>5. EntryInv'
  BY DEF EntryInv, RowIndexedOnce, StartVacuum, Chain, pages, rows
<1>6. VacuumInv'
  <2>1. \A t \in vdead' : \E r \in Rows : stage'[r] = "dead" /\ tid'[r] = t
    BY DEF StartVacuum, DeadRows, rows
  <2>2. vpage' = start_page[1] /\ vlist' = 1 /\ vpc' = "scan" /\ vins' = InvalidBlockNumber
    BY DEF StartVacuum, ScanStart
  <2>3. \A b \in Block : \A r \in items[b] :
          ListOf[r] \in Lists /\ b \in Chain(ListOf[r])
    BY DEF EntryInv
  <2>4. \A b \in Block : \A r \in items[b] : ~(ListOf[r] < 1)
    BY <2>3 DEF Lists
  <2>5. \A b \in Block : b \in Chain(1) => ~(b < start_page[1])
    BY FirstIsLeast, <1>0, IndexAssumption DEF Block
  <2>6. \A b \in Block : \A r \in items'[b] : ~Passed(b, ListOf[r])'
    BY <2>2, <2>3, <2>4, <2>5 DEF Passed, StartVacuum, pages
  <2> QED BY <2>1, <2>2, <2>6, <1>0 DEF VacuumInv, StartVacuum, Chain, Stored, pages, rows
<1> QED BY <1>1, <1>2, <1>3, <1>4, <1>5, <1>6

\* VACUUM goes from a page to the next higher one of the chain, so all pages
\* below the one it is on are behind it.
LEMMA VacuumPageInv ==
    ASSUME EntryPagesInv, VacuumPage
    PROVE  EntryPagesInv' /\ (NoPageLost => NoPageLost')
<1> DEFINE deletable == {r \in items[vpage] : IsDead(r)}
<1> USE DEF EntryPagesInv
<1>0. /\ vpc = "scan" /\ vlist \in Lists /\ vpage \in Chain(vlist) /\ vpage \in Block
      /\ xlock[vpage] = NoRow
      /\ items' = [items EXCEPT ![vpage] = @ \ deletable]
      /\ vpage' = next[vpage] /\ next' = next
      /\ UNCHANGED <<nblocks, start_page, insert_page, locks, rows, locals, vpc, vdead, vlist>>
  BY DEF VacuumPage, VacuumInv, CleanupLockFree, LockFree, ScanNext, Chain, Reachable, TypeOK
<1>00. next[vpage] \in Chain(vlist) \cup {InvalidBlockNumber} /\ next[vpage] \in Blkno
  BY <1>0, ChainNext DEF Blkno, Chain, Reachable
<1>1. TypeOK'
  BY <1>0, <1>00 DEF TypeOK, VacuumPage, Blkno, locks, rows, locals
<1>2. ChainsWellFormed' /\ InsertPageInChain'
  BY <1>0 DEF ChainsWellFormed, InsertPageInChain, Chain
<1>3. NoPageLost => NoPageLost'
  BY <1>0 DEF NoPageLost, Chain, rows, locals
<1>4. BackendInv'
  <2>1. \A b \in Block : items'[b] = items[b] \/ (xlock[b] = NoRow /\ items'[b] \subseteq items[b])
    BY <1>0 DEF TypeOK
  <2>2. \A r \in Rows : stage[r] \in Extending \cup {"fill"} =>
          /\ page[r] \in Block /\ xlock[page[r]] # NoRow
    BY RowAssumption DEF BackendInv, Extending, Chain, Reachable
  <2>3. \A r \in Rows : stage[r] \in Extending \cup {"fill"} => items'[page[r]] = items[page[r]]
    BY <2>1, <2>2
  <2> QED BY <1>0, <2>3 DEF BackendInv, Chain, Walking, Extending, locks, rows, locals
<1>5. EntryInv'
  <2>1. \A b \in Block : items'[b] \subseteq items[b]
    BY <1>0 DEF TypeOK
  <2>2. \A b \in Block : \A r \in items[b] : stage[r] # "dead" => r \in items'[b]
    <3> SUFFICES ASSUME NEW b \in Block, NEW r \in items[b], stage[r] # "dead"
                 PROVE  ~IsDead(r)
      BY <1>0 DEF TypeOK
    <3>1. r \in Rows /\ Stored(r)
      BY DEF EntryInv, TypeOK, Stored
    <3> QED BY <3>1, OnlyDeadAreCollected
  <2>3. RowIndexedOnce'
    <3> SUFFICES ASSUME NEW r \in Rows
                 PROVE  /\ stage[r] \in {"update", "done", "live"} /\ ListOf[r] # NotIndexed =>
                              \E b \in Chain(ListOf[r]) : r \in items'[b]
                        /\ \A b, c \in Block : r \in items'[b] /\ r \in items'[c] => b = c
      BY <1>0 DEF RowIndexedOnce, Chain, rows
    <3>1. \A b \in Chain(ListOf[r]) : b \in Block
      BY DEF Chain, Reachable
    <3> QED BY <2>1, <2>2, <3>1 DEF EntryInv, RowIndexedOnce
  <2>4. ASSUME NEW b \in Block PROVE Cardinality(items'[b]) <= Capacity
    <3>1. IsFiniteSet(items[b]) /\ Cardinality(items[b]) <= Capacity
      BY RowAssumption, FS_Subset DEF EntryInv, TypeOK
    <3>2. Cardinality(items'[b]) <= Cardinality(items[b]) /\ IsFiniteSet(items'[b])
      BY <2>1, <3>1, FS_Subset
    <3> QED BY <3>1, <3>2, FS_CardinalityType, IndexAssumption
  <2> QED BY <1>0, <2>1, <2>3, <2>4 DEF EntryInv, Chain, rows
<1>6. VacuumInv'
  <2>1. /\ vpage' \in Chain(vlist)' \cup {InvalidBlockNumber}
        /\ vins' \in Chain(vlist)' \cup {InvalidBlockNumber}
    BY <1>0, <1>00 DEF VacuumInv, VacuumPage, Chain
  <2>2. ASSUME NEW b \in Block, NEW r \in items'[b], Passed(b, ListOf[r])'
        PROVE  ~IsDead(r)
    <3>1. r \in items[b] /\ b \in Chain(ListOf[r]) /\ (b = vpage => ~IsDead(r))
      BY <1>0 DEF EntryInv, TypeOK
    <3>2. CASE ListOf[r] = vlist /\ vpage < b
      <4>1. next[vpage] \in Block /\ next[vpage] <= b
        BY <3>1, <3>2, <1>0 DEF ChainsWellFormed
      <4>2. b < next[vpage]
        BY <3>2, <2>2, <1>0 DEF Passed, Lists
      <4> QED BY <4>1, <4>2, IndexAssumption DEF Block
    <3>3. CASE ListOf[r] # vlist \/ b < vpage
      BY <3>1, <3>3, <2>2, <1>0 DEF VacuumInv, Passed
    <3> QED BY <3>1, <3>2, <3>3, <1>0, IndexAssumption DEF Block
  <2> QED BY <1>0, <2>1, <2>2 DEF VacuumInv, Stored, IsDead, rows
<1> QED BY <1>1, <1>2, <1>3, <1>4, <1>5, <1>6

\* At the end of a chain every page of it is behind VACUUM.
LEMMA VacuumListInv ==
    ASSUME EntryPagesInv, VacuumList
    PROVE  EntryPagesInv' /\ (NoPageLost => NoPageLost')
<1> USE DEF EntryPagesInv
<1>0. /\ vpc = "scan" /\ vlist \in Lists /\ vpage = InvalidBlockNumber
      /\ UNCHANGED <<nblocks, next, items, start_page, locks, rows, locals, vdead>>
      /\ vlist' \in Lists /\ vpc' \in {"scan", "reap"} /\ vins' = InvalidBlockNumber
      /\ vpc' = "scan" => vlist' = vlist + 1 /\ vpage' = start_page[vlist']
      /\ vpc' = "reap" => vlist = NumLists /\ vpage' = vpage
  BY IndexAssumption DEF VacuumList, TypeOK, ScanStart, Lists
<1>00. NewInsertPage(insert_page[vlist], vins, InvalidBlockNumber) \in Chain(vlist) \cap Block
  BY <1>0 DEF NewInsertPage, VacuumInv, InsertPageInChain, Chain, Reachable
<1>1. TypeOK'
  BY <1>0, <1>00, StartPageInBlock DEF TypeOK, VacuumList, Blkno, locks, rows, locals
<1>2. ChainsWellFormed' /\ InsertPageInChain'
  BY <1>0, <1>00 DEF ChainsWellFormed, InsertPageInChain, Chain, VacuumList, TypeOK
<1>3. NoPageLost => NoPageLost'
  BY <1>0 DEF NoPageLost, Chain, rows, locals
<1>4. BackendInv'
  BY <1>0 DEF BackendInv, Chain, locks, rows, locals
<1>5. EntryInv'
  BY <1>0 DEF EntryInv, RowIndexedOnce, Chain, rows
<1>6. VacuumInv'
  <2>1. ASSUME NEW b \in Block, NEW r \in items[b], ListOf[r] <= vlist
        PROVE  ~IsDead(r)
    <3>1. ListOf[r] \in Lists /\ b < vpage
      BY <1>0, IndexAssumption DEF EntryInv, Block, InvalidBlockNumber
    <3>2. Passed(b, ListOf[r])
      BY <2>1, <3>1, <1>0, IndexAssumption DEF Passed, Lists
    <3> QED BY <3>2 DEF VacuumInv
  <2>2. ASSUME NEW b \in Block, NEW r \in items[b], Passed(b, ListOf[r])'
        PROVE  ListOf[r] <= vlist
    <3>1. ListOf[r] \in Lists /\ b \in Chain(ListOf[r])
      BY DEF EntryInv
    <3>2. ListOf[r] = vlist' => ~(b < start_page[vlist'])
      BY <3>1, <1>0, FirstIsLeast, StartPageInBlock, IndexAssumption DEF Block
    <3> QED BY <2>2, <3>1, <3>2, <1>0, IndexAssumption DEF Passed, Lists
  <2>3. vpc' = "scan" => vpage' \in Chain(vlist')
    BY <1>0, StartPageInBlock
  <2> QED BY <1>0, <2>1, <2>2, <2>3 DEF VacuumInv, Chain, Stored, IsDead, rows
<1> QED BY <1>1, <1>2, <1>3, <1>4, <1>5, <1>6

\* The rows whose line pointers become free are dead and have no entry left.
LEMMA RecycleTidsInv ==
    ASSUME EntryPagesInv, RecycleTids
    PROVE  EntryPagesInv' /\ (NoPageLost => NoPageLost')
<1> USE DEF EntryPagesInv
<1>0. /\ vpc = "reap" /\ UNCHANGED <<pages, locks, tid, locals, vpage, vins>>
      /\ vpc' = "idle" /\ vdead' = {}
      /\ \A r \in Rows : \/ stage'[r] = stage[r]
                         \/ stage[r] = "dead" /\ IsDead(r) /\ stage'[r] = "removed"
  BY OnlyDeadAreCollected DEF RecycleTids, TypeOK
<1>1. TypeOK'
  <2>1. 1 \in Lists
    BY IndexAssumption DEF Lists
  <2>2. stage' \in [Rows -> Stages]
    BY DEF RecycleTids, TypeOK, Stages
  <2> QED BY <1>0, <2>1, <2>2 DEF TypeOK, RecycleTids, pages, locks, locals
<1>2. ChainsWellFormed' /\ InsertPageInChain'
  BY <1>0 DEF ChainsWellFormed, InsertPageInChain, Chain, pages
<1>3. NoPageLost => NoPageLost'
  BY <1>0 DEF NoPageLost, Chain, pages, locals
<1>4. BackendInv'
  BY <1>0 DEF BackendInv, Chain, pages, locks, locals, Walking, Extending
<1>5. EntryInv'
  <2>1. ASSUME NEW b \in Block, NEW r \in items[b] PROVE r \in Rows /\ ~IsDead(r)
    BY <1>0 DEF VacuumInv, Passed, TypeOK
  <2>2. RowIndexedOnce'
    BY <1>0 DEF EntryInv, RowIndexedOnce, Chain, pages
  <2> QED BY <1>0, <2>1, <2>2 DEF EntryInv, Chain, pages
<1>6. VacuumInv'
  BY <1>0 DEF VacuumInv, Chain, pages, Stored, IsDead, Passed
<1> QED BY <1>1, <1>2, <1>3, <1>4, <1>5, <1>6

LEMMA CancelVacuumInv ==
    ASSUME EntryPagesInv, CancelVacuum
    PROVE  EntryPagesInv' /\ (NoPageLost => NoPageLost')
<1> USE DEF EntryPagesInv
<1>0. /\ UNCHANGED <<pages, locks, rows, locals>>
      /\ vpc' = "idle" /\ vdead' = {} /\ vlist' = 1
      /\ vpage' = InvalidBlockNumber /\ vins' = InvalidBlockNumber
  BY DEF CancelVacuum
<1>1. TypeOK'
  BY <1>0, IndexAssumption DEF TypeOK, Lists, Blkno, pages, locks, rows, locals
<1>2. ChainsWellFormed' /\ InsertPageInChain'
  BY <1>0 DEF ChainsWellFormed, InsertPageInChain, Chain, pages
<1>3. NoPageLost => NoPageLost'
  BY <1>0 DEF NoPageLost, Chain, pages, rows, locals
<1>4. BackendInv'
  BY <1>0 DEF BackendInv, Chain, pages, locks, rows, locals
<1>5. EntryInv'
  BY <1>0 DEF EntryInv, RowIndexedOnce, Chain, pages, rows
<1>6. VacuumInv'
  BY <1>0 DEF VacuumInv, Chain, pages, Stored, IsDead, Passed, rows
<1> QED BY <1>1, <1>2, <1>3, <1>4, <1>5, <1>6

LEMMA StutterInv ==
    ASSUME EntryPagesInv, UNCHANGED vars
    PROVE  EntryPagesInv' /\ (NoPageLost => NoPageLost')
BY DEF EntryPagesInv, TypeOK, ChainsWellFormed, InsertPageInChain, NoPageLost, BackendInv, EntryInv,
   RowIndexedOnce, VacuumInv, Chain, Stored, IsDead, Passed, vars, pages, locks, rows, locals,
   vacuum

LEMMA StepInv ==
    ASSUME EntryPagesInv, [Next]_vars
    PROVE  EntryPagesInv' /\ (NoPageLost => NoPageLost')
<1> DEFINE Preserved == EntryPagesInv' /\ (NoPageLost => NoPageLost')
<1> SUFFICES Preserved
  OBVIOUS
<1>1. ASSUME NEW r \in Rows, NEW t \in Tids, StoreRow(r, t) PROVE Preserved
  BY <1>1, StoreRowInv
<1>2. ASSUME NEW r \in Rows, InsertStep(r) PROVE Preserved
  <2>1. CASE SkipRow(r) \/ FindInsertPage(r) \/ ReadBuffer(r)
    BY <2>1, SkipRowInv, FindInsertPageInv, ReadBufferInv
  <2>2. CASE AddItem(r) \/ MoveRight(r) \/ HoldTail(r)
    BY <2>2, AddItemInv, MoveRightInv, HoldTailInv
  <2>3. CASE LockExtension(r) \/ NewBuffer(r) \/ LinkPage(r)
    BY <2>3, LockExtensionInv, NewBufferInv, LinkPageInv
  <2>4. CASE FillPage(r) \/ UpdateList(r)
    BY <2>4, FillPageInv, UpdateListInv
  <2>5. CASE OutOfBlocks(r)
    BY <2>5, FailInv DEF OutOfBlocks, Fallible
  <2> QED BY <1>2, <2>1, <2>2, <2>3, <2>4, <2>5 DEF InsertStep
<1>3. ASSUME NEW r \in Rows, InsertError(r) PROVE Preserved
  BY <1>3, FailInv DEF InsertError
<1>4. ASSUME NEW r \in Rows, Commit(r) \/ Abort(r) \/ Delete(r) PROVE Preserved
  BY <1>4, TransactionInv
<1>5. ASSUME NEW D \in SUBSET Tids, StartVacuum(D) PROVE Preserved
  BY <1>5, StartVacuumInv
<1>6. CASE VacuumStep \/ CancelVacuum
  BY <1>6, VacuumPageInv, VacuumListInv, RecycleTidsInv, CancelVacuumInv DEF VacuumStep
<1>7. CASE AllRemoved \/ UNCHANGED vars
  BY <1>7, StutterInv DEF AllRemoved
<1> QED BY <1>1, <1>2, <1>3, <1>4, <1>5, <1>6, <1>7 DEF Next

LEMMA NextInv == IndexInv /\ [Next]_vars => IndexInv'
BY StepInv DEF IndexInv

\* The invariant holds in every reachable state.
THEOREM IndexInvariant == Spec => []IndexInv
<1>1. Init => IndexInv
  BY InitInv
<1>2. IndexInv /\ [Next]_vars => IndexInv'
  BY NextInv
<1> QED BY <1>1, <1>2, PTL DEF Spec

-----------------------------------------------------------------------------
(* The safety properties, for every value of the constants.                *)

\* Type correctness.
THEOREM TypeCorrect == Spec => []TypeOK
<1>1. IndexInv => TypeOK
  BY DEF IndexInv, EntryPagesInv
<1> QED BY <1>1, IndexInvariant, PTL

\* However many backends extend the lists, their chains stay disjoint, acyclic
\* and initialized, every page stays in one, and the hints stay inside.
THEOREM ChainsCorrect == Spec => [](ChainsWellFormed /\ InsertPageInChain /\ NoPageLost)
<1>1. IndexInv => ChainsWellFormed /\ InsertPageInChain /\ NoPageLost
  BY DEF IndexInv, EntryPagesInv
<1> QED BY <1>1, IndexInvariant, PTL

\* Every committed row has exactly one entry, in the chain scans read for it.
THEOREM RowsIndexed == Spec => []RowIndexedOnce
<1>1. IndexInv => RowIndexedOnce
  BY DEF IndexInv, EntryPagesInv, EntryInv
<1> QED BY <1>1, IndexInvariant, PTL

\* A line pointer that VACUUM freed, and a new row may take, is in no entry.
THEOREM NoStaleEntries == Spec => []NoEntryOfFreedTid
<1>1. IndexInv => NoEntryOfFreedTid
  BY DEF IndexInv, EntryPagesInv, EntryInv, NoEntryOfFreedTid, Stored
<1> QED BY <1>1, IndexInvariant, PTL

\* PageAddItem never meets a full page.
THEOREM PagesNeverOverfull == Spec => []PageNeverOverfull
<1>1. BackendInv /\ EntryInv => PageNeverOverfull
  <2>1. Cardinality({}) < Capacity
    BY FS_EmptySet, IndexAssumption
  <2> QED BY <2>1 DEF EntryInv, BackendInv, PageNeverOverfull
<1>2. IndexInv => BackendInv /\ EntryInv
  BY DEF IndexInv, EntryPagesInv
<1> QED BY <1>1, <1>2, IndexInvariant, PTL

\* Only the linking of a new page changes a chain.
LEMMA ChainSteps ==
    ASSUME EntryPagesInv, [Next]_vars, NEW l \in Lists
    PROVE  \/ Chain(l)' = Chain(l)
           \/ \E r \in Rows : LinkPage(r) /\ ListOf[r] = l
<1>1. ASSUME NEW r \in Rows, LinkPage(r), ListOf[r] # l PROVE Chain(l)' = Chain(l)
  BY <1>1, LinkPageFacts
<1>2. ASSUME NEW r \in Rows, NewBuffer(r) PROVE Chain(l)' = Chain(l)
  BY <1>2, NewBufferFacts
<1>3. ASSUME next' = next, start_page' = start_page PROVE Chain(l)' = Chain(l)
  BY <1>3 DEF Chain
<1>4. ASSUME NEW r \in Rows, InsertStep(r), ~LinkPage(r), ~NewBuffer(r)
      PROVE  next' = next /\ start_page' = start_page
  BY <1>4 DEF InsertStep, SkipRow, FindInsertPage, ReadBuffer, AddItem, MoveRight, HoldTail,
     LockExtension, FillPage, UpdateList, OutOfBlocks, Fail, pages
<1>5. CASE \E r \in Rows : \/ \E t \in Tids : StoreRow(r, t)
                           \/ InsertError(r) \/ Commit(r) \/ Abort(r) \/ Delete(r)
  BY <1>3, <1>5 DEF StoreRow, InsertError, Fail, Commit, Abort, Delete, pages
<1>6. CASE VacuumStep \/ CancelVacuum \/ \E D \in SUBSET Tids : StartVacuum(D)
  BY <1>3, <1>6 DEF VacuumStep, VacuumPage, VacuumList, RecycleTids, CancelVacuum, StartVacuum,
     pages
<1>7. CASE AllRemoved \/ UNCHANGED vars
  BY <1>3, <1>7 DEF AllRemoved, vars, pages
<1>8. CASE \E r \in Rows : InsertStep(r)
  BY <1>1, <1>2, <1>3, <1>4, <1>8
<1> QED BY <1>5, <1>6, <1>7, <1>8 DEF Next

\* Pages are appended at the end of a chain only, behind a full page.
THEOREM AppendsCorrect == Spec => AppendOnlyWhenFull
<1> DEFINE Append(l) == \E p \in Chain(l) :
              /\ next[p] = InvalidBlockNumber /\ Cardinality(items[p]) >= Capacity
              /\ Chain(l)' = Chain(l) \cup {next'[p]}
           A == \A l \in Lists : Chain(l)' # Chain(l) => Append(l)
<1>1. ASSUME IndexInv, [Next]_vars, NEW l \in Lists, Chain(l)' # Chain(l) PROVE Append(l)
  <2>1. PICK r \in Rows : LinkPage(r) /\ ListOf[r] = l
    BY <1>1, ChainSteps DEF IndexInv
  <2>2. Cardinality(items[page[r]]) >= Capacity
    BY <1>1, <2>1 DEF IndexInv, EntryPagesInv, BackendInv, LinkPage, Extending
  <2>3. /\ page[r] \in Chain(l) /\ next[page[r]] = InvalidBlockNumber
        /\ Chain(l)' = Chain(l) \cup {next'[page[r]]}
    BY <1>1, <2>1, LinkPageFacts DEF IndexInv
  <2> QED BY <2>2, <2>3
<1>2. IndexInv /\ [Next]_vars => [A]_vars
  BY <1>1
<1> QED BY <1>2, IndexInvariant, PTL DEF Spec, AppendOnlyWhenFull
-----------------------------------------------------------------------------
(* The entry pages implement the contract of IndexEntries: each step of a *)
(* backend or of VACUUM is one step of the contract, or leaves the set of  *)
(* reachable entries and what the heap knows as they are.                  *)

\* An entry on any page is reachable: no entry is on a page off its list.
LEMMA EntriesReachable ==
    IndexInv => ReachableEntries = {r \in Rows : \E b \in Block : r \in items[b]}
<1> SUFFICES ASSUME IndexInv
             PROVE  ReachableEntries = {r \in Rows : \E b \in Block : r \in items[b]}
  OBVIOUS
<1>1. \A l \in Lists : Chain(l) \subseteq Block
  BY DEF Chain, Reachable
<1>2. ReachableEntries \subseteq {r \in Rows : \E b \in Block : r \in items[b]}
  BY <1>1 DEF IndexInv, EntryPagesInv, TypeOK, ReachableEntries
<1>3. ASSUME NEW b \in Block, NEW r \in items[b] PROVE r \in ReachableEntries
  BY DEF IndexInv, EntryPagesInv, EntryInv, ReachableEntries
<1> QED BY <1>2, <1>3

\* ... and in the state after a step.
LEMMA EntriesReachableNext ==
    ASSUME IndexInv'
    PROVE  ReachableEntries' = {r \in Rows : \E b \in Block : r \in items'[b]}
<1>1. \A l \in Lists : Chain(l)' \subseteq Block
  BY DEF Chain, Reachable
<1>2. ReachableEntries' \subseteq {r \in Rows : \E b \in Block : r \in items'[b]}
  BY <1>1 DEF IndexInv, EntryPagesInv, TypeOK, ReachableEntries
<1>3. ASSUME NEW b \in Block, NEW r \in items'[b] PROVE r \in ReachableEntries'
  BY DEF IndexInv, EntryPagesInv, EntryInv, ReachableEntries
<1> QED BY <1>2, <1>3

LEMMA SameEntries ==
    ASSUME IndexInv, IndexInv', items' = items
    PROVE  ReachableEntries' = ReachableEntries
BY EntriesReachable, EntriesReachableNext

\* The contract sees a change of a row's stage as a change of what the heap knows.
LEMMA HeapStep ==
    ASSUME IndexInv, NEW r \in Rows, NEW s \in Stages, stage' = [stage EXCEPT ![r] = s]
    PROVE  HeapState' = [HeapState EXCEPT ![r] = Known(s)]
BY DEF HeapState, IndexInv, EntryPagesInv, TypeOK

\* A step inside an insert does not change what the heap knows.
LEMMA HeapStutter ==
    ASSUME IndexInv, NEW r \in Rows, NEW s \in Inserting, stage[r] \in Inserting,
           stage' = [stage EXCEPT ![r] = s]
    PROVE  HeapState' = HeapState
<1>1. Known(s) = Known(stage[r])
  BY DEF Known, Inserting, Walking, Extending
<1> QED BY <1>1 DEF HeapState, IndexInv, EntryPagesInv, TypeOK

LEMMA ContractInit == Init => Contract!Init
<1> SUFFICES ASSUME Init PROVE Contract!Init
  OBVIOUS
<1>1. BuiltRows /\ BuiltItems /\ IndexInv
  BY InitInv DEF Init
<1>2. \A r \in Rows : /\ stage[r] \in {"new", "dead", "done", "live"}
                      /\ HeapState[r] = IF stage[r] = "done" THEN "inserted" ELSE stage[r]
  BY <1>1 DEF HeapState, Known, BuiltRows, Present, Inserting, Walking, Extending
<1>3. HeapState \in [Rows -> {"new", "inserted", "live", "dead"}]
  BY <1>2 DEF HeapState
<1>4. \A b \in Block : \A r \in items[b] : r \in Rows /\ stage[r] \in Present /\ ListOf[r] # NotIndexed
  <2>1. PICK at \in [Rows -> Blkno] :
            /\ \A r \in Rows : IF stage[r] \in Present /\ ListOf[r] # NotIndexed
                               THEN at[r] \in PagesOf(ListOf[r])
                               ELSE at[r] = InvalidBlockNumber
            /\ items = [b \in Block |-> {r \in Rows : at[r] = b}]
    BY <1>1 DEF BuiltItems
  <2>2. InvalidBlockNumber \notin Block
    BY IndexAssumption DEF InvalidBlockNumber, Block
  <2> QED BY <2>1, <2>2
<1>5. ASSUME NEW r \in Rows, stage[r] \in Present, ListOf[r] # NotIndexed
      PROVE  \E b \in Block : r \in items[b]
  BY <1>1, <1>5 DEF IndexInv, EntryPagesInv, EntryInv, RowIndexedOnce, Present, Chain, Reachable
<1>6. ReachableEntries = {r \in Rows : stage[r] \in Present /\ ListOf[r] # NotIndexed}
  BY <1>1, <1>4, <1>5, EntriesReachable
<1>7. ReachableEntries = {r \in {q \in Rows : ListOf[q] # NotIndexed} :
                              HeapState[r] \in {"inserted", "live"}}
  BY <1>2, <1>6 DEF Present
<1> QED BY <1>3, <1>7 DEF Contract!Init

LEMMA FailContract ==
    ASSUME IndexInv, IndexInv', NEW r \in Rows, Fail(r), stage[r] \in Fallible
    PROVE  Contract!Next
<1>1. ReachableEntries' = ReachableEntries
  BY SameEntries DEF Fail, pages
<1>2. HeapState' = [HeapState EXCEPT ![r] = "dead"]
  BY HeapStep DEF Fail, Leave, Known, Stages, Inserting, Walking, Extending
<1>3. HeapState[r] = "inserting"
  BY DEF HeapState, Known, Fallible, Inserting, Walking, Extending
<1>4. Contract!Fail(r)
  BY <1>1, <1>2, <1>3 DEF Contract!Fail, Contract!Become
<1> QED BY <1>4 DEF Contract!Next

\* The insert of a row: two steps of it change what the contract sees.
LEMMA InsertContract ==
    ASSUME IndexInv, IndexInv', NEW r \in Rows, InsertStep(r)
    PROVE  Contract!Next \/ UNCHANGED <<ReachableEntries, HeapState>>
<1> USE DEF Known
<1> DEFINE Indexed == {q \in Rows : ListOf[q] # NotIndexed}
<1>1. CASE SkipRow(r)
  <2>1. ReachableEntries' = ReachableEntries
    BY <1>1, SameEntries DEF SkipRow, pages
  <2>2. HeapState' = [HeapState EXCEPT ![r] = "inserted"] /\ HeapState[r] = "inserting"
    BY <1>1, HeapStep DEF SkipRow, HeapState, Stages, Inserting, Walking, Extending
  <2>3. Contract!Return(r)
    BY <1>1, <2>1, <2>2 DEF Contract!Return, Contract!Become, SkipRow
  <2> QED BY <2>3 DEF Contract!Next
<1>2. CASE FindInsertPage(r) \/ ReadBuffer(r) \/ MoveRight(r) \/ HoldTail(r) \/ LockExtension(r)
  <2>1. ReachableEntries' = ReachableEntries
    BY <1>2, SameEntries
       DEF FindInsertPage, ReadBuffer, MoveRight, HoldTail, LockExtension, pages
  <2>2. \E s \in Inserting : stage[r] \in Inserting /\ stage' = [stage EXCEPT ![r] = s]
    BY <1>2 DEF FindInsertPage, ReadBuffer, MoveRight, HoldTail, LockExtension, Inserting,
       Walking, Extending
  <2> QED BY <2>1, <2>2, HeapStutter
<1>3. CASE NewBuffer(r) \/ LinkPage(r)
  <2>1. ReachableEntries' = ReachableEntries
    BY <1>3, SameEntries, NewBufferFacts, LinkPageFacts DEF IndexInv
  <2>2. \E s \in Inserting : stage[r] \in Inserting /\ stage' = [stage EXCEPT ![r] = s]
    BY <1>3 DEF NewBuffer, LinkPage, Inserting, Extending
  <2> QED BY <2>1, <2>2, HeapStutter
<1>4. CASE AddItem(r) \/ FillPage(r)
  <2>1. /\ stage[r] \in {"lock", "fill"} /\ ListOf[r] \in Lists /\ page[r] \in Block
        /\ items' = [items EXCEPT ![page[r]] = @ \cup {r}]
    BY <1>4 DEF AddItem, FillPage, PutEntry, IndexInv, EntryPagesInv, BackendInv, Walking, Chain, Reachable
  <2>2. r \notin ReachableEntries /\ r \in Indexed
    BY <2>1, EntriesReachable, IndexAssumption DEF IndexInv, EntryPagesInv, EntryInv, Lists, NotIndexed
  <2>3. ReachableEntries' = ReachableEntries \cup {r}
    BY <2>1, EntriesReachable, EntriesReachableNext DEF IndexInv, EntryPagesInv, TypeOK
  <2>4. HeapState[r] = "inserting"
    BY <2>1 DEF HeapState, Inserting, Walking
  <2>5. HeapState' = HeapState \/ HeapState' = [HeapState EXCEPT ![r] = "inserted"]
    <3>1. CASE stage' = [stage EXCEPT ![r] = "update"]
      BY <3>1, <2>1, HeapStutter DEF Inserting, Walking
    <3>2. CASE stage' = [stage EXCEPT ![r] = "done"]
      BY <3>2, HeapStep DEF Stages, Inserting, Walking, Extending
    <3> QED BY <1>4, <3>1, <3>2 DEF AddItem, FillPage, PutEntry, Leave
  <2>6. Contract!Add(r)
    BY <2>2, <2>3, <2>4, <2>5 DEF Contract!Add, Contract!Become
  <2> QED BY <2>6 DEF Contract!Next
<1>5. CASE UpdateList(r)
  <2>1. ReachableEntries' = ReachableEntries
    BY <1>5, SameEntries DEF UpdateList
  <2>2. r \in ReachableEntries
    <3>1. PICK b \in Chain(ListOf[r]) : r \in items[b]
      BY <1>5, IndexAssumption DEF UpdateList, IndexInv, EntryPagesInv, BackendInv, EntryInv, RowIndexedOnce,
         Lists, NotIndexed
    <3> QED BY <3>1, EntriesReachable DEF Chain, Reachable
  <2>3. HeapState' = [HeapState EXCEPT ![r] = "inserted"] /\ HeapState[r] = "inserting"
    BY <1>5, HeapStep DEF UpdateList, Leave, HeapState, Stages, Inserting, Walking, Extending
  <2>4. Contract!Return(r)
    BY <2>1, <2>2, <2>3 DEF Contract!Return, Contract!Become
  <2> QED BY <2>4 DEF Contract!Next
<1>6. CASE OutOfBlocks(r)
  BY <1>6, FailContract DEF OutOfBlocks, Fallible
<1> QED BY <1>1, <1>2, <1>3, <1>4, <1>5, <1>6 DEF InsertStep

\* The life of a row outside its insert.
LEMMA TransactionContract ==
    ASSUME IndexInv, IndexInv', NEW r \in Rows,
           (\E t \in Tids : StoreRow(r, t)) \/ InsertError(r) \/ Commit(r) \/ Abort(r) \/ Delete(r)
    PROVE  Contract!Next
<1> USE DEF Known
<1>1. CASE \E t \in Tids : StoreRow(r, t)
  <2>1. ReachableEntries' = ReachableEntries
    BY <1>1, SameEntries DEF StoreRow, pages
  <2>2. HeapState' = [HeapState EXCEPT ![r] = "inserting"] /\ HeapState[r] = "new"
    BY <1>1, HeapStep DEF StoreRow, HeapState, Stages, Inserting, Walking, Extending
  <2>3. Contract!Store(r)
    BY <2>1, <2>2 DEF Contract!Store, Contract!Become
  <2> QED BY <2>3 DEF Contract!Next
<1>2. CASE InsertError(r)
  BY <1>2, FailContract DEF InsertError
<1>3. CASE Commit(r)
  <2>1. ReachableEntries' = ReachableEntries
    BY <1>3, SameEntries DEF Commit, pages
  <2>2. HeapState' = [HeapState EXCEPT ![r] = "live"] /\ HeapState[r] = "inserted"
    BY <1>3, HeapStep DEF Commit, HeapState, Stages, Inserting, Walking, Extending
  <2>3. Contract!Commit(r)
    BY <2>1, <2>2 DEF Contract!Commit, Contract!Become
  <2> QED BY <2>3 DEF Contract!Next
<1>4. CASE Abort(r) \/ Delete(r)
  <2>1. ReachableEntries' = ReachableEntries
    BY <1>4, SameEntries DEF Abort, Delete, pages
  <2>2. HeapState' = [HeapState EXCEPT ![r] = "dead"] /\ HeapState[r] \in {"inserted", "live"}
    BY <1>4, HeapStep DEF Abort, Delete, HeapState, Stages, Inserting, Walking, Extending
  <2>3. Contract!Die(r)
    BY <2>1, <2>2 DEF Contract!Die, Contract!Become
  <2> QED BY <2>3 DEF Contract!Next
<1> QED BY <1>1, <1>2, <1>3, <1>4

\* VACUUM takes away entries of dead rows only, and frees line pointers that
\* have no entry any more.
LEMMA VacuumContract ==
    ASSUME IndexInv, IndexInv', VacuumStep \/ CancelVacuum \/ \E D \in SUBSET Tids : StartVacuum(D)
    PROVE  Contract!Next \/ UNCHANGED <<ReachableEntries, HeapState>>
<1> USE DEF Known
<1>1. CASE VacuumPage
  <2> DEFINE D == {r \in items[vpage] : IsDead(r)}
  <2>1. /\ vpage \in Block /\ items' = [items EXCEPT ![vpage] = @ \ D] /\ stage' = stage
    BY <1>1 DEF VacuumPage, IndexInv, EntryPagesInv, VacuumInv, Chain, Reachable, rows
  <2>2. D \subseteq {r \in Rows : stage[r] = "dead"}
    BY <2>1, OnlyDeadAreCollected DEF IndexInv, EntryPagesInv, TypeOK, EntryInv, Stored
  <2>3. D \subseteq {r \in Rows : HeapState[r] = "dead"}
    BY <2>2 DEF HeapState, Inserting, Walking, Extending
  <2>4. ReachableEntries' = ReachableEntries \ D
    <3>1. \A r \in D : \A b \in Block : r \in items[b] => b = vpage
      BY <2>1 DEF IndexInv, EntryPagesInv, TypeOK, EntryInv, RowIndexedOnce
    <3>2. \A r \in Rows : (\E b \in Block : r \in items'[b]) <=>
                          r \notin D /\ \E b \in Block : r \in items[b]
      BY <2>1, <3>1 DEF IndexInv, EntryPagesInv, TypeOK
    <3> QED BY <3>2, EntriesReachable, EntriesReachableNext
  <2>5. HeapState' = HeapState
    BY <2>1 DEF HeapState
  <2>6. Contract!BulkDelete(D) /\ D \in SUBSET Rows
    BY <2>3, <2>4, <2>5 DEF Contract!BulkDelete
  <2> QED BY <2>6 DEF Contract!Next
<1>2. CASE RecycleTids
  <2> DEFINE D == {r \in Rows : Stored(r) /\ IsDead(r)}
  <2>1. ReachableEntries' = ReachableEntries
    BY <1>2, SameEntries DEF RecycleTids, pages
  <2>2. D \subseteq {r \in Rows : stage[r] = "dead"}
    BY OnlyDeadAreCollected DEF IndexInv, EntryPagesInv
  <2>3. D \subseteq {r \in Rows : HeapState[r] = "dead"}
    BY <2>2 DEF HeapState, Inserting, Walking, Extending
  <2>4. D \cap ReachableEntries = {}
    <3>1. \A b \in Block : \A r \in items[b] : ~IsDead(r)
      BY <1>2 DEF RecycleTids, IndexInv, EntryPagesInv, VacuumInv, Passed
    <3> QED BY <3>1, EntriesReachable
  <2>5. HeapState' = [r \in Rows |-> IF r \in D THEN "removed" ELSE HeapState[r]]
    BY <1>2 DEF RecycleTids, HeapState, Inserting, Walking, Extending
  <2>6. Contract!Free(D) /\ D \in SUBSET Rows
    BY <2>1, <2>3, <2>4, <2>5 DEF Contract!Free
  <2> QED BY <2>6 DEF Contract!Next
<1>3. CASE VacuumList \/ CancelVacuum \/ \E D \in SUBSET Tids : StartVacuum(D)
  <2>1. items' = items /\ stage' = stage
    BY <1>3 DEF VacuumList, CancelVacuum, StartVacuum, pages, rows
  <2> QED BY <2>1, SameEntries DEF HeapState
<1> QED BY <1>1, <1>2, <1>3 DEF VacuumStep

\* The index does what the heap relies on: inserts make their entry reachable
\* exactly once before they return, entries of live rows stay, and freed line
\* pointers have no entry.
THEOREM IndexImplementsContract == Spec => ImplementsContract
<1>1. Init => Contract!Init
  BY ContractInit
<1>2. ASSUME IndexInv, IndexInv', [Next]_vars
      PROVE  [Contract!Next]_<<ReachableEntries, HeapState>>
  <2>1. ASSUME NEW r \in Rows, InsertStep(r)
        PROVE  Contract!Next \/ UNCHANGED <<ReachableEntries, HeapState>>
    BY <1>2, <2>1, InsertContract
  <2>2. ASSUME NEW r \in Rows,
               \/ \E t \in Tids : StoreRow(r, t)
               \/ InsertError(r) \/ Commit(r) \/ Abort(r) \/ Delete(r)
        PROVE  Contract!Next
    BY <1>2, <2>2, TransactionContract
  <2>3. CASE VacuumStep \/ CancelVacuum \/ \E D \in SUBSET Tids : StartVacuum(D)
    BY <1>2, <2>3, VacuumContract
  <2>4. CASE AllRemoved \/ UNCHANGED vars
    <3>1. items' = items /\ stage' = stage
      BY <2>4 DEF AllRemoved, vars, pages, rows
    <3> QED BY <1>2, <3>1, SameEntries DEF HeapState
  <2> QED BY <1>2, <2>1, <2>2, <2>3, <2>4 DEF Next
<1> QED BY <1>1, <1>2, IndexInvariant, PTL DEF Spec, ImplementsContract, Contract!Spec, Contract!evars
=============================================================================
