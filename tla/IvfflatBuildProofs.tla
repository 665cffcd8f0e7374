------------------------- MODULE IvfflatBuildProofs -------------------------
(***************************************************************************)
(* Proofs about IvfflatBuild: a finished build is a state the concurrent   *)
(* index of IvfflatIndex starts from, for every number of lists, rows,     *)
(* entries and list tuples per page.                                       *)
(***************************************************************************)
EXTENDS IvfflatBuild, NaturalsInduction, WellFoundedInduction, FiniteSetTheorems,
        SequenceTheorems, TLAPS

-----------------------------------------------------------------------------
(* Numbers of pages.                                                       *)

\* Induction from hi down to lo
LEMMA Downwards ==
    ASSUME NEW lo \in Nat, NEW hi \in Nat, lo <= hi, NEW S,
           hi \in S, \A b \in lo .. hi - 1 : b + 1 \in S => b \in S
    PROVE  \A b \in lo .. hi : b \in S
<1> SUFFICES ASSUME NEW c \in lo .. hi, c \notin S PROVE FALSE
  OBVIOUS
<1> DEFINE T == {k \in Nat : k <= hi - lo /\ hi - k \notin S}
           R == {ss \in Nat \X Nat : ss[1] < ss[2]}
<1>1. hi - c \in T
  <2>1. hi - c \in Nat /\ hi - c <= hi - lo /\ hi - (hi - c) = c
    OBVIOUS
  <2> QED BY <2>1
<1>2. IsWellFoundedOn(R, Nat)
  BY NatLessThanWellFounded DEF OpToRel
<1>3. \A k, m \in Nat : k < m => <<k, m>> \in R
  OBVIOUS
<1>4. T \subseteq Nat
  OBVIOUS
<1>5. PICK t \in T : \A k \in T : ~ (<<k, t>> \in R)
  <2> HIDE DEF R, T
  <2> QED BY <1>1, <1>2, <1>4, WFMin
<1>6. t \in Nat /\ t <= hi - lo /\ hi - t \notin S
  OBVIOUS
<1>7. \A k \in T : ~(k < t)
  <2> HIDE DEF R, T
  <2> QED BY <1>3, <1>4, <1>5
<1>8. t # 0
  BY <1>6
<1>9. t - 1 \notin T
  <2> HIDE DEF R, T
  <2> QED BY <1>6, <1>7, <1>8
<1>10. hi - (t - 1) \in S
  BY <1>6, <1>8, <1>9
<1>11. hi - t \in lo .. hi - 1 /\ (hi - t) + 1 = hi - (t - 1)
  BY <1>6, <1>8
<1> QED BY <1>6, <1>10, <1>11

LEMMA Products ==
    ASSUME NEW a \in Nat, NEW b \in Nat, NEW c \in Nat, a <= b
    PROVE  a * c \in Nat /\ a * c <= b * c
OBVIOUS

LEMMA Quotient ==
    ASSUME NEW a \in Nat, NEW b \in Nat \ {0}
    PROVE  a \div b \in Nat /\ (a \div b) * b <= a /\ a < (a \div b) * b + b
OBVIOUS

\* The list pages hold all list tuples, and one page less would not.
LEMMA Layouts ==
    /\ NumLists \in Nat \ {0} /\ ListsPerPage \in Nat \ {0} /\ Capacity \in Nat \ {0}
    /\ MaxBlocks \in Nat /\ HeadBlkno = 1
    /\ FirstEntry \in Nat /\ 2 <= FirstEntry /\ FirstEntry + NumLists <= MaxBlocks
    /\ (FirstEntry - 2) * ListsPerPage < NumLists
    /\ NumLists <= (FirstEntry - 1) * ListsPerPage
<1> DEFINE a == NumLists + ListsPerPage - 1
           q == a \div ListsPerPage
<1>1. /\ NumLists \in Nat \ {0} /\ ListsPerPage \in Nat \ {0} /\ Capacity \in Nat \ {0}
      /\ MaxBlocks \in Nat /\ HeadBlkno = 1 /\ FirstEntry + NumLists <= MaxBlocks
  BY BuildAssumption DEF NumLists, HeadBlkno
<1>2. a \in Nat
  BY <1>1
<1>3. FirstEntry = 1 + q
  BY DEF FirstEntry, HeadBlkno
<1>4. q \in Nat /\ q * ListsPerPage <= a /\ a < q * ListsPerPage + ListsPerPage
  <2> HIDE DEF a
  <2> QED BY <1>1, <1>2, Quotient
<1>5. NumLists <= q * ListsPerPage /\ (q - 1) * ListsPerPage < NumLists
  <2>1. (q - 1) * ListsPerPage = q * ListsPerPage - ListsPerPage /\ q * ListsPerPage \in Nat
    <3> HIDE DEF q
    <3> QED BY <1>1, <1>4
  <2> HIDE DEF q
  <2> QED BY <1>1, <1>4, <2>1
<1>6. q # 0
  <2> HIDE DEF q
  <2> QED BY <1>1, <1>4, <1>5
<1>7. FirstEntry \in Nat /\ 2 <= FirstEntry /\ FirstEntry - 1 = q /\ FirstEntry - 2 = q - 1
  <2> HIDE DEF q
  <2> QED BY <1>3, <1>4, <1>6
<1> QED
  <2> HIDE DEF q
  <2> QED BY <1>1, <1>5, <1>7

\* A full page that is not the end of the list tuples is not the last list page.
LEMMA AnotherListPage ==
    ASSUME NEW p \in Nat \ {0}, (p - 1) * ListsPerPage + ListsPerPage < NumLists
    PROVE  p + 1 <= FirstEntry - 1
<1> USE Layouts
<1>1. SUFFICES ASSUME FirstEntry - 1 <= p PROVE FALSE
  OBVIOUS
<1>2. (FirstEntry - 1) * ListsPerPage <= p * ListsPerPage
  BY <1>1, Products
<1>3. (p - 1) * ListsPerPage + ListsPerPage = p * ListsPerPage
  OBVIOUS
<1> QED BY <1>2, <1>3

\* The page with the last list tuple is the last list page.
LEMMA LastOfListPages ==
    ASSUME NEW p \in Nat \ {0}, p <= FirstEntry - 1, NEW n \in Nat, n <= ListsPerPage,
           (p - 1) * ListsPerPage + n = NumLists
    PROVE  p = FirstEntry - 1
<1> USE Layouts
<1>1. SUFFICES ASSUME p <= FirstEntry - 2 PROVE FALSE
  OBVIOUS
<1>2. p * ListsPerPage <= (FirstEntry - 2) * ListsPerPage
  BY <1>1, Products
<1>3. (p - 1) * ListsPerPage + ListsPerPage = p * ListsPerPage
  OBVIOUS
<1> QED BY <1>2, <1>3

-----------------------------------------------------------------------------
(* What a reader finds that follows nextblkno from the head.               *)

\* The tuples found from block n if those found from later blocks are f
FoundBy(f, n) ==
    IF n = InvalidBlockNumber THEN <<>>
    ELSE IF next[n] > n THEN lists[n] \o f[next[n]] ELSE lists[n]

\* Links are followed upwards only, so that there is such a function.
LEMMA FoundExists ==
    ASSUME next \in [AllBlocks -> Blkno]
    PROVE  \E f : f = [n \in 0 .. MaxBlocks |-> FoundBy(f, n)]
<1> USE Layouts
<1> DEFINE From(m) == \E f : f = [n \in m .. MaxBlocks |-> FoundBy(f, n)]
           S == {m \in 0 .. MaxBlocks : From(m)}
<1>1. MaxBlocks \in S
  <2> DEFINE f == [n \in MaxBlocks .. MaxBlocks |-> <<>>]
  <2>1. f = [n \in MaxBlocks .. MaxBlocks |-> FoundBy(f, n)]
    BY DEF FoundBy, InvalidBlockNumber
  <2>2. From(MaxBlocks)
    BY <2>1
  <2> QED BY <2>2
<1>2. ASSUME NEW m \in 0 .. MaxBlocks - 1, m + 1 \in S
      PROVE  m \in S
  <2>1. PICK f : f = [n \in m + 1 .. MaxBlocks |-> FoundBy(f, n)]
    BY <1>2
  <2> DEFINE g == [n \in m .. MaxBlocks |-> IF n = m THEN FoundBy(f, m) ELSE f[n]]
  <2>2. \A n \in m .. MaxBlocks : n = m \/ n \in m + 1 .. MaxBlocks
    OBVIOUS
  <2>3. ASSUME NEW n \in m .. MaxBlocks PROVE FoundBy(g, n) = FoundBy(f, n)
    <3>1. CASE n = InvalidBlockNumber
      BY <3>1 DEF FoundBy
    <3>2. CASE n # InvalidBlockNumber /\ next[n] > n
      <4>1. next[n] \in 0 .. MaxBlocks
        BY <3>2 DEF Blkno, AllBlocks, InvalidBlockNumber
      <4>2. next[n] \in m .. MaxBlocks /\ next[n] # m
        BY <3>2, <4>1
      <4>3. g[next[n]] = f[next[n]]
        BY <4>2
      <4> HIDE DEF g
      <4> QED BY <3>2, <4>3 DEF FoundBy
    <3>3. CASE n # InvalidBlockNumber /\ ~(next[n] > n)
      BY <3>3 DEF FoundBy
    <3> QED BY <3>1, <3>2, <3>3
  <2>4. \A n \in m .. MaxBlocks : g[n] = FoundBy(f, n)
    BY <2>1, <2>2
  <2>5. g = [n \in m .. MaxBlocks |-> FoundBy(g, n)]
    <3>1. \A n \in m .. MaxBlocks : g[n] = FoundBy(g, n)
      <4> HIDE DEF g
      <4> QED BY <2>3, <2>4
    <3>2. g = [n \in m .. MaxBlocks |-> g[n]]
      OBVIOUS
    <3> HIDE DEF g
    <3> QED BY <3>1, <3>2
  <2>6. From(m)
    <3> HIDE DEF g
    <3> QED BY <2>5
  <2> QED BY <2>6
<1>3. \A m \in 0 .. MaxBlocks : m \in S
  <2> HIDE DEF S
  <2> QED BY <1>1, <1>2, Downwards
<1>4. From(0)
  BY <1>3
<1> QED BY <1>4

\* From block n on
LEMMA Found ==
    ASSUME next \in [AllBlocks -> Blkno], NEW n \in 0 .. MaxBlocks
    PROVE  TuplesFrom[n] = FoundBy(TuplesFrom, n)
<1>1. TuplesFrom = CHOOSE f : f = [k \in 0 .. MaxBlocks |-> FoundBy(f, k)]
  BY DEF TuplesFrom, FoundBy
<1>2. TuplesFrom = [k \in 0 .. MaxBlocks |-> FoundBy(TuplesFrom, k)]
  BY <1>1, FoundExists
<1> QED BY <1>2

\* The blocks of the model
LEMMA Blocks ==
    /\ AllBlocks = 0 .. MaxBlocks - 1 /\ InvalidBlockNumber = MaxBlocks
    /\ Blkno = 0 .. MaxBlocks /\ Lists = 1 .. NumLists
BY Layouts DEF AllBlocks, InvalidBlockNumber, Blkno, Lists

\* Where the tuple of a list is once all have been added
LEMMA TuplePlace ==
    ASSUME ListPagesInv, Layout, NEW l \in Lists
    PROVE  /\ infos[l][1] \in 1 .. FirstEntry - 1
           /\ infos[l][2] \in 1 .. Len(lists[infos[l][1]])
           /\ l = (infos[l][1] - 1) * ListsPerPage + infos[l][2]
BY Blocks, Layouts DEF ListPagesInv, Listing, Layout, LastListPage, ListsAdded

LEMMA ListPagesFull ==
    ASSUME TypeOK, ListPagesInv, Layout
    PROVE  /\ \A b \in 1 .. FirstEntry - 1 :
                /\ b \in AllBlocks /\ lists[b] \in Seq(ListTuple)
                /\ Len(lists[b]) \in Nat /\ Len(lists[b]) <= ListsPerPage
           /\ next[FirstEntry - 1] = InvalidBlockNumber
           /\ NumLists = (FirstEntry - 2) * ListsPerPage + Len(lists[FirstEntry - 1])
           /\ \A b \in 1 .. FirstEntry - 2 : Len(lists[b]) = ListsPerPage /\ next[b] = b + 1
<1> USE Layouts
<1>1. /\ LastListPage = FirstEntry - 1 /\ ListsAdded = NumLists /\ Listing
  BY DEF Layout, LastListPage, ListsAdded, Listing
<1>2. /\ Len(lists[FirstEntry - 1]) <= ListsPerPage
      /\ next[FirstEntry - 1] = InvalidBlockNumber
      /\ NumLists = (FirstEntry - 2) * ListsPerPage + Len(lists[FirstEntry - 1])
      /\ \A b \in 1 .. FirstEntry - 2 : Len(lists[b]) = ListsPerPage /\ next[b] = b + 1
  BY <1>1 DEF ListPagesInv
<1>3. \A b \in 1 .. FirstEntry - 1 :
        b \in AllBlocks /\ lists[b] \in Seq(ListTuple) /\ Len(lists[b]) \in Nat
  BY SMTT(30), Blocks DEF TypeOK
<1>4. \A b \in 1 .. FirstEntry - 1 : b = FirstEntry - 1 \/ b \in 1 .. FirstEntry - 2
  OBVIOUS
<1>5. \A b \in 1 .. FirstEntry - 1 : Len(lists[b]) <= ListsPerPage
  BY <1>2, <1>3, <1>4
<1> QED BY <1>2, <1>3, <1>5

\* From list page b on, a reader finds the tuples of that page and of later ones.
FoundFrom(b) ==
    /\ TuplesFrom[b] \in Seq(ListTuple)
    /\ Len(TuplesFrom[b]) = NumLists - (b - 1) * ListsPerPage
    /\ \A l \in Lists : infos[l][1] >= b =>
            TuplesFrom[b][l - (b - 1) * ListsPerPage] = Tuple(l)

LEMMA TuplesFound ==
    ASSUME TypeOK, ListPagesInv, Layout
    PROVE  Len(ListTuples) = NumLists /\ \A l \in Lists : ListTuples[l] = Tuple(l)
<1> USE Layouts
<1>1. next \in [AllBlocks -> Blkno]
  BY DEF TypeOK
<1> DEFINE S == {b \in 1 .. FirstEntry - 1 : FoundFrom(b)}
<1>2. FirstEntry - 1 \in S
  <2> DEFINE b == FirstEntry - 1
  <2>1. b \in 1 .. FirstEntry - 1 /\ b \in 0 .. MaxBlocks /\ b # MaxBlocks /\ b < MaxBlocks
    BY Layouts
  <2>2. TuplesFrom[MaxBlocks] = <<>>
    BY <1>1, Found, Blocks DEF FoundBy
  <2>3. TuplesFrom[b] = lists[b] \o <<>>
    BY <1>1, <2>1, <2>2, Found, Blocks, ListPagesFull DEF FoundBy
  <2>4. lists[b] \in Seq(ListTuple)
    BY <2>1, ListPagesFull
  <2>5. TuplesFrom[b] = lists[b]
    BY <2>3, <2>4, ConcatEmptySeq
  <2>6. Len(lists[b]) = NumLists - (b - 1) * ListsPerPage
    <3>1. NumLists = (b - 1) * ListsPerPage + Len(lists[b]) /\ Len(lists[b]) \in Nat
      BY <2>1, ListPagesFull
    <3> QED BY <3>1
  <2>7. ASSUME NEW l \in Lists, infos[l][1] >= b
        PROVE  lists[b][l - (b - 1) * ListsPerPage] = Tuple(l)
    <3>1. infos[l][1] = b /\ infos[l][2] \in Nat /\ l = (b - 1) * ListsPerPage + infos[l][2]
      <4>1. infos[l][1] \in 1 .. b /\ infos[l][1] = b
        BY <2>7, TuplePlace
      <4>2. infos[l][2] \in 1 .. Len(lists[b]) /\ Len(lists[b]) \in Nat
        BY <2>1, <4>1, TuplePlace, ListPagesFull
      <4>3. l = (infos[l][1] - 1) * ListsPerPage + infos[l][2]
        BY TuplePlace
      <4>4. infos[l][2] \in Nat
        BY <4>2
      <4> QED BY <4>1, <4>3, <4>4
    <3>2. l - (b - 1) * ListsPerPage = infos[l][2]
      BY <3>1
    <3> QED BY <3>1, <3>2 DEF Tuple
  <2> QED BY <2>1, <2>4, <2>5, <2>6, <2>7 DEF FoundFrom
<1>3. ASSUME NEW b \in 1 .. FirstEntry - 2, b + 1 \in S
      PROVE  b \in S
  <2>1. /\ b \in 1 .. FirstEntry - 1 /\ b \in 0 .. MaxBlocks /\ b # MaxBlocks /\ b + 1 > b
        /\ b + 1 \in 1 .. FirstEntry - 1 /\ b \in Nat
    BY Layouts
  <2>2. /\ lists[b] \in Seq(ListTuple) /\ Len(lists[b]) = ListsPerPage /\ next[b] = b + 1
    BY <2>1, ListPagesFull
  <2>3. TuplesFrom[b] = lists[b] \o TuplesFrom[b + 1]
    BY <1>1, <2>1, <2>2, Found, Blocks DEF FoundBy
  <2>4. FoundFrom(b + 1)
    BY <1>3
  <2>5. /\ TuplesFrom[b + 1] \in Seq(ListTuple)
        /\ Len(TuplesFrom[b + 1]) = NumLists - b * ListsPerPage
    BY <2>1, <2>4 DEF FoundFrom
  <2>6. b * ListsPerPage = (b - 1) * ListsPerPage + ListsPerPage
        /\ b * ListsPerPage \in Nat /\ (b - 1) * ListsPerPage \in Nat
    BY <2>1
  <2>7. /\ TuplesFrom[b] \in Seq(ListTuple)
        /\ Len(TuplesFrom[b]) = NumLists - (b - 1) * ListsPerPage
        /\ \A k \in 1 .. NumLists - (b - 1) * ListsPerPage :
                TuplesFrom[b][k] = IF k <= ListsPerPage THEN lists[b][k]
                                   ELSE TuplesFrom[b + 1][k - ListsPerPage]
    <3>1. Len(lists[b]) + Len(TuplesFrom[b + 1]) = NumLists - (b - 1) * ListsPerPage
      BY <2>2, <2>5, <2>6
    <3>2. /\ lists[b] \o TuplesFrom[b + 1] \in Seq(ListTuple)
          /\ Len(lists[b] \o TuplesFrom[b + 1]) = Len(lists[b]) + Len(TuplesFrom[b + 1])
          /\ \A k \in 1 .. Len(lists[b]) + Len(TuplesFrom[b + 1]) :
                (lists[b] \o TuplesFrom[b + 1])[k]
                    = IF k <= Len(lists[b]) THEN lists[b][k] ELSE TuplesFrom[b + 1][k - Len(lists[b])]
      BY <2>2, <2>5, ConcatProperties
    <3> QED BY <2>2, <2>3, <3>1, <3>2
  <2>8. ASSUME NEW l \in Lists, infos[l][1] >= b
        PROVE  TuplesFrom[b][l - (b - 1) * ListsPerPage] = Tuple(l)
    <3>1. PICK p, o : p = infos[l][1] /\ o = infos[l][2]
      OBVIOUS
    <3>2. /\ p \in 1 .. FirstEntry - 1 /\ o \in 1 .. Len(lists[p]) /\ Len(lists[p]) \in Nat
          /\ Len(lists[p]) <= ListsPerPage /\ l = (p - 1) * ListsPerPage + o
      BY <3>1, TuplePlace, ListPagesFull
    <3>3. o \in Nat /\ 1 <= o /\ o <= ListsPerPage /\ l \in 1 .. NumLists
      BY <3>2, Blocks
    <3>4. CASE p = b
      <4>1. l - (b - 1) * ListsPerPage = o
        BY <2>6, <3>2, <3>3, <3>4
      <4>2. o \in 1 .. NumLists - (b - 1) * ListsPerPage
        BY <2>6, <3>3, <4>1
      <4>3. TuplesFrom[b][o] = lists[b][o]
        BY <2>7, <3>3, <4>2
      <4> QED BY <3>1, <3>4, <4>1, <4>3 DEF Tuple
    <3>5. CASE p # b
      <4>1. p >= b + 1 /\ p \in Nat
        <5>1. p \in Nat /\ b \in Nat
          BY <2>1, <3>2
        <5>2. p >= b
          BY <2>8, <3>1
        <5> QED BY <3>5, <5>1, <5>2
      <4>2. b * ListsPerPage <= (p - 1) * ListsPerPage /\ (p - 1) * ListsPerPage \in Nat
        <5>1. b <= p - 1 /\ b \in Nat /\ p - 1 \in Nat
          BY <2>1, <4>1
        <5> QED BY <5>1, Products
      <4>3. PICK k : k = l - (b - 1) * ListsPerPage
        OBVIOUS
      <4>4. /\ k \in 1 .. NumLists - (b - 1) * ListsPerPage /\ ~(k <= ListsPerPage)
            /\ k - ListsPerPage = l - b * ListsPerPage
        BY <2>6, <3>2, <3>3, <4>2, <4>3
      <4>5. TuplesFrom[b + 1][l - b * ListsPerPage] = Tuple(l)
        BY <2>1, <2>4, <3>1, <4>1 DEF FoundFrom
      <4> QED BY <2>7, <4>3, <4>4, <4>5
    <3> QED BY <3>4, <3>5
  <2> QED BY <2>1, <2>7, <2>8 DEF FoundFrom
<1>4. 1 \in S
  <2>1. 1 <= FirstEntry - 1 /\ FirstEntry - 1 \in Nat /\ (FirstEntry - 1) - 1 = FirstEntry - 2
    OBVIOUS
  <2>2. 1 \in 1 .. FirstEntry - 1
    BY <2>1
  <2> HIDE DEF S
  <2> QED BY <1>2, <1>3, <2>1, <2>2, Downwards
<1>5. FoundFrom(1) /\ ListTuples = TuplesFrom[1]
  BY <1>4 DEF ListTuples
<1>6. (1 - 1) * ListsPerPage = 0 /\ NumLists - 0 = NumLists /\ \A l \in Lists : l - 0 = l
  BY Blocks
<1>7. \A l \in Lists : infos[l][1] >= 1
  BY TuplePlace
<1> QED BY <1>5, <1>6, <1>7 DEF FoundFrom

\* What the invariant says of the list pages implies what readers find.
LEMMA ReadersFindTuples == ASSUME TypeOK, ListPagesInv PROVE ListTuplesFound
BY TuplesFound DEF ListTuplesFound, Layout, Tuple

-----------------------------------------------------------------------------
(* The list pages.                                                         *)

\* What an action must show; the tuples readers find follow from the list pages.
LEMMA BuildInvFrom ==
    ASSUME TypeOK', BlocksInv', ListPagesInv', ChainsInv', SortInv', EntriesInv'
    PROVE  BuildInv'
<1>1. (TypeOK /\ ListPagesInv => ListTuplesFound)'
  BY ReadersFindTuples, PTL
<1> QED BY <1>1 DEF BuildInv

\* Before the entry pages nothing is said of chains, sort and entries.
LEMMA NoLayoutYet ==
    ASSUME TypeOK', BlocksInv', ListPagesInv', ~Layout'
    PROVE  BuildInv'
<1>1. ChainsInv' /\ SortInv' /\ EntriesInv'
  BY DEF ChainsInv, SortInv, EntriesInv
<1> QED BY <1>1, BuildInvFrom

LEMMA InitInv == ASSUME Init PROVE BuildInv
<1> USE Layouts, Blocks
<1>1. TypeOK
  <2>1. <<InvalidBlockNumber, 0>> \in Blkno \X Nat
    OBVIOUS
  <2>2. infos \in [Lists -> Blkno \X Nat]
    BY <2>1 DEF Init
  <2>3. next \in [AllBlocks -> Blkno]
    <3>1. Zeroed \in Blkno
      BY DEF Zeroed
    <3> QED BY <3>1 DEF Init
  <2>4. lists \in [AllBlocks -> Seq(ListTuple)]
    <3>1. <<>> \in Seq(ListTuple)
      OBVIOUS
    <3> QED BY <3>1 DEF Init
  <2>5. i \in 1 .. NumLists + 1 /\ nblocks \in 0 .. MaxBlocks
    BY DEF Init
  <2>6. /\ buf \in Blkno /\ start \in Blkno /\ items \in [AllBlocks -> SUBSET Built]
        /\ sort \in SUBSET Built /\ itup \in Built \cup {NoRow}
        /\ status \in [Built -> {"done", "live", "dead"}] /\ pc = "meta"
    BY DEF Init
  <2> QED BY <2>2, <2>3, <2>4, <2>5, <2>6 DEF TypeOK
<1>2. BlocksInv
  BY DEF Init, BlocksInv
<1>3. ~Listing /\ ~Layout
  BY DEF Init, Listing, Layout
<1> QED
  BY <1>1, <1>2, <1>3
  DEF BuildInv, ListPagesInv, ListTuplesFound, ChainsInv, SortInv, EntriesInv, Layout

\* NewPage takes the next block and leaves the others alone.
LEMMA NewPageIs ==
    ASSUME TypeOK, BlocksInv, NewPage
    PROVE  /\ nblocks \in AllBlocks /\ nblocks' = nblocks + 1 /\ nblocks' \in 0 .. MaxBlocks
           /\ buf' = nblocks /\ buf' \in Blkno
           /\ next' \in [AllBlocks -> Blkno]
           /\ \A b \in AllBlocks : next'[b] = IF b = nblocks THEN InvalidBlockNumber ELSE next[b]
           /\ \A b \in AllBlocks : b >= nblocks' =>
                    b >= nblocks /\ next'[b] = Zeroed /\ lists[b] = <<>> /\ items[b] = {}
           /\ lists[nblocks] = <<>> /\ items[nblocks] = {}
<1> USE Layouts, Blocks
<1>1. nblocks \in AllBlocks /\ nblocks' = nblocks + 1 /\ nblocks' \in 0 .. MaxBlocks /\ buf' = nblocks
  BY DEF NewPage, TypeOK
<1>2. /\ next' \in [AllBlocks -> Blkno]
      /\ \A b \in AllBlocks : next'[b] = IF b = nblocks THEN InvalidBlockNumber ELSE next[b]
  <2>1. next' = [next EXCEPT ![nblocks] = InvalidBlockNumber] /\ InvalidBlockNumber \in Blkno
    BY DEF NewPage
  <2> QED BY <1>1, <2>1 DEF TypeOK
<1>3. \A b \in AllBlocks : b >= nblocks' => b >= nblocks /\ b # nblocks
  BY <1>1
<1> QED BY <1>1, <1>2, <1>3 DEF BlocksInv

LEMMA CreateMetaPageInv == ASSUME BuildInv, CreateMetaPage PROVE BuildInv'
<1> USE Layouts, Blocks
<1>1. TypeOK /\ BlocksInv /\ NewPage /\ pc = "meta" /\ pc' = "head"
      /\ UNCHANGED <<status, lists, items, i, start, infos, sort, itup>>
  BY DEF BuildInv, CreateMetaPage
<1>2. nblocks' = nblocks + 1 /\ nblocks = 0
  BY <1>1, NewPageIs DEF BlocksInv
<1>3. TypeOK'
  BY <1>1, NewPageIs DEF TypeOK
<1>4. BlocksInv'
  BY <1>1, <1>2, NewPageIs DEF BlocksInv
<1> QED BY <1>1, <1>3, <1>4, NoLayoutYet DEF ListPagesInv, Listing, Layout

LEMMA CreateHeadPageInv == ASSUME BuildInv, CreateHeadPage PROVE BuildInv'
<1> USE Layouts, Blocks
<1>1. TypeOK /\ BlocksInv /\ NewPage /\ pc = "head" /\ pc' = "lists"
      /\ UNCHANGED <<status, lists, items, i, start, infos, sort, itup>>
  BY DEF BuildInv, CreateHeadPage
<1>2. nblocks' = 2 /\ nblocks = 1 /\ buf' = 1 /\ i = 1
  BY <1>1, NewPageIs DEF BlocksInv
<1>3. TypeOK'
  BY <1>1, NewPageIs DEF TypeOK
<1>4. BlocksInv'
  BY <1>1, <1>2, NewPageIs DEF BlocksInv
<1>5. lists'[1] = <<>> /\ next'[1] = InvalidBlockNumber
  BY <1>1, <1>2, NewPageIs
<1>6. ListPagesInv'
  <2>1. LastListPage' = 1 /\ ListsAdded' = 0
    BY <1>1, <1>2 DEF LastListPage, ListsAdded
  <2>2. Len(lists'[1]) = 0
    BY <1>5
  <2>3. /\ 1 \in HeadBlkno .. FirstEntry - 1 /\ 0 <= ListsPerPage
        /\ 0 = (1 - 1) * ListsPerPage + 0
    OBVIOUS
  <2>4. (\A b \in HeadBlkno .. 1 - 1 : FALSE) /\ (\A k \in 1 .. 0 : FALSE)
    OBVIOUS
  <2> QED BY <1>5, <2>1, <2>2, <2>3, <2>4, Zenon DEF ListPagesInv
<1> QED BY <1>1, <1>3, <1>4, <1>6, NoLayoutYet DEF Layout

\* AppendPage takes the next block and links the page it follows to it.
LEMMA AppendPageIs ==
    ASSUME TypeOK, BlocksInv, AppendPage, buf = nblocks - 1, nblocks > 0
    PROVE  /\ nblocks \in AllBlocks /\ nblocks' = nblocks + 1 /\ nblocks' \in 0 .. MaxBlocks
           /\ buf \in AllBlocks /\ buf' = nblocks /\ buf' \in Blkno
           /\ next' \in [AllBlocks -> Blkno]
           /\ \A b \in AllBlocks : next'[b] = IF b = buf THEN nblocks
                        ELSE IF b = nblocks THEN InvalidBlockNumber ELSE next[b]
           /\ \A b \in AllBlocks : b >= nblocks' =>
                    b >= nblocks /\ next'[b] = Zeroed /\ lists[b] = <<>> /\ items[b] = {}
           /\ lists[nblocks] = <<>> /\ items[nblocks] = {}
<1> USE Layouts, Blocks
<1>1. /\ nblocks \in AllBlocks /\ nblocks' = nblocks + 1 /\ nblocks' \in 0 .. MaxBlocks
      /\ buf' = nblocks /\ buf \in AllBlocks /\ buf # nblocks
  BY DEF AppendPage, TypeOK
<1>2. /\ next' \in [AllBlocks -> Blkno]
      /\ \A b \in AllBlocks : next'[b] = IF b = buf THEN nblocks
                        ELSE IF b = nblocks THEN InvalidBlockNumber ELSE next[b]
  <2>1. next' = [next EXCEPT ![nblocks] = InvalidBlockNumber, ![buf] = nblocks]
    BY DEF AppendPage
  <2>2. InvalidBlockNumber \in Blkno /\ nblocks \in Blkno
    BY <1>1
  <2> QED BY <1>1, <2>1, <2>2 DEF TypeOK
<1>3. \A b \in AllBlocks : b >= nblocks' => b >= nblocks /\ b # nblocks /\ b # buf
  BY <1>1
<1> QED BY <1>1, <1>2, <1>3 DEF BlocksInv

\* The tuples that are already there keep their place when one is added.
LEMMA AddListInv == ASSUME BuildInv, AddList PROVE BuildInv'
<1> USE Layouts, Blocks
<1> DEFINE full == Len(lists[buf]) >= ListsPerPage
           new == [start_page |-> InvalidBlockNumber, insert_page |-> InvalidBlockNumber]
<1>1. /\ TypeOK /\ BlocksInv /\ ListPagesInv /\ pc = "lists" /\ pc' = "lists"
      /\ i \in 1 .. NumLists /\ i' = i + 1 /\ Advance(full)
      /\ UNCHANGED <<status, items, start, sort, itup>>
  <2>1. /\ TypeOK /\ BlocksInv /\ ListPagesInv /\ pc = "lists" /\ i <= NumLists
        /\ i' = i + 1 /\ Advance(full) /\ UNCHANGED <<status, items, pc, start, sort, itup>>
    BY DEF BuildInv, AddList
  <2> QED BY SMTT(30), <2>1 DEF TypeOK
<1>2. PICK p : p = buf'
  OBVIOUS
<1>3. nblocks > 0 /\ buf = nblocks - 1 /\ nblocks \in Nat
  BY <1>1 DEF BlocksInv, TypeOK
<1>4. /\ buf \in 1 .. FirstEntry - 1 /\ buf \in AllBlocks
      /\ i - 1 = (buf - 1) * ListsPerPage + Len(lists[buf])
      /\ Len(lists[buf]) <= ListsPerPage /\ next[buf] = InvalidBlockNumber
      /\ \A b \in 1 .. buf - 1 : Len(lists[b]) = ListsPerPage /\ next[b] = b + 1
      /\ \A l \in 1 .. i - 1 :
            /\ infos[l][1] \in 1 .. buf /\ infos[l][2] \in 1 .. Len(lists[infos[l][1]])
            /\ l = (infos[l][1] - 1) * ListsPerPage + infos[l][2]
  BY <1>1 DEF ListPagesInv, Listing, LastListPage, ListsAdded
<1>5. \A b \in AllBlocks : lists[b] \in Seq(ListTuple) /\ Len(lists[b]) \in Nat
  BY <1>1 DEF TypeOK
<1>6. /\ p \in 1 .. FirstEntry - 1 /\ p \in AllBlocks /\ p = nblocks' - 1
      /\ nblocks' > 0 /\ nblocks' \in 0 .. MaxBlocks
      /\ next' \in [AllBlocks -> Blkno] /\ next'[p] = InvalidBlockNumber
      /\ i = (p - 1) * ListsPerPage + Len(lists[p]) + 1 /\ Len(lists[p]) < ListsPerPage
      /\ \A b \in 1 .. p - 1 : Len(lists[b]) = ListsPerPage /\ next'[b] = b + 1
      /\ \A b \in AllBlocks : b >= nblocks' =>
            b # p /\ next'[b] = Zeroed /\ lists[b] = <<>> /\ items[b] = {}
      /\ buf <= p
  <2>1. CASE full
    <3>1. AppendPage
      BY <1>1, <2>1 DEF Advance
    <3>2. p = nblocks /\ p = buf + 1 /\ p \in AllBlocks /\ nblocks' = p + 1
      BY <1>1, <1>2, <1>3, <3>1, AppendPageIs
    <3>3. Len(lists[buf]) = ListsPerPage
      BY <1>4, <1>5, <2>1
    <3>4. (buf - 1) * ListsPerPage + ListsPerPage < NumLists
      BY <1>1, <1>4, <3>3
    <3>5. p \in 1 .. FirstEntry - 1
      BY <1>4, <3>2, <3>4, AnotherListPage
    <3>6. lists[p] = <<>> /\ Len(lists[p]) = 0
      BY <1>1, <1>3, <3>1, <3>2, AppendPageIs
    <3>7. i = (p - 1) * ListsPerPage + 0 + 1
      <4>1. (buf - 1) * ListsPerPage + ListsPerPage = buf * ListsPerPage
        BY <1>4
      <4>2. buf * ListsPerPage \in Nat /\ p - 1 = buf
        BY <1>4, <3>2
      <4> QED BY <1>1, <1>4, <3>3, <4>1, <4>2
    <3>8. ASSUME NEW b \in 1 .. p - 1 PROVE Len(lists[b]) = ListsPerPage /\ next'[b] = b + 1
      <4>1. b = buf \/ b \in 1 .. buf - 1
        BY <3>2, <1>4
      <4>2. CASE b = buf
        BY <1>1, <1>3, <3>1, <3>2, <3>3, <4>2, AppendPageIs
      <4>3. CASE b \in 1 .. buf - 1
        <5>1. b \in AllBlocks /\ b # buf /\ b # nblocks
          BY SMTT(30), <1>3, <1>4, <4>3
        <5> QED BY <1>1, <1>3, <1>4, <3>1, <4>3, <5>1, AppendPageIs
      <4> QED BY <4>1, <4>2, <4>3
    <3>9. /\ next' \in [AllBlocks -> Blkno] /\ next'[p] = InvalidBlockNumber
          /\ \A b \in AllBlocks : b >= nblocks' =>
                b # p /\ next'[b] = Zeroed /\ lists[b] = <<>> /\ items[b] = {}
      BY <1>1, <1>3, <3>1, <3>2, AppendPageIs
    <3>10. nblocks' \in 0 .. MaxBlocks /\ nblocks' > 0 /\ p = nblocks' - 1 /\ buf <= p
      BY <1>3, <3>2
    <3>11. Len(lists[p]) < ListsPerPage /\ i = (p - 1) * ListsPerPage + Len(lists[p]) + 1
      BY <3>6, <3>7
    <3> HIDE DEF full
    <3> QED BY <3>2, <3>5, <3>8, <3>9, <3>10, <3>11, Zenon
  <2>2. CASE ~full
    <3>1. UNCHANGED <<nblocks, next, buf>>
      BY <1>1, <2>2 DEF Advance
    <3>2. Len(lists[buf]) < ListsPerPage
      BY <1>4, <1>5, <2>2
    <3>3. \A b \in AllBlocks : b >= nblocks' =>
                b # p /\ next'[b] = Zeroed /\ lists[b] = <<>> /\ items[b] = {}
      BY <1>1, <1>2, <1>3, <3>1 DEF BlocksInv
    <3>4. i = (buf - 1) * ListsPerPage + Len(lists[buf]) + 1
      BY <1>1, <1>4, <1>5
    <3>5. next' \in [AllBlocks -> Blkno] /\ nblocks' \in 0 .. MaxBlocks
      BY <1>1, <3>1 DEF TypeOK
    <3> QED BY SMTT(30), <1>2, <1>3, <1>4, <3>1, <3>2, <3>3, <3>4, <3>5
  <2> QED BY <2>1, <2>2
<1>14. /\ p \in 1 .. FirstEntry - 1 /\ p \in AllBlocks /\ p \in Nat /\ p \in Blkno
       /\ lists[p] \in Seq(ListTuple) /\ Len(lists[p]) \in Nat /\ i \in Lists /\ i \in Nat
       /\ i = (p - 1) * ListsPerPage + Len(lists[p]) + 1 /\ Len(lists[p]) < ListsPerPage
       /\ buf <= p
  <2>1. /\ p \in 1 .. FirstEntry - 1 /\ p \in AllBlocks
        /\ i = (p - 1) * ListsPerPage + Len(lists[p]) + 1 /\ Len(lists[p]) < ListsPerPage
        /\ buf <= p
    BY <1>6, Zenon
  <2>2. lists[p] \in Seq(ListTuple) /\ Len(lists[p]) \in Nat
    BY <1>5, <2>1
  <2>3. p \in Nat /\ p \in Blkno
    BY <2>1
  <2>4. i \in Lists /\ i \in Nat
    BY <1>1
  <2> HIDE DEF full
  <2> QED BY <2>1, <2>2, <2>3, <2>4, Zenon
<1>7. /\ lists' = [lists EXCEPT ![p] = Append(lists[p], new)]
      /\ infos' = [infos EXCEPT ![i] = <<p, Len(lists[p]) + 1>>]
  BY <1>2 DEF AddList
<1>8. /\ new \in ListTuple /\ Append(lists[p], new) \in Seq(ListTuple)
      /\ Len(Append(lists[p], new)) = Len(lists[p]) + 1
  <2>1. new \in ListTuple
    BY DEF ListTuple
  <2> HIDE DEF new
  <2> QED BY <1>14, <2>1
<1> HIDE DEF new
<1>9. /\ lists' \in [AllBlocks -> Seq(ListTuple)] /\ Len(lists'[p]) = Len(lists[p]) + 1
      /\ \A b \in AllBlocks : b # p => lists'[b] = lists[b]
  <2>1. lists \in [AllBlocks -> Seq(ListTuple)]
    BY <1>1 DEF TypeOK
  <2> QED BY <1>6, <1>7, <1>8, <2>1
<1>10. /\ infos' \in [Lists -> Blkno \X Nat] /\ infos'[i][1] = p /\ infos'[i][2] = Len(lists[p]) + 1
       /\ \A l \in 1 .. i - 1 : infos'[l] = infos[l]
  <2>1. infos \in [Lists -> Blkno \X Nat] /\ i \in Lists /\ p \in Blkno /\ Len(lists[p]) + 1 \in Nat
    <3>1. infos \in [Lists -> Blkno \X Nat]
      BY <1>1 DEF TypeOK
    <3>2. Len(lists[p]) + 1 \in Nat
      BY <1>14
    <3> QED BY <1>14, <3>1, <3>2, Zenon
  <2>2. <<p, Len(lists[p]) + 1>> \in Blkno \X Nat
    BY <2>1
  <2>3. \A l \in 1 .. i - 1 : l \in Lists /\ l # i
    BY <1>1
  <2> QED BY <1>7, <2>1, <2>2, <2>3
<1>11. TypeOK'
  <2>1. buf' \in Blkno /\ i' \in 1 .. NumLists + 1
    <3>1. i \in 1 .. NumLists /\ i' = i + 1
      BY <1>1, Zenon
    <3>2. p \in Blkno
      BY <1>14, Zenon
    <3> QED BY <1>2, <3>1, <3>2
  <2> QED BY <1>1, <1>6, <1>9, <1>10, <2>1 DEF TypeOK
<1>12. BlocksInv'
  <2>1. \A b \in AllBlocks : b >= nblocks' => next'[b] = Zeroed /\ lists'[b] = <<>> /\ items'[b] = {}
    BY <1>1, <1>6, <1>9
  <2> QED BY <1>1, <1>2, <1>6, <2>1 DEF BlocksInv
<1>13. ListPagesInv'
  <2>1. LastListPage' = p /\ ListsAdded' = i
    BY <1>1, <1>2 DEF LastListPage, ListsAdded
  <2>2. i = (p - 1) * ListsPerPage + Len(lists'[p]) /\ Len(lists'[p]) <= ListsPerPage
    <3>1. Len(lists'[p]) = Len(lists[p]) + 1
      BY <1>9, Zenon
    <3>2. (p - 1) * ListsPerPage \in Nat
      BY <1>14
    <3>3. PICK x, n : x = (p - 1) * ListsPerPage /\ n = Len(lists[p])
      OBVIOUS
    <3>4. i = x + n + 1 /\ n < ListsPerPage /\ n \in Nat /\ x \in Nat
      BY <1>14, <3>2, <3>3, Zenon
    <3>5. i = x + (n + 1) /\ n + 1 <= ListsPerPage
      BY <3>4
    <3> QED BY <3>1, <3>3, <3>5, Zenon
  <2>3. ASSUME NEW b \in 1 .. p - 1 PROVE Len(lists'[b]) = ListsPerPage /\ next'[b] = b + 1
    <3>1. b \in AllBlocks /\ b # p
      BY <1>14
    <3> QED BY <1>6, <1>9, <3>1
  <2>4. ASSUME NEW l \in 1 .. i
        PROVE  /\ infos'[l][1] \in 1 .. p /\ infos'[l][2] \in 1 .. Len(lists'[infos'[l][1]])
               /\ l = (infos'[l][1] - 1) * ListsPerPage + infos'[l][2]
    <3>1. CASE l = i
      <4>1. Len(lists[p]) + 1 \in 1 .. Len(lists'[p]) /\ p \in 1 .. p
        BY <1>9, <1>14
      <4> QED BY <1>9, <1>10, <2>2, <3>1, <4>1
    <3>2. CASE l # i
      <4>1. l \in 1 .. i - 1
        BY <1>1, <3>2
      <4>2. PICK q, o : q = infos[l][1] /\ o = infos[l][2]
        OBVIOUS
      <4>3. q \in 1 .. buf /\ o \in 1 .. Len(lists[q]) /\ l = (q - 1) * ListsPerPage + o
        BY <1>4, <4>1, <4>2
      <4>4. q \in AllBlocks /\ q \in 1 .. p
        <5>1. q \in 1 .. buf /\ buf \in Nat /\ buf <= p
          BY <1>4, <1>14, <4>3
        <5> QED BY <1>14, <5>1
      <4>5. o \in 1 .. Len(lists'[q])
        <5>1. CASE q = p
          BY <1>5, <1>9, <4>3, <4>4, <5>1
        <5>2. CASE q # p
          BY <1>9, <4>3, <4>4, <5>2
        <5> QED BY <5>1, <5>2
      <4> QED BY <1>10, <4>1, <4>2, <4>3, <4>4, <4>5
    <3> QED BY <3>1, <3>2
  <2> QED BY <1>6, <2>1, <2>2, <2>3, <2>4 DEF ListPagesInv
<1> QED BY <1>1, <1>11, <1>12, <1>13, NoLayoutYet DEF Layout

-----------------------------------------------------------------------------
(* The entry pages.                                                        *)

\* The sort gives one of the first rows in the order of the lists.
LEMMA NextTuple ==
    ASSUME NEW S, S \subseteq Built, NoRow \notin Built, GetNextTuple(S)
    PROVE  /\ sort' \subseteq S /\ itup' \notin sort' /\ itup' \in Built \cup {NoRow}
           /\ itup' = NoRow => sort' = {}
           /\ itup' # NoRow => itup' \in S /\ \A r \in sort' : ListOf[itup'] <= ListOf[r]
           /\ \A r \in S : r \in sort' \/ r = itup'
<1>1. CASE S = {}
  BY <1>1 DEF GetNextTuple
<1>2. CASE S # {}
  <2>1. PICK r \in FirstInOrder(S) : itup' = r /\ sort' = S \ {r}
    BY <1>2 DEF GetNextTuple
  <2>2. r \in S /\ \A q \in S : ListOf[r] <= ListOf[q]
    BY DEF FirstInOrder
  <2> QED BY <2>1, <2>2
<1> QED BY <1>1, <1>2

\* The rows of the table
LEMMA RowsAre ==
    /\ NoRow \notin Built /\ TuplesToSort \subseteq Built /\ IsFiniteSet(Built)
    /\ \A r \in Built : ListOf[r] \in 0 .. NumLists
    /\ \A r \in TuplesToSort : ListOf[r] \in 1 .. NumLists
<1>1. NoRow \notin Built /\ IsFiniteSet(Built) /\ ListOf \in [Built -> Lists \cup {0}]
  BY BuildAssumption DEF NotIndexed
<1>2. TuplesToSort \subseteq Built /\ \A r \in TuplesToSort : ListOf[r] # 0
  BY DEF TuplesToSort, NotIndexed
<1>3. \A r \in Built : ListOf[r] \in 0 .. NumLists
  BY <1>1, Blocks, Layouts
<1>4. \A r \in TuplesToSort : ListOf[r] \in 1 .. NumLists
  BY <1>2, <1>3, Layouts
<1> QED BY <1>1, <1>2, <1>3, <1>4

\* The heap scan starts with all list tuples in place and no entry anywhere.
LEMMA ScanTuplesInv == ASSUME BuildInv, ScanTuples PROVE BuildInv'
<1> USE Layouts, Blocks, RowsAre
<1>1. /\ TypeOK /\ BlocksInv /\ ListPagesInv /\ pc = "lists" /\ pc' = "list"
      /\ i = NumLists + 1 /\ i' = 1 /\ GetNextTuple(TuplesToSort)
      /\ UNCHANGED <<status, nblocks, next, lists, items, buf, start, infos>>
  <2>1. /\ TypeOK /\ BlocksInv /\ ListPagesInv /\ pc = "lists" /\ pc' = "list"
        /\ i > NumLists /\ i' = 1 /\ GetNextTuple(TuplesToSort)
        /\ UNCHANGED <<status, nblocks, next, lists, items, buf, start, infos>>
    BY DEF BuildInv, ScanTuples, file
  <2>2. i \in 1 .. NumLists + 1
    BY <2>1 DEF TypeOK
  <2> QED BY <2>1, <2>2
<1>2. /\ sort' \subseteq TuplesToSort /\ itup' \notin sort' /\ itup' \in Built \cup {NoRow}
      /\ itup' = NoRow => sort' = {}
      /\ itup' # NoRow => itup' \in TuplesToSort /\ \A r \in sort' : ListOf[itup'] <= ListOf[r]
      /\ \A r \in TuplesToSort : r \in sort' \/ r = itup'
  BY <1>1, NextTuple
<1>3. LastListPage = buf /\ ListsAdded = NumLists /\ Listing
  BY <1>1 DEF LastListPage, ListsAdded, Listing
<1>4. buf = FirstEntry - 1
  <2>1. /\ buf \in 1 .. FirstEntry - 1 /\ Len(lists[buf]) <= ListsPerPage
        /\ NumLists = (buf - 1) * ListsPerPage + Len(lists[buf])
    BY <1>1, <1>3 DEF ListPagesInv
  <2>2. buf \in AllBlocks /\ Len(lists[buf]) \in Nat
    <3>1. buf \in AllBlocks
      <4>1. buf \in 1 .. FirstEntry - 1
        BY <2>1, Zenon
      <4> QED BY <4>1
    <3> QED BY <1>1, <3>1 DEF TypeOK
  <2>3. buf \in Nat \ {0} /\ buf <= FirstEntry - 1
    <3>1. buf \in 1 .. FirstEntry - 1
      BY <2>1, Zenon
    <3> QED BY <3>1
  <2>4. (buf - 1) * ListsPerPage + Len(lists[buf]) = NumLists
    BY <2>1, Zenon
  <2> QED BY <2>1, <2>2, <2>3, <2>4, LastOfListPages
<1>5. nblocks = FirstEntry
  BY <1>1, <1>4 DEF BlocksInv, TypeOK
<1>6. TypeOK'
  <2>1. i' \in 1 .. NumLists + 1 /\ i' \in Lists
    BY <1>1
  <2> QED BY <1>1, <1>2, <2>1 DEF TypeOK
<1>7. BlocksInv'
  BY <1>1 DEF BlocksInv
<1>8. ListPagesInv'
  <2>1. LastListPage' = LastListPage /\ ListsAdded' = ListsAdded
    BY <1>1, <1>3, <1>4 DEF LastListPage, ListsAdded
  <2> QED BY <1>1, <1>3, <2>1 DEF ListPagesInv
<1>9. Begun' = {}
  BY <1>1 DEF Begun
<1>10. ChainsInv'
  <2>1. nblocks' = FirstEntry /\ FirstEntry .. nblocks' - 1 = {}
    BY <1>1, <1>5
  <2> QED BY <1>9, <2>1 DEF ChainsInv
<1>11. TuplesToSort' = TuplesToSort
  BY <1>1 DEF TuplesToSort
<1>12. SortInv'
  <2>1. itup' # NoRow => ListOf[itup'] >= i'
    BY <1>1, <1>2
  <2> QED BY <1>2, <1>11, <2>1 DEF SortInv
<1>13. EntriesInv'
  <2>1. \A b \in AllBlocks : items'[b] = {}
    BY <1>1 DEF BlocksInv
  <2>2. \A b \in AllBlocks : Cardinality(items'[b]) <= Capacity
    <3>1. Cardinality({}) = 0
      BY FS_EmptySet
    <3>2. 0 <= Capacity
      OBVIOUS
    <3>3. \A b \in AllBlocks : Cardinality(items'[b]) = 0
      BY <2>1, <3>1, Zenon
    <3> QED BY <3>2, <3>3
  <2> QED BY <1>2, <1>9, <1>11, <2>1, <2>2 DEF EntriesInv
<1> QED BY <1>6, <1>7, <1>8, <1>10, <1>12, <1>13, BuildInvFrom

\* Steps that add a page behind the list pages or change entries leave what is
\* known of the list pages.
LEMMA ListPagesStay ==
    ASSUME TypeOK, ListPagesInv, Layout, Layout', UNCHANGED <<lists, infos>>,
           \A b \in 1 .. FirstEntry - 1 : next'[b] = next[b]
    PROVE  ListPagesInv'
<1> USE Layouts
<1>1. /\ LastListPage = FirstEntry - 1 /\ ListsAdded = NumLists /\ Listing
      /\ LastListPage' = FirstEntry - 1 /\ ListsAdded' = NumLists
  BY DEF Layout, Listing, LastListPage, ListsAdded
<1>2. \A b \in 1 .. FirstEntry - 2 : b \in 1 .. FirstEntry - 1
  OBVIOUS
<1>3. FirstEntry - 1 \in 1 .. FirstEntry - 1 /\ (FirstEntry - 1) - 1 = FirstEntry - 2
  OBVIOUS
<1>4. HeadBlkno = 1
  OBVIOUS
<1> QED BY <1>1, <1>2, <1>3, <1>4 DEF ListPagesInv

LEMMA TupleIs ==
    ASSUME TypeOK, ListPagesInv, Layout, NEW l \in Lists
    PROVE  Tuple(l) \in ListTuple
<1>1. PICK p, o : p = infos[l][1] /\ o = infos[l][2]
  OBVIOUS
<1>2. p \in 1 .. FirstEntry - 1 /\ o \in 1 .. Len(lists[p])
  BY <1>1, TuplePlace
<1>3. lists[p] \in Seq(ListTuple)
  BY <1>2, ListPagesFull
<1>4. lists[p][o] \in ListTuple
  BY <1>2, <1>3, ElementOfSeq
<1> QED BY <1>1, <1>4 DEF Tuple

\* First and Last of the lists of which the build has started the chain are blocks
\* behind the list pages.
LEMMA ChainsAre ==
    ASSUME TypeOK, ListPagesInv, ChainsInv, Layout
    PROVE  /\ FirstEntry <= nblocks /\ nblocks \in 0 .. MaxBlocks
           /\ \A l \in Begun :
                /\ l \in Nat /\ First(l) \in Nat /\ Last(l) \in Nat /\ Last(l) \in AllBlocks
                /\ FirstEntry <= First(l) /\ First(l) <= Last(l) /\ Last(l) < nblocks
<1> USE Layouts, Blocks
<1>1. /\ FirstEntry <= nblocks /\ nblocks \in 0 .. MaxBlocks
      /\ \A l \in Begun : FirstEntry <= First(l) /\ First(l) <= Last(l) /\ Last(l) < nblocks
  BY DEF ChainsInv, TypeOK
<1>2. i \in 1 .. NumLists + 1 /\ start \in 0 .. MaxBlocks /\ buf \in 0 .. MaxBlocks
  BY DEF TypeOK
<1>3. ASSUME NEW l \in Begun
      PROVE  l \in Nat /\ First(l) \in Nat /\ Last(l) \in Nat
  <2>1. l \in 1 .. i /\ l \in Nat
    BY <1>2 DEF Begun
  <2>2. CASE l < i
    <3>1. l \in Lists
      BY <1>2, <2>1, <2>2
    <3>2. Tuple(l) \in ListTuple
      BY <3>1, TupleIs
    <3>3. First(l) = Tuple(l).start_page /\ Last(l) = Tuple(l).insert_page
      BY <2>2 DEF First, Last
    <3> QED BY <2>1, <3>2, <3>3 DEF ListTuple
  <2>3. CASE ~(l < i)
    BY <1>2, <2>1, <2>3 DEF First, Last
  <2> QED BY <2>2, <2>3
<1>4. \A l \in Begun : Last(l) \in AllBlocks
  BY <1>1, <1>3
<1> QED BY <1>1, <1>3, <1>4

LEMMA StartListInv == ASSUME BuildInv, StartList PROVE BuildInv'
<1> USE Layouts, Blocks
<1>1. /\ TypeOK /\ BlocksInv /\ ListPagesInv /\ ChainsInv /\ SortInv /\ EntriesInv
      /\ pc = "list" /\ pc' = "entries" /\ NewPage /\ start' = nblocks
      /\ UNCHANGED <<status, lists, items, i, infos, sort, itup>> /\ Layout /\ Layout'
  BY DEF BuildInv, StartList, Layout
<1>2. PICK n : n = nblocks
  OBVIOUS
<1>3. /\ n \in AllBlocks /\ nblocks' = n + 1 /\ nblocks' \in 0 .. MaxBlocks
      /\ buf' = n /\ buf' \in Blkno
      /\ next' \in [AllBlocks -> Blkno]
      /\ \A b \in AllBlocks : next'[b] = IF b = n THEN InvalidBlockNumber ELSE next[b]
      /\ \A b \in AllBlocks : b >= nblocks' =>
               b >= nblocks /\ next'[b] = Zeroed /\ lists[b] = <<>> /\ items[b] = {}
      /\ items[n] = {}
  BY <1>1, <1>2, NewPageIs
<1>4. i \in 1 .. NumLists /\ i \in Lists
  BY <1>1 DEF TypeOK
<1>5. TypeOK'
  BY <1>1, <1>2, <1>3, <1>4 DEF TypeOK
<1>6. BlocksInv'
  <2>1. \A b \in AllBlocks : b >= nblocks' => next'[b] = Zeroed /\ lists'[b] = <<>> /\ items'[b] = {}
    BY <1>1, <1>3
  <2>2. nblocks' > 0 /\ buf' = nblocks' - 1
    <3>1. n \in Nat /\ nblocks' = n + 1 /\ buf' = n
      BY <1>3
    <3> QED BY <3>1
  <2> QED BY <1>1, <2>1, <2>2 DEF BlocksInv
<1>7. /\ FirstEntry <= n
      /\ \A l \in Begun :
            /\ l \in Nat /\ First(l) \in Nat /\ Last(l) \in Nat /\ Last(l) \in AllBlocks
            /\ FirstEntry <= First(l) /\ First(l) <= Last(l) /\ Last(l) < n
  BY <1>1, <1>2, ChainsAre
<1>8. ListPagesInv'
  <2>1. \A b \in 1 .. FirstEntry - 1 : b \in AllBlocks /\ b # n
    BY <1>7
  <2>2. \A b \in 1 .. FirstEntry - 1 : next'[b] = next[b]
    BY <1>3, <2>1
  <2> QED BY <1>1, <2>2, ListPagesStay
<1>9. /\ Begun = 1 .. i - 1 /\ Begun' = 1 .. i /\ i \notin Begun
      /\ \A l \in 1 .. i : l \in Begun \/ l = i
  BY <1>1, <1>4 DEF Begun
<1>10. \A l \in 1 .. i :
            /\ First(l)' = IF l = i THEN n ELSE First(l)
            /\ Last(l)' = IF l = i THEN n ELSE Last(l)
  BY <1>1, <1>2, <1>3, <1>4 DEF First, Last, Tuple
<1>11. n \in Nat /\ FirstEntry <= n /\ nblocks' - 1 = n
  BY <1>3, <1>7
<1>16. \A l \in Begun : l \in 1 .. i /\ First(l)' = First(l) /\ Last(l)' = Last(l)
  <2>1. \A l \in Begun : l \in 1 .. i /\ l # i
    BY <1>4, <1>9
  <2> QED BY <1>10, <2>1, Zenon
<1>12. ChainsInv'
  <2>1. nblocks' >= FirstEntry
    BY <1>3, <1>11
  <2>2. \A l \in 1 .. i : FirstEntry <= First(l)' /\ First(l)' <= Last(l)' /\ Last(l)' < nblocks'
    BY <1>3, <1>7, <1>9, <1>10, <1>11
  <2>3. ASSUME NEW l \in 1 .. i, NEW m \in 1 .. i, l < m PROVE Last(l)' < First(m)'
    <3>1. l \in Begun
      BY <1>4, <1>9, <2>3
    <3>2. CASE m = i
      BY <1>4, <1>7, <1>10, <2>3, <3>1, <3>2
    <3>3. CASE m # i
      BY <1>1, <1>4, <1>9, <1>10, <2>3, <3>1, <3>3 DEF ChainsInv
    <3> QED BY <3>2, <3>3
  <2>4. ASSUME NEW b \in FirstEntry .. n
        PROVE  /\ \E l \in 1 .. i : b \in First(l)' .. Last(l)'
               /\ next'[b] = IF \E l \in 1 .. i : b = Last(l)' THEN InvalidBlockNumber ELSE b + 1
    <3>1. b \in AllBlocks
      BY <1>3
    <3>2. CASE b = n
      <4>1. i \in 1 .. i /\ n \in n .. n
        BY <1>4, <1>11
      <4> QED BY <1>3, <1>10, <3>1, <3>2, <4>1
    <3>3. CASE b # n
      <4>1. b \in FirstEntry .. nblocks - 1
        BY <1>2, <1>11, <3>3
      <4>2. PICK l \in Begun : b \in First(l) .. Last(l)
        BY <1>1, <4>1 DEF ChainsInv
      <4>3. l \in 1 .. i /\ b \in First(l)' .. Last(l)'
        BY <1>16, <4>2, Zenon
      <4>4. next[b] = IF \E k \in Begun : b = Last(k) THEN InvalidBlockNumber ELSE b + 1
        BY <1>1, <4>1 DEF ChainsInv
      <4>5. (\E k \in Begun : b = Last(k)) <=> (\E k \in 1 .. i : b = Last(k)')
        <5>1. \A k \in 1 .. i : k = i => Last(k)' = n
          BY <1>10
        <5> QED BY <1>9, <1>16, <3>3, <5>1
      <4> QED BY <1>3, <3>1, <3>3, <4>3, <4>4, <4>5
    <3> QED BY <3>2, <3>3
  <2> QED BY <1>9, <1>11, <2>1, <2>2, <2>3, <2>4 DEF ChainsInv
<1>13. TuplesToSort' = TuplesToSort
  BY <1>1 DEF TuplesToSort
<1>14. SortInv'
  BY <1>1, <1>13 DEF SortInv
<1>15. EntriesInv'
  <2>1. ASSUME NEW b \in AllBlocks, NEW r \in items'[b]
        PROVE  /\ r \in TuplesToSort \ (sort \cup {itup})
               /\ ListOf[r] \in 1 .. i /\ b \in First(ListOf[r])' .. Last(ListOf[r])'
               /\ \A c \in AllBlocks : r \in items[c] => c = b
    <3>1. /\ r \in TuplesToSort \ (sort \cup {itup})
          /\ ListOf[r] \in Begun /\ b \in First(ListOf[r]) .. Last(ListOf[r])
          /\ \A c \in AllBlocks : r \in items[c] => c = b
      BY <1>1 DEF EntriesInv
    <3> QED BY <1>16, <3>1, Zenon
  <2>2. ASSUME NEW l \in 1 .. i, NEW b \in First(l)' .. Last(l)'
        PROVE  /\ b < Last(l)' => Cardinality(items[b]) = Capacity
               /\ b > First(l)' => items[b] # {}
    <3>1. CASE l = i
      BY <1>10, <1>11, <3>1
    <3>2. CASE l # i
      BY <1>1, <1>9, <1>10, <3>2 DEF EntriesInv
    <3> QED BY <3>1, <3>2
  <2>3. /\ \A r \in TuplesToSort : r \in sort \/ r = itup \/ \E b \in AllBlocks : r \in items[b]
        /\ \A b \in AllBlocks : Cardinality(items[b]) <= Capacity
    BY <1>1 DEF EntriesInv
  <2> QED BY <1>1, <1>9, <1>13, <2>1, <2>2, <2>3 DEF EntriesInv
<1> QED BY <1>5, <1>6, <1>8, <1>12, <1>14, <1>15, BuildInvFrom

\* An entry goes to the last page of its list, or to one more page behind it.
LEMMA AddEntryInv == ASSUME BuildInv, AddEntry PROVE BuildInv'
<1> USE Layouts, Blocks, RowsAre
<1> DEFINE full == Cardinality(items[buf]) >= Capacity
<1>1. /\ TypeOK /\ BlocksInv /\ ListPagesInv /\ ChainsInv /\ SortInv /\ EntriesInv
      /\ pc = "entries" /\ pc' = "entries" /\ Advance(full) /\ GetNextTuple(sort)
      /\ items' = [items EXCEPT ![buf'] = @ \cup {itup}]
      /\ itup # NoRow /\ ListOf[itup] = i
      /\ UNCHANGED <<status, lists, i, start, infos>> /\ Layout /\ Layout'
  BY DEF BuildInv, AddEntry, Layout, InList
<1>2. PICK p, q, new : p = buf' /\ q = buf /\ new = itup
  OBVIOUS
<1>3. /\ i \in 1 .. NumLists /\ i \in Lists /\ i' = i /\ nblocks \in Nat
      /\ nblocks > 0 /\ q = nblocks - 1 /\ items \in [AllBlocks -> SUBSET Built]
  BY <1>1, <1>2 DEF BlocksInv, TypeOK
<1>4. \A l \in Begun : l \in 1 .. i /\ First(l)' = First(l)
  BY <1>1 DEF Begun, First, Tuple
<1>5. Begun = 1 .. i /\ Begun' = 1 .. i /\ i \in Begun
  BY <1>1, <1>3 DEF Begun
<1>6. \A l \in Begun :
        /\ Last(l)' = IF l = i THEN p ELSE Last(l)
        /\ l = i => Last(l) = q
  BY <1>1, <1>2, <1>3, <1>5 DEF Last, Tuple
<1>7. /\ FirstEntry <= nblocks
      /\ \A l \in Begun :
            /\ l \in Nat /\ First(l) \in Nat /\ Last(l) \in Nat /\ Last(l) \in AllBlocks
            /\ FirstEntry <= First(l) /\ First(l) <= Last(l) /\ Last(l) < nblocks
  BY <1>1, ChainsAre
<1>8. PICK f : f = First(i)
  OBVIOUS
<1>9. /\ q \in Nat /\ q \in AllBlocks /\ f \in Nat /\ FirstEntry <= f /\ f <= q
      /\ \A l \in Begun : l # i => Last(l) < f
  <2>1. f \in Nat /\ FirstEntry <= f /\ f <= Last(i) /\ Last(i) = q /\ q \in AllBlocks
    BY <1>5, <1>6, <1>7, <1>8, Zenon
  <2>2. ASSUME NEW l \in Begun, l # i PROVE Last(l) < f
    <3>1. l < i
      BY <1>3, <1>5, <2>2
    <3> QED BY <1>1, <1>5, <1>8, <3>1 DEF ChainsInv
  <2>3. q \in Nat
    BY <2>1
  <2> QED BY <2>1, <2>2, <2>3
<1>10. \A b \in AllBlocks :
        /\ items[b] \subseteq Built /\ IsFiniteSet(items[b])
        /\ Cardinality(items[b]) \in Nat /\ Cardinality(items[b]) <= Capacity
  <2>1. \A b \in AllBlocks : items[b] \subseteq Built /\ IsFiniteSet(items[b])
    BY <1>3, FS_Subset
  <2> QED BY <1>1, <2>1, FS_CardinalityType DEF EntriesInv
\* The page that gets the entry has room for it.
<1>11. /\ p \in AllBlocks /\ nblocks' = p + 1 /\ nblocks' \in 0 .. MaxBlocks
       /\ p = q \/ p = q + 1
       /\ next' \in [AllBlocks -> Blkno] /\ next'[p] = InvalidBlockNumber
       /\ p # q => next'[q] = p /\ Cardinality(items[q]) = Capacity
       /\ \A b \in AllBlocks : b # p /\ b # q => next'[b] = next[b]
       /\ Cardinality(items[p]) < Capacity
       /\ \A b \in AllBlocks : b >= nblocks' =>
            next'[b] = Zeroed /\ lists[b] = <<>> /\ items[b] = {}
  <2>1. CASE full
    <3>1. AppendPage /\ Cardinality(items[q]) >= Capacity
      BY <1>1, <1>2, <2>1 DEF Advance
    <3>2. /\ nblocks \in AllBlocks /\ nblocks' = nblocks + 1 /\ nblocks' \in 0 .. MaxBlocks
          /\ p = nblocks /\ next' \in [AllBlocks -> Blkno]
          /\ \A b \in AllBlocks : next'[b] = IF b = q THEN nblocks
                        ELSE IF b = nblocks THEN InvalidBlockNumber ELSE next[b]
          /\ \A b \in AllBlocks : b >= nblocks' =>
                  next'[b] = Zeroed /\ lists[b] = <<>> /\ items[b] = {}
          /\ items[p] = {}
      BY <1>1, <1>2, <1>3, <3>1, AppendPageIs
    <3>3. p = q + 1 /\ p # q
      BY <1>3, <3>2
    <3>4. Cardinality(items[p]) = 0
      BY <3>2, FS_EmptySet
    <3>5. Cardinality(items[q]) = Capacity
      BY <1>9, <1>10, <3>1
    <3> QED BY <1>9, <3>2, <3>3, <3>4, <3>5
  <2>2. CASE ~full
    <3>1. /\ UNCHANGED <<nblocks, next, buf>> /\ ~(Cardinality(items[q]) >= Capacity)
      BY <1>1, <1>2, <2>2 DEF Advance
    <3>2. p = q /\ nblocks' = p + 1 /\ nblocks' \in 0 .. MaxBlocks
      <4>1. nblocks \in 0 .. MaxBlocks
        BY <1>1 DEF TypeOK
      <4>2. p = q /\ nblocks' = nblocks
        BY <1>2, <3>1, Zenon
      <4> QED BY <1>3, <4>1, <4>2
    <3>3. Cardinality(items[p]) < Capacity
      BY SMTT(30), <1>9, <1>10, <3>1, <3>2
    <3>4. next \in [AllBlocks -> Blkno]
      BY <1>1 DEF TypeOK
    <3>5. next[q] = InvalidBlockNumber
      <4>1. q \in FirstEntry .. nblocks - 1 /\ \E l \in Begun : q = Last(l)
        <5>1. \E l \in Begun : q = Last(l)
          BY <1>5, <1>6
        <5>2. q \in FirstEntry .. nblocks - 1
          BY <1>3, <1>9
        <5> QED BY <5>1, <5>2
      <4> QED BY <1>1, <4>1 DEF ChainsInv
    <3>6. \A b \in AllBlocks : b >= nblocks' =>
            next'[b] = Zeroed /\ lists[b] = <<>> /\ items[b] = {}
      BY <1>1, <3>1 DEF BlocksInv
    <3> QED BY <1>9, <3>1, <3>2, <3>3, <3>4, <3>5, <3>6
  <2> QED BY <2>1, <2>2
<1> HIDE DEF full
<1>12. p \in Nat /\ q <= p /\ f <= p /\ FirstEntry <= p
  BY SMTT(30), <1>9, <1>11
<1>13. \A b \in AllBlocks : items'[b] = IF b = p THEN items[b] \cup {new} ELSE items[b]
  BY <1>1, <1>2, <1>3, <1>11
\* The tuple read next
<1>14. /\ sort' \subseteq sort /\ itup' \notin sort' /\ itup' \in Built \cup {NoRow}
       /\ itup' = NoRow => sort' = {}
       /\ itup' # NoRow => itup' \in sort /\ \A r \in sort' : ListOf[itup'] <= ListOf[r]
       /\ \A r \in sort : r \in sort' \/ r = itup'
  <2>1. sort \subseteq Built
    BY <1>1 DEF TypeOK
  <2> QED BY <1>1, <2>1, NextTuple
<1>15. /\ sort \subseteq TuplesToSort /\ new \in TuplesToSort /\ new \notin sort /\ new \in Built
       /\ ListOf[new] = i /\ \A r \in sort : ListOf[new] <= ListOf[r]
  BY <1>1, <1>2 DEF SortInv
<1>16. TuplesToSort' = TuplesToSort
  BY <1>1 DEF TuplesToSort
<1>17. TypeOK'
  <2>1. items' \in [AllBlocks -> SUBSET Built]
    BY <1>1, <1>2, <1>3, <1>11, <1>15
  <2>2. buf' \in Blkno /\ sort' \in SUBSET Built
    BY <1>1, <1>2, <1>11, <1>14, <1>15
  <2> QED BY <1>1, <1>3, <1>11, <1>14, <2>1, <2>2 DEF TypeOK
<1>18. BlocksInv'
  <2>1. \A b \in AllBlocks : b >= nblocks' => next'[b] = Zeroed /\ lists'[b] = <<>> /\ items'[b] = {}
    <3>1. \A b \in AllBlocks : b >= nblocks' => b # p
      BY <1>11, <1>12
    <3> QED BY <1>1, <1>11, <1>13, <3>1
  <2>2. nblocks' > 0 /\ buf' = nblocks' - 1
    <3>1. nblocks' = p + 1 /\ buf' = p /\ p \in Nat
      BY <1>2, <1>11, <1>12, Zenon
    <3> QED BY <3>1
  <2> QED BY <1>1, <2>1, <2>2 DEF BlocksInv
<1>19. ListPagesInv'
  <2>1. \A b \in 1 .. FirstEntry - 1 : b \in AllBlocks /\ b # p /\ b # q
    BY <1>9, <1>12
  <2>2. \A b \in 1 .. FirstEntry - 1 : next'[b] = next[b]
    BY <1>11, <2>1
  <2> QED BY <1>1, <2>2, ListPagesStay
<1>20. ChainsInv'
  <2>1. nblocks' >= FirstEntry
    BY <1>11, <1>12
  <2>2. ASSUME NEW l \in Begun
        PROVE  FirstEntry <= First(l)' /\ First(l)' <= Last(l)' /\ Last(l)' < nblocks'
    <3>1. CASE l = i
      <4>1. First(l)' = f /\ Last(l)' = p
        BY <1>4, <1>5, <1>6, <1>8, <3>1
      <4> QED BY <1>9, <1>11, <1>12, <4>1
    <3>2. CASE l # i
      <4>1. First(l)' = First(l) /\ Last(l)' = Last(l)
        BY <1>4, <1>6, <3>2
      <4>2. Last(l) < nblocks'
        BY <1>7, <1>9, <1>11, <1>12, <3>2
      <4> QED BY <1>7, <4>1, <4>2
    <3> QED BY <3>1, <3>2
  <2>3. ASSUME NEW l \in Begun, NEW m \in Begun, l < m PROVE Last(l)' < First(m)'
    <3>1. l # i
      BY <1>3, <1>5, <2>3
    <3>2. Last(l)' = Last(l) /\ First(m)' = First(m)
      BY <1>4, <1>6, <3>1
    <3> QED BY <1>1, <2>3, <3>2 DEF ChainsInv
  <2>4. ASSUME NEW b \in FirstEntry .. p
        PROVE  /\ \E l \in Begun : b \in First(l)' .. Last(l)'
               /\ next'[b] = IF \E l \in Begun : b = Last(l)' THEN InvalidBlockNumber ELSE b + 1
    <3>1. b \in AllBlocks /\ b \in Nat
      BY <1>11, <1>12
    <3>2. PICK l0 : l0 = i
      OBVIOUS
    <3>3. l0 \in Begun /\ First(l0)' = f /\ Last(l0)' = p /\ Last(l0) = q
      BY <1>4, <1>5, <1>6, <1>8, <3>2
    <3>4. CASE b = p
      <4>1. b \in f .. p
        BY <1>9, <1>12, <3>4
      <4> QED BY <1>11, <3>3, <3>4, <4>1
    <3>5. CASE b # p
      <4>1. b \in FirstEntry .. nblocks - 1 /\ b <= q /\ b < p
        BY <1>3, <1>9, <1>11, <1>12, <3>5
      <4>2. PICK l \in Begun : b \in First(l) .. Last(l)
        BY <1>1, <4>1 DEF ChainsInv
      <4>3. b \in First(l)' .. Last(l)'
        <5>1. CASE l = i
          <6>1. First(l) = f /\ First(l)' = f /\ Last(l)' = p
            BY <1>4, <1>6, <1>8, <5>1
          <6> QED BY <1>9, <1>12, <4>1, <4>2, <6>1
        <5>2. CASE l # i
          BY <1>4, <1>6, <4>2, <5>2
        <5> QED BY <5>1, <5>2
      <4>4. next[b] = IF \E k \in Begun : b = Last(k) THEN InvalidBlockNumber ELSE b + 1
        BY <1>1, <4>1 DEF ChainsInv
      <4>5. CASE b = q
        <5>1. \A k \in Begun : k # i => b # Last(k)
          BY <1>7, <1>9, <4>5
        <5>2. \A k \in Begun : b # Last(k)'
          BY <1>6, <3>5, <5>1
        <5>3. next'[b] = b + 1
          BY <1>11, <3>5, <4>5
        <5> QED BY <4>2, <4>3, <5>2, <5>3
      <4>6. CASE b # q
        <5>1. \A k \in Begun : b = Last(k)' <=> b = Last(k)
          BY <1>6, <3>5, <4>6
        <5>2. next'[b] = next[b]
          BY <1>11, <3>1, <3>5, <4>6
        <5> QED BY <4>3, <4>4, <5>1, <5>2
      <4> QED BY <4>5, <4>6
    <3> QED BY <3>4, <3>5
  <2>5. nblocks' - 1 = p /\ Begun' = Begun
    BY <1>5, <1>11, <1>12
  <2> QED BY <2>1, <2>2, <2>3, <2>4, <2>5 DEF ChainsInv
<1>21. SortInv'
  <2>1. itup' # NoRow => itup' \in TuplesToSort /\ ListOf[itup'] >= i
    BY <1>3, <1>14, <1>15
  <2> QED BY <1>3, <1>14, <1>15, <1>16, <2>1 DEF SortInv
<1>22. EntriesInv'
  <2>1. \A b \in AllBlocks : \A r \in items[b] :
            /\ r \in TuplesToSort \ (sort \cup {new})
            /\ ListOf[r] \in Begun /\ b \in First(ListOf[r]) .. Last(ListOf[r])
            /\ \A c \in AllBlocks : r \in items[c] => c = b
    BY <1>1, <1>2 DEF EntriesInv
  <2>2. ASSUME NEW b \in AllBlocks, NEW r \in items'[b]
        PROVE  /\ r \in TuplesToSort \ (sort' \cup {itup'})
               /\ ListOf[r] \in Begun /\ b \in First(ListOf[r])' .. Last(ListOf[r])'
               /\ \A c \in AllBlocks : r \in items'[c] => c = b
    <3>1. PICK l : l = ListOf[r]
      OBVIOUS
    <3>2. CASE r # new
      <4>1. \A c \in AllBlocks : r \in items'[c] => r \in items[c]
        BY <1>13, <3>2
      <4>2. /\ r \in TuplesToSort \ (sort \cup {new}) /\ l \in Begun
            /\ b \in First(l) .. Last(l) /\ \A c \in AllBlocks : r \in items[c] => c = b
        BY <2>1, <3>1, <4>1
      <4>3. r \in Built
        BY <4>2, Zenon
      <4>4. r \notin sort' /\ r # itup'
        BY <1>14, <4>2, <4>3
      <4>5. b \in First(l)' .. Last(l)'
        <5>1. CASE l = i
          <6>1. First(l) = f /\ First(l)' = f /\ Last(l)' = p /\ Last(l) = q
            BY <1>4, <1>6, <1>8, <4>2, <5>1
          <6> QED BY <1>9, <1>12, <4>2, <6>1
        <5>2. CASE l # i
          BY <1>4, <1>6, <4>2, <5>2
        <5> QED BY <5>1, <5>2
      <4> QED BY <3>1, <4>1, <4>2, <4>4, <4>5
    <3>3. CASE r = new
      <4>1. \A c \in AllBlocks : r \notin items[c]
        BY <2>1, <3>3
      <4>2. \A c \in AllBlocks : r \in items'[c] => c = p
        BY <1>13, <4>1
      <4>3. l = i /\ l \in Begun /\ b = p
        BY <1>5, <1>15, <3>1, <3>3, <4>2
      <4>4. First(l)' = f /\ Last(l)' = p
        BY <1>4, <1>6, <1>8, <4>3
      <4>5. b \in First(l)' .. Last(l)'
        BY <1>9, <1>12, <4>3, <4>4
      <4>6. r \notin sort' /\ r # itup' /\ r \in TuplesToSort
        BY <1>14, <1>15, <3>3
      <4> QED BY <3>1, <4>2, <4>3, <4>5, <4>6
    <3> QED BY <3>2, <3>3
  <2>3. ASSUME NEW r \in TuplesToSort
        PROVE  r \in sort' \/ r = itup' \/ \E b \in AllBlocks : r \in items'[b]
    <3>1. r \in sort \/ r = new \/ \E b \in AllBlocks : r \in items[b]
      BY <1>1, <1>2 DEF EntriesInv
    <3> QED BY <1>11, <1>13, <1>14, <3>1
  <2>4. /\ \A b \in AllBlocks : Cardinality(items'[b]) <= Capacity
        /\ \A b \in AllBlocks : b # p => items'[b] = items[b]
        /\ items'[p] # {}
    <3>1. Cardinality(items[p] \cup {new}) = Cardinality(items[p]) + 1
      <4>1. new \notin items[p] /\ IsFiniteSet(items[p])
        BY <1>10, <1>11, <2>1
      <4> QED BY <4>1, FS_AddElement
    <3>2. Cardinality(items'[p]) <= Capacity
      <4>1. PICK c : c = Cardinality(items[p])
        OBVIOUS
      <4>2. c \in Nat /\ c < Capacity /\ Cardinality(items'[p]) = c + 1
        BY <1>10, <1>11, <1>13, <3>1, <4>1, Zenon
      <4> QED BY <4>2
    <3> QED BY <1>10, <1>11, <1>13, <3>2
  <2>5. ASSUME NEW l \in Begun, NEW b \in First(l)' .. Last(l)'
        PROVE  /\ b < Last(l)' => Cardinality(items'[b]) = Capacity
               /\ b > First(l)' => items'[b] # {}
    <3>1. \A c \in First(l) .. Last(l) :
            /\ c < Last(l) => Cardinality(items[c]) = Capacity
            /\ c > First(l) => items[c] # {}
      BY <1>1 DEF EntriesInv
    <3>2. CASE l = i
      <4>1. First(l) = f /\ First(l)' = f /\ Last(l)' = p /\ Last(l) = q
        BY <1>4, <1>6, <1>8, <3>2
      <4>2. b \in f .. p /\ b \in Nat /\ b \in AllBlocks
        BY <1>9, <1>11, <1>12, <4>1
      <4>3. CASE b = p
        BY <1>12, <2>4, <4>1, <4>3
      <4>4. CASE b # p
        <5>1. b \in f .. q /\ items'[b] = items[b]
          BY <1>9, <1>11, <2>4, <4>2, <4>4
        <5>2. b = q => Cardinality(items[b]) = Capacity
          BY <1>11, <4>4
        <5>3. b # q => b < q
          BY <1>9, <4>2, <5>1
        <5> QED BY <3>1, <4>1, <5>1, <5>2, <5>3
      <4> QED BY <4>3, <4>4
    <3>3. CASE l # i
      <4>1. First(l)' = First(l) /\ Last(l)' = Last(l)
        BY <1>4, <1>6, <3>3
      <4>2. b # p /\ b \in AllBlocks
        <5>1. /\ First(l) \in Nat /\ Last(l) \in Nat /\ Last(l) \in AllBlocks /\ Last(l) < f
              /\ b \in First(l) .. Last(l)
          BY <1>7, <1>9, <3>3, <4>1
        <5> QED BY <1>9, <1>12, <5>1
      <4> QED BY <2>4, <3>1, <4>1, <4>2
    <3> QED BY <3>2, <3>3
  <2>6. Begun' = Begun
    BY <1>5
  <2> QED BY <1>16, <2>2, <2>3, <2>4, <2>5, <2>6 DEF EntriesInv
<1> QED BY <1>17, <1>18, <1>19, <1>20, <1>21, <1>22, BuildInvFrom

\* ivfflat_update_list finds the tuple of the list and changes no other.
LEMMA UpdateListIs ==
    ASSUME TypeOK, ListPagesInv, Layout, NEW l \in Lists, NEW t \in ListTuple,
           infos' = infos,
           lists' = [lists EXCEPT ![infos[l][1]][infos[l][2]] = t]
    PROVE  /\ lists' \in [AllBlocks -> Seq(ListTuple)]
           /\ \A b \in AllBlocks : Len(lists'[b]) = Len(lists[b])
           /\ \A b \in AllBlocks : b >= FirstEntry => lists'[b] = lists[b]
           /\ \A m \in Lists : Tuple(m)' = IF m = l THEN t ELSE Tuple(m)
<1> USE Layouts, Blocks
<1>1. PICK p, o : p = infos[l][1] /\ o = infos[l][2]
  OBVIOUS
<1>2. /\ p \in 1 .. FirstEntry - 1 /\ o \in 1 .. Len(lists[p])
      /\ l = (p - 1) * ListsPerPage + o
  BY <1>1, TuplePlace
<1>3. p \in AllBlocks /\ lists[p] \in Seq(ListTuple) /\ lists \in [AllBlocks -> Seq(ListTuple)]
  BY <1>2, ListPagesFull DEF TypeOK
<1>4. /\ \A b \in AllBlocks : lists'[b] = IF b = p THEN [lists[p] EXCEPT ![o] = t] ELSE lists[b]
      /\ lists' = [lists EXCEPT ![p] = [lists[p] EXCEPT ![o] = t]]
  BY <1>1, <1>3
<1>5. /\ [lists[p] EXCEPT ![o] = t] \in Seq(ListTuple)
      /\ Len([lists[p] EXCEPT ![o] = t]) = Len(lists[p])
      /\ \A k \in 1 .. Len(lists[p]) :
            [lists[p] EXCEPT ![o] = t][k] = IF k = o THEN t ELSE lists[p][k]
  BY <1>2, <1>3, ExceptSeq
<1>6. lists' \in [AllBlocks -> Seq(ListTuple)]
  BY <1>3, <1>4, <1>5
<1>7. \A b \in AllBlocks : b >= FirstEntry => b # p
  BY <1>2
<1>8. ASSUME NEW m \in Lists PROVE Tuple(m)' = IF m = l THEN t ELSE Tuple(m)
  <2>1. PICK q, k : q = infos[m][1] /\ k = infos[m][2]
    OBVIOUS
  <2>2. /\ q \in 1 .. FirstEntry - 1 /\ k \in 1 .. Len(lists[q])
        /\ m = (q - 1) * ListsPerPage + k
    BY <2>1, TuplePlace
  <2>3. Tuple(m) = lists[q][k] /\ Tuple(m)' = lists'[q][k]
    BY <2>1 DEF Tuple
  <2>4. q \in AllBlocks
    BY <2>2, ListPagesFull
  <2>5. CASE m = l
    <3>1. q = p /\ k = o
      BY <1>1, <2>1, <2>5
    <3> QED BY <1>2, <1>4, <1>5, <2>3, <2>4, <2>5, <3>1
  <2>6. CASE m # l
    <3>1. CASE q = p
      <4>1. k # o
        BY <1>2, <2>2, <2>6, <3>1, Zenon
      <4> QED BY <1>4, <1>5, <2>2, <2>3, <2>4, <2>6, <3>1, <4>1
    <3>2. CASE q # p
      BY <1>4, <2>3, <2>4, <2>6, <3>2
    <3> QED BY <3>1, <3>2
  <2> QED BY <2>5, <2>6
<1> QED BY <1>4, <1>5, <1>6, <1>7, <1>8

\* The list gets the pages of its chain, and the build goes on to the next list.
LEMMA FinishListInv == ASSUME BuildInv, FinishList PROVE BuildInv'
<1> USE Layouts, Blocks, RowsAre
<1> DEFINE t == [start_page |-> start, insert_page |-> buf]
<1>1. /\ TypeOK /\ BlocksInv /\ ListPagesInv /\ ChainsInv /\ SortInv /\ EntriesInv
      /\ pc = "entries" /\ i' = i + 1 /\ pc' = (IF i = NumLists THEN "built" ELSE "list")
      /\ lists' = [lists EXCEPT ![infos[i][1]][infos[i][2]] = t]
      /\ itup # NoRow => ListOf[itup] # i
      /\ UNCHANGED <<status, nblocks, next, items, buf, start, infos, sort, itup>>
      /\ Layout
  BY DEF BuildInv, FinishList, Layout, InList, LastList, UpdateList
<1>2. i \in 1 .. NumLists /\ i \in Lists /\ t \in ListTuple
  BY <1>1 DEF TypeOK, ListTuple
<1>3. Layout' /\ pc' \in {"list", "built"}
  BY <1>1 DEF Layout
<1>4. /\ lists' \in [AllBlocks -> Seq(ListTuple)]
      /\ \A b \in AllBlocks : Len(lists'[b]) = Len(lists[b])
      /\ \A b \in AllBlocks : b >= FirstEntry => lists'[b] = lists[b]
      /\ \A m \in Lists : Tuple(m)' = IF m = i THEN t ELSE Tuple(m)
  <2> HIDE DEF t
  <2> QED BY <1>1, <1>2, UpdateListIs
<1>5. Begun = 1 .. i /\ Begun' = 1 .. i
  <2>1. i' - 1 = i
    BY <1>1, <1>2
  <2> QED BY <1>1, <1>3, <2>1 DEF Begun
<1>6. \A l \in Begun : First(l)' = First(l) /\ Last(l)' = Last(l)
  <2>1. ASSUME NEW l \in Begun PROVE First(l)' = First(l) /\ Last(l)' = Last(l)
    <3>1. l \in Lists /\ l < i' /\ (l < i \/ l = i)
      BY <1>1, <1>2, <1>5
    <3>2. First(l)' = Tuple(l)'.start_page /\ Last(l)' = Tuple(l)'.insert_page
      BY <3>1 DEF First, Last
    <3>3. CASE l = i
      <4>1. Tuple(l)' = t
        BY <1>4, <3>1, <3>3
      <4>2. First(l) = start /\ Last(l) = buf
        BY <1>2, <3>3 DEF First, Last
      <4> QED BY <3>2, <4>1, <4>2
    <3>4. CASE l < i
      <4>1. Tuple(l)' = Tuple(l)
        BY <1>2, <1>4, <3>1, <3>4
      <4> QED BY <3>2, <3>4, <4>1 DEF First, Last
    <3> QED BY <3>1, <3>3, <3>4
  <2> QED BY <2>1
<1> HIDE DEF t
<1>7. TypeOK'
  <2>1. /\ i' \in 1 .. NumLists + 1 /\ (pc' \in {"list", "entries"} => i' \in Lists)
        /\ pc' = "built" => i' = NumLists + 1
    BY SMTT(30), <1>1, <1>2
  <2> QED BY <1>1, <1>3, <1>4, <2>1 DEF TypeOK
<1>8. BlocksInv'
  <2>1. \A b \in AllBlocks : b >= nblocks => b >= FirstEntry
    BY <1>1 DEF ChainsInv, TypeOK
  <2>2. \A b \in AllBlocks : b >= nblocks' => next'[b] = Zeroed /\ lists'[b] = <<>> /\ items'[b] = {}
    BY <1>1, <1>4, <2>1 DEF BlocksInv
  <2> QED BY <1>3, <2>2 DEF BlocksInv
<1>9. ListPagesInv'
  <2>1. /\ LastListPage = FirstEntry - 1 /\ ListsAdded = NumLists /\ Listing
        /\ LastListPage' = FirstEntry - 1 /\ ListsAdded' = NumLists
    BY <1>1, <1>3 DEF Listing, LastListPage, ListsAdded
  <2>2. \A b \in 1 .. FirstEntry - 1 : b \in AllBlocks /\ Len(lists'[b]) = Len(lists[b])
    BY <1>4
  <2>3. \A b \in 1 .. FirstEntry - 2 : b \in 1 .. FirstEntry - 1
    OBVIOUS
  <2>4. FirstEntry - 1 \in 1 .. FirstEntry - 1 /\ (FirstEntry - 1) - 1 = FirstEntry - 2
        /\ HeadBlkno = 1
    OBVIOUS
  <2>5. /\ NumLists = (FirstEntry - 2) * ListsPerPage + Len(lists[FirstEntry - 1])
        /\ Len(lists[FirstEntry - 1]) <= ListsPerPage
        /\ next[FirstEntry - 1] = InvalidBlockNumber
        /\ \A b \in 1 .. FirstEntry - 2 : Len(lists[b]) = ListsPerPage /\ next[b] = b + 1
    BY <1>1, ListPagesFull
  <2>6. \A k \in 1 .. NumLists :
            /\ infos'[k][1] \in 1 .. FirstEntry - 1
            /\ infos'[k][2] \in 1 .. Len(lists'[infos'[k][1]])
            /\ k = (infos'[k][1] - 1) * ListsPerPage + infos'[k][2]
    <3>1. \A k \in Lists :
            /\ infos[k][1] \in 1 .. FirstEntry - 1
            /\ infos[k][2] \in 1 .. Len(lists[infos[k][1]])
            /\ k = (infos[k][1] - 1) * ListsPerPage + infos[k][2]
      BY <1>1, TuplePlace
    <3>2. infos' = infos /\ Lists = 1 .. NumLists
      BY <1>1
    <3> QED BY <2>2, <3>1, <3>2, Zenon
  <2>7. /\ NumLists = (FirstEntry - 2) * ListsPerPage + Len(lists'[FirstEntry - 1])
        /\ Len(lists'[FirstEntry - 1]) <= ListsPerPage
        /\ next'[FirstEntry - 1] = InvalidBlockNumber
        /\ \A b \in 1 .. FirstEntry - 2 : Len(lists'[b]) = ListsPerPage /\ next'[b] = b + 1
    <3>1. next' = next
      BY <1>1
    <3> QED BY <2>2, <2>3, <2>4, <2>5, <3>1, Zenon
  <2> QED BY <2>1, <2>4, <2>6, <2>7, Zenon DEF ListPagesInv
<1>10. ChainsInv'
  <2>1. /\ nblocks >= FirstEntry
        /\ \A l \in Begun : FirstEntry <= First(l) /\ First(l) <= Last(l) /\ Last(l) < nblocks
        /\ \A l, m \in Begun : l < m => Last(l) < First(m)
        /\ \A b \in FirstEntry .. nblocks - 1 : \E l \in Begun : b \in First(l) .. Last(l)
        /\ \A b \in FirstEntry .. nblocks - 1 :
                next[b] = IF \E l \in Begun : b = Last(l) THEN InvalidBlockNumber ELSE b + 1
    BY <1>1 DEF ChainsInv
  <2>2. Begun' = Begun /\ nblocks' = nblocks /\ next' = next
    BY <1>1, <1>5
  <2>3. \A b \in FirstEntry .. nblocks - 1 : \E l \in Begun : b \in First(l)' .. Last(l)'
    BY <1>6, <2>1, Zenon
  <2>4. \A b : (\E l \in Begun : b = Last(l)') <=> (\E l \in Begun : b = Last(l))
    BY <1>6, Zenon
  <2> QED BY <1>6, <2>1, <2>2, <2>3, <2>4 DEF ChainsInv
<1>11. TuplesToSort' = TuplesToSort
  BY <1>1 DEF TuplesToSort
<1>12. SortInv'
  <2>1. /\ sort \subseteq TuplesToSort /\ itup \notin sort
        /\ itup = NoRow => sort = {}
        /\ itup # NoRow =>
            /\ itup \in TuplesToSort /\ ListOf[itup] >= i
            /\ \A r \in sort : ListOf[itup] <= ListOf[r]
    BY <1>1 DEF SortInv
  <2>2. itup # NoRow => ListOf[itup] >= i'
    BY <1>1, <1>2, <2>1
  <2> QED BY <1>1, <1>11, <2>1, <2>2 DEF SortInv
<1>13. EntriesInv'
  <2>1. \A b \in AllBlocks : \A r \in items[b] :
            /\ r \in TuplesToSort \ (sort \cup {itup})
            /\ ListOf[r] \in Begun /\ b \in First(ListOf[r]) .. Last(ListOf[r])
            /\ \A c \in AllBlocks : r \in items[c] => c = b
    BY <1>1 DEF EntriesInv
  <2>2. ASSUME NEW b \in AllBlocks, NEW r \in items[b]
        PROVE  b \in First(ListOf[r])' .. Last(ListOf[r])'
    <3>1. PICK l : l = ListOf[r]
      OBVIOUS
    <3> QED BY <1>6, <2>1, <3>1, Zenon
  <2>3. \A l \in Begun : \A b \in First(l)' .. Last(l)' :
            /\ b < Last(l)' => Cardinality(items[b]) = Capacity
            /\ b > First(l)' => items[b] # {}
    <3>1. \A l \in Begun : \A b \in First(l) .. Last(l) :
            /\ b < Last(l) => Cardinality(items[b]) = Capacity
            /\ b > First(l) => items[b] # {}
      BY <1>1 DEF EntriesInv
    <3> QED BY <1>6, <3>1
  <2>4. Begun' = Begun /\ items' = items /\ sort' = sort /\ itup' = itup
    BY <1>1, <1>5
  <2>5. /\ \A r \in TuplesToSort : r \in sort \/ r = itup \/ \E b \in AllBlocks : r \in items[b]
        /\ \A b \in AllBlocks : Cardinality(items[b]) <= Capacity
    BY <1>1 DEF EntriesInv
  <2> QED BY <1>11, <2>1, <2>2, <2>3, <2>4, <2>5 DEF EntriesInv
<1> QED BY <1>7, <1>8, <1>9, <1>10, <1>12, <1>13, BuildInvFrom

\* A build that fails leaves the file as it is; nobody will see it.
LEMMA BuildErrorInv == ASSUME BuildInv, BuildError PROVE BuildInv'
<1>1. /\ TypeOK /\ BlocksInv /\ pc' = "failed"
      /\ UNCHANGED <<status, nblocks, next, lists, items, i, buf, start, infos, sort, itup>>
  BY DEF BuildInv, BuildError, file, locals
<1>2. TypeOK' /\ BlocksInv'
  BY <1>1 DEF TypeOK, BlocksInv
<1>3. ~Listing' /\ ~Layout'
  BY <1>1 DEF Listing, Layout
<1> QED BY <1>1, <1>2, <1>3, NoLayoutYet DEF ListPagesInv

LEMMA UnchangedInv == ASSUME BuildInv, UNCHANGED vars PROVE BuildInv'
<1>1. /\ TypeOK /\ BlocksInv /\ ListPagesInv /\ ChainsInv /\ SortInv /\ EntriesInv
      /\ UNCHANGED <<status, nblocks, next, lists, items, pc, i, buf, start, infos, sort, itup>>
  BY DEF BuildInv, vars, file, locals
<1>2. TypeOK' /\ BlocksInv'
  BY <1>1 DEF TypeOK, BlocksInv
<1>3. ListPagesInv'
  BY <1>1 DEF ListPagesInv, Listing, LastListPage, ListsAdded
<1>4. /\ Begun' = Begun /\ TuplesToSort' = TuplesToSort /\ Layout' = Layout
      /\ \A l : First(l)' = First(l) /\ Last(l)' = Last(l)
  BY <1>1 DEF Begun, TuplesToSort, Layout, First, Last, Tuple
<1>5. ChainsInv'
  BY <1>1, <1>4 DEF ChainsInv
<1>6. SortInv'
  BY <1>1, <1>4 DEF SortInv
<1>7. EntriesInv'
  BY <1>1, <1>4 DEF EntriesInv
<1> QED BY <1>2, <1>3, <1>5, <1>6, <1>7, BuildInvFrom

\* At every step of the build: the blocks used so far are those of the metapage,
\* of full list pages and of one chain after the other; the tuple of every list is
\* found from the head, where the build believes it is; and every row is in the
\* sort or once in the chain of its own list.
THEOREM BuildInvariant == Spec => []BuildInv
<1>1. Init => BuildInv
  BY InitInv
<1>2. ASSUME BuildInv, [Next]_vars PROVE BuildInv'
  <2>1. CASE Next
    BY <1>2, <2>1, CreateMetaPageInv, CreateHeadPageInv, AddListInv, ScanTuplesInv,
       StartListInv, AddEntryInv, FinishListInv, BuildErrorInv, UnchangedInv DEF Next, Ended
  <2>2. CASE UNCHANGED vars
    BY <1>2, <2>2, UnchangedInv
  <2> QED BY <1>2, <2>1, <2>2
<1> QED BY <1>1, <1>2, PTL DEF Spec

-----------------------------------------------------------------------------
(* The finished build.                                                     *)

\* The chains of a finished build
LEMMA BuiltChains ==
    ASSUME BuildInv, pc = "built"
    PROVE  /\ Layout /\ i = NumLists + 1 /\ Begun = Lists /\ sort = {} /\ itup = NoRow
           /\ \A l \in Lists :
                /\ First(l) = ListTuples[l].start_page /\ Last(l) = ListTuples[l].insert_page
                /\ First(l) \in FirstEntry .. MaxBlocks - 1 /\ Last(l) \in FirstEntry .. MaxBlocks - 1
                /\ First(l) <= Last(l) /\ Last(l) < nblocks
<1> USE Layouts, Blocks, RowsAre
<1>1. TypeOK /\ ListPagesInv /\ ChainsInv /\ SortInv /\ Layout
  BY DEF BuildInv, Layout
<1>2. i = NumLists + 1
  BY <1>1 DEF TypeOK
<1>3. Begun = Lists
  BY <1>2 DEF Begun
<1>4. itup = NoRow
  <2>1. SUFFICES ASSUME itup # NoRow PROVE FALSE
    OBVIOUS
  <2>2. itup \in TuplesToSort /\ ListOf[itup] >= i
    BY <1>1, <2>1 DEF SortInv
  <2> QED BY <1>2, <2>2
<1>5. sort = {}
  BY <1>1, <1>4 DEF SortInv
<1>6. \A l \in Lists :
        First(l) = ListTuples[l].start_page /\ Last(l) = ListTuples[l].insert_page
  BY <1>1, <1>2, TuplesFound DEF First, Last
<1>7. ASSUME NEW l \in Lists
      PROVE  /\ First(l) \in FirstEntry .. MaxBlocks - 1 /\ Last(l) \in FirstEntry .. MaxBlocks - 1
             /\ First(l) <= Last(l) /\ Last(l) < nblocks
  <2>1. /\ First(l) \in Nat /\ Last(l) \in Nat /\ Last(l) \in AllBlocks
        /\ FirstEntry <= First(l) /\ First(l) <= Last(l) /\ Last(l) < nblocks
    BY <1>1, <1>3, ChainsAre
  <2> QED BY <2>1
<1> QED BY <1>1, <1>2, <1>3, <1>4, <1>5, <1>6, <1>7

LEMMA BuiltRowsReady ==
    ASSUME BuildInv, pc = "built" PROVE Index!BuiltRows
<1>1. status \in [Built -> {"done", "live", "dead"}]
  BY DEF BuildInv, TypeOK
<1>2. /\ TidOf \in [Built -> Tids] /\ NoTid \notin Tids
      /\ \A q, r \in Built : TidOf[q] = TidOf[r] => q = r
  BY BuildAssumption
<1>3. \A r \in Built : TidOf[r] # NoTid /\ status[r] # "new"
  BY <1>1, <1>2
<1>4. TidOf \in [Built -> Tids \cup {NoTid}]
  BY <1>2
<1>5. status \in [Built -> {"new", "dead"} \cup {"done", "live"}]
  BY <1>1
<1> QED BY <1>2, <1>3, <1>4, <1>5 DEF Index!BuiltRows, Index!Present

LEMMA BuiltPagesReady ==
    ASSUME BuildInv, pc = "built" PROVE Index!BuiltPages
<1> USE Layouts, Blocks
<1>1. TypeOK /\ ChainsInv /\ BlocksInv
  BY DEF BuildInv
<1>2. nblocks \in FirstEntry .. MaxBlocks
  BY <1>1, BuiltChains DEF ChainsInv, TypeOK
<1> DEFINE st == [l \in Lists |-> ListTuples[l].start_page]
           ins == [l \in Lists |-> ListTuples[l].insert_page]
<1>3. \A l \in Lists :
        /\ st[l] = First(l) /\ ins[l] = Last(l) /\ st[l] \in Entries /\ ins[l] \in Entries
        /\ st[l] <= ins[l] /\ ins[l] < nblocks
  BY BuiltChains DEF Entries
<1>4. st \in [Lists -> Entries] /\ ins \in [Lists -> Entries]
  <2>1. /\ st = [l \in Lists |-> st[l]] /\ ins = [l \in Lists |-> ins[l]]
    OBVIOUS
  <2> HIDE DEF st, ins
  <2> QED BY <1>3, <2>1
<1> HIDE DEF st, ins
<1>5. /\ \A l, m \in Lists : l < m => ins[l] < st[m]
      /\ \A b \in FirstEntry .. nblocks - 1 : \E l \in Lists : b \in st[l] .. ins[l]
      /\ \A b \in FirstEntry .. nblocks - 1 :
            next[b] = IF \E l \in Lists : b = ins[l] THEN InvalidBlockNumber ELSE b + 1
  <2>1. /\ \A l, m \in Lists : l < m => Last(l) < First(m)
        /\ \A b \in FirstEntry .. nblocks - 1 : \E l \in Lists : b \in First(l) .. Last(l)
        /\ \A b \in FirstEntry .. nblocks - 1 :
            next[b] = IF \E l \in Lists : b = Last(l) THEN InvalidBlockNumber ELSE b + 1
    BY <1>1, BuiltChains DEF ChainsInv
  <2>2. \A l \in Lists : st[l] = First(l) /\ ins[l] = Last(l)
    BY <1>3
  <2>3. \A b : (\E l \in Lists : b = ins[l]) <=> (\E l \in Lists : b = Last(l))
    BY <2>2, Zenon
  <2>4. \A b \in FirstEntry .. nblocks - 1 : \E l \in Lists : b \in st[l] .. ins[l]
    BY <2>1, <2>2, Zenon
  <2> QED BY <2>1, <2>2, <2>3, <2>4
<1>6. UNION {st[l] .. ins[l] : l \in Lists} = FirstEntry .. nblocks - 1
  <2>1. ASSUME NEW l \in Lists, NEW b \in st[l] .. ins[l] PROVE b \in FirstEntry .. nblocks - 1
    <3>1. st[l] \in Entries /\ ins[l] \in Entries /\ ins[l] < nblocks
      BY <1>3
    <3> QED BY <1>2, <3>1 DEF Entries
  <2> QED BY SMTT(30), <1>5, <2>1
<1>7. \A b \in Entries : next[b] = IF b >= nblocks THEN Zeroed
                                   ELSE IF \E l \in Lists : b = ins[l]
                                   THEN InvalidBlockNumber ELSE b + 1
  <2>1. ASSUME NEW b \in Entries
        PROVE  /\ b >= nblocks => next[b] = Zeroed
               /\ ~(b >= nblocks) => b \in FirstEntry .. nblocks - 1
    BY <1>1, <1>2 DEF BlocksInv, Entries
  <2> QED BY <1>5, <2>1
<1>8. Index!Lists = Lists /\ Index!Block = Entries /\ Index!Zeroed = Zeroed
      /\ Index!InvalidBlockNumber = InvalidBlockNumber
  BY DEF Index!Lists, Index!Block, Index!Zeroed, Index!InvalidBlockNumber, Entries, Zeroed,
         InvalidBlockNumber
<1>9. \A l \in Lists : Index!PagesOf(l) = st[l] .. ins[l]
  BY DEF Index!PagesOf, st, ins
<1>10. UNION {Index!PagesOf(l) : l \in Lists} = FirstEntry .. nblocks - 1
  BY <1>6, <1>9
<1>11. /\ st \in [Lists -> Entries] /\ ins \in [Lists -> Entries]
       /\ \A l \in Lists : st[l] <= ins[l]
       /\ [b \in Entries |-> next[b]] = [b \in Entries |->
            IF b >= nblocks THEN Zeroed
            ELSE IF \E l \in Lists : b = ins[l] THEN InvalidBlockNumber ELSE b + 1]
  BY <1>3, <1>4, <1>7
<1> QED BY <1>2, <1>5, <1>8, <1>10, <1>11 DEF Index!BuiltPages, st, ins

\* The instance counts entries with the Cardinality of this module.
LEMMA SameCardinality ==
    ASSUME NEW S
    PROVE  Cardinality(S) = Index!Cardinality(S)
BY Zenon DEF Cardinality, Index!Cardinality

LEMMA BuiltItemsReady ==
    ASSUME BuildInv, pc = "built" PROVE Index!BuiltItems
<1> USE Layouts, Blocks, RowsAre
<1> DEFINE at == [r \in Built |-> IF \E b \in AllBlocks : r \in items[b]
                                  THEN CHOOSE b \in AllBlocks : r \in items[b]
                                  ELSE InvalidBlockNumber]
<1>1. /\ \A b \in AllBlocks : \A r \in items[b] :
            /\ r \in TuplesToSort /\ ListOf[r] \in Lists
            /\ b \in First(ListOf[r]) .. Last(ListOf[r])
            /\ \A c \in AllBlocks : r \in items[c] => c = b
      /\ \A r \in TuplesToSort : \E b \in AllBlocks : r \in items[b]
      /\ \A b \in AllBlocks : Cardinality(items[b]) <= Capacity
      /\ \A l \in Lists : \A b \in First(l) .. Last(l) :
            /\ b < Last(l) => Cardinality(items[b]) = Capacity
            /\ b > First(l) => items[b] # {}
  <2>1. EntriesInv /\ Layout /\ Begun = Lists /\ sort = {} /\ itup = NoRow
    BY BuiltChains DEF BuildInv
  <2>2. \A r \in TuplesToSort : r \in Built /\ r # NoRow
    BY Zenon
  <2> QED BY <2>1, <2>2 DEF EntriesInv
<1>2. \A l \in Lists :
        /\ First(l) = ListTuples[l].start_page /\ Last(l) = ListTuples[l].insert_page
        /\ First(l) \in Entries /\ Last(l) \in Entries
  BY BuiltChains DEF Entries
<1>3. \A l \in Lists : Index!PagesOf(l) = First(l) .. Last(l)
  BY <1>2 DEF Index!PagesOf
<1>4. \A l \in Lists : \A b \in First(l) .. Last(l) : b \in Entries
  <2>1. ASSUME NEW l \in Lists, NEW b \in First(l) .. Last(l) PROVE b \in Entries
    <3>1. First(l) \in Entries /\ Last(l) \in Entries
      BY <1>2
    <3> QED BY <3>1 DEF Entries
  <2> QED BY <2>1
<1>5. \A r \in Built : \A b \in AllBlocks : at[r] = b <=> r \in items[b]
  <2>1. ASSUME NEW r \in Built PROVE \A b \in AllBlocks : at[r] = b <=> r \in items[b]
    <3>1. CASE \E b \in AllBlocks : r \in items[b]
      <4>1. at[r] = CHOOSE b \in AllBlocks : r \in items[b]
        BY <3>1
      <4>2. at[r] \in AllBlocks /\ r \in items[at[r]]
        <5> HIDE DEF at
        <5> QED BY <3>1, <4>1
      <4> HIDE DEF at
      <4> QED BY <1>1, <4>2
    <3>2. CASE ~ \E b \in AllBlocks : r \in items[b]
      <4>1. at[r] = InvalidBlockNumber
        BY <3>2
      <4>2. InvalidBlockNumber \notin AllBlocks
        OBVIOUS
      <4> HIDE DEF at
      <4> QED BY <3>2, <4>1, <4>2
    <3> QED BY <3>1, <3>2
  <2> QED BY <2>1
<1>6. \A r \in Built : IF r \in TuplesToSort
                       THEN ListOf[r] \in Lists /\ at[r] \in First(ListOf[r]) .. Last(ListOf[r])
                       ELSE at[r] = InvalidBlockNumber
  <2>1. ASSUME NEW r \in Built, r \in TuplesToSort
        PROVE  ListOf[r] \in Lists /\ at[r] \in First(ListOf[r]) .. Last(ListOf[r])
    <3>1. PICK b \in AllBlocks : r \in items[b]
      BY <1>1, <2>1
    <3>2. at[r] = b
      <4> HIDE DEF at
      <4> QED BY <1>5, <3>1
    <3> HIDE DEF at
    <3> QED BY <1>1, <3>1, <3>2
  <2>2. ASSUME NEW r \in Built, r \notin TuplesToSort PROVE at[r] = InvalidBlockNumber
    BY <1>1, <2>2
  <2> HIDE DEF at
  <2> QED BY <2>1, <2>2
<1>7. Index!Lists = Lists /\ Index!Block = Entries /\ Index!NotIndexed = 0
      /\ Index!InvalidBlockNumber = InvalidBlockNumber /\ Index!Present = {"done", "live"}
      /\ Index!Blkno = Entries \cup {InvalidBlockNumber}
  BY DEF Index!Lists, Index!Block, Index!Blkno, Index!InvalidBlockNumber, Entries,
         InvalidBlockNumber, Index!NotIndexed, Index!Present
<1>8. \A r \in Built : r \in TuplesToSort <=> status[r] \in {"done", "live"} /\ ListOf[r] # 0
  BY DEF BuildInv, TypeOK, TuplesToSort, NotIndexed
<1>9. at \in [Built -> Entries \cup {InvalidBlockNumber}]
  <2>1. at = [r \in Built |-> at[r]]
    OBVIOUS
  <2> HIDE DEF at
  <2> QED BY <1>4, <1>6, <2>1
<1>10. [b \in Entries |-> items[b]] = [b \in Entries |-> {r \in Built : at[r] = b}]
  <2>1. ASSUME NEW b \in Entries PROVE items[b] = {r \in Built : at[r] = b}
    <3>1. b \in AllBlocks
      BY DEF Entries
    <3>2. items[b] \subseteq Built
      BY <1>1, <3>1
    <3> HIDE DEF at
    <3> QED BY <1>5, <3>1, <3>2
  <2> HIDE DEF at
  <2> QED BY <2>1
<1> HIDE DEF at
<1>11. \A r \in Built : IF status[r] \in Index!Present /\ ListOf[r] # Index!NotIndexed
                        THEN at[r] \in Index!PagesOf(ListOf[r])
                        ELSE at[r] = Index!InvalidBlockNumber
  BY <1>3, <1>6, <1>7, <1>8
<1>12. /\ \A b \in Entries : Cardinality(items[b]) <= Capacity
       /\ \A l \in Lists : \A b \in Index!PagesOf(l) :
            /\ b \in Entries
            /\ b < ListTuples[l].insert_page => Cardinality(items[b]) = Capacity
            /\ b > ListTuples[l].start_page => items[b] # {}
  <2>1. \A b \in Entries : b \in AllBlocks
    BY DEF Entries
  <2>2. ASSUME NEW l \in Lists, NEW b \in Index!PagesOf(l)
        PROVE  /\ b \in Entries
               /\ b < ListTuples[l].insert_page => Cardinality(items[b]) = Capacity
               /\ b > ListTuples[l].start_page => items[b] # {}
    <3>1. b \in First(l) .. Last(l)
      BY <1>3, <2>2, Zenon
    <3>2. First(l) = ListTuples[l].start_page /\ Last(l) = ListTuples[l].insert_page
      BY <1>2, Zenon
    <3>3. /\ b < Last(l) => Cardinality(items[b]) = Capacity
          /\ b > First(l) => items[b] # {}
      BY <1>1, <3>1, Zenon
    <3> QED BY <1>4, <3>1, <3>2, <3>3, Zenon
  <2> QED BY <1>1, <2>1, <2>2
<1>13. /\ \A l \in Lists :
            /\ [k \in Lists |-> ListTuples[k].insert_page][l] = ListTuples[l].insert_page
            /\ [k \in Lists |-> ListTuples[k].start_page][l] = ListTuples[l].start_page
       /\ \A b \in Entries : [c \in Entries |-> items[c]][b] = items[b]
  OBVIOUS
<1>14. \A S : Index!Cardinality(S) = Cardinality(S)
  BY SameCardinality
<1>15. \E a \in [Built -> Index!Blkno] :
         /\ \A r \in Built : IF status[r] \in Index!Present /\ ListOf[r] # Index!NotIndexed
                             THEN a[r] \in Index!PagesOf(ListOf[r])
                             ELSE a[r] = Index!InvalidBlockNumber
         /\ [b \in Entries |-> items[b]] = [b \in Index!Block |-> {r \in Built : a[r] = b}]
  BY <1>7, <1>9, <1>10, <1>11
<1>16. /\ \A b \in Index!Block :
            Index!Cardinality([c \in Entries |-> items[c]][b]) <= Capacity
       /\ \A l \in Index!Lists : \A b \in Index!PagesOf(l) :
            /\ b < [k \in Lists |-> ListTuples[k].insert_page][l] =>
                    Index!Cardinality([c \in Entries |-> items[c]][b]) = Capacity
            /\ b > [k \in Lists |-> ListTuples[k].start_page][l] =>
                    [c \in Entries |-> items[c]][b] # {}
  BY <1>7, <1>12, <1>13, <1>14
<1> QED BY <1>15, <1>16 DEF Index!BuiltItems

\* A finished build is a state the concurrent index may start from: every row that
\* is not dead is in the chain of its list once, every chain runs from start_page
\* to insert_page, and no block is outside of them.
THEOREM BuiltIndexReady == Spec => []BuiltIndexIsReady
<1>1. BuildInv => BuiltIndexIsReady
  <2> SUFFICES ASSUME BuildInv, pc = "built" PROVE Index!Init
    BY DEF BuiltIndexIsReady
  <2>1. Index!BuiltRows /\ Index!BuiltPages /\ Index!BuiltItems
    BY BuiltRowsReady, BuiltPagesReady, BuiltItemsReady
  <2>2. Index!Block = Entries /\ Index!InvalidBlockNumber = InvalidBlockNumber
    BY DEF Index!Block, Index!InvalidBlockNumber, Entries, InvalidBlockNumber
  <2> QED BY <2>1, <2>2 DEF Index!Init, Nobody, Nowhere
<1> QED BY <1>1, BuildInvariant, PTL
=============================================================================
