---------------------------- MODULE IvfflatOpclass ----------------------------
(***************************************************************************)
(* What the support functions of the three operator classes make of        *)
(* vectors and distances between the executor and the index: which form of *)
(* a row is stored, which list it goes to, and in which order a scan       *)
(* returns rows.  Elements are integers and everything is exact: a vector  *)
(* [v, n] stands for v divided by the square root of n, a distance is      *)
(* represented by a fraction <<p, q>> that orders the same.                *)
(***************************************************************************)
EXTENDS Integers, Sequences, FiniteSetsExt

CONSTANTS
    Elements,      \* of a vector: integers, not only 0
    Dim, ListCount,
    MaxRows

VARIABLES
    opclass,
    sampled,      \* the centers come from the k-means, not from ivfflat_random_centers
    centers,
    rows,         \* vectors stored in the table
    index         \* the entries: the row, the stored form and the list

vars == <<opclass, sampled, centers, rows, index>>

Vectors == [1 .. Dim -> Elements]
Zero == [k \in 1 .. Dim |-> 0]
Raw(v) == [v |-> v, n |-> 1]

Dot(v, w) == MapThenSumSet(LAMBDA k : v[k] * w[k], 1 .. Dim)
hvector_norm_nonzero(v) == v # Zero
hvector_l2_normalize(x) == IF x.v = Zero THEN Raw(Zero) ELSE [v |-> x.v, n |-> Dot(x.v, x.v)]

Before(d, e) == d[1] * e[2] < e[1] * d[2]
Abs(z) == IF z < 0 THEN -z ELSE z

\* A square keeps its sign here, so that squares order as the numbers do.
Square(z) == z * Abs(z)

\* l2 is only used on vectors that nobody normalized.
hvector_l2_squared_distance(x, y) ==
    <<MapThenSumSet(LAMBDA k : (x.v[k] - y.v[k]) * (x.v[k] - y.v[k]), 1 .. Dim), 1>>
hvector_l2_distance(x, y) == hvector_l2_squared_distance(x, y)
hvector_negative_inner_product(x, y) == <<-Square(Dot(x.v, y.v)), x.n * y.n>>

\* 1 less the cosine, and the angle, order as the negative cosine does.
hvector_cosine_distance(x, y) ==
    <<-Square(Dot(x.v, y.v)), Dot(x.v, x.v) * Dot(y.v, y.v)>>
hvector_spherical_distance(x, y) ==
    LET d == hvector_negative_inner_product(x, y)
    IN  IF Before(<<1, 1>>, d) THEN <<1, 1>> ELSE IF Before(d, <<-1, 1>>) THEN <<-1, 1>> ELSE d

\* CREATE OPERATOR CLASS: the operator to order by, and support functions 1 to 4
Opclasses == {"hvector_l2_ops", "hvector_ip_ops", "hvector_cosine_ops"}
Operator(x, y) ==
    CASE opclass = "hvector_l2_ops" -> hvector_l2_distance(x, y)
      [] opclass = "hvector_ip_ops" -> hvector_negative_inner_product(x, y)
      [] opclass = "hvector_cosine_ops" -> hvector_cosine_distance(x, y)
VectorDistance(x, y) ==
    IF opclass = "hvector_l2_ops" THEN hvector_l2_squared_distance(x, y)
    ELSE hvector_negative_inner_product(x, y)
HasNormalization == opclass = "hvector_cosine_ops"
KmeansDistance(x, y) ==
    IF opclass = "hvector_l2_ops" THEN hvector_l2_distance(x, y)
    ELSE hvector_spherical_distance(x, y)
HasKmeansNormalization_Cosine == opclass = "hvector_cosine_ops"
HasKmeansNormalization == opclass \in {"hvector_ip_ops", "hvector_cosine_ops"}
-----------------------------------------------------------------------------
\* The form of a row in the index, of a center, of a sample in the k-means, and
\* of the value a scan looks for
Stored_Raw(v) == Raw(v)
Stored(v) == IF HasNormalization THEN hvector_l2_normalize(Raw(v)) ELSE Raw(v)
Center(v, kmeans) ==
    IF (IF kmeans THEN HasKmeansNormalization ELSE HasNormalization)
    THEN hvector_l2_normalize(Raw(v)) ELSE Raw(v)
Sample(v) == IF HasKmeansNormalization THEN hvector_l2_normalize(Raw(v)) ELSE Raw(v)
ScanValue(q) == IF HasNormalization THEN hvector_l2_normalize(Raw(q)) ELSE Raw(q)

\* The first of the nearest centers (see CenterSearch)
NearestCenter(distances) ==
    Min({c \in DOMAIN distances : \A e \in DOMAIN distances : ~Before(distances[e], distances[c])})
ListOf(x) == NearestCenter([c \in 1 .. ListCount |-> VectorDistance(x, centers[c])])

Init ==
    /\ opclass \in Opclasses /\ sampled \in BOOLEAN
    /\ \E dirs \in [1 .. ListCount -> Vectors \ {Zero}] :
        centers = [c \in 1 .. ListCount |-> Center(dirs[c], sampled)]
    /\ rows = {} /\ index = {}

Full == Cardinality(rows) = MaxRows     \* the bound of the model

\* aminsert, or the build for a row that is already there
Insert(v) ==
    /\ v \notin rows /\ ~Full
    /\ rows' = rows \cup {v}
    /\ index' = IF HasNormalization /\ ~hvector_norm_nonzero(v) THEN index
                ELSE index \cup {[row |-> v, stored |-> Stored(v),
                                  list |-> ListOf(Stored(v))]}
    /\ UNCHANGED <<opclass, sampled, centers>>

Next == \E v \in Vectors : Insert(v)

Spec == Init /\ [][Next]_vars
-----------------------------------------------------------------------------
\* A scan sorts by support function 1 on the stored forms: this is the order the
\* operator of the class gives the rows themselves, ties included.  The operator
\* has no value for the zero vector in hvector_cosine_ops.
ScanOrderIsOperators ==
    \A q \in Vectors \ (IF opclass = "hvector_cosine_ops" THEN {Zero} ELSE {}) :
        \A e, f \in index :
            Before(VectorDistance(e.stored, ScanValue(q)), VectorDistance(f.stored, ScanValue(q)))
                <=> Before(Operator(Raw(e.row), Raw(q)), Operator(Raw(f.row), Raw(q)))

\* With the centers of the k-means, a row is put into the list of the center that
\* the k-means, with other support functions, would have assigned it to: the
\* lists are the clusters.
ListsAreClusters ==
    sampled =>
        \A e \in index : hvector_norm_nonzero(e.row) =>
            e.list = NearestCenter(
                [c \in 1 .. ListCount |-> KmeansDistance(Sample(e.row), centers[c])])
===============================================================================
