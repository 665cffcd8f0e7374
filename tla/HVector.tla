------------------------------- MODULE HVector -------------------------------
(***************************************************************************)
(* Values and functions of the type hvector (vector.c).  A vector is the   *)
(* sequence of its elements.  A float is an integer, its number of units,  *)
(* the least positive float: results are rounded to floats, so that sums   *)
(* lose digits, products underflow, and what is beyond MaxFloat is         *)
(* infinite.  A call that ends in ereport(ERROR) has the value Error.      *)
(*                                                                         *)
(* An operator whose name ends in _ and the name of a fault is the one     *)
(* after it with that fault seeded, to see the properties fail.            *)
(***************************************************************************)
EXTENDS Integers, Sequences, FiniteSetsExt

CONSTANTS
    MaxDim,        \* VECTOR_MAX_DIM
    MaxFloat,      \* FLT_MAX, in units
    Magnitudes,    \* the floats that are neither negative nor infinite, in units
    Unit,          \* units in 1.0
    MaxInt,        \* PG_INT32_MAX
    BitsPerByte    \* bits_per_byte of hvector_binary_quantize

\* The unit in the last place of FLT_MAX, and what follows it in the order of floats
Ulp == MaxFloat - Max(Magnitudes \ {MaxFloat})
Inf == MaxFloat + Ulp
NaN == Inf + 1

\* Floats are nowhere further apart than at FLT_MAX.
ASSUME HVectorAssumption ==
    /\ MaxDim \in Nat \ {0} /\ MaxInt \in Nat /\ MaxDim < MaxInt
    /\ Unit \in Nat \ {0} /\ BitsPerByte \in Nat \ {0}
    /\ MaxFloat \in Nat \ {0} /\ Magnitudes \subseteq 0 .. MaxFloat /\ {0, MaxFloat} \subseteq Magnitudes
    /\ \A m \in Magnitudes : \E l \in Magnitudes \cup {Inf} : m < l /\ l <= m + Ulp

Finite == Magnitudes \cup {-m : m \in Magnitudes}
IsInf(x) == x \in {Inf, -Inf}

Dims == 1 .. MaxDim
Vectors == UNION {[1 .. n -> Finite] : n \in Dims}
Error == <<>>

Int32 == -MaxInt - 1 .. MaxInt
Wrap(x) == ((x + MaxInt + 1) % (2 * MaxInt + 2)) - MaxInt - 1

\* The float nearest to p / q units.  Half way between two of them it is the one
\* with an even mantissa; mantissas are even at every second float.
EvenMantissa(m) == Cardinality({l \in Magnitudes : l < m}) % 2 = 0
NearestFloat(p, q) ==
    LET below == Max({m \in Magnitudes \cup {Inf} : m * q <= p})
        above == Min({m \in Magnitudes \cup {Inf} : m * q > p})
    IN  IF \/ p >= Inf * q
           \/ 2 * p < (below + above) * q
           \/ 2 * p = (below + above) * q /\ EvenMantissa(below)
        THEN below ELSE above
ToFloat(p, q) == IF p < 0 THEN -NearestFloat(-p, q) ELSE NearestFloat(p, q)
Times(x, y) == ToFloat(x * y, Unit)

Abs(x) == IF x < 0 THEN -x ELSE x

SumOver(f(_), S) == MapThenSumSet(f, S)

\* b to the n
Power(b, n) ==
    LET power[k \in Nat] == IF k = 0 THEN 1 ELSE b * power[k - 1] IN power[n]
-----------------------------------------------------------------------------
CheckDim(dim) == dim \in Dims

CheckDims_AtMost(a, b) == Len(a) <= Len(b)
CheckDims(a, b) == Len(a) = Len(b)

CheckExpectedDim(typmod, dim) == typmod = -1 \/ typmod = dim

hvector_typmod_in(tl) == Len(tl) = 1 /\ CheckDim(tl[1])

is_valid_float(x) == x # NaN /\ ~IsInf(x)

\* The loop that calls float_overflow_error.
NoOverflow_FirstOnly(res) == ~IsInf(res[1])
NoOverflow(res) == \A i \in DOMAIN res : ~IsInf(res[i])

\* The element-wise functions fill the result first and test it then.
Checked(a, b, res) == IF CheckDims(a, b) /\ NoOverflow(res) THEN res ELSE Error

hvector_add(a, b) == Checked(a, b, [i \in DOMAIN a |-> ToFloat(a[i] + b[i], 1)])
hvector_sub(a, b) == Checked(a, b, [i \in DOMAIN a |-> ToFloat(a[i] - b[i], 1)])

hvector_mul(a, b) ==
    LET res == [i \in DOMAIN a |-> Times(a[i], b[i])]
        underflow == \E i \in DOMAIN a : res[i] = 0 /\ a[i] # 0 /\ b[i] # 0
    IN  IF CheckDims(a, b) /\ underflow THEN Error ELSE Checked(a, b, res)

hvector_concat(a, b) == IF CheckDim(Len(a) + Len(b)) THEN a \o b ELSE Error

\* end and start of hvector_subvector, with the clamping at both ends.
SubvectorEnd_Clamped(vec, start, count) ==
    IF Wrap(start + count) > Len(vec) THEN Len(vec) + 1 ELSE Wrap(start + count)
SubvectorEnd(vec, start, count) ==
    IF start > Wrap(Len(vec) - count) THEN Len(vec) + 1 ELSE Wrap(start + count)

hvector_subvector(vec, start, count) ==
    LET first == IF start < 1 THEN 1 ELSE start
        new_dim == Wrap(SubvectorEnd(vec, start, count) - first)
    IN  IF count >= 1 /\ start <= Len(vec) /\ CheckDim(new_dim)
        THEN [i \in 1 .. new_dim |-> vec[first - 1 + i]] ELSE Error

\* hvector(hvector, typmod): the cast to hvector(n)
hvector(vec, typmod) == IF CheckExpectedDim(typmod, Len(vec)) THEN vec ELSE Error

\* A message of the binary protocol; reading past its end fails.
hvector_send(vec) == [dim |-> Len(vec), unused |-> 0, data |-> vec]
hvector_recv(buf, typmod) ==
    IF /\ CheckDim(buf.dim) /\ CheckExpectedDim(typmod, buf.dim) /\ buf.unused = 0
       /\ buf.dim <= Len(buf.data)
       /\ \A i \in 1 .. buf.dim : is_valid_float(buf.data[i])
    THEN SubSeq(buf.data, 1, buf.dim) ELSE Error

\* The elements of an array are converted to float first and tested then.
hvector_to_float4(vec) == [ndim |-> 1, nulls |-> FALSE, data |-> vec]
array_to_hvector(arr, typmod) ==
    LET vec == [i \in DOMAIN arr.data |-> IF arr.data[i] = NaN THEN NaN ELSE ToFloat(arr.data[i], 1)]
    IN  IF /\ arr.ndim <= 1 /\ ~arr.nulls
           /\ CheckDim(Len(vec)) /\ CheckExpectedDim(typmod, Len(vec))
           /\ \A i \in DOMAIN vec : is_valid_float(vec[i])
        THEN vec ELSE Error

\* Each square is a float, the sum of them a double that holds any finite sum.
InfiniteNorm(a) == \E i \in DOMAIN a : IsInf(Times(a[i], a[i]))
SquareSum(a) == SumOver(LAMBDA i : Times(a[i], a[i]), DOMAIN a)

\* x divided by the square root of s, rounded towards 0; x / inf is 0
DivideByRoot(x, s) ==
    LET k == Max({m \in Magnitudes : m * m * s <= x * x * Unit})
    IN  IF x < 0 THEN -k ELSE k

hvector_l2_normalize(a) ==
    [i \in DOMAIN a |->
        IF InfiniteNorm(a) \/ SquareSum(a) = 0 THEN 0 ELSE DivideByRoot(a[i], SquareSum(a))]

\* The bytes of the bit string: full ones first, then the rest bit by bit.
Bit(x, j) == IF x > 0 THEN Power(2, BitsPerByte - 1 - j) ELSE 0
FullBytes(vec) == Len(vec) \div BitsPerByte

\* The last bits are or-ed to the byte one by one, at 7 - i % 8.
RestByte_Reversed(vec) ==
    SumOver(LAMBDA j : Bit(vec[FullBytes(vec) * BitsPerByte + j + 1], BitsPerByte - 1 - j),
        0 .. (Len(vec) % BitsPerByte) - 1)
RestByte(vec) ==
    SumOver(LAMBDA j : Bit(vec[FullBytes(vec) * BitsPerByte + j + 1], j),
        0 .. (Len(vec) % BitsPerByte) - 1)

hvector_binary_quantize(vec) ==
    [n \in 1 .. (Len(vec) + BitsPerByte - 1) \div BitsPerByte |->
        IF n <= FullBytes(vec)
        THEN SumOver(LAMBDA j : Bit(vec[(n - 1) * BitsPerByte + j + 1], j), 0 .. BitsPerByte - 1)
        ELSE RestByte(vec)]

\* -1, 0 or 1
FirstDifference(a, b) == {i \in DOMAIN a \cap DOMAIN b : a[i] # b[i]}
Sign(x) == IF x < 0 THEN -1 ELSE IF x > 0 THEN 1 ELSE 0
hvector_cmp0_NoDim(a, b) ==
    IF FirstDifference(a, b) = {} THEN 0
    ELSE LET i == Min(FirstDifference(a, b)) IN Sign(a[i] - b[i])
hvector_cmp0(a, b) ==
    IF FirstDifference(a, b) = {} THEN Sign(Len(a) - Len(b))
    ELSE LET i == Min(FirstDifference(a, b)) IN Sign(a[i] - b[i])

hvector_lt(a, b) == hvector_cmp0(a, b) < 0
hvector_le(a, b) == hvector_cmp0(a, b) <= 0
hvector_eq(a, b) == hvector_cmp0(a, b) = 0
hvector_ne(a, b) == hvector_cmp0(a, b) # 0
hvector_ge(a, b) == hvector_cmp0(a, b) >= 0
hvector_gt(a, b) == hvector_cmp0(a, b) > 0
=============================================================================
