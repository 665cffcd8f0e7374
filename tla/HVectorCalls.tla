---------------------------- MODULE HVectorCalls ----------------------------
(***************************************************************************)
(* Any sequence of calls of the functions of HVector that return an        *)
(* hvector.  u and v are the values at hand; a call replaces u by what it  *)
(* returns, or raises an error and changes nothing.                        *)
(***************************************************************************)
EXTENDS HVector

CONSTANTS
    Given,      \* vectors there are at the beginning
    Messages,   \* what arrives: [dim, unused, data]; data may be infinite or NaN
    Arrays      \* [ndim, nulls, data]; data may be beyond MaxFloat

VARIABLES u, v

registers == <<u, v>>

Init == u \in Given /\ v \in Given

\* -1 is the type modifier of hvector without (n).
Typmods == {-1} \cup {n \in Int32 : hvector_typmod_in(<<n>>)}

Returns(w) == w # Error /\ u' = w /\ UNCHANGED v

Add == Returns(hvector_add(u, v))
Sub == Returns(hvector_sub(u, v))
Mul == Returns(hvector_mul(u, v))
Concat == Returns(hvector_concat(u, v))
Subvector == \E start, count \in Int32 : Returns(hvector_subvector(u, start, count))
Normalize == Returns(hvector_l2_normalize(u))
Cast == \E typmod \in Typmods : Returns(hvector(u, typmod))

Receive == \E msg \in Messages, typmod \in Typmods : Returns(hvector_recv(msg, typmod))
FromArray == \E array \in Arrays, typmod \in Typmods : Returns(array_to_hvector(array, typmod))

Next ==
    \/ Add \/ Sub \/ Mul \/ Concat \/ Subvector \/ Normalize \/ Cast
    \/ Receive \/ FromArray

Spec == Init /\ [][Next]_registers
-----------------------------------------------------------------------------
\* However calls are combined, and whatever arrives in messages and arrays, each
\* value has 1 to VECTOR_MAX_DIM dimensions and finite elements only: functions
\* test what they have calculated or read, and those that test nothing need not.
TypeOK == u \in Vectors /\ v \in Vectors

\* hvector_subvector returns exactly the elements at the positions start to
\* start + count - 1 that the vector has, for every pair of 32-bit arguments,
\* negative ones and those at the limits included; it fails if there are none.
SubvectorIsSlice ==
    \A start, count \in Int32 :
        LET taken == {i \in DOMAIN u : start <= i /\ i < start + count}
            res == hvector_subvector(u, start, count)
        IN  IF taken = {} THEN res = Error
            ELSE res = [i \in 1 .. Cardinality(taken) |-> u[Min(taken) + i - 1]]

\* Bit i of the bit string, counted from the most significant bit of its first
\* byte, is set exactly if element i is positive; bits that pad the last byte are
\* 0, as the functions on bit strings rely on.
QuantizedBits ==
    LET bytes == hvector_binary_quantize(u)
        bit(k) == (bytes[(k - 1) \div BitsPerByte + 1]
                      \div Power(2, BitsPerByte - 1 - ((k - 1) % BitsPerByte))) % 2
    IN  \A k \in 1 .. Len(bytes) * BitsPerByte :
            bit(k) = IF k <= Len(u) /\ u[k] > 0 THEN 1 ELSE 0

\* A value that leaves as a message of the binary protocol, or as an array of
\* float4, comes back as it was, into every column that may have held it; another
\* column refuses it.
BinaryRestores ==
    \A typmod \in Typmods :
        LET restored == IF typmod \in {-1, Len(u)} THEN u ELSE Error
        IN  /\ hvector_recv(hvector_send(u), typmod) = restored
            /\ array_to_hvector(hvector_to_float4(u), typmod) = restored

\* The B-tree operator class hvector_ops: hvector_cmp is a total order, and the
\* operators agree with it and with the negators and commutators declared for them.
OrderIsTotal ==
    /\ hvector_cmp0(u, v) = -hvector_cmp0(v, u)
    /\ hvector_eq(u, v) <=> u = v
    /\ \A w \in Given : hvector_le(u, v) /\ hvector_le(v, w) => hvector_le(u, w)
    /\ hvector_lt(u, v) = hvector_gt(v, u) /\ hvector_le(u, v) = hvector_ge(v, u)
    /\ hvector_lt(u, v) = ~hvector_ge(u, v) /\ hvector_le(u, v) = ~hvector_gt(u, v)
    /\ hvector_eq(u, v) = ~hvector_ne(u, v)

\* Concatenation and order fit together: a common prefix decides nothing, a
\* vector is greater than its prefixes, and the parts can be cut out again.
ConcatKeepsOrder ==
    \A w \in Given :
        LET wu == hvector_concat(w, u)
            wv == hvector_concat(w, v)
        IN  wu # Error /\ wv # Error =>
                /\ hvector_cmp0(wu, wv) = hvector_cmp0(u, v)
                /\ hvector_lt(w, wu)
                /\ hvector_subvector(wu, 1, Len(w)) = w
                /\ hvector_subvector(wu, Len(w) + 1, Len(u)) = u

\* "Normalize a vector to unit length using L2 norm" (the comment on the function
\* in pg_hybrid--1.0.sql): a vector of unit length is not the zero vector.
NormalizedToUnit ==
    (\E i \in DOMAIN u : u[i] # 0) => \E i \in DOMAIN u : hvector_l2_normalize(u)[i] # 0
=============================================================================
