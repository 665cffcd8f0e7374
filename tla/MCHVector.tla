------------------------------ MODULE MCHVector ------------------------------
(* An instance of HVectorMachines for TLC.                                 *)
EXTENDS HVectorMachines, SequencesExt, TLC

CONSTANTS MaxTokens, MaxRows

Elements == {-MaxFloat, 0, 1}

Seqs(S, lo, hi) == UNION {[1 .. n -> S] : n \in lo .. hi}
SmallVectors == Seqs(Elements, 1, MaxDim)

\* Messages and arrays of any length, with one odd element or none
Data(odd) == {[k \in 1 .. n |-> IF k = i THEN x ELSE 1] : n \in 0 .. MaxDim + 1,
                                                     i \in 1 .. MaxDim + 1, x \in odd}
SmallMessages == [dim : -1 .. MaxDim + 1, unused : {0, 1}, data : Data({-MaxFloat, Inf, NaN})]
SmallArrays ==
    {a \in [ndim : 0 .. 2, nulls : BOOLEAN, data : Data({-MaxFloat, NaN, 3 * MaxFloat})] :
        a.ndim = 0 <=> a.data = <<>>}

\* Every text of up to MaxTokens tokens, and every list of one to MaxDim + 1
\* numbers with a token missing, wrong or too many
Token(k, x) == [kind |-> k, val |-> x]
Tokens == {Token(k, 0) : k \in {"space", "open", "close", "comma"}}
             \cup {Token("number", x) : x \in {1, -MaxFloat, Inf}}
List(n) == [k \in 1 .. 2 * n + 1 |->
    CASE k = 1 -> Token("open", 0) [] k = 2 * n + 1 -> Token("close", 0)
      [] k % 2 = 0 -> Token("number", 1) [] OTHER -> Token("comma", 0)]
Edits(t) ==
    {[t EXCEPT ![k] = tok] : k \in DOMAIN t, tok \in Tokens}
        \cup {RemoveAt(t, k) : k \in DOMAIN t}
        \cup {InsertAt(t, k, tok) : k \in 1 .. Len(t) + 1, tok \in Tokens}
OneNumber(t) == \A i \in 2 .. Len(t) : t[i - 1].kind # "number" \/ t[i].kind # "number"
Pairs == {[List(2) EXCEPT ![2].val = x, ![4].val = y] : x, y \in Finite \cup {NaN}}
SmallTexts ==
    {t \in Seqs(Tokens, 0, MaxTokens) \cup UNION {Edits(List(n)) : n \in Dims \cup {MaxDim + 1}} :
        OneNumber(t)} \cup Pairs

SmallTables ==
    Seqs({NULL, <<MaxFloat>>, <<-MaxFloat>>, <<1>>, <<1, MaxFloat>>, <<-1, 1>>}, 0, MaxRows)

WorkerSymmetry == Permutations(Workers)
=============================================================================
