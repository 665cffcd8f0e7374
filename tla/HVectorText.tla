----------------------------- MODULE HVectorText -----------------------------
(***************************************************************************)
(* Text of an hvector: hvector_in reads it piece by piece, hvector_out     *)
(* prints it.  A text is a sequence of tokens: a character, or a number as *)
(* strtof reads it, rounded to a float.  A value that is read is dumped    *)
(* and restored twice, as pg_dump does it with every row.                  *)
(***************************************************************************)
EXTENDS HVector

CONSTANTS
    Texts,     \* texts a user may write: no two numbers without a token between
    Base,      \* the base numbers are printed in, at least 2
    Digits     \* digits that "%g" prints

VARIABLES
    lit, typmod,   \* the arguments of hvector_in
    pt,            \* the token it looks at
    data,          \* the elements it has read; dim is their number
    pc,            \* the part of hvector_in that is next
    dumps,         \* how often the text was printed by hvector_out
    dumped         \* the vector it was printed from

vars == <<lit, typmod, pt, data, pc, dumps, dumped>>

Space == [kind |-> "space", val |-> 0]
Open == [kind |-> "open", val |-> 0]
Close == [kind |-> "close", val |-> 0]
Comma == [kind |-> "comma", val |-> 0]
Number(x) == [kind |-> "number", val |-> x]

\* Space within the first, the zero byte after the last
At(k) == IF k <= Len(lit) THEN lit[k].kind ELSE "end"
SkipSpace(k) == Min({j \in k .. Len(lit) + 1 : At(j) # "space"})

\* The power of the base that the last printed digit of x stands for; halves go up.
Scale(x) ==
    Min({s \in {Power(Base, k) : k \in 0 .. MaxFloat} : 2 * x < 2 * s * Power(Base, Digits) - s})
Nearest(p, q) == (2 * p + q) \div (2 * q)
Shown(x) ==
    IF x < 0 THEN -Scale(-x) * Nearest(-x, Scale(-x)) ELSE Scale(x) * Nearest(x, Scale(x))

\* As a number of the text: strtof takes it for the nearest float.
Printed(x) == ToFloat(Shown(x), 1)

\* The i-th element is the token 3 * i - 1; before it, a comma and a space.
hvector_out_NoComma(vec) ==
    [k \in 1 .. 3 * Len(vec) |->
        CASE k = 1 -> Open [] k = 3 * Len(vec) -> Close
          [] k % 3 = 2 -> Number(Printed(vec[(k + 1) \div 3])) [] OTHER -> Space]
hvector_out(vec) ==
    [k \in 1 .. 3 * Len(vec) |->
        CASE k = 1 -> Open [] k = 3 * Len(vec) -> Close
          [] k % 3 = 2 -> Number(Printed(vec[(k + 1) \div 3]))
          [] k % 3 = 0 /\ k < 3 * Len(vec) -> Comma [] OTHER -> Space]
-----------------------------------------------------------------------------
Init ==
    /\ lit \in Texts /\ typmod \in {-1} \cup Dims
    /\ pt = 1 /\ data = <<>> /\ pc = "start" /\ dumps = 0 /\ dumped = Error

Goto(label, k) == pc' = label /\ pt' = k
Keep == UNCHANGED <<lit, typmod, dumps, dumped>>
Fail == Goto("error", pt) /\ UNCHANGED data /\ Keep

\* Leading spaces, the opening bracket, and no closing one behind it
Start ==
    /\ pc = "start"
    /\ LET open == SkipSpace(pt)
       IN  IF At(open) = "open" /\ At(SkipSpace(open + 1)) # "close"
           THEN Goto("element", SkipSpace(open + 1)) /\ UNCHANGED data /\ Keep
           ELSE Fail

TooMany == Len(data) = MaxDim

\* One element
Element ==
    /\ pc = "element"
    /\ LET k == SkipSpace(pt)
       IN  IF ~TooMany /\ At(k) = "number" /\ is_valid_float(lit[k].val)
           THEN Goto("separator", k + 1) /\ data' = Append(data, lit[k].val) /\ Keep
           ELSE Fail

\* A comma, or the closing bracket
Separator ==
    /\ pc = "separator"
    /\ LET k == SkipSpace(pt)
       IN  CASE At(k) = "comma" -> Goto("element", k + 1) /\ UNCHANGED data /\ Keep
             [] At(k) = "close" -> Goto("trailing", k + 1) /\ UNCHANGED data /\ Keep
             [] OTHER -> Fail

\* Only spaces may follow the closing bracket.
Complete_NotToTheEnd == TRUE
Complete == At(SkipSpace(pt)) = "end"

Trailing ==
    /\ pc = "trailing"
    /\ IF Complete /\ CheckDim(Len(data)) /\ CheckExpectedDim(typmod, Len(data))
       THEN Goto("result", SkipSpace(pt)) /\ UNCHANGED data /\ Keep
       ELSE Fail

\* The value is dumped, and the text restored into the same column.
Dump ==
    /\ pc = "result" /\ dumps < 2
    /\ lit' = hvector_out(data) /\ dumped' = data /\ dumps' = dumps + 1
    /\ Goto("start", 1) /\ data' = <<>> /\ UNCHANGED typmod

Next == Start \/ Element \/ Separator \/ Trailing \/ Dump

Spec == Init /\ [][Next]_vars
-----------------------------------------------------------------------------
\* hvector_in collects the elements in the array data[VECTOR_MAX_DIM]: however
\* many numbers a text has, it never stores one behind its end.
DataFits == Len(data) <= MaxDim

\* The grammar: [ e1, ... , en ] with spaces between any two tokens.
Written(t) == {k \in DOMAIN t : t[k] # Space}
Rank(t, k) == Cardinality({j \in Written(t) : j <= k})
NoSpace(t) ==
    [r \in 1 .. Cardinality(Written(t)) |-> t[CHOOSE k \in Written(t) : Rank(t, k) = r]]
Denotes(t, vec) ==
    LET n == Len(vec)
        s == NoSpace(t)
    IN  /\ Len(s) = 2 * n + 1 /\ s[1] = Open /\ s[2 * n + 1] = Close
        /\ \A i \in 1 .. n : s[2 * i] = Number(vec[i])
        /\ \A i \in 1 .. n - 1 : s[2 * i + 1] = Comma

\* hvector_in accepts exactly the texts of the grammar with 1 to VECTOR_MAX_DIM
\* finite elements, as many as the column has dimensions, and returns what they
\* denote; it rejects every other text, wherever it goes wrong.
AcceptsGrammar ==
    LET accepted(vec) == Denotes(lit, vec) /\ typmod \in {-1, Len(vec)}
        s == NoSpace(lit)
        vec == [i \in 1 .. Len(s) \div 2 |-> s[2 * i].val]
    IN  /\ pc = "result" => data \in Vectors /\ accepted(data)
        /\ pc = "error" => ~(vec \in Vectors /\ accepted(vec))

\* What hvector_out prints is accepted again in the same column, with as many
\* elements, each the float nearest to what was printed; the second restore
\* changes nothing, although it prints and rounds once more.
DumpRestores ==
    /\ dumps > 0 => pc # "error"
    /\ dumps > 0 /\ pc = "result" =>
        /\ data = [i \in DOMAIN dumped |-> Printed(dumped[i])]
        /\ dumps = 2 => data = dumped
=============================================================================
