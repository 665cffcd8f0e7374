--------------------------- MODULE HVectorMachines ---------------------------
(***************************************************************************)
(* The machines of the type hvector side by side: calls of its functions,  *)
(* its text, its aggregates.  They share nothing but the values: in each   *)
(* behaviour one of them runs, and the variables of the others are idle.   *)
(***************************************************************************)
EXTENDS HVector

CONSTANTS
    Given, Messages, Arrays,    \* of HVectorCalls
    Texts, Base, Digits,        \* of HVectorText
    Tables, Workers, NULL,      \* of HVectorAggregates
    Idle

Floats == Finite \cup {Inf, -Inf, NaN}

\* What arrives is of any shape, but the server has decoded it as far as floats
\* and numbers; a NULL is no vector.
ASSUME HVectorMachinesAssumption ==
    /\ Given \subseteq Vectors
    /\ \A msg \in Messages : msg.dim \in Int /\ msg.data \in Seq(Floats)
    /\ \A array \in Arrays : array.data \in Seq(Int)
    /\ Tables \subseteq Seq(Vectors \cup {NULL})
    /\ NULL \notin Seq(Int)

VARIABLES machine, u, v, lit, typmod, pt, data, pc, dumps, dumped,
          rows, next, avg, sum, left, avgState, sumState

Calls == INSTANCE HVectorCalls
Text == INSTANCE HVectorText
Aggregates == INSTANCE HVectorAggregates

\* Texts have nothing but tokens; numbers are printed in some base, with a digit at
\* least.  "%g" does not print FLT_MAX as a number that is out of range, and has no
\* more digits than FLT_DIG: a number of so many digits survives being a float.
ASSUME HVectorTextAssumption ==
    /\ Texts \subseteq Seq({Text!Space, Text!Open, Text!Close, Text!Comma} \cup {Text!Number(x) : x \in Floats})
    /\ Base \in Nat /\ Base >= 2 /\ Digits \in Nat \ {0}
    /\ Text!Shown(MaxFloat) <= MaxFloat
    /\ \A d \in 0 .. MaxFloat : Text!Shown(d) = d => Text!Shown(ToFloat(d, 1)) = d

registers == <<u, v>>
textVars == <<lit, typmod, pt, data, pc, dumps, dumped>>
aggregateVars == <<rows, next, avg, sum, left, avgState, sumState>>
vars == <<machine, registers, textVars, aggregateVars>>

RegistersIdle == u = Idle /\ v = Idle
TextIdle ==
    /\ lit = Idle /\ typmod = Idle /\ pt = Idle /\ data = Idle /\ pc = Idle
    /\ dumps = Idle /\ dumped = Idle
AggregatesIdle ==
    /\ rows = Idle /\ next = Idle /\ avg = Idle /\ sum = Idle /\ left = Idle
    /\ avgState = Idle /\ sumState = Idle

Init ==
    \/ machine = "calls" /\ Calls!Init /\ TextIdle /\ AggregatesIdle
    \/ machine = "text" /\ Text!Init /\ RegistersIdle /\ AggregatesIdle
    \/ machine = "aggregates" /\ Aggregates!Init /\ RegistersIdle /\ TextIdle

Next ==
    \/ machine = "calls" /\ Calls!Next /\ UNCHANGED <<machine, textVars, aggregateVars>>
    \/ machine = "text" /\ Text!Next /\ UNCHANGED <<machine, registers, aggregateVars>>
    \/ machine = "aggregates" /\ Aggregates!Next /\ UNCHANGED <<machine, registers, textVars>>

Spec == Init /\ [][Next]_vars
-----------------------------------------------------------------------------
\* Values are vectors, and hvector_in keeps to its array: HVectorCalls, HVectorText.
TypeOK ==
    /\ machine = "calls" => Calls!TypeOK
    /\ machine = "text" => Text!DataFits

\* hvector_subvector returns the slice asked for: HVectorCalls.
SubvectorIsSlice == machine = "calls" => Calls!SubvectorIsSlice

\* The B-tree order and its fit with concatenation: HVectorCalls.
OrderOfVectors == machine = "calls" => Calls!OrderIsTotal /\ Calls!ConcatKeepsOrder

\* The bits of hvector_binary_quantize: HVectorCalls.
QuantizedBits == machine = "calls" => Calls!QuantizedBits

\* hvector_in accepts the grammar: HVectorText.
AcceptsGrammar == machine = "text" => Text!AcceptsGrammar

\* What is sent to a client, as a text, a message or an array, can be read back:
\* HVectorText, HVectorCalls.
DumpRestores ==
    /\ machine = "text" => Text!DumpRestores
    /\ machine = "calls" => Calls!BinaryRestores

\* What the comment on hvector_l2_normalize says: HVectorCalls.
NormalizedToUnit == machine = "calls" => Calls!NormalizedToUnit

\* avg does not depend on the parallel plan, sum within its rounding: HVectorAggregates.
AvgIsMean == machine = "aggregates" => Aggregates!AvgIsMean
SumIsRounded == machine = "aggregates" => Aggregates!SumIsRounded
=============================================================================
