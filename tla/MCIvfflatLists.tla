--------------------------- MODULE MCIvfflatLists ---------------------------
(* An instance of IvfflatLists for TLC.                                    *)
EXTENDS IvfflatLists, SequencesExt, TLC

CONSTANTS MaxBlocks, MaxBlockRows   \* of a heap, of a block

\* One element below zero and a larger one above
SmallIntegers == {-1, 0, 2}

\* The rows of the last block take part, to fill the reservoir.
Blocks == UNION {[1 .. n -> {"null", "zero", "vector"}] : n \in 0 .. MaxBlockRows}
SmallHeaps ==
    UNION {[1 .. n -> Blocks] : n \in 1 .. MaxBlocks - 1}
        \cup {Append(h, [k \in 1 .. MaxBlockRows |-> "vector"]) : h \in [1 .. MaxBlocks - 1 -> Blocks]}
=============================================================================
