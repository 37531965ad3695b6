CONSTANTS
    WordBits = 3
    Host <- MCHost
SPECIFICATION Spec
INVARIANTS PairsActAsWhole BackEndsAgree DivisionTruncates QuotientSoFar
\* An instruction sequence ends.
CHECK_DEADLOCK FALSE
