--------------------------- MODULE MCPairArithmetic ---------------------------
(***************************************************************************)
(* PairArithmetic on words of three bits: every instruction on every two   *)
(* numbers of six bits.                                                    *)
(***************************************************************************)
EXTENDS PairArithmetic

MCHost == [lo |-> 5, hi |-> 2]
===============================================================================
