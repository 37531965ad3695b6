----------------------------- MODULE MCCallFrames -----------------------------
(***************************************************************************)
(* A program for the frames: main has an array and calls wide, whose ten   *)
(* parameters are more than any back end passes in registers; wide calls   *)
(* narrow, whose three parameters all fit but on x86, and narrow calls     *)
(* itself.                                                                 *)
(***************************************************************************)
EXTENDS CallFrames

Literal(v) == [literal |-> TRUE, value |-> v]
Variable(v) == [literal |-> FALSE, cell |-> <<v, 0>>]

TheFunctions == {"main", "wide", "narrow"}

TheParameters ==
    [f \in TheFunctions |->
        CASE f = "main"   -> <<>>
          [] f = "wide"   -> <<"p1", "p2", "p3", "p4", "p5", "p6", "p7", "p8", "p9", "p10">>
          [] f = "narrow" -> <<"q1", "q2", "q3">>]

TheLocals ==
    [f \in TheFunctions |->
        CASE f = "main"   -> <<[name |-> "m", length |-> 1], [name |-> "arr", length |-> 2]>>
          [] f = "wide"   -> <<[name |-> "t", length |-> 1]>>
          [] f = "narrow" -> <<>>]

TheSites ==
    {[caller |-> "main", callee |-> "wide", target |-> <<"arr", 1>>,
      arguments |-> [i \in 1 .. 10 |-> IF i = 10 THEN Variable("m") ELSE Literal(i)]],
     [caller |-> "wide", callee |-> "narrow", target |-> <<"t", 0>>,
      arguments |-> <<Variable("p10"), Variable("p7"), Variable("t")>>],
     [caller |-> "narrow", callee |-> "narrow", target |-> <<>>,
      arguments |-> <<Variable("q3"), Variable("q1"), Literal(30)>>]}

TheAssigned ==
    [f \in TheFunctions |->
        CASE f = "main"   -> {<<"m", 0>>, <<"arr", 0>>}
          [] f = "wide"   -> {<<"t", 0>>}
          [] f = "narrow" -> {<<"q2", 0>>}]

TheResults ==
    [f \in TheFunctions |->
        CASE f = "main"   -> {<<"arr", 1>>}
          [] f = "wide"   -> {<<"t", 0>>}
          [] f = "narrow" -> {<<"q2", 0>>}]

TheAbis == {X64Abi, X64MasmAbi, AArch64Abi, X86Abi, X86MasmAbi}
=============================================================================
