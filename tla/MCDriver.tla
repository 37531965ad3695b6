------------------------------- MODULE MCDriver -------------------------------
(***************************************************************************)
(* One run with every kind of command line, and two runs at once that use  *)
(* the same temporary directory and, in part, the same output.             *)
(***************************************************************************)
EXTENDS Driver, TLC

File(path) == [is |-> "file", path |-> path]
Option(o)  == [is |-> o]
To(t)      == [is |-> "--target", target |-> t]

Plain    == Path(Here, <<"a">>, "sl")
Faulty   == Path(Here, <<"b">>, "sl")
SameStem == Path("dir", <<"a">>, "sl")
NoExt    == Path(Here, <<"c">>, "")      \* its program takes its place
Missing  == Path(Here, <<"m">>, "sl")
Output   == Path(Here, <<"o">>, "s")

MCTexts  == (Plain :> "one") @@ (Faulty :> "faulty") @@ (SameStem :> "two") @@ (NoExt :> "two")
MCErrors == ("one" :> 0) @@ ("two" :> 0) @@ ("faulty" :> 2)
MCHosts  == {Target("x64", "linux"), Target("arm64", "macos"), Target("x64", "macos"),
             Target("x64", "windows")}
MCCandidates == <<"tmp">>

Files(paths) == [k \in DOMAIN paths |-> File(paths[k])]
Lists == {<<Plain>>, <<Faulty, Plain>>, <<Missing>>, <<NoExt, NoExt>>, <<Plain, SameStem>>, <<Plain, Faulty, Missing>>}
Switches ==
    {<<>>, <<Option("-S")>>, <<Option("-ir"), Option("-v")>>, <<Option("-S"), Option("-ir")>>,
     <<Option("-o"), File(Output)>>, <<Option("-S"), Option("-o"), File(Output)>>,
     <<To(Target("x86", "linux"))>>, <<To(Unknown)>>,
     <<Option("-h")>>, <<Option("-o")>>, <<Option("-o"), Option("-S")>>, <<Option("-x")>>}

Alone    == {<<Files(list) \o more, <<>>>> : list \in Lists \cup {<<>>}, more \in Switches}
Together == {<<Files(one), Files(two)>> :
                one \in {<<Plain>>, <<Faulty, Plain>>}, two \in {<<Plain>>, <<SameStem>>, <<NoExt>>, <<SameStem, Faulty>>}}

MCCommandLines == Alone \cup Together
===============================================================================
