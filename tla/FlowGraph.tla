------------------------------ MODULE FlowGraph ------------------------------
(***************************************************************************)
(* The control-flow graph of one function (dataflow/data_flow_graph.cpp):  *)
(* the edges between its basic blocks, the backward depth-first search     *)
(* that decides whether a block is reachable, the pruning of blocks that   *)
(* have just died and the export of the reachable ones.                    *)
(*                                                                         *)
(* Blocks are numbered in layout order; block 1 is the entry block.  The   *)
(* order of a block's predecessors is the order the search tries them in,  *)
(* so adjacency lists are sequences.  An erased element leaves its slot    *)
(* behind, holding Gone, and every reader passes over it.                  *)
(*                                                                         *)
(* is_reachable and delete_all_next_link recurse; their call stacks are    *)
(* the variables search and pending.  The calls a client makes (link,      *)
(* un_link, write_opt_code) are made only when neither is active.          *)
(***************************************************************************)
EXTENDS Integers, Sequences, FiniteSets

CONSTANTS
    MaxBlocks,     \* a bound on the number of blocks of a function
    Graphs         \* the graphs link_blocks builds: records with next and prev

Gone  == 0
Entry == 1

(* The lists link_blocks fills name blocks of the graph, and there is an   *)
(* entry block.                                                            *)
ASSUME GraphsAssumption ==
    /\ MaxBlocks \in Nat
    /\ \A g \in Graphs : \E n \in 1 .. MaxBlocks :
         /\ g.next \in [1 .. n -> Seq(0 .. n)]
         /\ g.prev \in [1 .. n -> Seq(0 .. n)]

VARIABLES
    next, prev,    \* Block::next and Block::prev of every block
    visited,       \* the blocks whose already_visited flag is set
    asked,         \* the block the current call of is_reachable is about
    verdict,       \* its answer: "none" (no call), "open" (running), "yes", "no"
    search,        \* the call stack of is_reachable: the block and the next predecessor to try
    pending,       \* the blocks delete_all_next_link has still to be called on
    phase,         \* "fold" while a client rewires the graph, "export", "done"
    exported       \* the blocks write_opt_code has copied out

graphVars  == <<next, prev>>
searchVars == <<visited, asked, verdict, search>>
vars       == <<next, prev, visited, asked, verdict, search, pending, phase, exported>>

Blocks == DOMAIN next

Frame(b, k) == [block |-> b, at |-> k]
Frames      == [block : Blocks, at : Nat \ {0}]
Top         == search[Len(search)]

Occurs(s, b) == \E k \in DOMAIN s : s[k] = b

(* vector::erase of the first element equal to b, and of all of them.      *)
EraseFirst(s, b) ==
    [k \in DOMAIN s |-> IF s[k] = b /\ \A j \in 1 .. k - 1 : s[j] # b THEN Gone ELSE s[k]]
EraseAll(s, b) == [k \in DOMAIN s |-> IF s[k] = b THEN Gone ELSE s[k]]

Preds(b) == {prev[b][k] : k \in DOMAIN prev[b]} \ {Gone}
Succs(b) == {next[b][k] : k \in DOMAIN next[b]} \ {Gone}

(***************************************************************************)
(* Reachability as the search sees it, along predecessor lists: block b    *)
(* can be reached from the entry iff every set of blocks that holds b and  *)
(* is closed under predecessors holds the entry.                           *)
(***************************************************************************)
ClosedUnderPreds(S) == \A b \in S : Preds(b) \subseteq S

Reachable(b) == \A S \in SUBSET Blocks : b \in S /\ ClosedUnderPreds(S) => Entry \in S

-----------------------------------------------------------------------------
Init ==
    /\ \E g \in Graphs : next = g.next /\ prev = g.prev
    /\ visited = {}
    /\ asked = Entry
    /\ verdict = "none"
    /\ search = <<>>
    /\ pending = <<>>
    /\ phase = "fold"
    /\ exported = {}

Idle == verdict = "none" /\ pending = <<>>

(* is_reachable(b), called with the given flags set: the entry is          *)
(* reachable; a block whose flag is set is not searched again and counts   *)
(* as unreachable; any other block is flagged and its predecessors tried.  *)
Ask(b, flags) ==
    /\ asked' = b
    /\ \/ /\ b = Entry
          /\ verdict' = "yes" /\ search' = <<>> /\ visited' = flags
       \/ /\ b # Entry /\ b \in flags
          /\ verdict' = "no" /\ search' = <<>> /\ visited' = flags
       \/ /\ b # Entry /\ b \notin flags
          /\ verdict' = "open" /\ search' = <<Frame(b, 1)>> /\ visited' = flags \cup {b}

Trying(p) ==
    /\ verdict = "open"
    /\ Top.at \in DOMAIN prev[Top.block]
    /\ p = prev[Top.block][Top.at]

Advanced == [search EXCEPT ![Len(search)] = Frame(Top.block, Top.at + 1)]

(* A predecessor is the entry: every frame of the stack returns true.      *)
SearchReaches ==
    /\ Trying(Entry)
    /\ verdict' = "yes" /\ search' = <<>>
    /\ UNCHANGED <<graphVars, visited, asked, pending, phase, exported>>

SearchSkips ==
    /\ \E p \in visited \cup {Gone} : p # Entry /\ Trying(p)
    /\ search' = Advanced
    /\ UNCHANGED <<graphVars, visited, asked, verdict, pending, phase, exported>>

SearchDescends ==
    /\ \E p \in Blocks \ visited :
        /\ p # Entry /\ Trying(p)
        /\ visited' = visited \cup {p}
        /\ search' = Append(Advanced, Frame(p, 1))
    /\ UNCHANGED <<graphVars, asked, verdict, pending, phase, exported>>

(* No predecessor is left: the frame returns false to its caller.          *)
SearchFails ==
    /\ verdict = "open"
    /\ Top.at \notin DOMAIN prev[Top.block]
    /\ search' = SubSeq(search, 1, Len(search) - 1)
    /\ verdict' = IF Len(search) = 1 THEN "no" ELSE "open"
    /\ UNCHANGED <<graphVars, visited, asked, pending, phase, exported>>

-----------------------------------------------------------------------------
(* link: nothing happens without an end block or when the edge is there.   *)
link(b, e) ==
    /\ phase = "fold" /\ Idle
    /\ \/ /\ e \notin Blocks \/ Occurs(next[b], e)
          /\ UNCHANGED graphVars
       \/ /\ e \in Blocks /\ ~Occurs(next[b], e)
          /\ next' = [next EXCEPT ![b] = Append(@, e)]
          /\ prev' = [prev EXCEPT ![e] = Append(@, b)]
    /\ UNCHANGED <<searchVars, pending, phase, exported>>

\* Mutant of un_link: the flags of the last search stay set.
un_link_stale(b, e) ==
    /\ phase = "fold" /\ Idle
    /\ next' = [next EXCEPT ![b] = EraseFirst(@, e)]
    /\ prev' = [prev EXCEPT ![e] = EraseFirst(@, b)]
    /\ pending' = <<e>>
    /\ UNCHANGED <<searchVars, phase, exported>>

(* un_link: one copy of the edge goes, all flags are cleared, and the      *)
(* pruning starts at the block that lost a predecessor.                    *)
un_link(b, e) ==
    /\ phase = "fold" /\ Idle
    /\ next' = [next EXCEPT ![b] = EraseFirst(@, e)]
    /\ prev' = [prev EXCEPT ![e] = EraseFirst(@, b)]
    /\ visited' = {}
    /\ pending' = <<e>>
    /\ UNCHANGED <<asked, verdict, search, phase, exported>>

(* delete_all_next_link: the flags the earlier searches of the same        *)
(* pruning left behind stay set.                                           *)
PruneAsks ==
    /\ verdict = "none" /\ pending # <<>> /\ Head(pending) # Gone
    /\ Ask(Head(pending), visited)
    /\ UNCHANGED <<graphVars, pending, phase, exported>>

PruneKeeps ==
    /\ verdict = "yes" /\ pending # <<>>
    /\ pending' = Tail(pending)
    /\ verdict' = "none"
    /\ UNCHANGED <<graphVars, visited, asked, search, phase, exported>>

PruneSkips ==
    /\ verdict = "none" /\ pending # <<>> /\ Head(pending) = Gone
    /\ pending' = Tail(pending)
    /\ UNCHANGED <<graphVars, searchVars, phase, exported>>

\* Mutant of PruneCuts: the successors keep the dead block as predecessor.
PruneCutsOneWay ==
    /\ verdict = "no" /\ pending # <<>>
    /\ next' = [next EXCEPT ![asked] = [k \in DOMAIN @ |-> Gone]]
    /\ pending' = next[asked] \o Tail(pending)
    /\ verdict' = "none"
    /\ UNCHANGED <<prev, visited, asked, search, phase, exported>>

(* The dead block's edges go, and each of its successors is pruned next.   *)
PruneCuts ==
    /\ verdict = "no" /\ pending # <<>>
    /\ next' = [next EXCEPT ![asked] = [k \in DOMAIN @ |-> Gone]]
    /\ prev' = [b \in Blocks |-> IF b \in Succs(asked) THEN EraseAll(prev[b], asked) ELSE prev[b]]
    /\ pending' = next[asked] \o Tail(pending)
    /\ verdict' = "none"
    /\ UNCHANGED <<visited, asked, search, phase, exported>>

-----------------------------------------------------------------------------
(* write_opt_code: for every block in layout order, clear all flags,       *)
(* search, and copy the block out if it is reachable.                      *)
ExportAsks(b) ==
    /\ Ask(b, {})
    /\ phase' = "export"
    /\ UNCHANGED <<graphVars, pending, exported>>

ExportBegins == phase = "fold" /\ Idle /\ ExportAsks(Entry)

Copied == IF verdict = "yes" THEN exported \cup {asked} ELSE exported

\* Mutant of ExportContinues: the flags of the last search stay set.
ExportContinuesStale ==
    /\ phase = "export" /\ verdict \in {"yes", "no"} /\ asked + 1 \in Blocks
    /\ exported' = Copied
    /\ Ask(asked + 1, visited)
    /\ UNCHANGED <<graphVars, pending, phase>>

ExportContinues ==
    /\ phase = "export" /\ verdict \in {"yes", "no"} /\ asked + 1 \in Blocks
    /\ exported' = Copied
    /\ Ask(asked + 1, {})
    /\ UNCHANGED <<graphVars, pending, phase>>

ExportEnds ==
    /\ phase = "export" /\ verdict \in {"yes", "no"} /\ asked + 1 \notin Blocks
    /\ exported' = Copied
    /\ phase' = "done" /\ verdict' = "none"
    /\ UNCHANGED <<graphVars, visited, asked, search, pending>>

Searching == SearchReaches \/ SearchSkips \/ SearchDescends \/ SearchFails
Pruning   == PruneAsks \/ PruneKeeps \/ PruneSkips \/ PruneCuts
Exporting == ExportBegins \/ ExportContinues \/ ExportEnds

Next ==
    \/ Searching \/ Pruning \/ Exporting
    \/ \E b \in Blocks, e \in Blocks : link(b, e) \/ un_link(b, e)

Spec == Init /\ [][Next]_vars

-----------------------------------------------------------------------------
GraphOK ==
    \E n \in 1 .. MaxBlocks :
        /\ next \in [1 .. n -> Seq(0 .. n)]
        /\ prev \in [1 .. n -> Seq(0 .. n)]

CallsOK ==
    /\ visited \subseteq Blocks /\ asked \in Blocks
    /\ verdict \in {"none", "open", "yes", "no"}
    /\ search \in Seq(Frames)
    /\ verdict = "open" <=> search # <<>>
    /\ pending \in Seq(Blocks \cup {Gone})
    /\ phase \in {"fold", "export", "done"}
    /\ exported \subseteq Blocks

TypeOK == GraphOK /\ CallsOK

(* write_opt_code copies out exactly the blocks that the predecessor lists *)
(* reach, whatever was linked, unlinked and pruned before.                 *)
ExportExact == phase = "done" => exported = {b \in Blocks : Reachable(b)}
=============================================================================
