------------------------- MODULE BranchFoldingProofs -------------------------
(***************************************************************************)
(* For graphs of every size and every sequence of links, unlinks and       *)
(* prunings: the types are respected, and the export copies out exactly    *)
(* the blocks the predecessor lists reach.  And for every function,        *)
(* whatever is known of its conditions: folding branches is a use of the   *)
(* flow graph that FlowGraph allows, so that this holds of the optimiser's *)
(* graph too, and the two directions of the edges stay in step.            *)
(***************************************************************************)
EXTENDS BranchFolding, SequenceTheorems, FiniteSetTheorems, TLAPS

(***************************************************************************)
(* Facts about the helpers.                                                *)
(***************************************************************************)
LEMMA EraseFirstType ==
    ASSUME NEW n \in Nat, NEW s \in Seq(0 .. n), NEW b
    PROVE  EraseFirst(s, b) \in Seq(0 .. n)
<1>1. DOMAIN s = 1 .. Len(s) /\ Len(s) \in Nat
  OBVIOUS
<1>2. \A k \in DOMAIN s : EraseFirst(s, b)[k] \in 0 .. n
  BY DEF EraseFirst, Gone
<1>3. EraseFirst(s, b) = [k \in 1 .. Len(s) |-> EraseFirst(s, b)[k]]
  BY <1>1 DEF EraseFirst
<1>4. QED
  BY <1>1, <1>2, <1>3

LEMMA EraseAllType ==
    ASSUME NEW n \in Nat, NEW s \in Seq(0 .. n), NEW b
    PROVE  EraseAll(s, b) \in Seq(0 .. n)
<1>1. DOMAIN s = 1 .. Len(s) /\ Len(s) \in Nat
  OBVIOUS
<1>2. \A k \in DOMAIN s : EraseAll(s, b)[k] \in 0 .. n
  BY DEF EraseAll, Gone
<1>3. EraseAll(s, b) = [k \in 1 .. Len(s) |-> EraseAll(s, b)[k]]
  BY <1>1 DEF EraseAll
<1>4. QED
  BY <1>1, <1>2, <1>3

LEMMA FrameType ==
    ASSUME NEW b \in Blocks, NEW k \in Nat \ {0}
    PROVE  /\ Frame(b, k) \in Frames
           /\ Frame(b, k).block = b /\ Frame(b, k).at = k
  BY DEF Frame, Frames

LEMMA FrameParts ==
    ASSUME NEW f \in Frames
    PROVE  f.block \in Blocks /\ f.at \in Nat \ {0}
  BY DEF Frames

(* A call of is_reachable starts in a state of the right type.             *)
LEMMA AskType ==
    ASSUME NEW b \in Blocks, NEW flags \in SUBSET Blocks, Ask(b, flags)
    PROVE  /\ asked' \in Blocks /\ visited' \subseteq Blocks
           /\ verdict' \in {"yes", "no", "open"}
           /\ search' \in Seq(Frames)
           /\ verdict' = "open" <=> search' # <<>>
<1>1. <<Frame(b, 1)>> \in Seq(Frames) /\ <<Frame(b, 1)>> # <<>> /\ <<>> \in Seq(Frames)
  BY FrameType
<1>2. flags \cup {b} \subseteq Blocks
  OBVIOUS
<1>3. QED
  BY <1>1, <1>2, ZenonT(30) DEF Ask

(* The frame on top of the stack, and the stack with its frame advanced.   *)
LEMMA TopType ==
    ASSUME CallsOK, verdict = "open"
    PROVE  /\ Len(search) \in Nat \ {0} /\ DOMAIN search = 1 .. Len(search)
           /\ Top \in Frames
           /\ Advanced \in Seq(Frames)
           /\ Len(Advanced) = Len(search)
           /\ Advanced[Len(search)] = Frame(Top.block, Top.at + 1)
           /\ \A k \in 1 .. Len(search) - 1 : Advanced[k] = search[k]
<1>1. search \in Seq(Frames) /\ search # <<>>
  BY DEF CallsOK
<1>2. Len(search) \in Nat \ {0} /\ DOMAIN search = 1 .. Len(search)
  BY <1>1
<1>3. Top \in Frames
  BY <1>1, <1>2 DEF Top
<1>4. Frame(Top.block, Top.at + 1) \in Frames
  BY <1>3, FrameType, FrameParts
<1>5. Advanced \in Seq(Frames)
  BY <1>1, <1>2, <1>4 DEF Advanced
<1>6. Len(Advanced) = Len(search)
  BY <1>1 DEF Advanced
<1>7. /\ Advanced[Len(search)] = Frame(Top.block, Top.at + 1)
      /\ \A k \in 1 .. Len(search) - 1 : Advanced[k] = search[k]
  <2> DEFINE f == Frame(Top.block, Top.at + 1)
             n == Len(search)
  <2>1. n \in DOMAIN search /\ Advanced = [search EXCEPT ![n] = f]
    BY <1>2 DEF Advanced
  <2> HIDE DEF f
  <2>2. Advanced[n] = f
    BY <2>1, Zenon
  <2>3. \A k \in DOMAIN search : k # n => Advanced[k] = search[k]
    <3> HIDE DEF n
    <3>1. QED
      BY <2>1, Zenon
  <2>4. QED
    BY <2>2, <2>3, <1>2 DEF f
<1>8. QED
  BY <1>2, <1>3, <1>5, <1>6, <1>7

LEMMA EmptyLength ==
    ASSUME NEW S, NEW s \in Seq(S)
    PROVE  s # <<>> <=> Len(s) # 0
  OBVIOUS

(* Popping the top of a stack.                                             *)
LEMMA PoppedType ==
    ASSUME NEW S, NEW s \in Seq(S), s # <<>>
    PROVE  LET t == SubSeq(s, 1, Len(s) - 1)
           IN  /\ t \in Seq(S) /\ Len(t) = Len(s) - 1
               /\ \A k \in 1 .. Len(t) : t[k] = s[k]
<1>1. \A n \in Nat : n <= Len(s) =>
        /\ SubSeq(s, 1, n) \in Seq(S) /\ Len(SubSeq(s, 1, n)) = n
        /\ \A k \in 1 .. n : SubSeq(s, 1, n)[k] = s[k]
  OBVIOUS
<1>2. Len(s) - 1 \in Nat /\ Len(s) - 1 <= Len(s)
  OBVIOUS
<1>3. QED
  BY <1>1, <1>2, Zenon

-----------------------------------------------------------------------------
(* Type correctness, one step per action.                                  *)
LEMMA InitTypeOK == Init => TypeOK
<1> SUFFICES ASSUME Init PROVE TypeOK
  OBVIOUS
<1>1. PICK g \in Graphs : next = g.next /\ prev = g.prev
  BY DEF Init
<1>2. PICK n \in 1 .. MaxBlocks : /\ g.next \in [1 .. n -> Seq(0 .. n)]
                                  /\ g.prev \in [1 .. n -> Seq(0 .. n)]
  BY GraphsAssumption
<1>3. /\ next \in [1 .. n -> Seq(0 .. n)]
      /\ prev \in [1 .. n -> Seq(0 .. n)]
  BY <1>1, <1>2, Zenon
<1>4. GraphOK
  BY <1>3 DEF GraphOK
<1>5. Entry \in Blocks
  BY <1>3, GraphsAssumption DEF Blocks, Entry
<1>6. CallsOK
  BY <1>5 DEF Init, CallsOK
<1>7. QED
  BY <1>4, <1>6 DEF TypeOK

(* Steps that leave the graph alone keep its half of the type invariant.   *)
LEMMA SearchingTypeOK == TypeOK /\ Searching => TypeOK'
<1> SUFFICES ASSUME TypeOK, Searching PROVE TypeOK'
  OBVIOUS
<1>1. UNCHANGED <<graphVars, asked, pending, phase, exported>> /\ verdict = "open"
  BY DEF Searching, SearchReaches, SearchSkips, SearchDescends, SearchFails, Trying
<1>2. CallsOK /\ Blocks' = Blocks /\ Frames' = Frames
  BY <1>1 DEF TypeOK, graphVars, Blocks, Frames
<1>3. GraphOK'
  BY <1>1 DEF TypeOK, GraphOK, graphVars
<1>4. SUFFICES /\ visited' \subseteq Blocks
               /\ verdict' \in {"none", "open", "yes", "no"}
               /\ search' \in Seq(Frames)
               /\ verdict' = "open" <=> search' # <<>>
  BY <1>1, <1>2, <1>3 DEF TypeOK, CallsOK
<1>5. CASE SearchReaches
  BY <1>2, <1>5 DEF SearchReaches, CallsOK
<1>6. CASE SearchSkips
  <2>1. Advanced \in Seq(Frames) /\ Advanced # <<>>
    BY <1>1, <1>2, TopType
  <2>2. QED
    BY <1>1, <1>2, <1>6, <2>1 DEF SearchSkips, CallsOK
<1>7. CASE SearchDescends
  <2>1. PICK p \in Blocks \ visited : /\ visited' = visited \cup {p}
                                      /\ search' = Append(Advanced, Frame(p, 1))
    BY <1>7 DEF SearchDescends
  <2>2. Append(Advanced, Frame(p, 1)) \in Seq(Frames) /\ Append(Advanced, Frame(p, 1)) # <<>>
    BY <1>1, <1>2, TopType, FrameType
  <2>3. QED
    BY <1>1, <1>2, <1>7, <2>1, <2>2 DEF SearchDescends, CallsOK
<1>8. CASE SearchFails
  <2>1. /\ search' = SubSeq(search, 1, Len(search) - 1)
        /\ verdict' = IF Len(search) = 1 THEN "no" ELSE "open"
        /\ visited' = visited
    BY <1>8 DEF SearchFails
  <2>2. search \in Seq(Frames) /\ search # <<>> /\ Len(search) \in Nat \ {0}
    BY <1>1, <1>2, TopType DEF CallsOK
  <2>3. search' \in Seq(Frames) /\ Len(search') = Len(search) - 1
    BY <2>1, <2>2, PoppedType
  <2>4. search' # <<>> <=> Len(search) # 1
    <3>1. search' # <<>> <=> Len(search') # 0
      BY <2>3, EmptyLength
    <3>2. Len(search') # 0 <=> Len(search) # 1
      BY <2>2, <2>3
    <3>3. QED
      BY <3>1, <3>2
  <2>5. QED
    BY <1>2, <2>1, <2>3, <2>4 DEF CallsOK
<1>9. QED
  BY <1>5, <1>6, <1>7, <1>8 DEF Searching

(* Rewiring keeps the graph's type and its blocks.                         *)
LEMMA LinkTypeOK ==
    ASSUME TypeOK, NEW b \in Blocks, NEW e \in Blocks, link(b, e)
    PROVE  TypeOK'
<1>1. PICK n \in 1 .. MaxBlocks : next \in [1 .. n -> Seq(0 .. n)] /\ prev \in [1 .. n -> Seq(0 .. n)]
  BY DEF TypeOK, GraphOK
<1>2. Blocks = 1 .. n /\ b \in 0 .. n /\ e \in 0 .. n
  BY <1>1, GraphsAssumption DEF Blocks
<1>3. next' \in [1 .. n -> Seq(0 .. n)] /\ prev' \in [1 .. n -> Seq(0 .. n)]
  <2>1. CASE UNCHANGED graphVars
    BY <1>1, <2>1 DEF graphVars
  <2>2. CASE next' = [next EXCEPT ![b] = Append(@, e)] /\ prev' = [prev EXCEPT ![e] = Append(@, b)]
    <3>1. next[b] \in Seq(0 .. n) /\ prev[e] \in Seq(0 .. n)
      BY <1>1, <1>2
    <3>2. Append(next[b], e) \in Seq(0 .. n) /\ Append(prev[e], b) \in Seq(0 .. n)
      BY <1>2, <3>1
    <3>3. QED
      BY <1>1, <2>2, <3>2
  <2>3. QED
    BY <2>1, <2>2 DEF link
<1>4. GraphOK'
  BY <1>3 DEF GraphOK
<1>5. Blocks' = Blocks /\ Frames' = Frames
  BY <1>1, <1>3 DEF Blocks, Frames
<1>6. QED
  BY <1>4, <1>5 DEF TypeOK, CallsOK, link, searchVars

LEMMA UnlinkTypeOK ==
    ASSUME TypeOK, NEW b \in Blocks, NEW e \in Blocks, un_link(b, e)
    PROVE  TypeOK'
<1>1. PICK n \in 1 .. MaxBlocks : next \in [1 .. n -> Seq(0 .. n)] /\ prev \in [1 .. n -> Seq(0 .. n)]
  BY DEF TypeOK, GraphOK
<1>2. n \in Nat /\ Blocks = 1 .. n
  BY <1>1, GraphsAssumption DEF Blocks
<1>3. next[b] \in Seq(0 .. n) /\ prev[e] \in Seq(0 .. n)
  BY <1>1, <1>2
<1>4. EraseFirst(next[b], e) \in Seq(0 .. n) /\ EraseFirst(prev[e], b) \in Seq(0 .. n)
  BY <1>2, <1>3, EraseFirstType
<1>5. next' \in [1 .. n -> Seq(0 .. n)] /\ prev' \in [1 .. n -> Seq(0 .. n)]
  BY <1>1, <1>4 DEF un_link
<1>6. GraphOK' /\ Blocks' = Blocks /\ Frames' = Frames
  BY <1>1, <1>5 DEF GraphOK, Blocks, Frames
<1>7. pending' \in Seq(Blocks \cup {Gone})
  BY DEF un_link
<1>8. QED
  BY <1>6, <1>7 DEF TypeOK, CallsOK, un_link

(* A queue of blocks keeps its type when its first element is taken off.   *)
LEMMA QueueTail ==
    ASSUME NEW S, NEW q \in Seq(S), q # <<>>
    PROVE  Head(q) \in S /\ Tail(q) \in Seq(S)
  OBVIOUS

LEMMA PruningTypeOK == TypeOK /\ Pruning => TypeOK'
<1> SUFFICES ASSUME TypeOK, Pruning PROVE TypeOK'
  OBVIOUS
<1>1. /\ visited \in SUBSET Blocks /\ asked \in Blocks /\ search \in Seq(Frames)
      /\ pending \in Seq(Blocks \cup {Gone}) /\ pending # <<>>
      /\ verdict # "open" => search = <<>>
  BY DEF TypeOK, CallsOK, Pruning, PruneAsks, PruneKeeps, PruneSkips, PruneCuts
<1>2. Head(pending) \in Blocks \cup {Gone} /\ Tail(pending) \in Seq(Blocks \cup {Gone})
  BY <1>1, QueueTail
<1>3. UNCHANGED graphVars => GraphOK' /\ Blocks' = Blocks /\ Frames' = Frames
  BY DEF TypeOK, GraphOK, Blocks, Frames, graphVars
<1>4. CASE PruneAsks
  <2>1. Ask(Head(pending), visited) /\ Head(pending) \in Blocks
    BY <1>2, <1>4 DEF PruneAsks
  <2>2. /\ asked' \in Blocks /\ visited' \subseteq Blocks
        /\ verdict' \in {"yes", "no", "open"}
        /\ search' \in Seq(Frames)
        /\ verdict' = "open" <=> search' # <<>>
    BY <1>1, <2>1, AskType
  <2>3. QED
    BY <1>3, <1>4, <2>2 DEF PruneAsks, TypeOK, CallsOK
<1>5. CASE PruneKeeps \/ PruneSkips
  BY <1>1, <1>2, <1>3, <1>5 DEF PruneKeeps, PruneSkips, TypeOK, CallsOK, searchVars
<1>6. CASE PruneCuts
  <2>1. PICK n \in 1 .. MaxBlocks : next \in [1 .. n -> Seq(0 .. n)] /\ prev \in [1 .. n -> Seq(0 .. n)]
    BY DEF TypeOK, GraphOK
  <2>2. n \in Nat /\ Blocks = 1 .. n /\ Blocks \cup {Gone} = 0 .. n
    BY <2>1, GraphsAssumption DEF Blocks, Gone
  <2>3. \A b \in 1 .. n : EraseAll(prev[b], asked) \in Seq(0 .. n)
    BY <2>1, <2>2, EraseAllType
  <2>4. prev' \in [1 .. n -> Seq(0 .. n)]
    BY <1>6, <2>1, <2>2, <2>3 DEF PruneCuts
  <2>5. next[asked] \in Seq(0 .. n)
    BY <1>1, <2>1, <2>2
  <2>6. [k \in DOMAIN next[asked] |-> Gone] \in Seq(0 .. n)
    <3>1. DOMAIN next[asked] = 1 .. Len(next[asked]) /\ Len(next[asked]) \in Nat /\ Gone \in 0 .. n
      BY <2>2, <2>5 DEF Gone
    <3>2. QED
      BY <3>1
  <2>7. next' \in [1 .. n -> Seq(0 .. n)]
    BY <1>6, <2>1, <2>6 DEF PruneCuts
  <2>8. GraphOK' /\ Blocks' = Blocks /\ Frames' = Frames
    BY <2>1, <2>4, <2>7 DEF GraphOK, Blocks, Frames
  <2>9. next[asked] \o Tail(pending) \in Seq(Blocks \cup {Gone})
    <3>1. next[asked] \in Seq(Blocks \cup {Gone})
      BY <2>2, <2>5
    <3>2. QED
      BY <1>2, <3>1, ConcatProperties
  <2>10. QED
    BY <1>1, <1>6, <2>8, <2>9 DEF PruneCuts, TypeOK, CallsOK
<1>7. QED
  BY <1>4, <1>5, <1>6 DEF Pruning

LEMMA ExportingTypeOK == TypeOK /\ Exporting => TypeOK'
<1> SUFFICES ASSUME TypeOK, Exporting PROVE TypeOK'
  OBVIOUS
<1>1. UNCHANGED <<graphVars, pending>> /\ phase' \in {"export", "done"}
  BY DEF Exporting, ExportBegins, ExportContinues, ExportEnds, ExportAsks, TypeOK, CallsOK
<1>2. GraphOK' /\ Blocks' = Blocks /\ Frames' = Frames
  BY <1>1 DEF TypeOK, GraphOK, Blocks, Frames, graphVars
<1>3. exported' \subseteq Blocks
  BY DEF Exporting, ExportBegins, ExportContinues, ExportEnds, ExportAsks, Copied, TypeOK, CallsOK
<1>4. CASE ExportEnds
  BY <1>1, <1>2, <1>3, <1>4 DEF ExportEnds, TypeOK, CallsOK
<1>5. CASE ExportBegins \/ ExportContinues
  <2>1. PICK b \in Blocks : Ask(b, {})
    <3>1. Entry \in Blocks
      BY GraphsAssumption DEF TypeOK, GraphOK, Blocks, Entry
    <3>2. QED
      BY <1>5, <3>1 DEF ExportBegins, ExportContinues, ExportAsks
  <2>2. /\ asked' \in Blocks /\ visited' \subseteq Blocks
        /\ verdict' \in {"yes", "no", "open"}
        /\ search' \in Seq(Frames)
        /\ verdict' = "open" <=> search' # <<>>
    BY <2>1, AskType
  <2>3. QED
    BY <1>1, <1>2, <1>3, <2>2 DEF TypeOK, CallsOK
<1>6. QED
  BY <1>4, <1>5 DEF Exporting

LEMMA NextTypeOK == TypeOK /\ [Next]_vars => TypeOK'
<1> SUFFICES ASSUME TypeOK, [Next]_vars PROVE TypeOK'
  OBVIOUS
<1>1. CASE Searching
  BY <1>1, SearchingTypeOK
<1>2. CASE Pruning
  BY <1>2, PruningTypeOK
<1>3. CASE Exporting
  BY <1>3, ExportingTypeOK
<1>4. ASSUME NEW b \in Blocks, NEW e \in Blocks, link(b, e) PROVE TypeOK'
  BY <1>4, LinkTypeOK
<1>5. ASSUME NEW b \in Blocks, NEW e \in Blocks, un_link(b, e) PROVE TypeOK'
  BY <1>5, UnlinkTypeOK
<1>6. CASE UNCHANGED vars
  BY <1>6 DEF vars, TypeOK, GraphOK, CallsOK, Blocks, Frames
<1>7. QED
  BY <1>1, <1>2, <1>3, <1>4, <1>5, <1>6 DEF Next

(* Every list names blocks of the graph only, the searches stay inside it  *)
(* and the call stack is empty exactly when no search is running.          *)
THEOREM TypeCorrect == Spec => []TypeOK
<1>1. Init => TypeOK
  BY InitTypeOK
<1>2. TypeOK /\ [Next]_vars => TypeOK'
  BY NextTypeOK
<1>3. QED
  BY <1>1, <1>2, PTL DEF Spec

-----------------------------------------------------------------------------
(***************************************************************************)
(* The export.  ExportExact alone is not inductive: the strengthening says *)
(* what the search knows halfway.                                          *)
(***************************************************************************)

(* Every block on the call stack leads to the block asked about, and the   *)
(* answer "yes" means that the entry does.                                 *)
LeadsToAsked ==
    /\ \A S \in SUBSET Blocks : ClosedUnderPreds(S) /\ asked \in S =>
         \A k \in DOMAIN search : search[k].block \in S
    /\ verdict = "yes" => Reachable(asked)

(* A flagged block has all its predecessors flagged, save those its frame  *)
(* on the stack has still to try.                                          *)
Exhausted(v) == Preds(v) \subseteq visited

Explained(v) ==
    \E k \in DOMAIN search :
        /\ search[k].block = v
        /\ \A j \in DOMAIN prev[v] : j < search[k].at => prev[v][j] \in visited \cup {Gone}

FlagsExplained ==
    phase = "export" /\ verdict \in {"open", "no"} =>
        /\ Entry \notin visited /\ asked \in visited
        /\ \A v \in visited : Exhausted(v) \/ Explained(v)

ExportedSoFar ==
    /\ phase = "fold" => exported = {}
    /\ phase = "export" =>
         /\ verdict # "none"
         /\ exported = {b \in Blocks : b < asked /\ Reachable(b)}
    /\ phase = "done" =>
         /\ verdict = "none"
         /\ exported = {b \in Blocks : Reachable(b)}
    /\ phase # "fold" => pending = <<>>

ExportInv ==
    /\ verdict # "none" => LeadsToAsked
    /\ FlagsExplained
    /\ ExportedSoFar

-----------------------------------------------------------------------------
LEMMA SameGraph ==
    ASSUME UNCHANGED graphVars
    PROVE  /\ Blocks' = Blocks
           /\ \A b : Preds(b)' = Preds(b)
           /\ \A S : ClosedUnderPreds(S)' <=> ClosedUnderPreds(S)
           /\ \A b : Reachable(b)' <=> Reachable(b)
<1>1. Blocks' = Blocks /\ \A b : Preds(b)' = Preds(b)
  BY DEF graphVars, Blocks, Preds
<1>2. \A S : ClosedUnderPreds(S)' <=> ClosedUnderPreds(S)
  BY <1>1 DEF ClosedUnderPreds
<1>3. QED
  BY <1>1, <1>2 DEF Reachable

(* Starting a search establishes what the search maintains.                *)
LEMMA AskLeads ==
    ASSUME TypeOK, NEW b \in Blocks, NEW flags \in SUBSET Blocks,
           Ask(b, flags), UNCHANGED graphVars
    PROVE  LeadsToAsked'
<1>1. asked' = b /\ Blocks' = Blocks
  BY SameGraph DEF Ask
<1>2. \A k \in DOMAIN search' : search'[k].block = b
  BY FrameType DEF Ask
<1>3. verdict' = "yes" => Reachable(asked)'
  BY <1>1 DEF Ask, Reachable
<1>4. QED
  BY <1>1, <1>2, <1>3 DEF LeadsToAsked

(* The predecessor a search step looks at.                                 *)
LEMMA TriedIsPred ==
    ASSUME TypeOK, NEW p, p # Gone, Trying(p)
    PROVE  Top \in Frames /\ Top.block \in Blocks /\ p \in Preds(Top.block)
<1>1. Top \in Frames
  BY TopType DEF TypeOK, Trying
<1>2. QED
  BY <1>1, FrameParts DEF Trying, Preds

LEMMA SearchingLeads ==
    ASSUME TypeOK, LeadsToAsked, Searching
    PROVE  LeadsToAsked'
<1>1. /\ UNCHANGED <<graphVars, asked>> /\ verdict = "open" /\ CallsOK
      /\ search \in Seq(Frames) /\ Len(search) \in Nat \ {0} /\ DOMAIN search = 1 .. Len(search)
  <2>1. verdict = "open" /\ CallsOK
    BY DEF Searching, SearchReaches, SearchSkips, SearchDescends, SearchFails, Trying, TypeOK
  <2>2. QED
    BY <2>1, TopType DEF Searching, SearchReaches, SearchSkips, SearchDescends, SearchFails, CallsOK
<1>2. Blocks' = Blocks /\ (\A S : ClosedUnderPreds(S)' <=> ClosedUnderPreds(S))
      /\ \A b : Reachable(b)' <=> Reachable(b)
  BY <1>1, SameGraph
<1>3. \A S \in SUBSET Blocks : ClosedUnderPreds(S) /\ asked \in S => Top.block \in S
  BY <1>1 DEF LeadsToAsked, Top
<1>4. CASE SearchReaches
  <2>1. Trying(Entry) /\ search' = <<>> /\ Entry # Gone
    BY <1>4 DEF SearchReaches, Entry, Gone
  <2>2. Top.block \in Blocks /\ Entry \in Preds(Top.block)
    BY <2>1, TriedIsPred
  <2>3. \A S \in SUBSET Blocks : ClosedUnderPreds(S) /\ asked \in S => Entry \in S
    BY <1>3, <2>2 DEF ClosedUnderPreds
  <2>4. Reachable(asked)
    BY <2>3 DEF Reachable
  <2>5. Reachable(asked)'
    BY <1>1, <1>2, <2>3 DEF Reachable
  <2>6. QED
    BY <2>1, <2>5 DEF LeadsToAsked
<1>5. CASE SearchSkips
  <2>1. search' = Advanced /\ verdict' = "open"
    BY <1>1, <1>5 DEF SearchSkips
  <2>2. /\ DOMAIN Advanced = DOMAIN search
        /\ \A k \in DOMAIN search : Advanced[k].block = search[k].block
    BY <1>1, TopType, FrameType, FrameParts DEF Top
  <2>3. QED
    BY <1>1, <1>2, <2>1, <2>2 DEF LeadsToAsked
<1>6. CASE SearchDescends
  <2>1. PICK p \in Blocks \ visited : /\ Trying(p)
                                      /\ search' = Append(Advanced, Frame(p, 1))
    BY <1>6 DEF SearchDescends
  <2>2. verdict' = "open" /\ p # Gone
    BY <1>1, <1>6 DEF SearchDescends, Gone, TypeOK, GraphOK, Blocks
  <2>3. Top.block \in Blocks /\ p \in Preds(Top.block)
    BY <2>1, <2>2, TriedIsPred
  <2>4. \A S \in SUBSET Blocks : ClosedUnderPreds(S) /\ asked \in S => p \in S
    BY <1>3, <2>3 DEF ClosedUnderPreds
  <2>5. /\ DOMAIN search' = 1 .. Len(search) + 1
        /\ search'[Len(search) + 1].block = p
        /\ \A k \in DOMAIN search : search'[k].block = search[k].block
    <3>1. /\ Advanced \in Seq(Frames) /\ Len(Advanced) = Len(search)
          /\ \A k \in DOMAIN search : Advanced[k].block = search[k].block
      BY <1>1, TopType, FrameType, FrameParts, SMTT(30) DEF Top
    <3>2. Frame(p, 1) \in Frames /\ Frame(p, 1).block = p
      BY FrameType
    <3>3. /\ search' \in Seq(Frames) /\ Len(search') = Len(search) + 1
          /\ search'[Len(search) + 1] = Frame(p, 1)
          /\ \A k \in 1 .. Len(search) : search'[k] = Advanced[k]
      BY <2>1, <3>1, <3>2, AppendProperties
    <3>4. DOMAIN search' = 1 .. Len(search) + 1
      BY <3>3
    <3>5. QED
      BY <1>1, <3>1, <3>2, <3>3, <3>4, Zenon
  <2>6. QED
    BY <1>1, <1>2, <2>2, <2>4, <2>5 DEF LeadsToAsked
<1>7. CASE SearchFails
  <2>1. search' = SubSeq(search, 1, Len(search) - 1) /\ verdict' # "yes"
    BY <1>7 DEF SearchFails
  <2>2. search # <<>>
    BY <1>1
  <2>3. /\ DOMAIN search' \subseteq DOMAIN search
        /\ \A k \in DOMAIN search' : search'[k] = search[k]
    BY <1>1, <2>1, <2>2, PoppedType
  <2>4. QED
    BY <1>1, <1>2, <2>1, <2>3 DEF LeadsToAsked
<1>8. QED
  BY <1>4, <1>5, <1>6, <1>7 DEF Searching

LEMMA SearchingFlags ==
    ASSUME TypeOK, FlagsExplained, Searching
    PROVE  FlagsExplained'
<1> SUFFICES ASSUME phase = "export", verdict' # "yes"
             PROVE  /\ Entry \notin visited' /\ asked' \in visited'
                    /\ \A v \in visited' : Exhausted(v)' \/ Explained(v)'
  BY DEF FlagsExplained, Searching, SearchReaches, SearchSkips, SearchDescends, SearchFails
<1>1. /\ UNCHANGED <<next, prev, asked>> /\ verdict = "open" /\ CallsOK
      /\ search \in Seq(Frames) /\ Len(search) \in Nat \ {0} /\ DOMAIN search = 1 .. Len(search)
      /\ Top = search[Len(search)] /\ Top \in Frames
  <2>1. verdict = "open" /\ CallsOK
    BY DEF Searching, SearchReaches, SearchSkips, SearchDescends, SearchFails, Trying, TypeOK
  <2>2. QED
    BY <2>1, TopType DEF Searching, SearchReaches, SearchSkips, SearchDescends, SearchFails,
                         CallsOK, Top, graphVars
<1>2. /\ Entry \notin visited /\ asked \in visited /\ visited \subseteq Blocks
      /\ \A v \in visited : Exhausted(v) \/ Explained(v)
  BY <1>1 DEF FlagsExplained, CallsOK
<1>3. Top.block \in Blocks /\ Top.at \in Nat \ {0}
  BY <1>1, FrameParts
<1>4. Advanced \in Seq(Frames) /\ Len(Advanced) = Len(search)
  BY <1>1, TopType
<1>5. \A k \in DOMAIN search :
        /\ Advanced[k].block = search[k].block
        /\ Advanced[k].at = IF k = Len(search) THEN search[k].at + 1 ELSE search[k].at
  BY <1>1, <1>3, TopType, FrameType
\* A block explained by a frame stays explained when the frame it has on top
\* of the stack has tried p and p is flagged or erased.
<1>6. ASSUME NEW p, Trying(p), visited \subseteq visited', p \in visited' \cup {Gone},
             DOMAIN search \subseteq DOMAIN search',
             \A k \in DOMAIN search : search'[k] = Advanced[k]
      PROVE  \A v \in visited : Exhausted(v)' \/ Explained(v)'
  <2>1. SUFFICES ASSUME NEW v \in visited PROVE Exhausted(v)' \/ Explained(v)'
    OBVIOUS
  <2>2. CASE Exhausted(v)
    BY <1>1, <1>6, <2>2 DEF Exhausted, Preds
  <2>3. CASE Explained(v)
    <3>1. PICK k \in DOMAIN search :
            /\ search[k].block = v
            /\ \A j \in DOMAIN prev[v] : j < search[k].at => prev[v][j] \in visited \cup {Gone}
      BY <2>3 DEF Explained
    <3>2. search[k].at \in Nat
      BY <1>1, FrameParts
    <3>3. v \in Blocks /\ DOMAIN prev[v] \subseteq Nat
      BY <1>2 DEF TypeOK, GraphOK, Blocks
    <3>4. ASSUME NEW j \in DOMAIN prev[v], j < Advanced[k].at
          PROVE  prev[v][j] \in visited' \cup {Gone}
      <4>1. CASE j < search[k].at
        BY <1>6, <3>1, <4>1
      <4>2. CASE j = search[k].at /\ k = Len(search)
        BY <1>1, <1>6, <3>1, <4>2 DEF Trying
      <4>3. QED
        BY <1>5, <3>2, <3>3, <3>4, <4>1, <4>2
    <3>5. k \in DOMAIN search' /\ search'[k] = Advanced[k] /\ Advanced[k].block = v
      BY <1>5, <1>6, <3>1
    <3>6. QED
      BY <1>1, <3>4, <3>5 DEF Explained
  <2>4. QED
    BY <1>2, <2>2, <2>3
<1>7. CASE SearchSkips
  <2>1. PICK p \in visited \cup {Gone} : Trying(p)
    BY <1>7 DEF SearchSkips
  <2>2. search' = Advanced /\ visited' = visited
    BY <1>7 DEF SearchSkips
  <2>3. \A v \in visited : Exhausted(v)' \/ Explained(v)'
    BY <1>1, <1>4, <1>6, <2>1, <2>2
  <2>4. QED
    BY <1>1, <1>2, <2>2, <2>3
<1>8. CASE SearchDescends
  <2>1. PICK p \in Blocks \ visited : /\ p # Entry /\ Trying(p)
                                      /\ visited' = visited \cup {p}
                                      /\ search' = Append(Advanced, Frame(p, 1))
    BY <1>8 DEF SearchDescends
  <2>2. /\ DOMAIN search' = 1 .. Len(search) + 1
        /\ search'[Len(search) + 1] = Frame(p, 1)
        /\ \A k \in DOMAIN search : search'[k] = Advanced[k]
    BY <1>1, <1>4, <2>1, FrameType, AppendProperties
  <2>3. \A v \in visited : Exhausted(v)' \/ Explained(v)'
    BY <1>1, <1>6, <2>1, <2>2
  <2>4. Explained(p)'
    <3>1. DOMAIN prev[p] \subseteq Nat \ {0}
      BY DEF TypeOK, GraphOK, Blocks
    <3>2. search'[Len(search) + 1].block = p /\ search'[Len(search) + 1].at = 1
      BY <2>2, FrameType
    <3>3. QED
      BY <1>1, <2>2, <3>1, <3>2 DEF Explained
  <2>5. QED
    BY <1>1, <1>2, <2>1, <2>3, <2>4
<1>9. CASE SearchFails
  <2>1. /\ search' = SubSeq(search, 1, Len(search) - 1) /\ visited' = visited
        /\ Top.at \notin DOMAIN prev[Top.block]
    BY <1>9 DEF SearchFails
  <2>2. /\ DOMAIN search' = 1 .. Len(search) - 1
        /\ \A k \in DOMAIN search' : search'[k] = search[k]
    <3>1. search # <<>>
      BY <1>1
    <3>2. QED
      BY <1>1, <2>1, <3>1, PoppedType
  <2>3. ASSUME NEW v \in visited PROVE Exhausted(v)' \/ Explained(v)'
    <3>1. CASE Exhausted(v)
      BY <1>1, <2>1, <3>1 DEF Exhausted, Preds
    <3>2. CASE Explained(v)
      <4>1. PICK k \in DOMAIN search :
              /\ search[k].block = v
              /\ \A j \in DOMAIN prev[v] : j < search[k].at => prev[v][j] \in visited \cup {Gone}
        BY <3>2 DEF Explained
      <4>2. CASE k = Len(search)
        <5>1. PICK m \in Nat : DOMAIN prev[v] = 1 .. m
          BY <1>2 DEF TypeOK, GraphOK, Blocks
        <5>2. m < Top.at
          BY <1>1, <1>3, <2>1, <4>1, <4>2, <5>1
        <5>3. Preds(v) \subseteq visited
          BY <1>1, <1>3, <4>1, <4>2, <5>1, <5>2 DEF Preds
        <5>4. QED
          BY <1>1, <2>1, <5>3 DEF Exhausted, Preds
      <4>3. CASE k # Len(search)
        <5>1. k \in DOMAIN search' /\ search'[k] = search[k]
          BY <1>1, <2>2, <4>3
        <5>2. QED
          BY <1>1, <2>1, <4>1, <5>1 DEF Explained
      <4>4. QED
        BY <4>2, <4>3
    <3>3. QED
      BY <1>2, <3>1, <3>2
  <2>4. QED
    BY <1>1, <1>2, <2>1, <2>3
<1>10. QED
  BY <1>7, <1>8, <1>9 DEF Searching, SearchReaches

(* A search that has failed was right to: its flags form a closed set that *)
(* lacks the entry.                                                        *)
LEMMA FailureIsRight ==
    ASSUME TypeOK, FlagsExplained, phase = "export", verdict = "no"
    PROVE  ~Reachable(asked)
<1>1. search = <<>> /\ visited \in SUBSET Blocks
  BY DEF TypeOK, CallsOK
<1>2. Entry \notin visited /\ asked \in visited /\ \A v \in visited : Exhausted(v)
  BY <1>1 DEF FlagsExplained, Explained
<1>3. ClosedUnderPreds(visited)
  BY <1>2 DEF ClosedUnderPreds, Exhausted
<1>4. QED
  BY <1>1, <1>2, <1>3 DEF Reachable

LEMMA InitExportInv == Init => ExportInv
  BY DEF Init, ExportInv, FlagsExplained, ExportedSoFar

LEMMA ExportingExportInv ==
    ASSUME TypeOK, ExportInv, Exporting
    PROVE  ExportInv'
<1>1. PICK n \in Nat \ {0} : Blocks = 1 .. n
  BY GraphsAssumption DEF TypeOK, GraphOK, Blocks
<1>2. /\ UNCHANGED graphVars /\ Blocks' = Blocks /\ pending' = pending
      /\ \A b : Reachable(b)' <=> Reachable(b)
  BY SameGraph DEF Exporting, ExportBegins, ExportContinues, ExportEnds, ExportAsks
<1>3. asked \in Blocks /\ asked \in Nat
  BY <1>1 DEF TypeOK, CallsOK
<1>4. CASE ExportBegins
  <2>1. Ask(Entry, {}) /\ phase' = "export" /\ exported' = {} /\ pending' = <<>>
    BY <1>2, <1>4 DEF ExportBegins, ExportAsks, Idle, ExportInv, ExportedSoFar
  <2>2. Entry \in Blocks
    BY <1>1 DEF Entry
  <2>3. verdict' = "yes" /\ asked' = Entry
    BY <2>1 DEF Ask
  <2>4. LeadsToAsked'
    BY <1>2, <2>1, <2>2, AskLeads
  <2>5. {b \in Blocks : b < Entry /\ Reachable(b)} = {}
    BY <1>1 DEF Entry
  <2>6. QED
    BY <1>2, <2>1, <2>3, <2>4, <2>5 DEF ExportInv, FlagsExplained, ExportedSoFar
<1>5. ASSUME phase = "export", verdict \in {"yes", "no"}
      PROVE  Copied = {b \in Blocks : b < asked + 1 /\ Reachable(b)}
  <2>1. exported = {b \in Blocks : b < asked /\ Reachable(b)}
    BY <1>5 DEF ExportInv, ExportedSoFar
  <2>2. verdict = "yes" <=> Reachable(asked)
    BY <1>5, FailureIsRight DEF ExportInv, LeadsToAsked
  <2>3. \A b \in Blocks : b < asked + 1 <=> b < asked \/ b = asked
    BY <1>1, <1>3
  <2>4. QED
    BY <1>3, <1>5, <2>1, <2>2, <2>3 DEF Copied
<1>6. CASE ExportContinues
  <2>1. /\ Ask(asked + 1, {}) /\ phase' = "export" /\ phase = "export"
        /\ asked + 1 \in Blocks /\ pending' = <<>>
        /\ exported' = {b \in Blocks : b < asked + 1 /\ Reachable(b)}
    BY <1>2, <1>5, <1>6 DEF ExportContinues, ExportInv, ExportedSoFar
  <2>2. LeadsToAsked'
    BY <1>2, <2>1, AskLeads
  <2>3. asked + 1 # Entry
    BY <1>1, <1>3 DEF Entry
  <2>4. asked' = asked + 1 /\ verdict' = "open" /\ visited' = {asked + 1} /\ search' = <<Frame(asked + 1, 1)>>
    BY <2>1, <2>3 DEF Ask
  <2>5. Explained(asked)'
    <3>1. DOMAIN prev'[asked'] \subseteq Nat \ {0}
      BY <1>2, <2>1, <2>4 DEF TypeOK, GraphOK, Blocks, graphVars
    <3>2. 1 \in DOMAIN search' /\ search'[1].block = asked' /\ search'[1].at = 1
      BY <2>1, <2>4, FrameType
    <3>3. QED
      BY <3>1, <3>2 DEF Explained
  <2>6. FlagsExplained'
    BY <2>3, <2>4, <2>5 DEF FlagsExplained
  <2>7. ExportedSoFar'
    BY <1>2, <2>1, <2>4 DEF ExportedSoFar
  <2>8. QED
    BY <2>2, <2>6, <2>7 DEF ExportInv
<1>7. CASE ExportEnds
  <2>1. /\ phase' = "done" /\ verdict' = "none" /\ pending' = <<>> /\ asked + 1 \notin Blocks
        /\ exported' = {b \in Blocks : b < asked + 1 /\ Reachable(b)}
    BY <1>2, <1>5, <1>7 DEF ExportEnds, ExportInv, ExportedSoFar
  <2>2. \A b \in Blocks : b < asked + 1
    BY <1>1, <1>3, <2>1
  <2>3. exported' = {b \in Blocks : Reachable(b)}
    BY <2>1, <2>2
  <2>4. QED
    BY <1>2, <2>1, <2>3 DEF ExportInv, FlagsExplained, ExportedSoFar
<1>8. QED
  BY <1>4, <1>6, <1>7 DEF Exporting

LEMMA NextExportInv == TypeOK /\ ExportInv /\ [Next]_vars => ExportInv'
<1> SUFFICES ASSUME TypeOK, ExportInv, [Next]_vars PROVE ExportInv'
  OBVIOUS
<1>1. CASE Searching
  <2>1. UNCHANGED <<graphVars, asked, pending, phase, exported>> /\ verdict = "open" /\ verdict' # "none"
    BY <1>1 DEF Searching, SearchReaches, SearchSkips, SearchDescends, SearchFails, Trying
  <2>2. LeadsToAsked' /\ FlagsExplained'
    BY <1>1, <2>1, SearchingLeads, SearchingFlags DEF ExportInv
  <2>3. ExportedSoFar'
    BY <2>1, SameGraph DEF ExportInv, ExportedSoFar
  <2>4. QED
    BY <2>2, <2>3 DEF ExportInv
<1>2. CASE Pruning
  <2>1. phase = "fold" /\ phase' = "fold" /\ exported' = exported /\ pending # <<>>
    BY <1>2 DEF Pruning, PruneAsks, PruneKeeps, PruneSkips, PruneCuts,
                ExportInv, ExportedSoFar, TypeOK, CallsOK
  <2>2. ExportedSoFar' /\ FlagsExplained'
    BY <2>1 DEF ExportInv, ExportedSoFar, FlagsExplained
  <2>3. verdict' # "none" => LeadsToAsked'
    <3>1. CASE PruneAsks
      <4>1. /\ Ask(Head(pending), visited) /\ UNCHANGED graphVars
            /\ visited \in SUBSET Blocks /\ Head(pending) \in Blocks
        BY <3>1, QueueTail DEF PruneAsks, TypeOK, CallsOK
      <4>2. QED
        BY <4>1, AskLeads
    <3>2. CASE PruneKeeps \/ PruneSkips \/ PruneCuts
      BY <3>2 DEF PruneKeeps, PruneSkips, PruneCuts, searchVars
    <3>3. QED
      BY <1>2, <3>1, <3>2 DEF Pruning
  <2>4. QED
    BY <2>2, <2>3 DEF ExportInv
<1>3. CASE Exporting
  BY <1>3, ExportingExportInv
<1>4. CASE \E b \in Blocks, e \in Blocks : link(b, e) \/ un_link(b, e)
  BY <1>4 DEF link, un_link, searchVars, Idle, ExportInv, ExportedSoFar, FlagsExplained
<1>5. CASE UNCHANGED vars
  <2>1. UNCHANGED <<graphVars, visited, asked, verdict, search, pending, phase, exported>>
    BY <1>5 DEF vars, graphVars
  <2>2. LeadsToAsked' <=> LeadsToAsked
    BY <2>1, SameGraph DEF LeadsToAsked
  <2>3. ExportedSoFar' <=> ExportedSoFar
    BY <2>1, SameGraph DEF ExportedSoFar
  <2>4. FlagsExplained' <=> FlagsExplained
    BY <2>1 DEF FlagsExplained, Exhausted, Explained, Preds, graphVars
  <2>5. QED
    BY <2>1, <2>2, <2>3, <2>4 DEF ExportInv
<1>6. QED
  BY <1>1, <1>2, <1>3, <1>4, <1>5 DEF Next

(* When write_opt_code has finished, the blocks it has copied out are      *)
(* exactly those the predecessor lists reach, for every graph and however  *)
(* it was rewired before: the search neither gives up too early on a       *)
(* cycle nor reports a block that the entry does not lead to.              *)
THEOREM ExportIsExact == Spec => []ExportExact
<1>1. Init => TypeOK /\ ExportInv
  BY InitTypeOK, InitExportInv
<1>2. TypeOK /\ ExportInv /\ [Next]_vars => TypeOK' /\ ExportInv'
  BY NextTypeOK, NextExportInv
<1>3. ExportInv => ExportExact
  BY DEF ExportInv, ExportedSoFar, ExportExact
<1>4. QED
  BY <1>1, <1>2, <1>3, PTL DEF Spec

-----------------------------------------------------------------------------
(* A finite set of numbers in ascending order.                             *)
Smaller(S, x) == {y \in S : y < x}

LEMMA Ranks ==
    ASSUME NEW S, S \subseteq Nat, IsFiniteSet(S)
    PROVE  /\ Cardinality(S) \in Nat
           /\ \A x \in S : Cardinality(Smaller(S, x)) \in 0 .. Cardinality(S) - 1
           /\ \A x, y \in S : x < y => Cardinality(Smaller(S, x)) < Cardinality(Smaller(S, y))
           /\ \A n \in 0 .. Cardinality(S) - 1 : \E x \in S : Cardinality(Smaller(S, x)) = n
<1>1. Cardinality(S) \in Nat
  BY FS_CardinalityType
<1>2. ASSUME NEW x \in Nat
      PROVE  IsFiniteSet(Smaller(S, x)) /\ Cardinality(Smaller(S, x)) \in Nat
  <2>1. Smaller(S, x) \in SUBSET S
    BY DEF Smaller
  <2>2. QED
    BY <2>1, FS_Subset, FS_CardinalityType
<1>3. ASSUME NEW x \in S
      PROVE  /\ IsFiniteSet(Smaller(S, x) \cup {x})
             /\ Cardinality(Smaller(S, x) \cup {x}) = Cardinality(Smaller(S, x)) + 1
  <2>1. x \notin Smaller(S, x) /\ x \in Nat
    BY DEF Smaller
  <2>2. QED
    BY <1>2, <2>1, FS_AddElement
<1>4. ASSUME NEW x \in S PROVE Cardinality(Smaller(S, x)) \in 0 .. Cardinality(S) - 1
  <2>1. Smaller(S, x) \cup {x} \in SUBSET S
    BY DEF Smaller
  <2>2. Cardinality(Smaller(S, x) \cup {x}) <= Cardinality(S)
    BY <2>1, FS_Subset
  <2>3. x \in Nat /\ Cardinality(Smaller(S, x)) \in Nat
    BY <1>2
  <2>4. Cardinality(Smaller(S, x)) + 1 <= Cardinality(S)
    BY <1>3, <2>2
  <2>5. QED
    BY <1>1, <2>3, <2>4
<1>5. ASSUME NEW x \in S, NEW y \in S, x < y
      PROVE  Cardinality(Smaller(S, x)) < Cardinality(Smaller(S, y))
  <2>1. x \in Nat /\ y \in Nat /\ Smaller(S, x) \cup {x} \in SUBSET Smaller(S, y)
    <3>1. x \in Nat /\ y \in Nat
      OBVIOUS
    <3>2. x \in Smaller(S, y)
      BY <1>5 DEF Smaller
    <3>3. \A z \in Smaller(S, x) : z \in Smaller(S, y)
      BY <1>5, <3>1 DEF Smaller
    <3>4. QED
      BY <3>1, <3>2, <3>3
  <2>2. Cardinality(Smaller(S, x) \cup {x}) <= Cardinality(Smaller(S, y))
    BY <1>2, <2>1, FS_Subset
  <2>3. Cardinality(Smaller(S, x)) \in Nat /\ Cardinality(Smaller(S, y)) \in Nat
    BY <1>2, <2>1
  <2>4. Cardinality(Smaller(S, x) \cup {x}) = Cardinality(Smaller(S, x)) + 1
    BY <1>3
  <2>5. QED
    BY <2>2, <2>3, <2>4
<1> DEFINE rank == [x \in S |-> Cardinality(Smaller(S, x))]
           T == 0 .. Cardinality(S) - 1
<1>6. rank \in Injection(S, T)
  <2>1. rank \in [S -> T]
    BY <1>4
  <2>2. ASSUME NEW x \in S, NEW y \in S, rank[x] = rank[y] PROVE x = y
    <3>1. x \in Nat /\ y \in Nat /\ Cardinality(Smaller(S, x)) \in Nat /\ Cardinality(Smaller(S, y)) \in Nat
      BY <1>2
    <3>2. ~(x < y) /\ ~(y < x)
      BY <1>5, <2>2, <3>1
    <3>3. QED
      BY <3>1, <3>2
  <2>3. QED
    BY <2>1, <2>2 DEF Injection, IsInjective
<1>7. IsFiniteSet(T) /\ Cardinality(T) = Cardinality(S)
  <2>1. 0 \in Int /\ Cardinality(S) - 1 \in Int
    BY <1>1
  <2>2. /\ IsFiniteSet(T)
        /\ Cardinality(T) = IF 0 > Cardinality(S) - 1 THEN 0 ELSE Cardinality(S) - 1 - 0 + 1
    BY <2>1, FS_Interval
  <2> HIDE DEF T
  <2>3. QED
    BY <1>1, <2>2
<1>8. rank \in Surjection(S, T)
  BY <1>6, <1>7, FS_Injection
<1>9. ASSUME NEW n \in T PROVE \E x \in S : Cardinality(Smaller(S, x)) = n
  BY <1>8, <1>9 DEF Surjection
<1>10. QED
  BY <1>1, <1>4, <1>5, <1>9

LEMMA InOrder ==
    ASSUME NEW S, S \subseteq Nat, IsFiniteSet(S)
    PROVE  /\ Cardinality(S) \in Nat
           /\ Ascending(S) \in [1 .. Cardinality(S) -> S]
           /\ Ascending(S) \in Seq(S) /\ Len(Ascending(S)) = Cardinality(S)
           /\ \A x \in S : \E k \in 1 .. Cardinality(S) : Ascending(S)[k] = x
           /\ \A j, k \in 1 .. Cardinality(S) : j < k => Ascending(S)[j] < Ascending(S)[k]
<1> DEFINE A == Ascending(S)
           n == Cardinality(S)
<1>1. /\ n \in Nat
      /\ \A x \in S : Cardinality(Smaller(S, x)) \in 0 .. n - 1
      /\ \A x, y \in S : x < y => Cardinality(Smaller(S, x)) < Cardinality(Smaller(S, y))
      /\ \A k \in 0 .. n - 1 : \E x \in S : Cardinality(Smaller(S, x)) = k
  BY Ranks
<1>2. A = [k \in 1 .. n |-> CHOOSE x \in S : Cardinality(Smaller(S, x)) = k - 1]
  BY DEF Ascending, Smaller
<1> HIDE DEF A, n
<1>3. ASSUME NEW k \in 1 .. n PROVE A[k] \in S /\ Cardinality(Smaller(S, A[k])) = k - 1
  <2>1. k - 1 \in 0 .. n - 1
    BY <1>1
  <2>2. \E x \in S : Cardinality(Smaller(S, x)) = k - 1
    BY <1>1, <2>1
  <2>3. QED
    BY <1>2, <2>2
<1>4. A \in [1 .. n -> S]
  BY <1>2, <1>3
<1>5. A \in Seq(S) /\ Len(A) = n
  BY <1>1, <1>4
<1>6. ASSUME NEW x \in S, NEW y \in S, Cardinality(Smaller(S, x)) = Cardinality(Smaller(S, y))
      PROVE  x = y
  <2>1. /\ x \in Nat /\ y \in Nat
        /\ Cardinality(Smaller(S, x)) \in 0 .. n - 1 /\ Cardinality(Smaller(S, y)) \in 0 .. n - 1
    BY <1>1
  <2>2. ~(x < y) /\ ~(y < x)
    BY <1>1, <1>6, <2>1
  <2>3. QED
    BY <2>1, <2>2
<1>7. ASSUME NEW x \in S PROVE \E k \in 1 .. n : A[k] = x
  <2>1. PICK k \in 1 .. n : Cardinality(Smaller(S, x)) = k - 1
    <3>1. PICK r \in 0 .. n - 1 : Cardinality(Smaller(S, x)) = r
      BY <1>1
    <3>2. r + 1 \in 1 .. n /\ r + 1 - 1 = r
      BY <1>1
    <3>3. QED
      BY <3>1, <3>2
  <2>2. QED
    BY <1>3, <1>6, <2>1
<1>8. ASSUME NEW j \in 1 .. n, NEW k \in 1 .. n, j < k PROVE A[j] < A[k]
  <2>1. /\ A[j] \in S /\ A[k] \in S /\ A[j] \in Nat /\ A[k] \in Nat
        /\ Cardinality(Smaller(S, A[j])) = j - 1 /\ Cardinality(Smaller(S, A[k])) = k - 1
    BY <1>3
  <2>2. ~(A[k] < A[j]) /\ A[j] # A[k]
    <3>1. ~(k - 1 < j - 1) /\ j - 1 # k - 1
      BY <1>1, <1>8
    <3>2. QED
      BY <1>1, <2>1, <3>1
  <2>3. QED
    BY <2>1, <2>2
<1>9. QED
  BY <1>1, <1>4, <1>5, <1>7, <1>8 DEF A, n

-----------------------------------------------------------------------------
(* The blocks a body is cut into: there is one at least, none is empty,    *)
(* and every jump's target begins one.                                     *)
LEMMA LeadersFacts ==
    ASSUME NEW c \in Functions
    PROVE  /\ Len(c) \in Nat \ {0} /\ DOMAIN c = 1 .. Len(c)
           /\ Leaders(c) \subseteq 1 .. Len(c) /\ 1 \in Leaders(c)
           /\ \A p \in DOMAIN c : IsJump(c[p]) =>
                 /\ PlaceOf(c, c[p].target) \in Leaders(c)
                 /\ PlaceOf(c, c[p].target) \in Places(c, c[p].target)
<1>1. /\ c \in Seq(ToSet(c)) /\ c # <<>>
      /\ \A p \in DOMAIN c : IsJump(c[p]) => Places(c, c[p].target) # {}
  BY FunctionsAssumption
<1>2. Len(c) \in Nat \ {0} /\ DOMAIN c = 1 .. Len(c)
  BY <1>1, LenProperties, EmptySeq
<1>3. ASSUME NEW p \in DOMAIN c, IsJump(c[p])
      PROVE  PlaceOf(c, c[p].target) \in Places(c, c[p].target)
  <2>1. Places(c, c[p].target) # {}
    BY <1>1, <1>3
  <2>2. QED
    BY <2>1 DEF PlaceOf
<1>4. \A label : Places(c, label) \subseteq 1 .. Len(c)
  BY <1>2 DEF Places
<1> DEFINE n == Len(c)
           jumps == {p \in 1 .. n : IsJump(c[p])}
           L1 == {p \in 1 .. n : p <= 2 \/ (n > 2 /\ p = n)}
           L2 == {p + 1 : p \in jumps \ {n}}
           L3 == {PlaceOf(c, c[p].target) : p \in jumps}
<1>5. Leaders(c) = L1 \cup L2 \cup L3
  BY DEF Leaders
<1>6. L1 \subseteq 1 .. n /\ 1 \in L1
  BY <1>2
<1>7. L2 \subseteq 1 .. n
  <2>1. jumps \subseteq 1 .. n /\ n \in Nat
    BY <1>2
  <2> HIDE DEF n, jumps
  <2>2. \A p \in 1 .. n : p # n => p + 1 \in 1 .. n
    BY <2>1
  <2>3. QED
    BY <2>1, <2>2
<1>8. L3 \subseteq 1 .. n
  BY <1>2, <1>3, <1>4
<1>9. \A p \in DOMAIN c : IsJump(c[p]) => PlaceOf(c, c[p].target) \in L3
  BY <1>2
<1> HIDE DEF L1, L2, L3, jumps
<1>10. QED
  BY <1>2, <1>3, <1>5, <1>6, <1>7, <1>8, <1>9

Apart(B) == \A j, k \in DOMAIN B : j # k => \A p : ~(Contains(B[j], p) /\ Contains(B[k], p))

Cut(c, B) ==
    /\ \E m \in Nat \ {0} : DOMAIN B = 1 .. m /\ Len(B) = m
    /\ \A k \in DOMAIN B : B[k] \in Seq(1 .. Len(c)) /\ B[k] # <<>>
    /\ \A p \in Leaders(c) : \E k \in DOMAIN B : Contains(B[k], p)
    /\ Apart(B)

LEMMA BlocksAreCut == ASSUME NEW c \in Functions PROVE Cut(c, BlocksOf(c))
<1> DEFINE S == Leaders(c)
           starts == Ascending(S)
           n == Len(c)
           m == Cardinality(S)
           last(k) == IF k = Len(starts) THEN n ELSE starts[k + 1] - 1
           B == BlocksOf(c)
<1>1. n \in Nat \ {0} /\ S \subseteq 1 .. n /\ 1 \in S
  BY LeadersFacts
<1>2. S \subseteq Nat /\ IsFiniteSet(S)
  <2>1. IsFiniteSet(1 .. n) /\ S \in SUBSET (1 .. n)
    BY <1>1, FS_Interval
  <2>2. QED
    BY <1>1, <2>1, FS_Subset
<1>3. B = [k \in DOMAIN starts |-> [j \in 1 .. last(k) - starts[k] + 1 |-> starts[k] + j - 1]]
  BY DEF BlocksOf
<1> HIDE DEF S, B, n
<1>4. /\ m \in Nat /\ starts \in [1 .. m -> S] /\ Len(starts) = m
      /\ \A x \in S : \E k \in 1 .. m : starts[k] = x
      /\ \A j, k \in 1 .. m : j < k => starts[j] < starts[k]
  BY <1>2, InOrder
<1> HIDE DEF starts
<1>5. m # 0
  BY <1>1, <1>4
<1> HIDE DEF m
<1>6. ASSUME NEW k \in 1 .. m
      PROVE  starts[k] \in 1 .. n /\ last(k) \in starts[k] .. n
  <2>1. starts[k] \in 1 .. n
    BY <1>1, <1>4
  <2>2. CASE k = m
    BY <1>1, <1>4, <2>1, <2>2
  <2>3. CASE k # m
    <3>1. k + 1 \in 1 .. m /\ k < k + 1
      BY <1>4, <2>3
    <3>2. starts[k + 1] \in 1 .. n /\ starts[k] < starts[k + 1]
      BY <1>1, <1>4, <3>1
    <3>3. last(k) = starts[k + 1] - 1
      BY <1>4, <2>3
    <3>4. QED
      BY <1>1, <2>1, <3>2, <3>3
  <2>4. QED
    BY <2>2, <2>3
<1> HIDE DEF last
<1>7. ASSUME NEW k \in 1 .. m
      PROVE  /\ B[k] \in Seq(1 .. n) /\ B[k] # <<>> /\ Contains(B[k], starts[k])
             /\ \A p : Contains(B[k], p) => p \in starts[k] .. last(k)
  <2>1. PICK from \in 1 .. n : from = starts[k]
    BY <1>6
  <2>2. PICK to \in from .. n : to = last(k)
    BY <1>6, <2>1
  <2>3. PICK l \in Nat \ {0} : l = to - from + 1
    BY <1>1
  <2>4. B[k] = [j \in 1 .. l |-> from + j - 1]
    BY <1>3, <1>4, <2>1, <2>2, <2>3
  <2>5. \A j \in 1 .. l : from + j - 1 \in 1 .. n
    BY <1>1, <2>3
  <2>6. B[k] \in [1 .. l -> 1 .. n]
    BY <2>4, <2>5
  <2>7. B[k] \in Seq(1 .. n) /\ Len(B[k]) = l
    <3>1. B[k] \in Seq(1 .. n)
      BY <2>6, SeqDef
    <3>2. DOMAIN B[k] = 1 .. l /\ DOMAIN B[k] = 1 .. Len(B[k]) /\ Len(B[k]) \in Nat
      BY <2>6, <3>1, LenProperties
    <3>3. QED
      BY <3>1, <3>2
  <2>8. B[k][1] = from /\ 1 \in 1 .. l
    BY <2>4, <1>1
  <2>9. B[k] # <<>>
    BY <2>7, EmptySeq
  <2>10. Contains(B[k], from)
    BY <2>7, <2>8 DEF Contains
  <2>11. ASSUME NEW p, Contains(B[k], p) PROVE p \in from .. to
    <3>1. PICK j \in 1 .. l : B[k][j] = p
      BY <2>7, <2>11 DEF Contains
    <3>2. p = from + j - 1
      BY <2>4, <3>1
    <3>3. QED
      BY <1>1, <2>3, <3>2
  <2>12. QED
    BY <2>1, <2>2, <2>7, <2>9, <2>10, <2>11
<1>8. DOMAIN B = 1 .. m
  BY <1>3, <1>4
<1>9. Len(B) = m
  <2>1. B \in [1 .. m -> Seq(1 .. n)]
    BY <1>3, <1>4, <1>7, <1>8
  <2>2. B \in Seq(Seq(1 .. n))
    BY <1>4, <2>1, SeqDef
  <2>3. QED
    BY <1>4, <1>8, <2>2, LenProperties
<1>10. \A p \in S : \E k \in DOMAIN B : Contains(B[k], p)
  BY <1>4, <1>7, <1>8
<1>11. m \in Nat \ {0}
  BY <1>4, <1>5
<1>12. ASSUME NEW j \in 1 .. m, NEW k \in 1 .. m, j < k,
              NEW p, Contains(B[j], p), Contains(B[k], p)
       PROVE  FALSE
  <2>1. p \in starts[j] .. last(j) /\ p \in starts[k] .. last(k)
    BY <1>7, <1>12
  <2>2. j + 1 \in 1 .. m /\ j # m /\ (j + 1 = k \/ j + 1 < k)
    BY <1>4, <1>12
  <2>3. PICK after \in 1 .. m : after = j + 1
    BY <2>2
  <2>4. last(j) = starts[after] - 1
    BY <1>4, <2>2, <2>3 DEF last
  <2>5. PICK x, y \in 1 .. n : x = starts[after] /\ y = starts[k]
    BY <1>6
  <2>6. x <= y
    <3>1. CASE after = k
      BY <2>5, <3>1
    <3>2. CASE after < k
      BY <1>4, <2>5, <3>2
    <3>3. QED
      BY <2>2, <2>3, <3>1, <3>2
  <2>7. p \in Int /\ p <= x - 1 /\ y <= p
    <3>1. last(k) \in Int /\ starts[j] \in Int
      BY <1>6
    <3>2. QED
      BY <2>1, <2>4, <2>5, <3>1
  <2>8. QED
    BY <2>6, <2>7
<1>13. Apart(B)
  <2>1. SUFFICES ASSUME NEW j \in 1 .. m, NEW k \in 1 .. m, j # k,
                        NEW p, Contains(B[j], p), Contains(B[k], p)
                 PROVE  FALSE
    BY <1>8 DEF Apart
  <2>2. j < k \/ k < j
    BY <2>1
  <2>3. QED
    BY <1>12, <2>1, <2>2
<1>14. QED
  BY <1>7, <1>8, <1>9, <1>10, <1>11, <1>13 DEF Cut, S, n, B

-----------------------------------------------------------------------------
(* How often a block stands in a list, and what becomes of that when the   *)
(* list changes.                                                           *)
Spots(s, b) == {k \in DOMAIN s : s[k] = b}

LEMMA CopiesFacts ==
    ASSUME NEW T, NEW s \in Seq(T), NEW b
    PROVE  /\ IsFiniteSet(Spots(s, b)) /\ Copies(s, b) = Cardinality(Spots(s, b))
           /\ Copies(s, b) \in Nat
           /\ Copies(s, b) = 0 <=> ~Occurs(s, b)
           /\ Spots(s, b) \subseteq 1 .. Len(s)
<1>1. DOMAIN s = 1 .. Len(s) /\ Len(s) \in Nat
  BY LenProperties
<1>2. Spots(s, b) \in SUBSET (1 .. Len(s))
  BY <1>1 DEF Spots
<1>3. IsFiniteSet(1 .. Len(s))
  BY <1>1, FS_Interval
<1>4. IsFiniteSet(Spots(s, b))
  BY <1>2, <1>3, FS_Subset
<1>5. Copies(s, b) = Cardinality(Spots(s, b))
  BY DEF Copies, Spots
<1>6. Cardinality(Spots(s, b)) \in Nat /\ (Cardinality(Spots(s, b)) = 0 <=> Spots(s, b) = {})
  BY <1>4, FS_CardinalityType, FS_EmptySet
<1>7. Spots(s, b) = {} <=> ~Occurs(s, b)
  BY DEF Spots, Occurs
<1>8. QED
  BY <1>2, <1>4, <1>5, <1>6, <1>7

LEMMA CopiesOfFew ==
    ASSUME NEW x, NEW b
    PROVE  Copies(<<>>, b) = 0 /\ Copies(<<x>>, b) = IF x = b THEN 1 ELSE 0
<1>1. {k \in DOMAIN <<>> : <<>>[k] = b} = {}
  OBVIOUS
<1>2. CASE x = b
  <2>1. {k \in DOMAIN <<x>> : <<x>>[k] = b} = {1}
    BY <1>2
  <2>2. QED
    BY <1>1, <1>2, <2>1, FS_EmptySet, FS_Singleton DEF Copies
<1>3. CASE x # b
  <2>1. {k \in DOMAIN <<x>> : <<x>>[k] = b} = {}
    BY <1>3
  <2>2. QED
    BY <1>1, <1>3, <2>1, FS_EmptySet DEF Copies
<1>4. QED
  BY <1>2, <1>3

LEMMA CopiesJoined ==
    ASSUME NEW T, NEW s \in Seq(T), NEW t \in Seq(T), NEW b
    PROVE  Copies(s \o t, b) = Copies(s, b) + Copies(t, b)
<1> DEFINE m == Len(s)
           n == Len(t)
           u == s \o t
           moved == [k \in Spots(t, b) |-> k + m]
           M == {k \in Spots(u, b) : k > m}
<1>1. m \in Nat /\ n \in Nat /\ DOMAIN s = 1 .. m /\ DOMAIN t = 1 .. n
  BY LenProperties
<1>2. u \in Seq(T) /\ DOMAIN u = 1 .. m + n
      /\ \A k \in 1 .. m + n : u[k] = IF k <= m THEN s[k] ELSE t[k - m]
  <2>1. /\ u \in Seq(T) /\ Len(u) = m + n
        /\ \A k \in 1 .. m + n : u[k] = IF k <= m THEN s[k] ELSE t[k - m]
    BY ConcatProperties
  <2> HIDE DEF m, n, u
  <2>2. DOMAIN u = 1 .. Len(u)
    BY <2>1, LenProperties
  <2>3. QED
    BY <2>1, <2>2
<1> HIDE DEF u, m, n
<1>3. moved \in Bijection(Spots(t, b), M)
  <2>1. ASSUME NEW k \in Spots(t, b) PROVE k + m \in M /\ k \in Nat
    <3>1. k \in 1 .. n /\ t[k] = b
      BY <1>1 DEF Spots
    <3>2. k + m \in 1 .. m + n /\ k + m > m /\ ~(k + m <= m) /\ k + m - m = k
      BY <1>1, <3>1
    <3>3. u[k + m] = b
      <4>1. PICK q \in 1 .. m + n : q = k + m
        BY <3>2
      <4>2. ~(q <= m) /\ q - m = k
        BY <1>1, <3>1, <4>1
      <4>3. u[q] = t[q - m]
        BY <1>2, <4>2
      <4>4. QED
        BY <3>1, <4>1, <4>2, <4>3
    <3>4. QED
      BY <1>2, <3>1, <3>2, <3>3 DEF Spots
  <2>2. ASSUME NEW k \in M PROVE k - m \in Spots(t, b) /\ moved[k - m] = k
    <3>1. k \in 1 .. m + n /\ k > m /\ u[k] = b
      BY <1>2 DEF Spots
    <3>2. k - m \in 1 .. n /\ ~(k <= m) /\ k - m + m = k
      BY <1>1, <3>1
    <3>3. t[k - m] = b
      BY <1>2, <3>1, <3>2
    <3>4. k - m \in Spots(t, b)
      BY <1>1, <3>2, <3>3 DEF Spots
    <3>5. QED
      BY <3>2, <3>4
  <2>3. moved \in [Spots(t, b) -> M]
    BY <2>1
  <2>4. \A j, k \in Spots(t, b) : moved[j] = moved[k] => j = k
    BY <1>1, <2>1
  <2>5. moved \in Injection(Spots(t, b), M)
    BY <2>3, <2>4 DEF Injection, IsInjective
  <2>6. moved \in Surjection(Spots(t, b), M)
    BY <2>2, <2>3 DEF Surjection
  <2>7. QED
    BY <2>5, <2>6 DEF Bijection
<1>4. IsFiniteSet(M) /\ Cardinality(M) = Cardinality(Spots(t, b))
  <2>1. ExistsBijection(Spots(t, b), M)
    BY <1>3 DEF ExistsBijection
  <2>2. IsFiniteSet(Spots(t, b))
    BY CopiesFacts
  <2>3. QED
    BY <2>1, <2>2, FS_Bijection
<1> HIDE DEF M
<1>5. Spots(u, b) = Spots(s, b) \cup M /\ Spots(s, b) \cap M = {}
  <2>1. \A k \in 1 .. m + n : k <= m => (k \in Spots(u, b) <=> k \in Spots(s, b))
    BY <1>1, <1>2 DEF Spots
  <2>2. Spots(s, b) \subseteq 1 .. m /\ Spots(u, b) \subseteq 1 .. m + n
    BY <1>1, <1>2 DEF Spots
  <2>3. \A k \in 1 .. m : k \in 1 .. m + n /\ k <= m /\ ~(k > m)
    BY <1>1
  <2>4. \A k \in 1 .. m + n : k <= m \/ k > m
    BY <1>1
  <2>5. M \subseteq Spots(u, b) /\ \A k \in Spots(u, b) : k \in M <=> k > m
    BY DEF M
  <2>6. QED
    BY <2>1, <2>2, <2>3, <2>4, <2>5
<1>6. Cardinality(Spots(u, b)) = Cardinality(Spots(s, b)) + Cardinality(M)
  <2>1. IsFiniteSet(Spots(s, b)) /\ Cardinality(Spots(s, b)) \in Nat
    BY CopiesFacts
  <2>2. Cardinality(Spots(s, b) \cup M)
          = Cardinality(Spots(s, b)) + Cardinality(M) - Cardinality(Spots(s, b) \cap M)
    BY <1>4, <2>1, FS_Union
  <2>3. Cardinality(Spots(s, b) \cap M) = 0
    BY <1>5, FS_EmptySet
  <2>4. Cardinality(M) \in Nat
    BY <1>4, FS_CardinalityType
  <2>5. QED
    BY <1>5, <2>1, <2>2, <2>3, <2>4
<1>7. QED
  BY <1>2, <1>4, <1>6, CopiesFacts DEF u

LEMMA CopiesAppended ==
    ASSUME NEW T, NEW s \in Seq(T), NEW e \in T, NEW b
    PROVE  Copies(Append(s, e), b) = Copies(s, b) + IF e = b THEN 1 ELSE 0
<1>1. Append(s, e) = s \o <<e>> /\ <<e>> \in Seq(T)
  OBVIOUS
<1>2. Copies(Append(s, e), b) = Copies(s, b) + Copies(<<e>>, b)
  <2>1. Copies(s \o <<e>>, b) = Copies(s, b) + Copies(<<e>>, b)
    BY <1>1, CopiesJoined
  <2>2. QED
    BY <1>1, <2>1
<1>3. Copies(<<e>>, b) = IF e = b THEN 1 ELSE 0
  BY CopiesOfFew
<1>4. QED
  BY <1>2, <1>3

LEMMA CopiesInOrder ==
    ASSUME NEW S, S \subseteq Nat, IsFiniteSet(S), NEW x
    PROVE  Copies(Ascending(S), x) = IF x \in S THEN 1 ELSE 0
<1> DEFINE A == Ascending(S)
           n == Cardinality(S)
<1>1. /\ n \in Nat /\ A \in [1 .. n -> S]
      /\ \A y \in S : \E k \in 1 .. n : A[k] = y
      /\ \A j, k \in 1 .. n : j < k => A[j] < A[k]
  BY InOrder
<1>2. Copies(A, x) = Cardinality({k \in DOMAIN A : A[k] = x})
  BY DEF Copies
<1> HIDE DEF A, n
<1>3. CASE x \in S
  <2>1. PICK k \in 1 .. n : A[k] = x
    BY <1>1, <1>3
  <2>2. ASSUME NEW j \in 1 .. n, A[j] = x PROVE j = k
    <3>1. ~(A[j] < A[k]) /\ ~(A[k] < A[j])
      BY <1>3, <2>1, <2>2
    <3>2. ~(j < k) /\ ~(k < j)
      BY <1>1, <3>1
    <3>3. QED
      BY <1>1, <3>2
  <2>3. {j \in DOMAIN A : A[j] = x} = {k}
    BY <1>1, <2>1, <2>2
  <2>4. QED
    BY <1>2, <1>3, <2>3, FS_Singleton DEF A
<1>4. CASE x \notin S
  <2>1. {j \in DOMAIN A : A[j] = x} = {}
    BY <1>1, <1>4
  <2>2. QED
    BY <1>2, <1>4, <2>1, FS_EmptySet DEF A
<1>5. QED
  BY <1>3, <1>4

LEMMA CopiesErased ==
    ASSUME NEW T, NEW s \in Seq(T), NEW e, e # Gone, NEW b, b # Gone
    PROVE  /\ Copies(EraseFirst(s, e), b) = IF b = e /\ Copies(s, e) # 0 THEN Copies(s, e) - 1
                                            ELSE Copies(s, b)
           /\ Copies(EraseAll(s, e), b) = IF b = e THEN 0 ELSE Copies(s, b)
<1> DEFINE f == EraseFirst(s, e)
           a == EraseAll(s, e)
<1>1. /\ DOMAIN f = DOMAIN s /\ DOMAIN a = DOMAIN s
      /\ \A k \in DOMAIN s :
            /\ f[k] = IF s[k] = e /\ \A j \in 1 .. k - 1 : s[j] # e THEN Gone ELSE s[k]
            /\ a[k] = IF s[k] = e THEN Gone ELSE s[k]
  BY DEF EraseFirst, EraseAll
<1>2. Copies(f, b) = Cardinality(Spots(f, b)) /\ Copies(a, b) = Cardinality(Spots(a, b))
  BY DEF Copies, Spots
<1> HIDE DEF f, a
<1>3. /\ IsFiniteSet(Spots(s, e)) /\ Copies(s, e) = Cardinality(Spots(s, e)) /\ Copies(s, e) \in Nat
      /\ Spots(s, e) \subseteq 1 .. Len(s) /\ Copies(s, b) = Cardinality(Spots(s, b))
      /\ Len(s) \in Nat /\ DOMAIN s = 1 .. Len(s)
  BY CopiesFacts, LenProperties
<1>4. Copies(a, b) = IF b = e THEN 0 ELSE Copies(s, b)
  <2>1. CASE b = e
    <3>1. Spots(a, b) = {}
      BY <1>1, <2>1 DEF Spots
    <3>2. QED
      BY <1>2, <2>1, <3>1, FS_EmptySet
  <2>2. CASE b # e
    <3>1. Spots(a, b) = Spots(s, b)
      BY <1>1, <2>2 DEF Spots
    <3>2. QED
      BY <1>2, <1>3, <2>2, <3>1
  <2>3. QED
    BY <2>1, <2>2
<1>5. CASE b # e
  <2>1. Spots(f, b) = Spots(s, b)
    BY <1>1, <1>5 DEF Spots
  <2>2. QED
    BY <1>2, <1>3, <1>4, <1>5, <2>1 DEF f, a
<1>6. CASE b = e /\ Copies(s, e) = 0
  <2>1. Spots(s, e) = {}
    BY <1>3, <1>6, FS_EmptySet
  <2>2. Spots(f, b) = {}
    BY <1>1, <1>6, <2>1 DEF Spots
  <2>3. QED
    BY <1>2, <1>4, <1>6, <2>2, FS_EmptySet DEF f, a
<1>7. CASE b = e /\ Copies(s, e) # 0
  <2>1. Spots(s, e) \subseteq Nat /\ 0 \in 0 .. Cardinality(Spots(s, e)) - 1
    BY <1>3, <1>7
  <2>2. PICK i \in Spots(s, e) : Cardinality(Smaller(Spots(s, e), i)) = 0
    BY <1>3, <2>1, Ranks
  <2>3. Smaller(Spots(s, e), i) = {}
    <3>1. Smaller(Spots(s, e), i) \in SUBSET Spots(s, e)
      BY DEF Smaller
    <3>2. IsFiniteSet(Smaller(Spots(s, e), i))
      BY <1>3, <3>1, FS_Subset
    <3>3. QED
      BY <2>2, <3>2, FS_EmptySet
  <2>4. i \in DOMAIN s /\ s[i] = e /\ \A j \in 1 .. i - 1 : s[j] # e
    <3>1. i \in 1 .. Len(s) /\ s[i] = e
      BY <1>3 DEF Spots
    <3>2. \A j \in 1 .. i - 1 : j \in 1 .. Len(s) /\ j < i
      BY <1>3, <3>1
    <3>3. \A j \in 1 .. i - 1 : j \notin Spots(s, e)
      BY <2>3, <3>2 DEF Smaller
    <3>4. QED
      BY <1>3, <3>1, <3>2, <3>3 DEF Spots
  <2>5. Spots(f, e) = Spots(s, e) \ {i}
    <3>1. ASSUME NEW k \in DOMAIN s, s[k] = e, k # i PROVE f[k] = e
      <4>1. k \in Nat /\ i \in Nat /\ k >= 1 /\ i >= 1
        BY <1>3, <2>4
      <4>2. ~(k < i)
        <5>1. CASE k < i
          <6>1. k \in 1 .. i - 1
            BY <4>1, <5>1
          <6>2. QED
            BY <2>4, <3>1, <6>1
        <5>2. QED
          BY <5>1
      <4>3. i \in 1 .. k - 1
        BY <3>1, <4>1, <4>2
      <4>4. ~\A j \in 1 .. k - 1 : s[j] # e
        BY <2>4, <4>3
      <4>5. QED
        BY <1>1, <3>1, <4>4
    <3>2. f[i] = Gone
      BY <1>1, <2>4
    <3>3. \A k \in DOMAIN s : f[k] = e => s[k] = e
      BY <1>1
    <3>4. QED
      BY <1>1, <3>1, <3>2, <3>3 DEF Spots
  <2>6. Cardinality(Spots(f, e)) = Cardinality(Spots(s, e)) - 1
    BY <1>3, <2>5, FS_RemoveElement
  <2>7. QED
    BY <1>2, <1>3, <1>4, <1>7, <2>6 DEF f, a
<1>8. QED
  BY <1>5, <1>6, <1>7

-----------------------------------------------------------------------------
(* The graph link_blocks builds has both directions of every edge.         *)
LEMMA InitiallyMirrored ==
    ASSUME NEW c \in Functions,
           NEW a \in DOMAIN BlocksOf(c), NEW b \in DOMAIN BlocksOf(c)
    PROVE  Copies(InitialNext(c, BlocksOf(c))[a], b) = Copies(InitialPrev(c, BlocksOf(c))[b], a)
<1> DEFINE B == BlocksOf(c)
           falls(k) == FallsInto(c, B, k)
           t == TargetBlock(c, B, a)
           J == {j \in DOMAIN B : JumpsTo(c, B, j, b)}
           s1 == IF falls(a) THEN <<a + 1>> ELSE <<>>
           s2 == IF IsJump(LastOf(c, B, a)) THEN <<t>> ELSE <<>>
           p1 == IF b > 1 /\ falls(b - 1) THEN <<b - 1>> ELSE <<>>
           one(P) == IF P THEN 1 ELSE 0
<1>1. PICK m \in Nat \ {0} : DOMAIN B = 1 .. m
  BY BlocksAreCut DEF Cut
<1>2. InitialNext(c, B)[a] = s1 \o s2 /\ InitialPrev(c, B)[b] = p1 \o Ascending(J)
  BY DEF InitialNext, InitialPrev
<1>3. a \in 1 .. m /\ b \in 1 .. m
  BY <1>1
<1>4. J \subseteq Nat /\ IsFiniteSet(J)
  <2>1. J \in SUBSET (1 .. m) /\ IsFiniteSet(1 .. m)
    BY <1>1, FS_Interval
  <2>2. QED
    BY <2>1, FS_Subset
<1>5. a \in J <=> JumpsTo(c, B, a, b)
  OBVIOUS
<1>6. JumpsTo(c, B, a, b) <=> IsJump(LastOf(c, B, a)) /\ t = b
  BY DEF JumpsTo
<1> HIDE DEF B, falls, t, J
<1>7. Copies(s1, b) = one(falls(a) /\ a + 1 = b)
  <2>1. CASE falls(a)
    <3>1. Copies(<<a + 1>>, b) = IF a + 1 = b THEN 1 ELSE 0
      BY CopiesOfFew
    <3>2. QED
      BY <2>1, <3>1
  <2>2. CASE ~falls(a)
    BY <2>2, CopiesOfFew
  <2>3. QED
    BY <2>1, <2>2
<1>8. Copies(s2, b) = one(a \in J)
  <2>1. CASE IsJump(LastOf(c, B, a))
    <3>1. Copies(<<t>>, b) = IF t = b THEN 1 ELSE 0
      BY CopiesOfFew
    <3>2. QED
      BY <1>5, <1>6, <2>1, <3>1
  <2>2. CASE ~IsJump(LastOf(c, B, a))
    BY <1>5, <1>6, <2>2, CopiesOfFew
  <2>3. QED
    BY <2>1, <2>2
<1>9. Copies(p1, a) = one(falls(a) /\ a + 1 = b)
  <2>1. CASE b > 1 /\ falls(b - 1)
    <3>1. Copies(<<b - 1>>, a) = IF b - 1 = a THEN 1 ELSE 0
      BY CopiesOfFew
    <3>2. b - 1 = a <=> a + 1 = b
      BY <1>3
    <3>3. QED
      BY <2>1, <3>1, <3>2
  <2>2. CASE ~(b > 1 /\ falls(b - 1))
    <3>1. a + 1 = b => b > 1 /\ b - 1 = a
      BY <1>3
    <3>2. ~(falls(a) /\ a + 1 = b)
      BY <2>2, <3>1
    <3>3. QED
      BY <2>2, <3>2, CopiesOfFew
  <2>3. QED
    BY <2>1, <2>2
<1>10. Copies(Ascending(J), a) = one(a \in J)
  BY <1>4, CopiesInOrder
<1>11. /\ s1 \in Seq(Nat \cup {t}) /\ s2 \in Seq(Nat \cup {t})
       /\ p1 \in Seq(Nat) /\ Ascending(J) \in Seq(Nat)
  <2>1. a + 1 \in Nat /\ (b > 1 => b - 1 \in Nat)
    BY <1>3
  <2> HIDE DEF one
  <2>2. s1 \in Seq(Nat \cup {t})
    <3>1. <<a + 1>> \in Seq(Nat \cup {t}) /\ <<>> \in Seq(Nat \cup {t})
      <4>1. PICK x \in Nat \cup {t} : x = a + 1
        BY <2>1
      <4>2. <<x>> \in Seq(Nat \cup {t}) /\ <<>> \in Seq(Nat \cup {t})
        OBVIOUS
      <4>3. QED
        BY <4>1, <4>2
    <3>2. QED
      BY <3>1, Zenon
  <2>3. s2 \in Seq(Nat \cup {t})
    <3>1. <<t>> \in Seq(Nat \cup {t}) /\ <<>> \in Seq(Nat \cup {t})
      OBVIOUS
    <3>2. QED
      BY <3>1, Zenon
  <2>4. p1 \in Seq(Nat)
    BY <2>1
  <2>5. Ascending(J) \in Seq(J)
    BY <1>4, InOrder
  <2>6. Ascending(J) \in Seq(Nat)
    BY <1>4, <2>5, SeqMonotonic
  <2>7. QED
    BY <2>2, <2>3, <2>4, <2>6
<1> HIDE DEF s1, s2, p1
<1>12. Copies(s1 \o s2, b) = Copies(s1, b) + Copies(s2, b)
  BY <1>11, CopiesJoined
<1>13. Copies(p1 \o Ascending(J), a) = Copies(p1, a) + Copies(Ascending(J), a)
  BY <1>11, CopiesJoined
<1>14. QED
  BY <1>2, <1>7, <1>8, <1>9, <1>10, <1>12, <1>13 DEF B

(* Every step of the graph keeps the two directions in step.               *)
LEMMA StaysMirrored == ASSUME TypeOK, EdgesMirrored, [Next]_vars PROVE EdgesMirrored'
<1>1. PICK n \in Nat : /\ next \in [1 .. n -> Seq(0 .. n)] /\ prev \in [1 .. n -> Seq(0 .. n)]
                       /\ Blocks = 1 .. n
  <2>1. PICK n \in 1 .. MaxBlocks :
          next \in [1 .. n -> Seq(0 .. n)] /\ prev \in [1 .. n -> Seq(0 .. n)]
    BY DEF TypeOK, GraphOK
  <2>2. Blocks = 1 .. n /\ n \in Nat
    BY <2>1, GraphsAssumption DEF Blocks
  <2>3. QED
    BY <2>1, <2>2
<1>2. \A x \in Blocks : x # Gone /\ x \in 0 .. n /\ next[x] \in Seq(0 .. n) /\ prev[x] \in Seq(0 .. n)
  BY <1>1 DEF Gone
<1>3. \A x, y \in Blocks : Copies(next[x], y) = Copies(prev[y], x)
  BY DEF EdgesMirrored
<1>4. SUFFICES /\ DOMAIN next' = Blocks
               /\ \A x, y \in Blocks : Copies(next'[x], y) = Copies(prev'[y], x)
  BY DEF EdgesMirrored, Blocks
<1>5. CASE UNCHANGED graphVars
  BY <1>3, <1>5 DEF graphVars, Blocks
<1>6. CASE PruneCuts
  <2>1. asked \in Blocks
    BY DEF TypeOK, CallsOK
  <2>2. DOMAIN next' = Blocks
    BY <1>6 DEF PruneCuts, Blocks
  <2>3. /\ \A x \in Blocks : next'[x] = IF x = asked THEN [k \in DOMAIN next[x] |-> Gone] ELSE next[x]
        /\ \A y \in Blocks : prev'[y] = IF y \in Succs(asked) THEN EraseAll(prev[y], asked) ELSE prev[y]
    BY <1>6 DEF PruneCuts, Blocks
  <2>4. ASSUME NEW x \in Blocks, NEW y \in Blocks PROVE Copies(next'[x], y) = Copies(prev'[y], x)
    <3>1. x # Gone /\ y # Gone /\ asked # Gone /\ prev[y] \in Seq(0 .. n) /\ next[x] \in Seq(0 .. n)
      BY <1>2, <2>1
    <3>2. CASE x = asked
      <4>1. {k \in DOMAIN next'[x] : next'[x][k] = y} = {}
        BY <2>3, <3>1, <3>2
      <4>2. Copies(next'[x], y) = 0
        BY <4>1, FS_EmptySet DEF Copies
      <4>3. CASE y \in Succs(asked)
        BY <2>3, <3>1, <3>2, <4>2, <4>3, CopiesErased
      <4>4. CASE y \notin Succs(asked)
        <5>1. ~Occurs(next[x], y)
          BY <3>1, <3>2, <4>4 DEF Occurs, Succs
        <5>2. Copies(next[x], y) = 0
          BY <3>1, <5>1, CopiesFacts
        <5>3. QED
          BY <1>3, <2>3, <4>2, <4>4, <5>2
      <4>5. QED
        BY <4>3, <4>4
    <3>3. CASE x # asked
      <4>1. Copies(EraseAll(prev[y], asked), x) = Copies(prev[y], x)
        BY <3>1, <3>3, CopiesErased
      <4>2. QED
        BY <1>3, <2>3, <3>3, <4>1
    <3>4. QED
      BY <3>2, <3>3
  <2>5. QED
    BY <2>2, <2>4
<1>7. ASSUME NEW b \in Blocks, NEW e \in Blocks, link(b, e), ~UNCHANGED graphVars
      PROVE  /\ DOMAIN next' = Blocks
             /\ \A x, y \in Blocks : Copies(next'[x], y) = Copies(prev'[y], x)
  <2>1. /\ next' = [next EXCEPT ![b] = Append(@, e)]
        /\ prev' = [prev EXCEPT ![e] = Append(@, b)]
    BY <1>7 DEF link
  <2>2. /\ DOMAIN next' = Blocks
        /\ \A x \in Blocks : next'[x] = IF x = b THEN Append(next[b], e) ELSE next[x]
        /\ \A y \in Blocks : prev'[y] = IF y = e THEN Append(prev[e], b) ELSE prev[y]
    BY <1>1, <2>1 DEF Blocks
  <2>3. ASSUME NEW x \in Blocks, NEW y \in Blocks PROVE Copies(next'[x], y) = Copies(prev'[y], x)
    <3>1. Copies(Append(next[b], e), y) = Copies(next[b], y) + IF e = y THEN 1 ELSE 0
      <4>1. PICK s \in Seq(0 .. n) : s = next[b]
        BY <1>2
      <4>2. e \in 0 .. n
        BY <1>2
      <4>3. Copies(Append(s, e), y) = Copies(s, y) + IF e = y THEN 1 ELSE 0
        BY <4>2, CopiesAppended
      <4>4. QED
        BY <4>1, <4>3
    <3>2. Copies(Append(prev[e], b), x) = Copies(prev[e], x) + IF b = x THEN 1 ELSE 0
      <4>1. PICK s \in Seq(0 .. n) : s = prev[e]
        BY <1>2
      <4>2. b \in 0 .. n
        BY <1>2
      <4>3. Copies(Append(s, b), x) = Copies(s, x) + IF b = x THEN 1 ELSE 0
        BY <4>2, CopiesAppended
      <4>4. QED
        BY <4>1, <4>3
    <3>3. Copies(next[b], y) \in Nat /\ Copies(prev[e], x) \in Nat
      BY <1>2, CopiesFacts
    <3>4. Copies(next[x], y) = Copies(prev[y], x)
      BY <1>3
    <3>5. CASE x = b /\ y = e
      BY <2>2, <3>1, <3>2, <3>4, <3>5
    <3>6. CASE x = b /\ y # e
      <4>1. PICK k \in Nat : k = Copies(next[b], y)
        BY <3>3
      <4>2. Copies(Append(next[b], e), y) = k
        BY <3>1, <3>6, <4>1
      <4>3. QED
        BY <2>2, <3>4, <3>6, <4>1, <4>2
    <3>7. CASE x # b /\ y = e
      <4>1. PICK k \in Nat : k = Copies(prev[e], x)
        BY <3>3
      <4>2. Copies(Append(prev[e], b), x) = k
        BY <3>2, <3>7, <4>1
      <4>3. QED
        BY <2>2, <3>4, <3>7, <4>1, <4>2
    <3>8. CASE x # b /\ y # e
      BY <2>2, <3>4, <3>8
    <3>9. QED
      BY <3>5, <3>6, <3>7, <3>8
  <2>4. QED
    BY <2>2, <2>3
<1>8. ASSUME NEW b \in Blocks, NEW e \in Blocks, un_link(b, e)
      PROVE  /\ DOMAIN next' = Blocks
             /\ \A x, y \in Blocks : Copies(next'[x], y) = Copies(prev'[y], x)
  <2>1. /\ next' = [next EXCEPT ![b] = EraseFirst(@, e)]
        /\ prev' = [prev EXCEPT ![e] = EraseFirst(@, b)]
    BY <1>8 DEF un_link
  <2>2. /\ DOMAIN next' = Blocks
        /\ \A x \in Blocks : next'[x] = IF x = b THEN EraseFirst(next[b], e) ELSE next[x]
        /\ \A y \in Blocks : prev'[y] = IF y = e THEN EraseFirst(prev[e], b) ELSE prev[y]
    BY <1>1, <2>1 DEF Blocks
  <2>3. ASSUME NEW x \in Blocks, NEW y \in Blocks PROVE Copies(next'[x], y) = Copies(prev'[y], x)
    <3>1. Copies(EraseFirst(next[b], e), y) = IF y = e /\ Copies(next[b], e) # 0
                                              THEN Copies(next[b], e) - 1 ELSE Copies(next[b], y)
      BY <1>2, CopiesErased
    <3>2. Copies(EraseFirst(prev[e], b), x) = IF x = b /\ Copies(prev[e], b) # 0
                                              THEN Copies(prev[e], b) - 1 ELSE Copies(prev[e], x)
      BY <1>2, CopiesErased
    <3>3. Copies(next[x], y) = Copies(prev[y], x) /\ Copies(next[b], e) = Copies(prev[e], b)
      BY <1>3
    <3>4. CASE x = b /\ y = e
      BY <2>2, <3>1, <3>2, <3>3, <3>4
    <3>5. CASE x = b /\ y # e
      BY <2>2, <3>1, <3>3, <3>5
    <3>6. CASE x # b /\ y = e
      BY <2>2, <3>2, <3>3, <3>6
    <3>7. CASE x # b /\ y # e
      BY <2>2, <3>3, <3>7
    <3>8. QED
      BY <3>4, <3>5, <3>6, <3>7
  <2>4. QED
    BY <2>2, <2>3
<1>9. CASE UNCHANGED vars
  BY <1>5, <1>9 DEF vars, graphVars
<1>10. CASE Searching \/ Exporting \/ PruneAsks \/ PruneKeeps \/ PruneSkips
  BY <1>5, <1>10 DEF Searching, SearchReaches, SearchSkips, SearchDescends, SearchFails,
       Exporting, ExportBegins, ExportContinues, ExportEnds, ExportAsks, PruneAsks, PruneKeeps, PruneSkips
<1>11. QED
  BY <1>5, <1>6, <1>7, <1>8, <1>9, <1>10 DEF Next, Pruning

-----------------------------------------------------------------------------
(* Folding keeps the target of every jump in some block, so that the edge  *)
(* it unlinks is one between blocks.                                       *)
Landing(q) == q \in DOMAIN code /\ IsLabel(code[q]) /\ \E k \in DOMAIN blocks : Contains(blocks[k], q)

FoldInv ==
    /\ DOMAIN blocks = Blocks
    /\ \A k \in DOMAIN blocks : blocks[k] \in Seq(DOMAIN code)
    /\ \A p \in DOMAIN code :
          /\ code[p] = Instr(code[p].op, code[p].res, code[p].l, code[p].r, code[p].target)
          /\ IsJump(code[p]) => Landing(PlaceOf(code, code[p].target))
    /\ cut # Gone => at - 1 \in Blocks /\ cut \in Blocks

LEMMA LastJump ==
    ASSUME FoldInv, NEW k \in DOMAIN blocks, EndsInBranch(k)
    PROVE  /\ Last(blocks[k]) \in DOMAIN code /\ JumpOf(k) = code[Last(blocks[k])]
           /\ IsJump(JumpOf(k)) /\ TargetOf(k) \in DOMAIN blocks
<1>1. blocks[k] \in Seq(DOMAIN code) /\ blocks[k] # <<>>
  BY DEF FoldInv, EndsInBranch
<1>2. Last(blocks[k]) \in DOMAIN code
  <2>1. Len(blocks[k]) \in DOMAIN blocks[k]
    BY <1>1, LenProperties, EmptySeq
  <2>2. QED
    BY <1>1, <2>1, ElementOfSeq DEF Last
<1>3. JumpOf(k) = code[Last(blocks[k])]
  BY DEF JumpOf, LastOf
<1>4. IsJump(JumpOf(k))
  BY DEF EndsInBranch, IsJump
<1>5. Landing(PlaceOf(code, JumpOf(k).target))
  BY <1>2, <1>3, <1>4 DEF FoldInv
<1>6. TargetOf(k) \in DOMAIN blocks
  <2>1. \E j \in DOMAIN blocks : Contains(blocks[j], PlaceOf(code, JumpOf(k).target))
    BY <1>5 DEF Landing
  <2>2. QED
    BY <2>1 DEF TargetOf, TargetBlock, BlockOf, JumpOf
<1>7. QED
  BY <1>2, <1>3, <1>4, <1>6

LEMMA GraphStarts == ASSUME GraphInit PROVE Init /\ FoldInv /\ EdgesMirrored
<1>1. code \in Functions /\ blocks = BlocksOf(code)
  BY DEF GraphInit
<1>2. GraphOf(code) \in Graphs
  BY <1>1, FunctionsAssumption
<1>3. Init
  BY <1>2 DEF GraphInit, Init
<1>4. next = InitialNext(code, blocks) /\ prev = InitialPrev(code, blocks)
  BY <1>1 DEF GraphInit, GraphOf
<1>5. DOMAIN blocks = Blocks
  BY <1>4 DEF Blocks, InitialNext
<1>6. EdgesMirrored
  BY <1>1, <1>4, <1>5, InitiallyMirrored DEF EdgesMirrored
<1>7. Cut(code, blocks) /\ DOMAIN code = 1 .. Len(code)
  BY <1>1, BlocksAreCut, LeadersFacts
<1>8. ASSUME NEW p \in DOMAIN code, IsJump(code[p]) PROVE Landing(PlaceOf(code, code[p].target))
  <2>1. PICK q : q = PlaceOf(code, code[p].target)
    OBVIOUS
  <2>2. q \in Leaders(code) /\ q \in Places(code, code[p].target)
    BY <1>1, <1>8, <2>1, LeadersFacts
  <2>3. \E k \in DOMAIN blocks : Contains(blocks[k], q)
    BY <1>7, <2>2 DEF Cut
  <2>4. QED
    BY <2>1, <2>2, <2>3 DEF Places, Landing
<1>9. \A p \in DOMAIN code :
        code[p] = Instr(code[p].op, code[p].res, code[p].l, code[p].r, code[p].target)
  BY <1>1, FunctionsAssumption
<1>10. \A k \in DOMAIN blocks : blocks[k] \in Seq(DOMAIN code)
  BY <1>7 DEF Cut
<1>11. cut = Gone
  BY DEF GraphInit
<1>12. QED
  BY <1>3, <1>5, <1>6, <1>8, <1>9, <1>10, <1>11 DEF FoldInv

(* A jump that is deleted from its block takes no label with it.           *)
LEMMA LandingsStay ==
    ASSUME FoldInv, NEW k \in DOMAIN blocks, EndsInBranch(k), NEW q, Landing(q)
    PROVE  /\ \A j \in DOMAIN blocks : JumpErased(k)[j] \in Seq(DOMAIN code)
           /\ \E j \in DOMAIN JumpErased(k) : Contains(JumpErased(k)[j], q)
<1>1. blocks[k] \in Seq(DOMAIN code) /\ blocks[k] # <<>>
  BY DEF FoldInv, EndsInBranch
<1>2. PICK l \in Nat \ {0} : Len(blocks[k]) = l /\ DOMAIN blocks[k] = 1 .. l
  BY <1>1, LenProperties, EmptySeq
<1>3. /\ DOMAIN JumpErased(k) = DOMAIN blocks
      /\ \A j \in DOMAIN blocks : JumpErased(k)[j] = IF j = k THEN Front(blocks[k]) ELSE blocks[j]
  BY DEF JumpErased
<1>4. /\ Front(blocks[k]) \in Seq(DOMAIN code) /\ Len(Front(blocks[k])) = l - 1
      /\ \A i \in 1 .. l - 1 : Front(blocks[k])[i] = blocks[k][i]
  <2>1. blocks[k] # <<>> /\ Front(blocks[k]) = SubSeq(blocks[k], 1, l - 1)
    BY <1>1, <1>2 DEF Front
  <2>2. QED
    BY <1>1, <1>2, <2>1, PoppedType
<1>5. q # blocks[k][l]
  <2>1. blocks[k][l] = Last(blocks[k])
    BY <1>2 DEF Last
  <2>2. IsJump(code[blocks[k][l]])
    BY <2>1, LastJump
  <2>3. IsLabel(code[q])
    BY DEF Landing
  <2>4. QED
    BY <2>2, <2>3 DEF IsJump, IsJmp, IsJmpCond, IsLabel
<1>6. PICK j \in DOMAIN blocks : Contains(blocks[j], q)
  BY DEF Landing
<1>7. Contains(JumpErased(k)[j], q)
  <2>1. CASE j # k
    BY <1>3, <1>6, <2>1
  <2>2. CASE j = k
    <3>1. PICK i \in 1 .. l : blocks[k][i] = q
      BY <1>2, <1>6, <2>2 DEF Contains
    <3>2. i \in 1 .. l - 1
      BY <1>5, <3>1
    <3>3. Front(blocks[k])[i] = q /\ i \in 1 .. Len(Front(blocks[k]))
      BY <1>4, <3>1, <3>2
    <3>4. Contains(Front(blocks[k]), q)
      BY <3>3 DEF Contains
    <3>5. QED
      BY <1>3, <2>2, <3>4
  <2>3. QED
    BY <2>1, <2>2
<1>8. \A i \in DOMAIN blocks : JumpErased(k)[i] \in Seq(DOMAIN code)
  BY <1>3, <1>4 DEF FoldInv
<1>9. QED
  BY <1>3, <1>7, <1>8

(* What is not a jump stays as it is, and a jump keeps its target.         *)
LEMMA RewritingKeeps ==
    ASSUME FoldInv, NEW k \in DOMAIN blocks, EndsInBranch(k),
           code' = [code EXCEPT ![Last(blocks[k])] = [@ EXCEPT !.op = "jmp"]]
    PROVE  /\ DOMAIN code' = DOMAIN code
           /\ \A p \in DOMAIN code :
                 /\ code'[p] = Instr(code'[p].op, code'[p].res, code'[p].l, code'[p].r, code'[p].target)
                 /\ code'[p].target = code[p].target
                 /\ IsJump(code'[p]) <=> IsJump(code[p])
                 /\ IsLabel(code'[p]) <=> IsLabel(code[p])
           /\ \A label : PlaceOf(code', label) = PlaceOf(code, label)
<1>1. PICK z \in DOMAIN code : z = Last(blocks[k]) /\ IsJmpCond(code[z])
  BY LastJump DEF EndsInBranch
<1>2. code[z] = Instr(code[z].op, code[z].res, code[z].l, code[z].r, code[z].target)
  BY DEF FoldInv
<1>3. PICK y : y = [code[z] EXCEPT !.op = "jmp"]
  OBVIOUS
<1>4. y = Instr("jmp", code[z].res, code[z].l, code[z].r, code[z].target)
  BY <1>2, <1>3 DEF Instr
<1>5. /\ y.op = "jmp" /\ y.res = code[z].res /\ y.l = code[z].l /\ y.r = code[z].r
      /\ y.target = code[z].target
  BY <1>4 DEF Instr
<1>6. /\ DOMAIN code' = DOMAIN code /\ code'[z] = y
      /\ \A p \in DOMAIN code : p # z => code'[p] = code[p]
  BY <1>1, <1>3
<1>7. ASSUME NEW p \in DOMAIN code
      PROVE  /\ code'[p] = Instr(code'[p].op, code'[p].res, code'[p].l, code'[p].r, code'[p].target)
             /\ code'[p].target = code[p].target
             /\ IsJump(code'[p]) <=> IsJump(code[p])
             /\ IsLabel(code'[p]) <=> IsLabel(code[p])
  <2>1. CASE p = z
    <3>1. code'[p] = Instr(code'[p].op, code'[p].res, code'[p].l, code'[p].r, code'[p].target)
      BY <1>4, <1>5, <1>6, <2>1
    <3>2. code'[p].target = code[p].target /\ code'[p].op = "jmp" /\ code[p].op = "jmp_false"
      BY <1>1, <1>5, <1>6, <2>1 DEF IsJmpCond
    <3>3. QED
      BY <3>1, <3>2 DEF IsJump, IsJmp, IsJmpCond, IsLabel
  <2>2. CASE p # z
    BY <1>6, <2>2 DEF FoldInv
  <2>3. QED
    BY <2>1, <2>2
<1>8. ASSUME NEW label PROVE PlaceOf(code', label) = PlaceOf(code, label)
  <2>1. Places(code', label) = Places(code, label)
    BY <1>6, <1>7 DEF Places
  <2>2. QED
    BY <2>1 DEF PlaceOf
<1>9. QED
  BY <1>6, <1>7, <1>8

(* Rewriting the code this way leaves every jump a target in some block.   *)
LEMMA RewrittenInv ==
    ASSUME FoldInv, UNCHANGED <<vars, blocks>>,
           DOMAIN code' = DOMAIN code,
           \A p \in DOMAIN code :
              /\ code'[p] = Instr(code'[p].op, code'[p].res, code'[p].l, code'[p].r, code'[p].target)
              /\ code'[p].target = code[p].target \/ ~IsJump(code'[p])
              /\ IsJump(code'[p]) <=> IsJump(code[p])
              /\ IsLabel(code'[p]) <=> IsLabel(code[p]),
           \A label : PlaceOf(code', label) = PlaceOf(code, label),
           cut' # Gone => cut' = cut /\ at' = at
    PROVE  FoldInv'
<1>1. Blocks' = Blocks
  BY DEF vars, Blocks
<1>2. \A q : Landing(q) => Landing(q)'
  BY DEF Landing
<1>3. ASSUME NEW p \in DOMAIN code, IsJump(code'[p])
      PROVE  Landing(PlaceOf(code, code[p].target))'
  <2>1. PICK q : q = PlaceOf(code, code[p].target)
    OBVIOUS
  <2>2. Landing(q)
    BY <1>3, <2>1 DEF FoldInv
  <2>3. Landing(q)' /\ q = PlaceOf(code', code'[p].target)
    BY <1>2, <1>3, <2>1, <2>2
  <2>4. QED
    BY <2>3 DEF Landing
<1>4. \A k \in DOMAIN blocks : blocks'[k] \in Seq(DOMAIN code')
  BY DEF FoldInv
<1>5. DOMAIN blocks' = Blocks' /\ (cut' # Gone => at' - 1 \in Blocks' /\ cut' \in Blocks')
  BY <1>1 DEF FoldInv
<1>6. QED
  BY <1>3, <1>4, <1>5 DEF FoldInv

(* Each step of folding is one of the graph's, or none.                    *)
LEMMA FoldStep == ASSUME TypeOK, FoldInv, [FoldNext]_allVars PROVE FoldInv' /\ [Next]_vars
<1>1. PICK n \in Nat \ {0} : Blocks = 1 .. n
  BY GraphsAssumption DEF TypeOK, GraphOK, Blocks
<1>2. [Next]_vars => Blocks' = Blocks
  <2>1. CASE UNCHANGED vars
    BY <2>1 DEF vars, Blocks
  <2>2. CASE Next
    <3>1. CASE PruneCuts
      BY <3>1 DEF PruneCuts, Blocks
    <3>2. CASE Searching \/ Exporting \/ PruneAsks \/ PruneKeeps \/ PruneSkips
      BY <3>2 DEF Searching, SearchReaches, SearchSkips, SearchDescends, SearchFails, graphVars,
           Exporting, ExportBegins, ExportContinues, ExportEnds, ExportAsks, PruneAsks, PruneKeeps,
           PruneSkips, Blocks
    <3>3. CASE \E b \in Blocks, e \in Blocks : link(b, e) \/ un_link(b, e)
      BY <3>3 DEF link, un_link, graphVars, Blocks
    <3>4. QED
      BY <2>2, <3>1, <3>2, <3>3 DEF Next, Pruning
  <2>3. QED
    BY <2>1, <2>2
<1>3. ASSUME UNCHANGED <<code, blocks>>, Blocks' = Blocks,
             cut' # Gone => at' - 1 \in Blocks /\ cut' \in Blocks
      PROVE  FoldInv'
  <2>1. \A q : Landing(q)' <=> Landing(q)
    BY <1>3 DEF Landing
  <2>2. QED
    BY <1>3, <2>1 DEF FoldInv
<1>4. ASSUME NEW b \in Blocks, link(b, b + 1) PROVE [Next]_vars
  <2>1. CASE b + 1 \in Blocks
    BY <1>4, <2>1 DEF Next
  <2>2. CASE b + 1 \notin Blocks
    <3>1. UNCHANGED vars
      BY <1>4, <2>2 DEF link, vars, graphVars, searchVars
    <3>2. QED
      BY <3>1
  <2>3. QED
    BY <2>1, <2>2
<1>5. ASSUME at \in DOMAIN blocks, EndsInBranch(at), blocks' = JumpErased(at), code' = code,
             Blocks' = Blocks, cut' # Gone => at' - 1 \in Blocks /\ cut' \in Blocks
      PROVE  FoldInv'
  <2>1. DOMAIN blocks' = DOMAIN blocks
    BY <1>5 DEF JumpErased
  <2>2. \A q : Landing(q) => Landing(q)'
    BY <1>5, LandingsStay DEF Landing
  <2>3. \A k \in DOMAIN blocks : blocks'[k] \in Seq(DOMAIN code)
    <3>1. CASE \E q : Landing(q)
      BY <1>5, <3>1, LandingsStay
    <3>2. CASE ~\E q : Landing(q)
      BY <1>5, <3>2, LastJump DEF FoldInv
    <3>3. QED
      BY <3>1, <3>2
  <2>4. QED
    BY <1>5, <2>1, <2>2, <2>3 DEF FoldInv
<1>6. CASE FoldSkips
  <2>1. UNCHANGED <<vars, code, blocks, cut>> /\ cut = Gone
    BY <1>6 DEF FoldSkips, Looking
  <2>2. QED
    BY <1>2, <1>3, <2>1
<1>7. CASE FoldTaken
  <2>1. /\ at \in DOMAIN blocks /\ at \in Blocks /\ EndsInBranch(at)
        /\ cut = Gone /\ cut' = cut
    BY <1>7 DEF FoldTaken, Decides, Looking, FoldInv
  <2>2. CASE blocks' = JumpErased(at) /\ link(at, at + 1) /\ UNCHANGED code
    BY <1>2, <1>4, <1>5, <2>1, <2>2
  <2>3. CASE /\ code' = [code EXCEPT ![Last(blocks[at])] = [@ EXCEPT !.op = "jmp"]]
             /\ UNCHANGED <<vars, blocks>>
    <3>1. /\ DOMAIN code' = DOMAIN code
          /\ \A p \in DOMAIN code :
                 /\ code'[p] = Instr(code'[p].op, code'[p].res, code'[p].l, code'[p].r, code'[p].target)
                 /\ code'[p].target = code[p].target
                 /\ IsJump(code'[p]) <=> IsJump(code[p])
                 /\ IsLabel(code'[p]) <=> IsLabel(code[p])
          /\ \A label : PlaceOf(code', label) = PlaceOf(code, label)
      BY <2>1, <2>3, RewritingKeeps
    <3>2. FoldInv'
      BY <2>1, <2>3, <3>1, RewrittenInv
    <3>3. QED
      BY <2>3, <3>2
  <2>4. QED
    BY <1>7, <2>2, <2>3 DEF FoldTaken
<1>8. CASE FoldNever
  <2>1. /\ at \in DOMAIN blocks /\ at \in Blocks /\ EndsInBranch(at) /\ at' = at + 1
        /\ blocks' = JumpErased(at) /\ link(at, at + 1) /\ code' = code
        /\ cut' = IF TargetOf(at) # at + 1 THEN TargetOf(at) ELSE Gone
    BY <1>8 DEF FoldNever, Decides, Looking, FoldInv, MovesOn
  <2>2. TargetOf(at) \in Blocks
    BY <2>1, LastJump DEF FoldInv
  <2>3. at' - 1 = at
    BY <1>1, <2>1
  <2>4. QED
    BY <1>2, <1>4, <1>5, <2>1, <2>2, <2>3
<1>9. CASE FoldUnlinks
  <2>1. at - 1 \in Blocks /\ cut \in Blocks
    BY <1>9 DEF FoldUnlinks, FoldInv
  <2>2. [Next]_vars
    BY <1>9, <2>1 DEF FoldUnlinks, Next
  <2>3. UNCHANGED <<code, blocks>> /\ cut' = Gone
    BY <1>9 DEF FoldUnlinks
  <2>4. QED
    BY <1>2, <1>3, <2>2, <2>3
<1>10. CASE FoldEnds \/ GraphWorks
  <2>1. [Next]_vars
    BY <1>10 DEF FoldEnds, GraphWorks, Next, Exporting
  <2>2. UNCHANGED foldVars
    BY <1>10 DEF FoldEnds, GraphWorks
  <2>3. QED
    BY <1>2, <1>3, <2>1, <2>2 DEF foldVars, FoldInv
<1>11. CASE UNCHANGED allVars
  <2>1. UNCHANGED vars /\ UNCHANGED foldVars
    BY <1>11 DEF allVars
  <2>2. QED
    BY <1>2, <1>3, <2>1 DEF foldVars, FoldInv
<1>12. QED
  BY <1>6, <1>7, <1>8, <1>9, <1>10, <1>11 DEF FoldNext

-----------------------------------------------------------------------------
LEMMA FoldingInv == FoldSpec => [](TypeOK /\ FoldInv)
<1>1. FoldInit => TypeOK /\ FoldInv
  BY GraphStarts, InitTypeOK DEF FoldInit
<1>2. TypeOK /\ FoldInv /\ [FoldNext]_allVars => TypeOK' /\ FoldInv'
  BY FoldStep, NextTypeOK
<1>3. QED
  BY <1>1, <1>2, PTL DEF FoldSpec

(* condition_jump_simplify and write_opt_code use the graph as FlowGraph   *)
(* says a client may: every run of the folding, seen through the graph's   *)
(* variables, is one of FlowGraph's, so that no edge is unlinked that      *)
(* leads out of the function.                                              *)
THEOREM FoldingUsesTheGraph == FoldSpec => Spec
<1>1. FoldInit => Init
  BY GraphStarts DEF FoldInit
<1>2. TypeOK /\ FoldInv /\ [FoldNext]_allVars => [Next]_vars
  BY FoldStep
<1>3. QED
  BY <1>1, <1>2, FoldingInv, PTL DEF FoldSpec, Spec

(* So write_opt_code exports exactly what the lists reach, whatever the    *)
(* analysis knew of the conditions.                                        *)
THEOREM FoldedExportIsExact == FoldSpec => []ExportExact
  BY FoldingUsesTheGraph, ExportIsExact, PTL

(* link_blocks builds, and link, un_link and delete_all_next_link keep,    *)
(* both directions of every edge, with as many copies in one list as in    *)
(* the other.                                                              *)
THEOREM EdgesStayMirrored == FoldSpec => []EdgesMirrored
<1>1. FoldInit => EdgesMirrored
  BY GraphStarts DEF FoldInit
<1>2. TypeOK /\ FoldInv /\ EdgesMirrored /\ [FoldNext]_allVars => EdgesMirrored'
  BY FoldStep, StaysMirrored
<1>3. QED
  BY <1>1, <1>2, FoldingInv, PTL DEF FoldSpec
=============================================================================
