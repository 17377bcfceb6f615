------------------------------ MODULE Iterators ------------------------------
(***************************************************************************)
(* const_iterator over the radix tree: a stack of frames (node, cursor),   *)
(* the terminal it stands on, and a key buffer that is only maintained     *)
(* once a key was read.  One iterator of one map; the map's own calls run  *)
(* as in ArtTree.  Every iteration of the loops of seek_, retreat_,        *)
(* descend_min_, descend_max_, descend_lb_ and key_bytes is one action.    *)
(*                                                                         *)
(* A leaf that is inline in its parent's line is at its own slot like any  *)
(* other, so emit_inline_leaf_ is Emit.                                    *)
(***************************************************************************)
EXTENDS ArtTree

CONSTANTS
  FullLeaves,   \* slots whose leaf stores the whole key (leaf_has_full)
  Probes        \* the keys bounds are asked for

ASSUME ProbesAssumption == Keys \subseteq Probes /\ Probes \subseteq Path

VARIABLES
  it,      \* the iterator, or NoIt: not positioned, or invalidated
  go,      \* the loop it is in: [do, p, m]; "rest" between operations
  ask      \* its current (or last) operation: [op, key]

Ord  == INSTANCE OrderedKeys
Past == Ord!Past

iterVars == <<it, go, ask>>
allVars  == <<vars, iterVars>>

\* A frame's key lengths mean something only once key maintenance is on.
Frame(p, cur, plen, cbase) == [node |-> p, cur |-> cur, plen |-> plen, cbase |-> cbase]

NoIt  == [live |-> FALSE, end |-> TRUE, stk |-> <<>>, at |-> NoSlot, key |-> <<>>, maintain |-> FALSE]
EndIt == [NoIt EXCEPT !.live = TRUE]
Fresh == [EndIt EXCEPT !.end = FALSE]       \* a new iterator about to descend

\* p is the slot the loop is at; m is the length of the key down to there, or
\* (reading) the number of frames replayed.
Go(do, p, m) == [do |-> do, p |-> p, m |-> m]
Rests        == Go("rest", <<>>, 0)
Nothing      == [op |-> "none", key |-> Past]

\* key_.len = c: bytes beyond the live ones are whatever was there.
Cut(k, c) == [i \in 1 .. c |-> IF i <= Len(k) THEN k[i] ELSE MaxByte + 1]

Sfx(p)  == IF IsLeaf(tree, p) THEN tree[p].suf ELSE <<>>
Full(p) == p \in FullLeaves /\ IsLeaf(tree, p) /\ IsValuePtr(tree[p])

Top(x)       == x.stk[Len(x.stk)]
SetTop(x, c) == [x EXCEPT !.stk[Len(x.stk)].cur = c]
PopTop(x)    == [x EXCEPT !.stk = Front(@, Len(@) - 1),
                          !.key = IF x.maintain THEN Cut(@, Top(x).plen) ELSE @]

-----------------------------------------------------------------------------
(* Moving within one node.                                                 *)

\* Edges come in order: by byte, or by stem index for u16.  The cursor after
\* edge e was taken; cursor - 1 is the edge that was taken.
EdgeLess(e, f) == Ord!Less(e, f)
Taken(p, e) ==
  IF tree[p].kind = "u16"
  THEN Cardinality({f \in tree[p].edges : EdgeLess(f, e)}) + 1
  ELSE e[1] + 1

EdgesFrom(p, cur)   == {e \in tree[p].edges : Taken(p, e) > cur}

\* Slip: the search for the previous edge starts at the one that was taken.
EdgesUpto(p, cur)   == {e \in tree[p].edges : Taken(p, e) <= cur}

EdgesBefore(p, cur) == {e \in tree[p].edges : Taken(p, e) < cur}
MinEdge(E) == CHOOSE e \in E : \A f \in E \ {e} : EdgeLess(e, f)
MaxEdge(E) == CHOOSE e \in E : \A f \in E \ {e} : EdgeLess(f, e)

\* Stand on the leaf at p, whose key bytes so far are the first base ones.
Emit(x, p, base) ==
  [x EXCEPT !.at = p,
            !.key = IF x.maintain THEN Cut(@, base) \o (IF Full(p) THEN <<>> ELSE Sfx(p)) ELSE @]

\* Stand on the term of the router on top of the stack; its cursor is past it.
EmitTerm(x) ==
  [SetTop(x, 0) EXCEPT !.at = Top(x).node,
                       !.key = IF x.maintain THEN Cut(@, Top(x).cbase) ELSE @]

\* Push a frame for the router or prefix node at p and consume its prefix.
Enter(x, p, cur, base) ==
  LET k == Cut(x.key, base) \o tree[p].pfx
  IN  IF x.maintain
      THEN [x EXCEPT !.key = k, !.stk = Append(@, Frame(p, cur, base, Len(k)))]
      ELSE [x EXCEPT !.stk = Append(@, Frame(p, cur, 0, 0))]

\* Take edge e out of the router on top of the stack.
Take(x, e) ==
  [SetTop(x, Taken(Top(x).node, e)) EXCEPT
     !.key = IF x.maintain THEN Cut(@, Top(x).cbase) \o e ELSE @]

ChildOf(p, e) == At(tree, p) \o e

\* An iterator that seek_ or retreat_ took past the last (first) terminal.
Off(x) == [x EXCEPT !.end = TRUE, !.at = NoSlot]

-----------------------------------------------------------------------------
(* The loops.                                                              *)

\* The operation has its position: find() compares the key it stands on.
Arrive(x) == it' = x /\ go' = IF ask.op = "find" /\ ~x.end THEN Go("read", <<>>, 0) ELSE Rests

In(do) == go.do = do /\ UNCHANGED <<vars, ask>>

\* descend_min_ and descend_max_, at the node at go.p.
MinLeaf == In("min") /\ IsLeaf(tree, go.p) /\ Arrive(Emit(it, go.p, go.m))
MaxLeaf == In("max") /\ IsLeaf(tree, go.p) /\ Arrive(Emit(it, go.p, go.m))

\* A prefix node has a single child: it is consumed.
Through(do) ==
  /\ In(do) /\ IsPn(tree, go.p)
  /\ it' = Enter(it, go.p, 1, go.m)
  /\ go' = Go(do, At(tree, go.p), Top(it').cbase)
MinPn == Through("min")
MaxPn == Through("max")

MinTerm ==
  /\ In("min") /\ IsRouter(tree, go.p) /\ tree[go.p].term # NoVal
  /\ Arrive(EmitTerm(Enter(it, go.p, 0, go.m)))

Along(do, x, e) == it' = Take(x, e) /\ go' = Go(do, ChildOf(Top(x).node, e), Len(it'.key))

MinEdgeDown ==
  /\ In("min") /\ IsRouter(tree, go.p) /\ tree[go.p].term = NoVal
  /\ Along("min", Enter(it, go.p, 0, go.m), MinEdge(tree[go.p].edges))

MaxTerm ==
  /\ In("max") /\ IsRouter(tree, go.p) /\ tree[go.p].edges = {}
  /\ Arrive(EmitTerm(Enter(it, go.p, 0, go.m)))

MaxEdgeDown ==
  /\ In("max") /\ IsRouter(tree, go.p) /\ tree[go.p].edges # {}
  /\ Along("max", Enter(it, go.p, 0, go.m), MaxEdge(tree[go.p].edges))

\* seek_: the next terminal after the cursors of the stack.
top == Top(it)

SeekEnd == In("seek") /\ it.stk = <<>> /\ Arrive(Off(it))

SeekPn ==
  /\ In("seek") /\ it.stk # <<>> /\ IsPn(tree, top.node) /\ top.cur = 0
  /\ it' = SetTop(it, 1) /\ go' = Go("min", At(tree, top.node), top.cbase)

TermPending == top.cur = -1 /\ tree[top.node].term # NoVal

\* Slip: the term is reported but its cursor stays pending.
SeekTermPending ==
  /\ In("seek") /\ it.stk # <<>> /\ IsRouter(tree, top.node) /\ TermPending
  /\ Arrive([EmitTerm(it) EXCEPT !.stk = it.stk])

SeekTerm ==
  /\ In("seek") /\ it.stk # <<>> /\ IsRouter(tree, top.node) /\ TermPending
  /\ Arrive(EmitTerm(it))

SeekEdge ==
  /\ In("seek") /\ it.stk # <<>> /\ IsRouter(tree, top.node) /\ ~TermPending
  /\ EdgesFrom(top.node, top.cur) # {}
  /\ Along("min", it, MinEdge(EdgesFrom(top.node, top.cur)))

SeekPop ==
  /\ In("seek") /\ it.stk # <<>>
  /\ IsPn(tree, top.node) => top.cur # 0
  /\ IsRouter(tree, top.node) => ~TermPending /\ EdgesFrom(top.node, top.cur) = {}
  /\ it' = PopTop(it) /\ UNCHANGED go

\* retreat_: the terminal before the one the cursors of the stack have taken.
RetreatEnd == In("retreat") /\ it.stk = <<>> /\ Arrive(Off(it))

RetreatEdge ==
  /\ In("retreat") /\ it.stk # <<>> /\ IsRouter(tree, top.node)
  /\ EdgesBefore(top.node, top.cur) # {}
  /\ Along("max", it, MaxEdge(EdgesBefore(top.node, top.cur)))

RetreatTerm ==
  /\ In("retreat") /\ it.stk # <<>> /\ IsRouter(tree, top.node)
  /\ EdgesBefore(top.node, top.cur) = {} /\ top.cur >= 1 /\ tree[top.node].term # NoVal
  /\ Arrive(EmitTerm(it))

NothingBehind ==
  IsRouter(tree, top.node) =>
    EdgesBefore(top.node, top.cur) = {} /\ (top.cur < 1 \/ tree[top.node].term = NoVal)

\* Slip: the frame stays.
RetreatPopNot ==
  /\ In("retreat") /\ it.stk # <<>>
  /\ NothingBehind
  /\ UNCHANGED <<it, go>>

RetreatPop ==
  /\ In("retreat") /\ it.stk # <<>>
  /\ NothingBehind
  /\ it' = PopTop(it) /\ UNCHANGED go

-----------------------------------------------------------------------------
(* descend_lb_, at the node at go.p.                                       *)

\* descend_: one node; a leaf is a position, anything else is left to seek_.
Descend(x, p) ==
  IF IsLeaf(tree, p) THEN Emit(x, p, 0) ELSE Enter(x, p, IF IsPn(tree, p) THEN 0 ELSE -1, 0)

\* descend_lb_ pushes a frame without looking at the node's prefix.
Push(x, p, cur) == [x EXCEPT !.stk = Append(@, Frame(p, cur, 0, 0))]

\* Slip: a key that ends inside the prefix counts as greater than the subtree.
GreaterNotAtEnd(pfx, r) ==
  LET c == Lcp(pfx, r) IN c < Len(r) /\ c < Len(pfx) /\ pfx[c + 1] > r[c + 1]

\* The subtree's prefix pfx parts from the key bytes r: all of the subtree is
\* greater than the key (or smaller).
Greater(pfx, r) == LET c == Lcp(pfx, r) IN c = Len(r) \/ (c < Len(pfx) /\ pfx[c + 1] > r[c + 1])

\* The key looked for; erase(pos) looks for the one it just removed.
sought == IF ask.op = "erase" THEN req.key ELSE ask.key
Upper  == ask.op = "upper"
Qualifies(a) == IF Upper THEN Ord!Less(sought, a) ELSE ~Ord!Less(a, sought)

\* u16: the first stem >= the next two key bytes, a missing one counted as 0.
StemCursor(p, r) ==
  LET q == IF Len(r) < 2 THEN <<r[1], 0>> ELSE Front(r, 2)
  IN  Cardinality({e \in tree[p].edges : EdgeLess(e, q)})

kr == Rest(sought, go.p)                  \* the key bytes from the node on
kq == Rest(sought, At(tree, go.p))        \* ... from behind its prefix
ke == Front(kq, Min2(Len(kq), IF tree[go.p].kind = "u16" THEN 2 ELSE 1))

Parts    == ~IsLeaf(tree, go.p) /\ ~StartsWith(kr, tree[go.p].pfx)
Matches  == ~IsLeaf(tree, go.p) /\ StartsWith(kr, tree[go.p].pfx)
SeekOn   == go' = Go("seek", <<>>, 0)

\* A leaf is the bound, or seek_ goes on from its parent.
LbLeaf ==
  /\ In("lb") /\ IsLeaf(tree, go.p)
  /\ IF Qualifies(KeyAt(tree, go.p)) THEN Arrive(Emit(it, go.p, 0)) ELSE it' = it /\ SeekOn

LbParts ==
  /\ In("lb") /\ Parts
  /\ it' = IF Greater(tree[go.p].pfx, kr) THEN Descend(it, go.p)
           ELSE Push(it, go.p, IF IsPn(tree, go.p) THEN 1 ELSE MaxByte + 1)
  /\ SeekOn

LbPn ==
  /\ In("lb") /\ Matches /\ IsPn(tree, go.p)
  /\ it' = Push(it, go.p, 1) /\ go' = Go("lb", At(tree, go.p), 0)

LbTerm ==
  /\ In("lb") /\ Matches /\ IsRouter(tree, go.p) /\ kq = <<>>
  /\ it' = Push(it, go.p, IF Upper THEN 0 ELSE -1) /\ SeekOn

LbEdge ==
  /\ In("lb") /\ Matches /\ IsRouter(tree, go.p) /\ kq # <<>> /\ ke \in tree[go.p].edges
  /\ it' = Push(it, go.p, Taken(go.p, ke)) /\ go' = Go("lb", ChildOf(go.p, ke), 0)

LbNoEdge ==
  /\ In("lb") /\ Matches /\ IsRouter(tree, go.p) /\ kq # <<>> /\ ke \notin tree[go.p].edges
  /\ it' = Push(it, go.p, IF tree[go.p].kind = "u16" THEN StemCursor(go.p, kq) ELSE kq[1])
  /\ SeekOn

-----------------------------------------------------------------------------
(* key_bytes replays the stack: each frame learns its key lengths, and the *)
(* bytes its cursor has taken are appended.                                *)

\* Slip: an unread key is not replayed.
HasKeyUnprimed == TRUE

\* The key is the leaf's own copy, or current in the buffer.
HasKey == Full(it.at) \/ it.maintain

KeyBytes == IF Full(it.at) THEN KeyAt(tree, it.at) ELSE it.key

TakenBytes(fr) ==
  IF IsPn(tree, fr.node) \/ fr.cur < 1 THEN <<>>
  ELSE CHOOSE e \in tree[fr.node].edges : Taken(fr.node, e) = fr.cur

StartRead(x) == IF Full(x.at) \/ x.maintain THEN x ELSE [x EXCEPT !.key = <<>>]

\* Slip: the base of the edge is measured before the prefix.
PrimedNoPrefix(x, i) ==
  [x EXCEPT !.stk[i].plen = Len(x.key), !.stk[i].cbase = Len(x.key),
            !.key = @ \o tree[x.stk[i].node].pfx \o TakenBytes(x.stk[i])]

Primed(x, i) ==
  LET k == x.key \o tree[x.stk[i].node].pfx
  IN  [x EXCEPT !.stk[i].plen = Len(x.key), !.stk[i].cbase = Len(k),
                !.key = k \o TakenBytes(x.stk[i])]

Reading == In("read") /\ ~HasKey

ReadFrame ==
  /\ Reading /\ go.m < Len(it.stk)
  /\ it' = Primed(it, go.m + 1) /\ go' = Go("read", <<>>, go.m + 1)

ReadSuffix ==
  /\ Reading /\ go.m >= Len(it.stk)
  /\ it' = [it EXCEPT !.key = @ \o Sfx(it.at), !.maintain = TRUE] /\ UNCHANGED go

\* key(), key_bytes() and *it are answered.
ReadEnd == In("read") /\ HasKey /\ ask.op = "read" /\ it' = it /\ go' = Rests

\* find(k) keeps the lower bound when it stands on k.
FindEnd ==
  /\ In("read") /\ HasKey /\ ask.op = "find"
  /\ it' = (IF KeyBytes = sought THEN it ELSE EndIt) /\ go' = Rests

\* erase(pos) owns the key bytes, removes them, then looks for what followed.
EraseRemove ==
  /\ go.do = "read" /\ HasKey /\ ask.op = "erase"
  /\ \E v \in Values : Call("remove", KeyBytes, v)
  /\ it' = NoIt /\ go' = Go("remove", <<>>, 0) /\ UNCHANGED ask

-----------------------------------------------------------------------------
(* Operations.  Between calls of the map.                                  *)

Empty     == DOMAIN tree = {}
Place(x)  == IF x.end THEN Past ELSE KeyAt(tree, x.at)

Starts(op, k) == pc = "idle" /\ go.do = "rest" /\ ask' = [op |-> op, key |-> k] /\ UNCHANGED vars

\* A constructor or a positioning call; one on an operation of the iterator.
New(op, k) == ~it.live /\ Starts(op, k)
Moves(op)  == it.live /\ Starts(op, Place(it))
Standing   == it.live /\ ~it.end

End == New("end", Past) /\ it' = EndIt /\ go' = Rests

Begin ==
  /\ New("begin", Past)
  /\ it' = (IF Empty THEN EndIt ELSE Descend(Fresh, <<>>))
  /\ go' = IF Empty \/ IsLeaf(tree, <<>>) THEN Rests ELSE Go("seek", <<>>, 0)

\* const_iterator(map, root, key, upper).
Bound == /\ it' = (IF Empty THEN EndIt ELSE Fresh)
         /\ go' = IF Empty THEN Rests ELSE Go("lb", <<>>, 0)

LowerBound(k) == New("lower", k) /\ Bound
UpperBound(k) == New("upper", k) /\ Bound
Find(k)       == New("find", k) /\ Bound

Increment == Moves("next") /\ it' = it /\ go' = Go("seek", <<>>, 0)

\* operator--: --end() seats at the rightmost terminal.
Decrement ==
  /\ Moves("prev")
  /\ IF ~it.end THEN it' = it /\ go' = Go("retreat", <<>>, 0)
     ELSE IF Empty THEN it' = it /\ go' = Rests
     ELSE it' = [it EXCEPT !.end = FALSE, !.stk = <<>>, !.key = <<>>] /\ go' = Go("max", <<>>, 0)

Reads(op) == ~it.end /\ Moves(op) /\ it' = StartRead(it) /\ go' = Go("read", <<>>, 0)
Read      == Reads("read")          \* key(), key_bytes() or *it
Erase     == Reads("erase")         \* erase(pos)

\* The remove has returned.
EraseSeek == pc = "idle" /\ In("remove") /\ Bound

Discard == /\ pc = "idle" /\ go.do = "rest" /\ it.live
           /\ it' = NoIt /\ ask' = Nothing /\ UNCHANGED <<vars, go>>

\* The map's own calls: insert and remove invalidate the iterator.  (The calls
\* that do not, find and update, leave the nodes and their slots alone.)
Change ==
  /\ go.do = "rest"
  /\ \E op \in {"insert", "remove"}, k \in Keys, v \in Values : Call(op, k, v)
  /\ it' = NoIt /\ ask' = Nothing /\ UNCHANGED go

MapRuns == Step /\ UNCHANGED iterVars

IterInit == Init /\ it = NoIt /\ go = Rests /\ ask = Nothing

Loop ==
  \/ MinLeaf \/ MinPn \/ MinTerm \/ MinEdgeDown
  \/ MaxLeaf \/ MaxPn \/ MaxTerm \/ MaxEdgeDown
  \/ SeekEnd \/ SeekPn \/ SeekTerm \/ SeekEdge \/ SeekPop
  \/ RetreatEnd \/ RetreatEdge \/ RetreatTerm \/ RetreatPop
  \/ LbLeaf \/ LbParts \/ LbPn \/ LbTerm \/ LbEdge \/ LbNoEdge
  \/ ReadFrame \/ ReadSuffix \/ ReadEnd \/ FindEnd
  \/ EraseRemove \/ EraseSeek

IterNext ==
  \/ Loop \/ Change \/ MapRuns
  \/ Begin \/ End \/ Increment \/ Decrement \/ Discard \/ Read \/ Erase
  \/ \E k \in Probes : LowerBound(k) \/ UpperBound(k) \/ Find(k)

IterSpec == IterInit /\ [][IterNext]_allVars

\* One thread, which runs what it has begun.
FairIterSpec == IterSpec /\ WF_allVars(MapRuns /\ ret' # "throw") /\ WF_allVars(Loop)

-----------------------------------------------------------------------------
(* Properties.                                                             *)

Stored  == {KeyAt(tree, p) : p \in Terminals(tree)}
Resting == go.do = "rest" /\ it.live

\* Where the frame of the node at p stands when the iterator stands at p or
\* somewhere below it.
CursorTo(p, at) ==
  CASE p = at                      -> 0
    [] p # at /\ IsPn(tree, p)     -> 1
    [] p # at /\ IsRouter(tree, p) ->
         Taken(p, CHOOSE e \in tree[p].edges : StartsWith(at, ChildOf(p, e)))

\* Two iterators at the same element are equal, whichever way each of them got
\* there (++, --, a bound, find): operator== compares nodes and cursors only
\* (map.hpp: "the frame stack identifies [the terminal] uniquely regardless of
\* how each was reached").  The frames are those of the routers and prefix nodes
\* on the way from the root to the element, each with the cursor of that way.
SamePlaceSameFrames ==
  Resting /\ ~it.end =>
    /\ {it.stk[i].node : i \in DOMAIN it.stk} =
         {p \in DOMAIN tree : StartsWith(it.at, p) /\ ~IsLeaf(tree, p)}
    /\ \A a, b \in DOMAIN it.stk : a < b => Len(it.stk[a].node) < Len(it.stk[b].node)
    /\ \A i \in DOMAIN it.stk : it.stk[i].cur = CursorTo(it.stk[i].node, it.at)

\* The key an iterator reports is the key of the element it stands on: read for
\* the first time or maintained over any mix of ++, -- and --end().
KeyBytesRight == Resting /\ ~it.end /\ HasKey => KeyBytes = KeyAt(tree, it.at)

\* Where operation a ends, as the sorted set of the stored keys has it.
AnswerTo(a) ==
  CASE a.op = "begin" -> Ord!FirstOf(Stored)
    [] a.op = "lower" -> Ord!FirstOf(Ord!From(Stored, a.key))
    [] a.op = "upper" -> Ord!FirstOf(Ord!After(Stored, a.key))
    [] a.op = "find"  -> IF a.key \in Stored THEN a.key ELSE Past
    [] a.op = "next" /\ a.key # Past -> Ord!FirstOf(Ord!After(Stored, a.key))
    [] a.op = "prev" /\ a.key # Past -> Ord!LastOf(Ord!Below(Stored, a.key))
    [] a.op = "prev" /\ a.key = Past -> Ord!LastOf(Stored)
    [] a.op = "erase" -> Ord!FirstOf(Ord!After(Stored, a.key))
    [] OTHER          -> a.key          \* end(), ++end(), a read
Answer == AnswerTo(ask)

\* begin, find and the bounds go where the sorted set of the stored keys says,
\* for stored keys, their prefixes and extensions, and keys beyond all of them.
BoundsFollowOrder ==
  Resting /\ ask.op \in {"begin", "end", "lower", "upper", "find"} => Place(it) = Answer

\* ++ and -- go to the neighbours of the element an iterator stands on, whatever
\* route it came by and whether or not its key was read; --end() is the last one.
StepsFollowOrder == Resting /\ ask.op \in {"next", "prev", "read"} => Place(it) = Answer

\* erase(pos) returns the element that followed pos, although the remove in
\* between may have shrunk, collapsed or re-strided any node of its frames.
EraseReturnsSuccessor == Resting /\ ask.op = "erase" => Place(it) = Answer

\* Every operation of the iterator ends: no loop turns on one frame forever.
EveryMoveEnds == (go.do # "rest") ~> (go.do = "rest")
=============================================================================
