------------------------------ MODULE Transport ------------------------------
(***************************************************************************)
(* Two maps: swap, move, and equality.  The map of ArtTree takes calls;    *)
(* the other one is what swaps and moves left there.  A move assignment    *)
(* picks a transport by what the allocators can do: it steals the root,    *)
(* adopts the other pool's whole image, or clones node by node into its    *)
(* own allocator, one allocation per step, any of which may throw.         *)
(***************************************************************************)
EXTENDS ArtTree

CONSTANTS
  Transports,   \* of "steal", "adopt", "clone"
  Loads         \* the sets of pairs (key, value) that a run of the two maps uses

ASSUME TransportsAssumption == Transports \subseteq {"steal", "adopt", "clone"}
ASSUME LoadsAssumption == Loads \subseteq SUBSET (Keys \X Values)

VARIABLES
  load,     \* the one of this run
  other,    \* the second map: [tree, count]
  made,     \* a clone in progress: blocks made so far; None when there is none
  strays    \* blocks a thrown clone leaked or freed twice

transVars == <<vars, load, other, made, strays>>

LOCAL Ord  == INSTANCE OrderedKeys
LOCAL Seqs == INSTANCE SequencesExt

None     == -1
NoTree   == [p \in {} |-> 0]
NoMap    == [tree |-> NoTree, count |-> 0]
Idle     == pc = "idle" /\ made = None

-----------------------------------------------------------------------------
(* Equality: 1 equal, 0 not equal, Undecided when the shapes diverge.      *)

Undecided == -1

Tag(x)  == IF x.kind = "leaf" /\ ~IsValuePtr(x) THEN "value_inline" ELSE x.kind
Yes(b)  == IF b THEN 1 ELSE 0

\* eq_value_ on two leaves of different tags: only an empty suffix can be equal.
EqValue(x, y) == Yes(x.suf = <<>> /\ y.suf = <<>> /\ x.val = y.val)

\* Slip: another shape is another content.
EqShapesDiffer(x, y) == IF x.kind = "leaf" /\ y.kind = "leaf" THEN EqValue(x, y) ELSE 0

\* Two nodes of different tags.
EqShapes(x, y) == IF x.kind = "leaf" /\ y.kind = "leaf" THEN EqValue(x, y) ELSE Undecided

\* Two prefixes: they part, one goes on where the other ends, or they agree.
EqPrefix(x, y) ==
  IF Lcp(x.pfx, y.pfx) < Min2(Len(x.pfx), Len(y.pfx)) THEN 0
  ELSE IF Len(x.pfx) # Len(y.pfx) THEN Undecided
  ELSE 1

Hosts(t, p) == \E q \in Children(t, p) \cap DOMAIN t : IsLeaf(t, q) /\ t[q].inl

RECURSIVE EqWalk(_, _, _)

\* The verdict on the children, in order: the first that is not "equal".
EqBelow(a, b, p) ==
  LET verdict == [e \in a[p].edges |-> EqWalk(a, b, At(a, p) \o e)]
      bad     == {e \in a[p].edges : verdict[e] # 1}
  IN  IF bad = {} THEN 1 ELSE verdict[CHOOSE e \in bad : \A f \in bad : ~Ord!Less(f, e)]

EqRouter(a, b, p) ==
  IF a[p].edges # b[p].edges \/ a[p].term # b[p].term THEN 0 ELSE EqBelow(a, b, p)

\* Both nodes are at p: the paths to them are the same bytes.
EqWalk(a, b, p) ==
  IF p \notin DOMAIN a \cap DOMAIN b THEN Yes(p \notin DOMAIN a \cup DOMAIN b)
  ELSE IF Tag(a[p]) # Tag(b[p]) THEN EqShapes(a[p], b[p])
  ELSE CASE IsLeaf(a, p) -> Yes(a[p].suf = b[p].suf /\ a[p].val = b[p].val)
         [] a[p].kind = "setlist" /\ (Hosts(a, p) \/ Hosts(b, p)) -> Undecided
         [] OTHER ->
              LET r == EqPrefix(a[p], b[p])
              IN  IF r # 1 THEN r
                  ELSE IF IsPn(a, p) THEN EqWalk(a, b, At(a, p)) ELSE EqRouter(a, b, p)

-----------------------------------------------------------------------------
(* The structural clone.  A block is a node, or the leaf that holds a      *)
(* router's term.                                                          *)

\* A child in its parent's line, or in its handle, comes with the parent's bytes.
Rides(t, p) == IsLeaf(t, p) /\ (t[p].inl \/ ~IsValuePtr(t[p]))

\* Slots, in key order.
Ascending(S) == [i \in 1 .. Cardinality(S) |->
                   CHOOSE q \in S : Cardinality({x \in S : Ord!Less(x, q)}) = i - 1]

\* clone_walk_: the blocks in the order they are made.
RECURSIVE Blocks(_, _)
Blocks(t, p) ==
  IF p \notin DOMAIN t \/ Rides(t, p) THEN <<>>
  ELSE LET kids == Ascending(Children(t, p))
       IN  <<[at |-> p, term |-> FALSE]>>
             \o (IF IsRouter(t, p) /\ t[p].term # NoVal /\ ~Inlineable
                 THEN <<[at |-> p, term |-> TRUE]>> ELSE <<>>)
             \o Seqs!FlattenSeq([i \in DOMAIN kids |-> Blocks(t, kids[i])])

Source == Blocks(other.tree, <<>>)

\* Whether block c is of the subtree of node b, and a child of it.
Under(b, c)   == ~b.term /\ c # b /\ StartsWith(c.at, b.at)
Parent2(b, c) == Under(b, c) /\ \A i \in DOMAIN Source : ~(Under(b, Source[i]) /\ Under(Source[i], c))

\* The nodes whose clone_walk_ is still running when block m + 1 is due: each has
\* a build_guard, and the parent's handle to it is still null.
Open(m)      == {i \in 1 .. m : Under(Source[i], Source[m + 1])}

\* Slip: the handle is set before the child is complete.
LinkedEarly(m) == {<<i, c>> \in (1 .. m) \X (1 .. m) : Parent2(Source[i], Source[c])}

Linked(m)    == {<<i, c>> \in (1 .. m) \X (1 .. m) : Parent2(Source[i], Source[c]) /\ c \notin Open(m)}

\* What the guard of node i frees: the node and all that its handles lead to.
RECURSIVE FreeAll(_, _)
FreeAll(i, m) == {i} \cup UNION {FreeAll(x[2], m) : x \in {y \in Linked(m) : y[1] = i}}

-----------------------------------------------------------------------------
TransInit == Init /\ load \in Loads /\ other = NoMap /\ made = None /\ strays = {}

\* A call of the map of ArtTree.
Work ==
  /\ made = None
  /\ Step \/ \E op \in {"insert", "remove"}, kv \in load : Call(op, kv[1], kv[2])
  /\ UNCHANGED <<load, other, made, strays>>

Quiet == UNCHANGED <<load, pc, req, ret, slot, pslot, gnode, lvl, n, j, strays>>

\* swap(), of maps whose allocators are equal or go along; for others, the
\* program turns to the other map: which of the two takes the calls is a name.
Swap ==
  /\ Idle
  /\ tree' = other.tree /\ count' = other.count
  /\ other' = [tree |-> tree, count |-> count]
  /\ Quiet /\ UNCHANGED made

\* Move construction, and move assignment with an allocator that can free the
\* other's nodes; or with the other pool's image copied over ours.
Take ==
  /\ Idle /\ Transports \cap {"steal", "adopt"} # {}
  /\ tree' = other.tree /\ count' = other.count
  /\ other' = NoMap
  /\ Quiet /\ UNCHANGED made

\* adopt throws past our pool's cap, after clear().
TakeThrows ==
  /\ Idle /\ "adopt" \in Transports
  /\ tree' = NoTree /\ count' = 0
  /\ Quiet /\ UNCHANGED <<other, made>>

CloneBegin ==
  /\ Idle /\ "clone" \in Transports
  /\ tree' = NoTree /\ count' = 0
  /\ made' = 0
  /\ Quiet /\ UNCHANGED other

CloneBlock ==
  /\ made # None /\ made < Len(Source)
  /\ made' = made + 1
  /\ Quiet /\ UNCHANGED <<tree, count, other>>

\* The guards run from the innermost open node out.
CloneThrows ==
  /\ made # None /\ made < Len(Source)
  /\ strays' = {i \in 1 .. made : Cardinality({g \in Open(made) : i \in FreeAll(g, made)}) # 1}
  /\ made' = None
  /\ UNCHANGED <<vars, load, other>>

CloneEnd ==
  /\ made # None /\ made = Len(Source)
  /\ tree' = other.tree /\ count' = other.count
  /\ other' = NoMap
  /\ made' = None
  /\ Quiet

TransNext == Work \/ Swap \/ Take \/ TakeThrows \/ CloneBegin \/ CloneBlock \/ CloneThrows \/ CloneEnd

TransSpec == TransInit /\ [][TransNext]_transVars

-----------------------------------------------------------------------------
(* Properties.                                                             *)

\* operator== is right whatever sequences of calls the two trees come from: with
\* as many keys in both, "equal" and "not equal" are what the contents say, and
\* only an undecided walk is left to the element-wise comparison.
EqualityDecides ==
  Idle /\ count = other.count =>
    LET verdict == EqWalk(tree, other.tree, <<>>)
    IN  verdict # Undecided => verdict = Yes(Content(tree) = Content(other.tree))

\* A clone that throws gives back every block it had made, each once.
NoStray == strays = {}
=============================================================================
