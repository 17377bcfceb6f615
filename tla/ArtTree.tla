------------------------------- MODULE ArtTree -------------------------------
(***************************************************************************)
(* The radix tree of artpp::map (modes none, dense_tiers, ladder_c8 and    *)
(* wide_stems; the bucket modes are not here).  Every loop iteration of    *)
(* insert_, remove_bytes_, descend_read/descend_mut, grow_router_ and      *)
(* rm_unwind_/rm_shrink_ is one action, so the states in which an          *)
(* allocation throws half way through an operation are states of the model.*)
(*                                                                         *)
(* A node is identified by its slot: the key bytes consumed before it.     *)
(* Routers and prefix nodes always consume bytes, so slots are unique and  *)
(* the tree is a partial function from slots to nodes.  The child that a   *)
(* router at slot p reaches over edge e is at slot p \o pfx \o e.  A null  *)
(* handle is an edge whose slot holds no node.  What is allocated and not  *)
(* in the tree is the matter of ArtHeap.                                   *)
(***************************************************************************)
EXTENDS Integers, Sequences, FiniteSets

CONSTANTS
  Keys,            \* encoded keys: byte sequences
  Values,          \* mapped values
  NoVal,           \* a null term handle
  MaxByte,         \* bytes are 0..MaxByte (255 in the code)
  SetlistCap,      \* setlist::CAP, 16
  PrefixCap,       \* setlist::PREFIX_CAP, 7
  FullPfxCap,      \* node_full::PFX_CAP, 63
  U16Cap,          \* setlist16::CAP, 14
  FuseThresh,      \* FUSE_THRESH, U16Cap - 2
  CnodeCap,        \* cnode<N>::CAP per segment, for N = 2, 4, 8
  ShrinkMax,       \* SHRINK_MAX, SetlistCap - 4
  RmLvn,           \* RM_LVN, 64
  DenseTiers,      \* the c2/c4 ladder is on
  LadderC8,        \* ... with the c8 rung
  WideStems,       \* two-byte routers are on
  Inlineable,      \* T fits in a handle: an empty-suffix leaf is a handle
  InlineChildren   \* T is trivially copyable: a setlist may host leaf children

Byte == 0 .. MaxByte
Path == Seq(Byte)

ASSUME KeysAssumption == Keys \subseteq Path
ASSUME NoValAssumption == NoVal \notin Values
ASSUME MaxByteAssumption == MaxByte \in Nat
ASSUME CapAssumption ==
  /\ SetlistCap \in Nat \ {0, 1} /\ PrefixCap \in Nat /\ FullPfxCap \in Nat
  /\ U16Cap \in Nat /\ U16Cap <= SetlistCap     \* static_assert in restride_u16_to_u8
  /\ FuseThresh \in Nat /\ FuseThresh <= U16Cap
  /\ CnodeCap \in [{2, 4, 8} -> Nat]
  /\ SetlistCap <= CnodeCap[2] /\ CnodeCap[2] <= CnodeCap[4] /\ CnodeCap[4] <= CnodeCap[8]
  /\ PrefixCap <= FullPfxCap
  /\ ShrinkMax \in Nat /\ ShrinkMax <= SetlistCap
  /\ RmLvn \in Nat \ {0, 1}
ASSUME ModeAssumption ==
  /\ {DenseTiers, LadderC8, WideStems, Inlineable, InlineChildren} \subseteq BOOLEAN
  /\ Inlineable => InlineChildren               \* both need a trivially copyable T

VARIABLES
  tree,    \* slot -> node
  count,   \* count_
  pc,      \* what the current call is doing; "idle" between calls
  req,     \* the current (or last) call: [op, key, val]
  ret,     \* its result; "pending" until decided
  slot,    \* the slot the loop is looking at
  pslot,   \* insert_'s pslot: the slot of the parent, or NoSlot
  gnode,   \* grow_router_: the slot of the router being widened
  lvl,     \* remove's path[]: a ring of the last RmLvn slots of the descent
  n,       \* ... and the number of slots recorded
  j        \* ... and the level the unwind is at

vars == <<tree, count, pc, req, ret, slot, pslot, gnode, lvl, n, j>>

NoSlot == <<MaxByte + 1>>     \* a nullptr slot: not a Path

-----------------------------------------------------------------------------
(* Nodes.                                                                  *)

Leaf(suf, val)               == [kind |-> "leaf", suf |-> suf, val |-> val, inl |-> FALSE]
Pn(pfx)                      == [kind |-> "pn", pfx |-> pfx]
Router(kind, pfx, edges, tm) == [kind |-> kind, pfx |-> pfx, edges |-> edges, term |-> tm]

CnodeKinds  == {"c2", "c4", "c8"}
RouterKinds == {"setlist", "u16", "full", "pfxd"} \cup CnodeKinds

LeafNode   == [kind : {"leaf"}, suf : Path, val : Values, inl : BOOLEAN]
PnNode     == [kind : {"pn"}, pfx : Path]
RouterNode == [kind : RouterKinds, pfx : Path, edges : SUBSET Path, term : Values \cup {NoVal}]
Node       == LeafNode \cup PnNode \cup RouterNode

IsLeaf(t, p)   == t[p].kind = "leaf"
IsPn(t, p)     == t[p].kind = "pn"
IsRouter(t, p) == t[p].kind \in RouterKinds

\* Where a router or prefix node stands once its own prefix is consumed.
At(t, p) == p \o t[p].pfx

Children(t, p) ==
  CASE IsLeaf(t, p)   -> {}
    [] IsPn(t, p)     -> {At(t, p)}
    [] IsRouter(t, p) -> {At(t, p) \o e : e \in t[p].edges}

\* A leaf with tag value_ptr: one that has bytes somewhere (its own block or,
\* when inl, the tail of its parent's line).
IsValuePtr(nd) == nd.kind = "leaf" /\ ~(Inlineable /\ nd.suf = <<>>)

Upd(t, p, nd)  == [q \in DOMAIN t \cup {p} |-> IF q = p THEN nd ELSE t[q]]
Drop(t, S)     == [q \in DOMAIN t \ S |-> t[q]]
Over(t, u)     == [q \in DOMAIN t \cup DOMAIN u |-> IF q \in DOMAIN u THEN u[q] ELSE t[q]]

Rest(k, p)  == SubSeq(k, Len(p) + 1, Len(k))
Front(s, c) == SubSeq(s, 1, c)
Back(s, c)  == SubSeq(s, c + 1, Len(s))
Min2(a, b)  == IF a <= b THEN a ELSE b
StartsWith(s, x) == Len(x) <= Len(s) /\ Front(s, Len(x)) = x

\* lcp(): the length of the longest common prefix.
Lcp(s, x) ==
  CHOOSE c \in 0 .. Min2(Len(s), Len(x)) :
    /\ Front(s, c) = Front(x, c)
    /\ c < Min2(Len(s), Len(x)) => s[c + 1] # x[c + 1]

-----------------------------------------------------------------------------
(* Router tiers.                                                           *)

CnodeN(kind) == CASE kind = "c2" -> 2 [] kind = "c4" -> 4 [] kind = "c8" -> 8
SegOf(N, b)  == (b * N) \div (MaxByte + 1)

\* Slip: the capacity test is off by one.
FitsOneMore(nd, b) ==
  CASE nd.kind = "setlist"       -> Cardinality(nd.edges) <= SetlistCap
    [] nd.kind \in CnodeKinds    ->
         LET N == CnodeN(nd.kind)
         IN  Cardinality({e \in nd.edges : SegOf(N, e[1]) = SegOf(N, b)}) <= CnodeCap[N]
    [] nd.kind \in {"full", "pfxd"} -> TRUE

\* router_try_set has room for byte b.  A cnode is full per segment.
Fits(nd, b) ==
  CASE nd.kind = "setlist"       -> Cardinality(nd.edges) < SetlistCap
    [] nd.kind \in CnodeKinds    ->
         LET N == CnodeN(nd.kind)
         IN  Cardinality({e \in nd.edges : SegOf(N, e[1]) = SegOf(N, b)}) < CnodeCap[N]
    [] nd.kind \in {"full", "pfxd"} -> TRUE

\* Slip: the rung is rebuilt as it was.
WidenToSame(kind) == kind

\* The next rung of the widen ladder.
WidenTo(kind) ==
  CASE ~DenseTiers      -> "full"
    [] kind = "setlist" -> "c2"
    [] kind = "c2"      -> "c4"
    [] kind = "c4"      -> IF LadderC8 THEN "c8" ELSE "full"
    [] kind = "c8"      -> "full"

-----------------------------------------------------------------------------
(* Prefixes.                                                               *)

\* make_prefix writes the prefix into the header of a node_full when it fits.
FusesInto(t, c, pfx) ==
  /\ c \in DOMAIN t
  /\ t[c].kind \in {"full", "pfxd"}
  /\ Len(pfx) + Len(t[c].pfx) <= FullPfxCap

\* Slip: the fused node_full is copied, not moved.
MakePrefixCopy(t, p, pfx) ==
  LET c == p \o pfx
  IN  IF pfx = <<>> THEN t
      ELSE IF FusesInto(t, c, pfx)
      THEN Upd(t, p, [t[c] EXCEPT !.kind = "pfxd", !.pfx = pfx \o t[c].pfx])
      ELSE Upd(t, p, Pn(pfx))

\* make_prefix(pfx, next), with next at slot p \o pfx, hung at slot p.
MakePrefix(t, p, pfx) ==
  LET c == p \o pfx
  IN  IF pfx = <<>> THEN t
      ELSE IF FusesInto(t, c, pfx)
      THEN Upd(Drop(t, {c}), p, [t[c] EXCEPT !.kind = "pfxd", !.pfx = pfx \o t[c].pfx])
      ELSE Upd(t, p, Pn(pfx))

\* apply_prefix: a new setlist r at slot p takes the shared bytes inline when
\* they fit, else it hangs one prefix node further down.
ForkSlot(p, common) == IF Len(common) <= PrefixCap THEN p ELSE p \o common

ApplyPrefix(p, common, r) ==
  IF Len(common) <= PrefixCap
  THEN [q \in {p} |-> [r EXCEPT !.pfx = common]]
  ELSE [q \in {p, p \o common} |-> IF q = p THEN Pn(common) ELSE r]

\* sl_inline_compact_: all of the leaf children of the setlist at p move into
\* its line, or (not enough room) none does.
InlineCompact(t, p, fits) ==
  IF InlineChildren /\ fits
  THEN [q \in DOMAIN t |-> IF q \in Children(t, p) /\ IsValuePtr(t[q])
                           THEN [t[q] EXCEPT !.inl = TRUE] ELSE t[q]]
  ELSE t

\* The router that both a split leaf and a split prefix create at slot p: the
\* new key R and an old byte string S part after their first c bytes.
ForkRouter(R, v, c, oldEdges, oldTerm) ==
  Router("setlist", <<>>,
         oldEdges \cup IF c < Len(R) THEN {<<R[c + 1]>>} ELSE {},
         IF c = Len(R) THEN v ELSE oldTerm)

\* The leaf of the new key below that router, if it does not end at it.
ForkLeaf(p, R, v, c) ==
  [q \in IF c < Len(R) THEN {p \o Front(R, c + 1)} ELSE {} |-> Leaf(Back(R, c + 1), v)]

\* Slip: the inline children of a setlist are overlooked.
InlineKidsNone(t, p) == {}

\* The leaf children that live in the line of the setlist at p.
InlineKids(t, p) ==
  {c \in Children(t, p) \cap DOMAIN t : t[p].kind = "setlist" /\ IsLeaf(t, c) /\ t[c].inl}

\* sl_externalize_: the leaves at slots S get a block of their own.
Externalize(t, S) == [q \in DOMAIN t |-> IF q \in S THEN [t[q] EXCEPT !.inl = FALSE] ELSE t[q]]

-----------------------------------------------------------------------------
(* Calls and returns.                                                      *)

EmptyRing == [i \in 0 .. RmLvn - 1 |-> <<>>]

Entry(op) ==
  CASE op \in {"insert", "emplace"} -> "put"
    [] op \in {"update", "find"}    -> "get"
    [] op = "remove"                -> "rem"
    [] op = "clear"                 -> "clear"

Call(op, k, v) ==
  /\ pc = "idle"
  /\ pc' = Entry(op)
  /\ req' = [op |-> op, key |-> k, val |-> v]
  /\ ret' = "pending"
  /\ slot' = <<>>
  /\ n' = 1                                   \* path[0] = &root_
  /\ UNCHANGED <<tree, count, pslot, gnode, lvl, j>>

\* The call returns r: its locals are gone.
Finish(r) ==
  /\ pc' = "idle" /\ ret' = r
  /\ slot' = <<>> /\ pslot' = NoSlot /\ gnode' = <<>>
  /\ lvl' = EmptyRing /\ n' = 0 /\ j' = 0
  /\ UNCHANGED req

\* An allocation of the iteration fails before anything was written.
Throw == Finish("throw") /\ UNCHANGED <<tree, count>>

R  == Rest(req.key, slot)                      \* key.substr(depth)
nd == tree[slot]
here == At(tree, slot)                         \* the slot of nd plus nd's prefix

\* The node at slot has a prefix (maybe empty) and the key goes past it.
PastPrefix == /\ nd.kind # "leaf"
              /\ StartsWith(R, nd.pfx)

\* The edge the key takes out of the router at slot: one byte, or two for u16.
Edge == IF nd.kind = "u16"
        THEN SubSeq(req.key, Len(here) + 1, Min2(Len(here) + 2, Len(req.key)))
        ELSE SubSeq(req.key, Len(here) + 1, Len(here) + 1)

KeyEnds == req.key = here

\* A value with suffix suf needs a block.
Allocates(suf) == ~(Inlineable /\ suf = <<>>)

-----------------------------------------------------------------------------
(* insert_: one action per way an iteration of its loop can go.            *)

Putting == pc = "put"

PutNull ==
  /\ Putting /\ slot \notin DOMAIN tree
  /\ \/ /\ tree' = Upd(tree, slot, Leaf(R, req.val))
        /\ count' = count + 1
        /\ Finish("true")
     \/ Allocates(R) /\ Throw

\* split_leaf on the exact key: insert assigns, emplace leaves it alone.
PutSameLeaf ==
  /\ Putting /\ slot \in DOMAIN tree /\ nd.kind = "leaf" /\ nd.suf = R
  /\ tree' = IF req.op = "insert" THEN [tree EXCEPT ![slot].val = req.val] ELSE tree
  /\ Finish("false")
  /\ UNCHANGED count

\* split_leaf: a router with the old and the new value takes the leaf's slot.
SplitLeafTree(fits) ==
  LET S      == nd.suf
      c      == Lcp(S, R)
      common == Front(R, c)
      r      == ForkRouter(R, req.val, c,
                           IF c < Len(S) THEN {<<S[c + 1]>>} ELSE {},
                           IF c = Len(S) THEN nd.val ELSE NoVal)
      t1     == Over(Drop(tree, {slot}), ApplyPrefix(slot, common, r))
      t2     == Over(Over(t1, ForkLeaf(slot, R, req.val, c)), ForkLeaf(slot, S, nd.val, c))
  IN  InlineCompact(t2, ForkSlot(slot, common), fits)

PutSplitLeaf ==
  /\ Putting /\ slot \in DOMAIN tree /\ nd.kind = "leaf" /\ nd.suf # R
  /\ \/ /\ \E fits \in BOOLEAN : tree' = SplitLeafTree(fits)
        /\ IF WideStems /\ pslot # NoSlot
           THEN /\ pc' = "fuse" /\ ret' = "true"
                /\ UNCHANGED <<count, req, slot, pslot, gnode, lvl, n, j>>
           ELSE Finish("true") /\ count' = count + 1
     \/ Throw

\* A prefix_node above a node_full with header room migrates into it.
PutLazyFuse ==
  /\ Putting /\ slot \in DOMAIN tree /\ nd.kind = "pn"
  /\ FusesInto(tree, here, nd.pfx)
  /\ tree' = MakePrefix(tree, slot, nd.pfx)
  /\ UNCHANGED <<count, pc, req, ret, slot, pslot, gnode, lvl, n, j>>

\* split_prefix, split_setlist_prefix and split_pfxd_prefix: the key leaves the
\* node's prefix at position c.  What is left of the old node hangs below q.
SplitPrefixTree(fits) ==
  LET c      == Lcp(nd.pfx, R)
      common == Front(nd.pfx, c)
      rest   == Back(nd.pfx, c + 1)
      q      == slot \o Front(nd.pfx, c + 1)
      old    == Drop(tree, {slot})
      kept   == CASE nd.kind = "pn"      -> MakePrefix(old, q, rest)
                  [] nd.kind = "setlist" -> Upd(old, q, [nd EXCEPT !.pfx = rest])
                  [] nd.kind = "pfxd"    ->
                       Upd(old, q, [nd EXCEPT !.kind = IF rest = <<>> THEN "full" ELSE "pfxd",
                                              !.pfx = rest])
      r      == ForkRouter(R, req.val, c, {<<nd.pfx[c + 1]>>}, NoVal)
      t1     == Over(Over(kept, ApplyPrefix(slot, common, r)), ForkLeaf(slot, R, req.val, c))
  IN  InlineCompact(t1, ForkSlot(slot, common), fits)

PutSplitPrefix ==
  /\ Putting /\ slot \in DOMAIN tree /\ nd.kind # "leaf" /\ ~StartsWith(R, nd.pfx)
  /\ nd.kind = "pn" => ~FusesInto(tree, here, nd.pfx)
  /\ \/ /\ \E fits \in BOOLEAN : tree' = SplitPrefixTree(fits)
        /\ count' = count + 1
        /\ Finish("true")
     \/ Throw

\* set_or_update_term: the key ends at this router.
PutTerm ==
  /\ Putting /\ slot \in DOMAIN tree /\ nd.kind \in RouterKinds /\ PastPrefix /\ KeyEnds
  /\ IF nd.term = NoVal
     THEN \/ /\ tree' = [tree EXCEPT ![slot].term = req.val]
             /\ count' = count + 1
             /\ Finish("true")
          \/ Allocates(<<>>) /\ Throw
     ELSE /\ tree' = IF req.op = "insert" THEN [tree EXCEPT ![slot].term = req.val] ELSE tree
          /\ Finish("false")
          /\ UNCHANGED count

\* The parent that a split below it may fuse.
Parent == IF WideStems THEN slot ELSE NoSlot

\* Descend: an inline leaf child becomes a real leaf first.
PutDescend ==
  /\ Putting /\ slot \in DOMAIN tree /\ PastPrefix
  /\ nd.kind = "pn" => ~FusesInto(tree, here, nd.pfx)
  /\ nd.kind \in RouterKinds => ~KeyEnds /\ Edge \in nd.edges
  /\ LET c == IF nd.kind = "pn" THEN here ELSE here \o Edge
     IN  \/ /\ slot' = c
            /\ tree' = Externalize(tree, {c} \cap InlineKids(tree, slot))
            /\ pslot' = Parent
            /\ UNCHANGED <<count, pc, req, ret, gnode, lvl, n, j>>
         \/ c \in InlineKids(tree, slot) /\ Throw

\* The router at slot has no child for the key.
NoChild == /\ slot \in DOMAIN tree /\ nd.kind \in RouterKinds
           /\ PastPrefix /\ ~KeyEnds /\ Edge \notin nd.edges

\* sl_externalize_all_ runs before a setlist takes a new child.  When the
\* allocation for the leaf at c throws, the leaves before it have moved out.
PutExternalizeAll ==
  /\ Putting /\ NoChild /\ InlineKids(tree, slot) # {}
  /\ \/ /\ tree' = Externalize(tree, InlineKids(tree, slot))
        /\ UNCHANGED <<count, pc, req, ret, slot, pslot, gnode, lvl, n, j>>
     \/ \E c \in InlineKids(tree, slot) :
          /\ tree' = Externalize(tree, {d \in InlineKids(tree, slot) : d[Len(d)] < c[Len(c)]})
          /\ Finish("throw")
          /\ UNCHANGED count

Link(t, p, e, suf) ==
  Upd([t EXCEPT ![p].edges = @ \cup {e}], At(t, p) \o e, Leaf(suf, req.val))

\* A new child: in place when the tier has room, else grow_router_ takes over.
PutAdd ==
  /\ Putting /\ NoChild /\ nd.kind # "u16" /\ InlineKids(tree, slot) = {}
  /\ \/ /\ Fits(nd, Edge[1])
        /\ tree' = Link(tree, slot, Edge, Rest(req.key, here \o Edge))
        /\ count' = count + 1
        /\ Finish("true")
     \/ /\ ~Fits(nd, Edge[1])
        /\ pc' = "grow"
        /\ gnode' = slot
        /\ UNCHANGED <<tree, count, req, ret, slot, pslot, lvl, n, j>>
     \/ Allocates(Rest(req.key, here \o Edge)) /\ Throw

\* A u16 router takes a new stem ...
PutAddStem ==
  /\ Putting /\ NoChild /\ nd.kind = "u16" /\ Len(Edge) = 2
  /\ Cardinality(nd.edges) < U16Cap
  /\ \/ /\ tree' = Link(tree, slot, Edge, Rest(req.key, here \o Edge))
        /\ count' = count + 1
        /\ Finish("true")
     \/ Allocates(Rest(req.key, here \o Edge)) /\ Throw

\* Slip: the re-stride is skipped.
RestrideTreeNot == tree

\* ... or, full or with a single key byte left, goes back to byte routers.
RestrideTree ==
  LET his   == {Front(e, 1) : e \in nd.edges}
      group == [q \in {slot \o h : h \in his} |->
                  Router("setlist", <<>>,
                         {Back(e, 1) : e \in {x \in nd.edges : slot \o Front(x, 1) = q}}, NoVal)]
  IN  Over(Upd(tree, slot, Router("setlist", <<>>, his, nd.term)), group)

PutRestride ==
  /\ Putting /\ NoChild /\ nd.kind = "u16"
  /\ Len(Edge) = 1 \/ Cardinality(nd.edges) >= U16Cap
  /\ \/ /\ tree' = RestrideTree
        /\ UNCHANGED <<count, pc, req, ret, slot, pslot, gnode, lvl, n, j>>
     \/ Throw

-----------------------------------------------------------------------------
(* grow_router_.  The new leaf is built but not linked; a throw frees it.  *)

gnd   == tree[gnode]
GEdge == SubSeq(req.key, Len(At(tree, gnode)) + 1, Len(At(tree, gnode)) + 1)

\* Slip: the loop goes on with the slot of the new prefix node.
GrowLiftNotAnchored ==
  /\ pc = "grow" /\ gnd.kind = "setlist" /\ gnd.pfx # <<>>
  /\ tree' = Over(tree, [q \in {gnode, At(tree, gnode)} |->
                           IF q = gnode THEN Pn(gnd.pfx) ELSE [gnd EXCEPT !.pfx = <<>>]])
  /\ UNCHANGED <<count, pc, req, ret, slot, pslot, gnode, lvl, n, j>>

\* A setlist's inline prefix is lifted into a prefix_node above it.
GrowLift ==
  /\ pc = "grow" /\ gnd.kind = "setlist" /\ gnd.pfx # <<>>
  /\ \/ /\ tree' = Over(tree, [q \in {gnode, At(tree, gnode)} |->
                                 IF q = gnode THEN Pn(gnd.pfx) ELSE [gnd EXCEPT !.pfx = <<>>]])
        /\ gnode' = At(tree, gnode)
        /\ UNCHANGED <<count, pc, req, ret, slot, pslot, lvl, n, j>>
     \/ Throw

\* Slip: the wider router does not take the term along.
GrowWidenDropsTerm ==
  /\ pc = "grow" /\ (gnd.kind = "setlist" => gnd.pfx = <<>>)
  /\ ~Fits(gnd, GEdge[1])
  /\ tree' = Upd(tree, gnode, Router(WidenTo(gnd.kind), <<>>, gnd.edges, NoVal))
  /\ UNCHANGED <<count, pc, req, ret, slot, pslot, gnode, lvl, n, j>>

\* widen, re-anchored after every rung.
GrowWiden ==
  /\ pc = "grow" /\ (gnd.kind = "setlist" => gnd.pfx = <<>>)
  /\ ~Fits(gnd, GEdge[1])
  /\ \/ /\ tree' = [tree EXCEPT ![gnode].kind = WidenTo(@)]
        /\ UNCHANGED <<count, pc, req, ret, slot, pslot, gnode, lvl, n, j>>
     \/ Throw

\* The child fits: link it, and fuse a lifted prefix into a node_full header.
GrowLink ==
  /\ pc = "grow" /\ (gnd.kind = "setlist" => gnd.pfx = <<>>)
  /\ Fits(gnd, GEdge[1])
  /\ LET t == Link(tree, gnode, GEdge, Rest(req.key, At(tree, gnode) \o GEdge))
     IN  tree' = IF gnode # slot /\ gnd.kind = "full" /\ FusesInto(t, gnode, tree[slot].pfx)
                 THEN MakePrefix(t, slot, tree[slot].pfx)
                 ELSE t
  /\ count' = count + 1
  /\ Finish("true")

-----------------------------------------------------------------------------
(* try_fuse_parent: after a leaf split, a sparse two-level chain of byte   *)
(* routers becomes one u16 router.                                         *)

Grandedges(t, p) ==
  UNION {{e \o f : f \in t[p \o e].edges} : e \in t[p].edges}

\* A child router whose edges a two-byte stem can carry.
Absorbable(t, c) ==
  /\ c \in DOMAIN t
  /\ t[c].kind \in RouterKinds \ {"u16"}
  /\ t[c].term = NoVal
  /\ t[c].kind \in {"setlist", "pfxd"} => t[c].pfx = <<>>
  /\ InlineKids(t, c) = {}

Fusable(t, p) ==
  /\ t[p].kind = "setlist" /\ t[p].pfx = <<>> /\ t[p].edges # {}
  /\ \A c \in Children(t, p) : Absorbable(t, c)
  /\ Cardinality(Grandedges(t, p)) <= FuseThresh

FuseTree(t, p) ==
  Upd(Drop(t, Children(t, p)), p, Router("u16", <<>>, Grandedges(t, p), t[p].term))

FuseParent ==
  /\ pc = "fuse"
  /\ IF Fusable(tree, pslot)
     THEN tree' = FuseTree(tree, pslot) \/ tree' = tree     \* OOM: left as it is
     ELSE tree' = tree
  /\ count' = count + 1
  /\ Finish(ret)

-----------------------------------------------------------------------------
(* find and update: descend_read and descend_mut take the same way down.   *)

Getting == pc = "get"

\* The lookup goes on below the node at slot.  Otherwise it is decided here: no
\* node, a leaf, a prefix that does not match, a key that ends at a router, or
\* no edge for the next byte(s).
Passes == /\ slot \in DOMAIN tree
          /\ PastPrefix
          /\ nd.kind \in RouterKinds => ~KeyEnds /\ Edge \in nd.edges

\* The node at slot holds the key.
Holds == /\ slot \in DOMAIN tree
         /\ \/ nd.kind = "leaf" /\ nd.suf = R
            \/ nd.kind \in RouterKinds /\ KeyEnds /\ nd.term # NoVal

NextSlot == IF nd.kind = "pn" THEN here ELSE here \o Edge

GetDescend ==
  /\ Getting /\ Passes
  /\ slot' = NextSlot
  /\ UNCHANGED <<tree, count, pc, req, ret, pslot, gnode, lvl, n, j>>

GetMiss ==
  /\ Getting /\ ~Passes /\ ~Holds
  /\ Finish("false")
  /\ UNCHANGED <<tree, count>>

GetHit ==
  /\ Getting /\ ~Passes /\ Holds
  /\ IF req.op = "find"
     THEN /\ tree' = tree
          /\ Finish(IF nd.kind = "leaf" THEN nd.val ELSE nd.term)
     ELSE /\ tree' = IF nd.kind = "leaf" THEN [tree EXCEPT ![slot].val = req.val]
                                         ELSE [tree EXCEPT ![slot].term = req.val]
          /\ Finish("true")
  /\ UNCHANGED count

-----------------------------------------------------------------------------
(* remove_bytes_.                                                          *)

Removing == pc = "rem"

\* Descend to a child that is not an inline leaf and record its slot.
RemDescend ==
  /\ Removing /\ Passes /\ NextSlot \notin InlineKids(tree, slot)
  /\ slot' = NextSlot
  /\ lvl' = [lvl EXCEPT ![n % RmLvn] = NextSlot]
  /\ n' = n + 1
  /\ UNCHANGED <<tree, count, pc, req, ret, pslot, gnode, j>>

RemMiss ==
  /\ Removing
  /\ IF Passes THEN /\ NextSlot \in InlineKids(tree, slot)
                    /\ tree[NextSlot].suf # Rest(req.key, NextSlot)
               ELSE ~Holds
  /\ Finish("false")
  /\ UNCHANGED <<tree, count>>

\* Slip: the unwind does not stop at the root.
FreedPastRoot(i) ==
  IF n - i >= RmLvn
  THEN Finish("true")
  ELSE /\ pc' = "unlink" /\ ret' = "true"
       /\ j' = i - 1
       /\ UNCHANGED <<req, slot, pslot, gnode, lvl, n>>

\* The node of level i is gone.  Go on with its parent, unless it was the root
\* or its parent has left the window (the slot is then just set to null).
Freed(i) ==
  IF i = 0 \/ n - i >= RmLvn
  THEN Finish("true")
  ELSE /\ pc' = "unlink" /\ ret' = "true"
       /\ j' = i - 1
       /\ UNCHANGED <<req, slot, pslot, gnode, lvl, n>>

RemLeaf ==
  /\ Removing /\ ~Passes /\ Holds /\ nd.kind = "leaf"
  /\ tree' = Drop(tree, {slot})
  /\ count' = count - 1
  /\ Freed(n - 1)

\* rm_shrink_ takes over at level n - 1.
ToShrink ==
  /\ pc' = "shrink" /\ ret' = "true"
  /\ j' = n - 1
  /\ UNCHANGED <<req, slot, pslot, gnode, lvl, n>>

RemTerm ==
  /\ Removing /\ ~Passes /\ Holds /\ nd.kind \in RouterKinds
  /\ tree' = [tree EXCEPT ![slot].term = NoVal]
  /\ count' = count - 1
  /\ ToShrink

\* Slip: the key is not counted down.
RemInlineUncounted ==
  /\ Removing /\ Passes /\ NextSlot \in InlineKids(tree, slot)
  /\ tree[NextSlot].suf = Rest(req.key, NextSlot)
  /\ tree' = [Drop(tree, {NextSlot}) EXCEPT ![slot].edges = @ \ {Edge}]
  /\ UNCHANGED count
  /\ ToShrink

\* sl_remove_branch_ on a leaf that lives in the setlist's own line.
RemInline ==
  /\ Removing /\ Passes /\ NextSlot \in InlineKids(tree, slot)
  /\ tree[NextSlot].suf = Rest(req.key, NextSlot)
  /\ tree' = [Drop(tree, {NextSlot}) EXCEPT ![slot].edges = @ \ {Edge}]
  /\ count' = count - 1
  /\ ToShrink

\* rm_unwind_, the part that unlinks the dead child of level j.
lp  == lvl[j % RmLvn]             \* path[j].slot
lnd == tree[lp]

UnlinkPn ==
  /\ pc = "unlink" /\ lnd.kind = "pn"
  /\ tree' = Drop(tree, {lp})
  /\ Freed(j)
  /\ UNCHANGED count

\* Slip: the edge to the freed child stays.
UnlinkEdgeNot ==
  /\ pc = "unlink" /\ lnd.kind # "pn"
  /\ pc' = "shrink"
  /\ UNCHANGED <<tree, count, req, ret, slot, pslot, gnode, lvl, n, j>>

UnlinkEdge ==
  /\ pc = "unlink" /\ lnd.kind # "pn"
  /\ LET e == Rest(lvl[(j + 1) % RmLvn], At(tree, lp))
     IN  tree' = [tree EXCEPT ![lp].edges = @ \ {e}]
  /\ pc' = "shrink"
  /\ UNCHANGED <<count, req, ret, slot, pslot, gnode, lvl, n, j>>

-----------------------------------------------------------------------------
(* rm_shrink_ on the router of level j.  None of it throws: a shrink that  *)
(* cannot allocate leaves the router as it is.                             *)

Shrinking == pc = "shrink"
Survives  == Finish(ret) /\ UNCHANGED count
Deg       == Cardinality(lnd.edges)

\* Slip: an emptied router stays.
ShrinkEmptyNot ==
  /\ Shrinking /\ Deg = 0 /\ lnd.term = NoVal
  /\ tree' = tree
  /\ Survives

ShrinkEmpty ==
  /\ Shrinking /\ Deg = 0 /\ lnd.term = NoVal
  /\ tree' = Drop(tree, {lp})
  /\ Freed(j)
  /\ UNCHANGED count

\* Slip: the router's own prefix is lost with it.
ShrinkToTermNoPrefix ==
  /\ Shrinking /\ Deg = 0 /\ lnd.term # NoVal
  /\ tree' = Upd(tree, lp, Leaf(<<>>, lnd.term))
  /\ Survives

\* Only a term is left: it replaces the router, below the router's prefix.
ShrinkToTerm ==
  /\ Shrinking /\ Deg = 0 /\ lnd.term # NoVal
  /\ LET value == Leaf(<<>>, lnd.term)
     IN  IF lnd.pfx = <<>>
         THEN tree' = Upd(tree, lp, value)
         ELSE \/ tree' = Over(tree, [q \in {lp, At(tree, lp)} |->
                                       IF q = lp THEN Pn(lnd.pfx) ELSE value])
              \/ tree' = tree
  /\ Survives

\* A lone child absorbs the router's prefix and edge (rm_collapse_): in its own
\* prefix if it is a setlist with room, else below a prefix node.
CollapseTree(t, p) ==
  LET e   == CHOOSE x \in t[p].edges : TRUE
      c   == At(t, p) \o e
      pfx == t[p].pfx \o e
  IN  IF c \in DOMAIN t /\ t[c].kind = "setlist" /\ Len(t[c].pfx) + Len(pfx) <= PrefixCap
      THEN Upd(Drop(t, {c}), p, [t[c] EXCEPT !.pfx = pfx \o @])
      ELSE MakePrefix(t, p, pfx)

CollapseAllocates(t, p) == CollapseTree(t, p)[p].kind = "pn"

ShrinkLone ==
  /\ Shrinking /\ Deg = 1 /\ lnd.term = NoVal
  /\ IF InlineKids(tree, lp) # {}
     THEN tree' = tree                         \* a lone inline leaf stays
     ELSE \/ tree' = CollapseTree(tree, lp)
          \/ CollapseAllocates(tree, lp) /\ tree' = tree
  /\ Survives

\* A sparse dense node goes back to a setlist, which is looked at again.
Dewidens ==
  /\ Deg <= ShrinkMax /\ lnd.kind \in {"full", "pfxd"} \cup CnodeKinds
  /\ lnd.kind = "pfxd" => Len(lnd.pfx) <= PrefixCap

Stands == Deg > 1 \/ (Deg = 1 /\ lnd.term # NoVal)

ShrinkDewiden ==
  /\ Shrinking /\ Stands /\ Dewidens
  /\ \/ /\ tree' = [tree EXCEPT ![lp].kind = "setlist"]
        /\ UNCHANGED <<count, pc, req, ret, slot, pslot, gnode, lvl, n, j>>
     \/ tree' = tree /\ Survives

ShrinkStands ==
  /\ Shrinking /\ Stands /\ ~Dewidens
  /\ tree' = tree
  /\ Survives

\* clear(): free_all_ destroys every value and frees every node.
Clear ==
  /\ pc = "clear"
  /\ tree' = [q \in {} |-> Pn(<<>>)]
  /\ count' = 0
  /\ Finish("true")

-----------------------------------------------------------------------------
Ops == {"insert", "emplace", "update", "remove", "find", "clear"}

Init ==
  /\ tree = [q \in {} |-> Pn(<<>>)]
  /\ count = 0
  /\ pc = "idle" /\ ret = "pending"
  /\ req \in [op : {"clear"}, key : Keys, val : Values]
  /\ slot = <<>> /\ pslot = NoSlot /\ gnode = <<>>
  /\ lvl = EmptyRing /\ n = 0 /\ j = 0

Put == \/ PutNull \/ PutSameLeaf \/ PutSplitLeaf \/ PutLazyFuse \/ PutSplitPrefix
       \/ PutTerm \/ PutDescend \/ PutExternalizeAll \/ PutAdd \/ PutAddStem
       \/ PutRestride \/ GrowLift \/ GrowWiden \/ GrowLink \/ FuseParent
Get == GetDescend \/ GetMiss \/ GetHit
Rem == \/ RemDescend \/ RemMiss \/ RemLeaf \/ RemTerm \/ RemInline
       \/ UnlinkPn \/ UnlinkEdge
       \/ ShrinkEmpty \/ ShrinkToTerm \/ ShrinkLone \/ ShrinkDewiden \/ ShrinkStands

Step == Put \/ Get \/ Rem \/ Clear

Next == Step \/ \E op \in Ops, k \in Keys, v \in Values : Call(op, k, v)

Spec == Init /\ [][Next]_vars

\* A call that has been made runs on, since the code has one thread and no
\* waits; and no loop may count on a failing allocation to end it.
FairSpec == Spec /\ WF_vars(Step /\ ret' # "throw")

-----------------------------------------------------------------------------
(* Properties.                                                             *)

PCs == {"idle", "put", "get", "rem", "clear", "grow", "fuse", "unlink", "shrink"}

\* Every variable has its type.
TypeOK ==
  /\ DOMAIN tree \subseteq Path
  /\ \A p \in DOMAIN tree : tree[p] \in Node
  /\ count \in Int
  /\ pc \in PCs
  /\ req \in [op : Ops, key : Keys, val : Values]
  /\ ret \in {"pending", "true", "false", "throw"} \cup Values
  /\ slot \in Path /\ pslot \in Path \cup {NoSlot} /\ gnode \in Path
  /\ lvl \in [0 .. RmLvn - 1 -> Path] /\ n \in Nat /\ j \in Nat

\* The slots that hold a key, and the key.
Terminals(t) == {p \in DOMAIN t : IsLeaf(t, p) \/ (IsRouter(t, p) /\ t[p].term # NoVal)}
KeyAt(t, p)  == IF IsLeaf(t, p) THEN p \o t[p].suf ELSE At(t, p)
ValAt(t, p)  == IF IsLeaf(t, p) THEN t[p].val ELSE t[p].term

\* The dictionary the tree stores.
Content(t) ==
  [k \in {KeyAt(t, p) : p \in Terminals(t)} |->
     ValAt(t, CHOOSE p \in Terminals(t) : KeyAt(t, p) = k)]

\* No two nodes hold the same key: a split, a fusion or a re-stride never
\* copies a value (a copy would be found first, or destroyed twice).
UniqueKeys ==
  \A p, q \in Terminals(tree) : KeyAt(tree, p) = KeyAt(tree, q) => p = q

\* size() counts the stored keys whenever no call is running, also after a
\* call that threw.
CountMatches == pc = "idle" => count = Cardinality(Terminals(tree))

\* Edges that lead to a null or freed handle.
DeadEdges(t) == UNION {{<<p, c>> : c \in Children(t, p) \ DOMAIN t} : p \in DOMAIN t}

\* No edge leads to a null or freed node: the iterators follow every edge
\* without a test (descend_min_: "every subtree holds a terminal").  While a
\* remove unwinds, the one dead edge is the one it unlinks next.
NoDeadEdge ==
  DeadEdges(tree) = IF pc = "unlink" THEN {<<lp, lvl[(j + 1) % RmLvn]>>} ELSE {}

\* No router without term and edges, the other half of "every subtree holds a
\* terminal", but for the one a remove is about to free.
NoEmptyRouter ==
  \A p \in DOMAIN tree :
    IsRouter(tree, p) => \/ tree[p].edges # {} \/ tree[p].term # NoVal
                         \/ pc = "shrink" /\ p = lp

\* Every node but the root is the child of exactly one other node, between any
\* two iterations of a split, fusion, collapse or re-stride: none is owned twice.
OnlyOneParent ==
  \A q \in DOMAIN tree : q # <<>> =>
    Cardinality({p \in DOMAIN tree : q \in Children(tree, p)}) = 1

\* A leaf marked inline sits under a setlist: anywhere else its handle, a tail
\* offset, would be dereferenced as an address.
InlineUnderSetlist ==
  \A q \in DOMAIN tree : IsLeaf(tree, q) /\ tree[q].inl =>
    \E p \in DOMAIN tree : q \in Children(tree, p) /\ tree[p].kind = "setlist"

\* Only the formats with a prefix field have a prefix, a prefix node and a pfxd
\* have one, and edges are as long as the format's stems.
Formed(x) ==
  /\ x.kind = "pn" => x.pfx # <<>>
  /\ x.kind \in RouterKinds =>
       /\ x.kind = "pfxd" => x.pfx # <<>>
       /\ x.kind \notin {"setlist", "pfxd"} => x.pfx = <<>>
       /\ \A e \in x.edges : Len(e) = IF x.kind = "u16" THEN 2 ELSE 1

\* ... and a router never holds more than its format does.
Roomy(x) ==
  CASE x.kind = "setlist" -> Cardinality(x.edges) <= SetlistCap /\ Len(x.pfx) <= PrefixCap
    [] x.kind = "u16"     -> Cardinality(x.edges) <= U16Cap
    [] x.kind = "pfxd"    -> Len(x.pfx) <= FullPfxCap
    [] x.kind \in CnodeKinds ->
         LET N == CnodeN(x.kind)
         IN  \A s \in 0 .. N - 1 :
               Cardinality({e \in x.edges : SegOf(N, e[1]) = s}) <= CnodeCap[N]
    [] OTHER              -> TRUE

\* Every node is within its format: nothing is written past a line, and no
\* split, fusion or widening leaves a prefix or a stem where there is no field.
WithinFormat == \A p \in DOMAIN tree : Formed(tree[p]) /\ Roomy(tree[p])

\* What a running call holds on to is still there.  insert_: the key goes
\* through slot; the parent it fuses, and the router and the prefix node it
\* grows, exist.
PutLive ==
  /\ pc \in {"put", "get", "rem", "grow"} => StartsWith(req.key, slot)
  /\ pslot # NoSlot =>
       /\ pc \in {"put", "grow", "fuse"}
       /\ pc \in {"put", "fuse"} => pslot \in DOMAIN tree /\ Len(pslot) < Len(slot)
  /\ pc = "fuse" => pslot # NoSlot
  /\ pc = "grow" =>
       /\ gnode \in DOMAIN tree /\ tree[gnode].kind \in RouterKinds \ {"u16"}
       /\ StartsWith(req.key, At(tree, gnode)) /\ req.key # At(tree, gnode)
       /\ gnode # slot => slot \in DOMAIN tree /\ IsPn(tree, slot)

\* remove: the levels that the unwind may come back to, those of the ring that
\* it has not freed yet, are different routers and prefix nodes of one path.
Window    == {i \in 0 .. n - 1 : n - i <= RmLvn}
PathAt(i) == lvl[i % RmLvn]
PathLive ==
  /\ pc = "idle" => lvl = EmptyRing
  /\ pc \in {"put", "get", "rem", "grow", "fuse", "clear"} => n >= 1
  /\ pc \in {"rem", "unlink", "shrink"} =>
       /\ \A a, b \in Window : a < b => Len(PathAt(a)) < Len(PathAt(b))
       /\ \A i \in Window : i <= (IF pc = "rem" THEN n - 2 ELSE j) =>
             PathAt(i) \in DOMAIN tree /\ ~IsLeaf(tree, PathAt(i))
  /\ pc = "rem" => PathAt(n - 1) = slot
  /\ pc \in {"unlink", "shrink"} => j \in Window
  /\ pc = "unlink" => j + 1 \in Window
  /\ pc = "shrink" => IsRouter(tree, lp)

\* No loop follows a slot to a node that was freed, moved or replaced by one
\* of another kind, whatever was split, fused, widened or freed since the slot
\* was noted.
PointersLive == PutLive /\ PathLive

\* The tree implements the dictionary of MapSpec.
phase == CASE pc = "idle"                       -> "idle"
           [] pc \in {"fuse", "unlink", "shrink"} -> "applied"
           [] OTHER                             -> "called"
Abs == INSTANCE MapSpec WITH dict <- Content(tree)

\* Every step of a call is a step of the dictionary or no step: the call takes
\* effect once, answers what the dictionary answers, and a call that throws
\* leaves the stored keys and values alone.
ImplementsMap == Abs!AbsSpec

\* Every call returns: no sequence of re-strides, fusions, widenings and
\* descents goes on forever.
EveryCallReturns == (pc # "idle") ~> (pc = "idle")

\* insert on a key that is present assigns in place: no node appears, goes,
\* changes its format or moves (README: "update (and assignment to a present
\* key) never restructures, so iterators stay valid").
AssignNeverRestructures ==
  [][pc = "put" /\ req.key \in DOMAIN Content(tree) =>
       /\ DOMAIN tree' = DOMAIN tree
       /\ \A p \in DOMAIN tree :
            /\ tree'[p].kind = tree[p].kind
            /\ IsLeaf(tree, p) => tree'[p].inl = tree[p].inl]_vars
=============================================================================
