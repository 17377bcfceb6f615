------------------------------ MODULE OneRouter ------------------------------
(***************************************************************************)
(* The life of one router that holds a term, so that it stays while it has *)
(* a branch.  It is made by a split (with at most two edges, leaves pulled *)
(* into the line) or by a fusion (a u16), grows an edge at a time along    *)
(* the widen ladder, has children change between leaf and node, loses      *)
(* edges, and is rebuilt as a setlist once it is sparse.  Any allocation   *)
(* may throw, and what was done before the throw stays.                    *)
(***************************************************************************)
EXTENDS RouterFormats

CONSTANTS
  Used,        \* the bytes that get an edge
  Ladders,     \* modes: "flat", "c4" or "c8"
  FuseThresh,  \* FUSE_THRESH
  ShrinkMax    \* SHRINK_MAX

ASSUME RouterAssumption ==
  /\ Used \subseteq Byte /\ Ladders \subseteq {"flat", "c4", "c8"}
  /\ SetCap >= 2   \* a split's two edges fit
  /\ {FuseThresh, ShrinkMax} \subseteq Nat
  /\ FuseThresh <= U16Cap /\ ShrinkMax <= SetCap

VARIABLES
  router,   \* the router, or Gone
  ladder,   \* the mode
  edges     \* what the edges added and removed so far amount to: byte -> leaf or node

vars == <<router, ladder, edges>>

Gone == [kind |-> "gone"]
Live == router.kind # "gone"

Handle(kind, b) == IF kind = "leaf" THEN LeafAt(b) ELSE NodeAt(b)
\* What finding byte b should return.
EdgeAt(b) == IF b \in DOMAIN edges THEN Handle(edges[b], b) ELSE NoEdge

With(b, kind) == [x \in DOMAIN edges \cup {b} |-> IF x = b THEN kind ELSE edges[x]]
Without(b)    == [x \in DOMAIN edges \ {b} |-> edges[x]]

\* A fresh router with the edges of e, set one after the other.
Built(fresh, e) ==
  LET bs == Ascending(DOMAIN e)
  IN  SetAll(fresh, [i \in 1 .. Len(bs) |-> <<bs[i], Handle(e[bs[i]], bs[i])>>])

-----------------------------------------------------------------------------
Init ==
  /\ router = Gone
  /\ ladder \in Ladders
  /\ edges = <<>>

\* split_leaf, split_prefix, split_setlist_prefix, split_pfxd_prefix.
Split ==
  /\ ~Live
  /\ \E a, b \in Used : \E e \in [{a, b} -> {"leaf", "node"}] :
       /\ edges' = e
       /\ router' = Compact(Built(Stems("set"), e))
  /\ UNCHANGED ladder

\* try_fuse_parent's wide node: it sets its stems in ascending order.
Fuse ==
  /\ ~Live
  /\ \E a, b \in Used : \E e \in [{a, b} -> {"leaf", "node"}] :
       /\ Cardinality({a, b}) <= FuseThresh
       /\ edges' = e
       /\ router' = Built(Stems("u16"), e)
  /\ UNCHANGED ladder

\* insert_ on a byte router: the setlist's leaves move out, the new leaf is made,
\* and grow_router_ widens until the edge fits.
Rung(b) ==
  LET rung[i \in 0 .. 4] == IF i = 0 THEN (IF HasStems(router) THEN ExternalizeAll(router) ELSE router)
                            ELSE Wider(rung[i - 1], ladder)
      k == CHOOSE i \in 0 .. 4 : TrySet(rung[i], b, LeafAt(b)).ok
                                 /\ \A x \in 0 .. i - 1 : ~TrySet(rung[x], b, LeafAt(b)).ok
  IN  [i \in 0 .. k |-> rung[i]]

Grow(b, kind) ==
  /\ Live /\ router.kind # "u16" /\ RouterFind(router, b) = NoEdge
  /\ LET rung == Rung(b)
         k    == Cardinality(DOMAIN rung) - 1
     IN  router' = TrySet(rung[k], b, Handle(kind, b)).router
  /\ edges' = With(b, kind)
  /\ UNCHANGED ladder

\* The same, with an allocation that throws: between two leaves that move out,
\* making the new leaf, or at a rung of the ladder.
GrowThrows(b) ==
  /\ Live /\ router.kind # "u16" /\ RouterFind(router, b) = NoEdge
  /\ \/ /\ router.kind = "set"
        /\ \E m \in 0 .. Cardinality(router.inl) : router' = ExternalizeSome(router, m)
     \/ LET rung == Rung(b)
        IN  \E i \in 0 .. Cardinality(DOMAIN rung) - 2 : router' = rung[i]
  /\ UNCHANGED <<ladder, edges>>

\* insert_ on a u16 with room; it is re-strided away when it is full or when the
\* key has a single byte left.
GrowWide(b, kind) ==
  /\ router.kind = "u16" /\ RouterFind(router, b) = NoEdge
  /\ Count(router) < U16Cap
  /\ router' = TrySet(router, b, Handle(kind, b)).router
  /\ edges' = With(b, kind)
  /\ UNCHANGED ladder

Restride ==
  /\ router.kind = "u16"
  /\ router' = Gone /\ edges' = <<>>
  /\ UNCHANGED ladder

\* A call goes down the edge of byte b and leaves another kind of child there (a
\* split, a collapse), or throws before it did; a leaf in the line moves out first.
Descend(b, kind) ==
  /\ Live /\ RouterFind(router, b) # NoEdge
  /\ LET r == IF HasStems(router) THEN Externalize(router, IndexOf(router, b)) ELSE router
     IN  router' = TrySet(r, b, Handle(kind, b)).router
  /\ edges' = With(b, kind)
  /\ UNCHANGED ladder

\* rm_shrink_ on a router with a term.
Shrunk(r) ==
  IF NBranch(r) = 0 THEN Gone
  ELSE IF NBranch(r) <= ShrinkMax /\ ~HasStems(r) THEN Rebuilt(r, Stems("set"))
  ELSE r

\* remove of what is below byte b; the allocation of the smaller router may throw.
RemoveBelow(b) ==
  /\ Live /\ RouterFind(router, b) # NoEdge
  /\ LET r == RouterRemove(router, b)
     IN  \/ router' = Shrunk(r)
         \/ router' = r /\ NBranch(r) > 0 /\ Shrunk(r) # r
  /\ edges' = Without(b)
  /\ UNCHANGED ladder

Next ==
  \/ Split
  \/ Fuse
  \/ Restride
  \/ \E b \in Used :
       \/ GrowThrows(b)
       \/ RemoveBelow(b)
       \/ \E kind \in {"leaf", "node"} : Grow(b, kind) \/ GrowWide(b, kind) \/ Descend(b, kind)

Spec == Init /\ [][Next]_vars

-----------------------------------------------------------------------------
(* Properties.                                                             *)

\* Whatever layout the router went through, a find of any byte (the pad of the
\* stems among them) returns the child put there last, a leaf in the line read
\* through its tail offset like any other, and the branch count is right.
FindsEdges ==
  Live => /\ \A b \in Byte : RouterFind(router, b) = EdgeAt(b)
          /\ NBranch(router) = Cardinality(DOMAIN edges)

\* From every byte, the next (previous) edge is the nearest one at or above (at or
\* below) it, and a walk visits the edges in ascending order, each once.
StepsInOrder ==
  Live =>
    /\ router.kind # "u16" =>
         \A from \in Byte :
           LET up   == {x \in DOMAIN edges : x >= from}
               down == {x \in DOMAIN edges : x <= from}
           IN  /\ RouterNext(router, from) =
                    IF up = {} THEN NoStep
                    ELSE LET x == CHOOSE x \in up : \A y \in up : x <= y IN <<x, EdgeAt(x)>>
               /\ RouterPrev(router, from) =
                    IF down = {} THEN NoStep
                    ELSE LET x == CHOOSE x \in down : \A y \in down : x >= y IN <<x, EdgeAt(x)>>
    /\ ForEach(router) = LET bs == Ascending(DOMAIN edges)
                         IN  [i \in 1 .. Len(bs) |-> <<bs[i], EdgeAt(bs[i])>>]

\* The leaves in a setlist's line lie above its branch array and within the line,
\* aligned and apart from each other, and the branches flagged as inline are those
\* whose handle is a tail offset: no other handle may be taken for an address.
LineSound ==
  Live /\ HasStems(router) =>
    LET at(i)  == Line - router.branch[i + 1].v
        end(i) == at(i) + LeafSize[Child(router, i).v]
    IN  /\ router.inl = {i \in 0 .. Count(router) - 1 : router.branch[i + 1].t = "inline"}
        /\ \A i \in router.inl :
             /\ i < InlineMax
             /\ at(i) >= BranchEnd(Count(router)) /\ at(i) % ValAlign = 0
             /\ InlineLeaf(router, i) # NoEdge /\ end(i) <= Line
             /\ \A x \in router.inl : x < i => end(i) <= at(x)
=============================================================================
