------------------------------- MODULE ArtHeap -------------------------------
(***************************************************************************)
(* ArtTree with its memory: how many blocks the map has taken from its     *)
(* allocator and not given back.  An iteration of insert_ may allocate     *)
(* several times; here it throws at any of them, and what it has built by  *)
(* then is given back by a guard, or it is not.                            *)
(*                                                                         *)
(* heap is kept by what the code allocates and frees, step by step, and    *)
(* never computed from the tree.  A node is one block; so is a value with  *)
(* a suffix, or of a type that does not fit a handle, unless it lies in    *)
(* its parent's line.                                                      *)
(***************************************************************************)
EXTENDS ArtTree

LOCAL INSTANCE FiniteSetsExt

VARIABLE heap

heapVars == <<tree, count, pc, req, ret, slot, pslot, gnode, lvl, n, j, heap>>

-----------------------------------------------------------------------------
(* What a step allocates and frees.                                        *)

\* The block of a value with suffix suf, and of a prefix node for pfx.
ValueBlocks(suf)    == IF Allocates(suf) THEN 1 ELSE 0
TermBlocks(tm)      == IF tm = NoVal THEN 0 ELSE ValueBlocks(<<>>)
PrefixBlocks(pfx)   == IF Len(pfx) <= PrefixCap THEN 0 ELSE 1

\* Leaves that moved out of a line into blocks of their own, or (negative) in.
Inlined(t) == Cardinality({p \in DOMAIN t : IsLeaf(t, p) /\ t[p].inl})
MovedOut   == Inlined(tree) - Inlined(tree')

Throws == ret' = "throw"

\* What an iteration builds is a sequence, one element for each allocation in the
\* order they are made: whether a guard reaches the block from then on.
Guarded(blocks)   == [i \in 1 .. blocks |-> TRUE]
Unguarded(blocks) == [i \in 1 .. blocks |-> FALSE]

\* The iteration ends with everything built and freed blocks given back, or the
\* allocation after the first i throws and the guards give back what they reach.
Builds(built, freed) ==
  IF Throws
  THEN \E i \in 0 .. Len(built) - 1 : heap' = heap + Cardinality({k \in 1 .. i : ~built[k]})
  ELSE heap' = heap + Len(built) - freed + MovedOut

Frees(blocks) == heap' = heap - blocks

-----------------------------------------------------------------------------
(* insert_.                                                                *)

\* split_leaf: router, new value, shared prefix and old value, then the old leaf
\* goes.  The arm for an inline value has no guard.
SplitLeafBuilds ==
  LET c   == Lcp(nd.suf, R)
      new == Back(R, c + 1)
      old == Back(nd.suf, c + 1)
  IN  IF IsValuePtr(nd)
      THEN Guarded(1 + ValueBlocks(new) + PrefixBlocks(Front(R, c)) + ValueBlocks(old))
      ELSE Unguarded(1 + ValueBlocks(new))

\* Slip: split_prefix and its siblings without a guard.
SplitPrefixBuildsBare ==
  LET c == Lcp(nd.pfx, R)
  IN  Unguarded(1 + ValueBlocks(Back(R, c + 1)) + PrefixBlocks(Front(nd.pfx, c)))

\* split_prefix and its siblings: router, new value and shared prefix, then, of a
\* prefix node, a new one for what is left of it.
SplitPrefixBuilds ==
  LET c    == Lcp(nd.pfx, R)
      rest == Back(nd.pfx, c + 1)
      cont == IF nd.kind = "pn" /\ rest # <<>> /\ ~FusesInto(tree, here, rest) THEN 1 ELSE 0
  IN  Guarded(1 + ValueBlocks(Back(R, c + 1)) + PrefixBlocks(Front(nd.pfx, c)) + cont)

\* The router and one child router for each first byte of a stem.
RestrideBuilds == Guarded(1 + Cardinality({Front(e, 1) : e \in nd.edges}))

\* The block of the value that grow_router_'s caller has built and not linked.
InHand == IF pc = "grow" THEN ValueBlocks(Rest(req.key, At(tree, gnode) \o GEdge)) ELSE 0

\* One allocation of grow_router_; a throw frees the value in hand.
Grows(freed) == heap' = IF Throws THEN heap - InHand ELSE heap + 1 - freed

HeapPut ==
  \/ PutNull           /\ Builds(Guarded(ValueBlocks(R)), 0)
  \/ PutSameLeaf       /\ UNCHANGED heap
  \/ PutSplitLeaf      /\ Builds(SplitLeafBuilds, ValueBlocks(nd.suf))
  \/ PutLazyFuse       /\ Frees(1)
  \/ PutSplitPrefix    /\ Builds(SplitPrefixBuilds, IF nd.kind = "pn" THEN 1 ELSE 0)
  \/ PutTerm           /\ Builds(IF nd.term = NoVal THEN Guarded(ValueBlocks(<<>>)) ELSE <<>>, 0)
  \/ PutDescend        /\ heap' = heap + MovedOut
  \/ PutExternalizeAll /\ heap' = heap + MovedOut
  \/ PutAdd            /\ Builds(Guarded(ValueBlocks(Rest(req.key, here \o Edge))), 0)
  \/ PutAddStem        /\ Builds(Guarded(ValueBlocks(Rest(req.key, here \o Edge))), 0)
  \/ PutRestride       /\ Builds(RestrideBuilds, 1)
  \/ GrowLift          /\ Grows(0)
  \/ GrowWiden         /\ Grows(1)
  \/ GrowLink          /\ Frees(IF gnode # slot /\ tree'[slot].kind = "pfxd" THEN 1 ELSE 0)
  \/ FuseParent        /\ heap' = IF tree' = tree THEN heap
                                  ELSE heap + 1 - (1 + Cardinality(tree[pslot].edges))

-----------------------------------------------------------------------------
(* remove_bytes_, rm_unwind_, rm_shrink_ and clear.                        *)

\* A shrink that could not allocate leaves the router; else the router goes, and
\* a prefix node may come in its place.
Shrinks == heap' = IF tree' = tree \/ tree'[lp].kind = "pn" THEN heap ELSE heap - 1

\* free_all_: the blocks given back from slot p down.
RECURSIVE FreeAll(_, _)
FreeAll(t, p) ==
  IF p \notin DOMAIN t THEN 0
  ELSE IF IsLeaf(t, p) THEN IF t[p].inl THEN 0 ELSE ValueBlocks(t[p].suf)
  ELSE 1 + (IF IsRouter(t, p) THEN TermBlocks(t[p].term) ELSE 0)
         + FoldSet(LAMBDA c, sum : sum + FreeAll(t, c), 0, Children(t, p))

HeapRem ==
  \/ (RemDescend \/ RemMiss \/ RemInline) /\ UNCHANGED heap
  \/ RemLeaf       /\ Frees(ValueBlocks(nd.suf))
  \/ RemTerm       /\ Frees(ValueBlocks(<<>>))
  \/ UnlinkPn      /\ Frees(1)
  \/ UnlinkEdge    /\ UNCHANGED heap
  \/ ShrinkEmpty   /\ Frees(1)
  \/ ShrinkToTerm  /\ Shrinks
  \/ ShrinkLone    /\ Shrinks
  \/ ShrinkDewiden /\ UNCHANGED heap
  \/ ShrinkStands  /\ UNCHANGED heap

HeapStep == \/ HeapPut
            \/ Get /\ UNCHANGED heap
            \/ HeapRem
            \/ Clear /\ Frees(FreeAll(tree, <<>>))

HeapInit == Init /\ heap = 0

HeapNext == \/ HeapStep
            \/ \E op \in Ops, k \in Keys, v \in Values : Call(op, k, v) /\ UNCHANGED heap

HeapSpec == HeapInit /\ [][HeapNext]_heapVars

\* The fairness of ArtTree!FairSpec.
FairHeapSpec == HeapSpec /\ WF_heapVars(HeapStep /\ ret' # "throw")

-----------------------------------------------------------------------------
(* Properties.                                                             *)

\* No block is lost and none is given back twice: at every step of every call,
\* what was allocated is what free_all_ would give back from the root and the
\* value in hand, whichever allocation of a split, a fusion, a re-stride or a
\* widening throws (README: "zero leaks").  This is for values that do not fit a
\* handle; README.md says what the arm for an inline value does.
NoBlockLost == heap = FreeAll(tree, <<>>) + InHand
=============================================================================
