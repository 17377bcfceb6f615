------------------------------- MODULE Buckets -------------------------------
(***************************************************************************)
(* The bucket engine: a radix tree whose sparse tails are pages of entries.*)
(* In mode::buckets every terminal is a page (a leaf only for a suffix no  *)
(* page can hold) and an overflowing page is split into routers with pages *)
(* below.  In mode::adaptive the tree starts with leaves and a collision   *)
(* below two routers of low fanout collapses into a page.                  *)
(*                                                                         *)
(* A call is one step.  It may end by an allocation that throws; then the  *)
(* tree is what the slots of the C++ tree refer to, which is not what the  *)
(* call was building.  bkt_put recurses and stores a child's new handle    *)
(* only when the recursion returns; insert_ (adaptive) stores it at once.  *)
(*                                                                         *)
(* Nodes are values; a slot is a place in the tree.  The tree is flat (no  *)
(* dense tiers) and its values do not fit a handle.  Whether a leaf lies   *)
(* in its parent's line is left open: ArtTree and RouterFormats tell.     *)
(***************************************************************************)
EXTENDS BucketPage

CONSTANTS
  Keys, Values, NoVal,
  Hollow,        \* a moved-from value
  SetlistCap,    \* setlist::CAP
  PrefixCap,     \* setlist::PREFIX_CAP
  FullPfxCap,    \* node_full::PFX_CAP
  ShrinkMax,     \* SHRINK_MAX
  Setups,        \* the maps looked at: [mode, pod, load], load the pairs (key, value) used
  Faulty,        \* the modes in which an allocation of an insertion may throw
  FusionFaults   \* also one that bkt_put makes below a node it has just fused

ASSUME BucketsAssumption ==
  /\ PrefixCap <= FullPfxCap /\ ShrinkMax <= SetlistCap /\ SetlistCap >= 2
  /\ Setups \subseteq [mode : {"buckets", "adaptive"}, pod : BOOLEAN,
                       load : SUBSET (Keys \X Values)]
  /\ Faulty \subseteq {"buckets", "adaptive"} /\ FusionFaults \in BOOLEAN

LOCAL Seqs == INSTANCE SequencesExt
LOCAL Ord  == INSTANCE OrderedKeys

VARIABLES
  root,    \* the node root_ refers to
  blocks,  \* how many blocks are allocated
  mode,    \* the map's mode
  pod,     \* T is trivially copyable
  load,    \* the pairs (key, value) used
  asked,   \* what the last call was asked for: [op, key, val]
  ret,     \* how it ended
  seen     \* the dictionary the map's readers see

vars == <<root, blocks, mode, pod, load, asked, ret, seen>>

Null       == [kind |-> "null"]
Freed      == [kind |-> "freed"]     \* a handle whose block was freed
Leaf(s, v) == [kind |-> "leaf", suf |-> s, val |-> v]
Bucket(p)  == [kind |-> "bucket", page |-> p]
Pn(f, nd)  == [kind |-> "pn", pfx |-> f, next |-> nd]
Setlist(f, t, kids) == [kind |-> "set", pfx |-> f, term |-> t, kids |-> kids]
NoKids     == [b \in {} |-> Null]

IsRouter(nd) == nd.kind \in {"set", "full"}
Degree(nd)   == Cardinality(DOMAIN nd.kids)
WithKid(nd, b, kid) == [nd EXCEPT !.kids = (b :> kid) @@ @]
NoKid(nd, b) == [nd EXCEPT !.kids = [x \in DOMAIN @ \ {b} |-> @[x]]]

After(s, c)  == SubSeq(s, c + 1, Len(s))
Upto(s, c)   == SubSeq(s, 1, c)
Lcp(a, b)    == CHOOSE c \in 0 .. Len(a) :
                  /\ c = Len(a) \/ c = Len(b) \/ (c < Len(b) /\ a[c + 1] # b[c + 1])
                  /\ \A i \in 1 .. c : a[i] = b[i]

\* The blocks of a subtree; a term is a leaf of its own.
RECURSIVE Blocks(_)
Blocks(nd) ==
  CASE nd.kind \in {"null", "freed"}  -> 0
    [] nd.kind \in {"leaf", "bucket"} -> 1
    [] nd.kind = "pn"                 -> 1 + Blocks(nd.next)
    [] IsRouter(nd) ->
         1 + (IF nd.term = NoVal THEN 0 ELSE 1)
           + Seqs!FoldFunction(LAMBDA kid, sum : sum + Blocks(kid), 0, nd.kids)

-----------------------------------------------------------------------------
(* How a call ends: out is "inserted", "assigned", "kept", "removed",      *)
(* "absent" or "throw"; node is what the slot refers to afterwards; d is   *)
(* the change in allocated blocks; took, whether a call that threw had     *)
(* moved the new value.                                                    *)

End(out, nd, d)     == [out |-> out, node |-> nd, d |-> d, took |-> TRUE]
Thrown(nd, d, took) == [out |-> "throw", node |-> nd, d |-> d, took |-> took]
Fails(nd)           == IF mode \in Faulty THEN {Thrown(nd, 0, took) : took \in BOOLEAN} ELSE {}
Adaptive            == mode = "adaptive"

\* The same ending, seen by a caller whose own slot holds Wrap(node).
Within(ends, Wrap(_), d) == {[o EXCEPT !.node = Wrap(@), !.d = @ + d] : o \in ends}

\* Slip: the new node is stored when the call returns.
ThenOnReturn(ends, d, bkt) ==
  {[o EXCEPT !.node = IF o.out = "throw" THEN Freed ELSE @, !.d = @ + d] : o \in ends}

\* What follows, in the same call, the replacement of the slot's node by one
\* that the slot is given at once (insert_) or when the call returns (bkt_put).
Then(ends, d, bkt) ==
  {[o EXCEPT !.node = IF o.out = "throw" /\ bkt THEN Freed ELSE @, !.d = @ + d] : o \in ends}

\* What bkt_put does below a node that it has just fused.
AfterFusion(ends, bkt) == IF bkt /\ ~FusionFaults THEN {o \in ends : o.out # "throw"} ELSE ends

\* apply_prefix and make_prefix: the node with bytes f before it.
PrefixCost(f) == IF Len(f) > PrefixCap THEN 1 ELSE 0
ApplyPrefix(f, nd) == IF Len(f) <= PrefixCap THEN [nd EXCEPT !.pfx = f] ELSE Pn(f, nd)

Fuses(f, nd)      == nd.kind = "full" /\ Len(f) + Len(nd.pfx) <= FullPfxCap
MakePrefix(f, nd) == CASE f = <<>>                    -> nd
                       [] f # <<>> /\ Fuses(f, nd)    -> [nd EXCEPT !.pfx = f \o @]
                       [] f # <<>> /\ ~Fuses(f, nd)   -> Pn(f, nd)
MakeCost(f, nd)   == IF f = <<>> \/ Fuses(f, nd) THEN 0 ELSE 1

-----------------------------------------------------------------------------
(* Inserting.                                                              *)

\* A new terminal: a leaf (make_value_at) or a page (make_bucket_branch).
Branch(s, v, bkt) ==
  IF bkt /\ BktFits(Len(s)) THEN Bucket(InsertEntry(NewPage, s, v, TRUE).page) ELSE Leaf(s, v)

PutNull(s, v, bkt) == {End("inserted", Branch(s, v, bkt), 1)} \cup Fails(Null)

\* set_or_update_term.
PutTerm(nd, v, assign) ==
  CASE nd.term # NoVal /\ assign  -> {End("assigned", [nd EXCEPT !.term = v], 0)}
    [] nd.term # NoVal /\ ~assign -> {End("kept", nd, 0)}
    [] nd.term = NoVal            -> {End("inserted", [nd EXCEPT !.term = v], 1)} \cup Fails(nd)

\* The new router of split_leaf, split_prefix and their siblings: the key bytes
\* s part from the old node after c bytes; byte b leads on to old.
Forked(s, c, v, bkt, b, old) ==
  LET r == Setlist(<<>>, IF c = Len(s) THEN v ELSE NoVal,
                   (b :> old) @@ (IF c = Len(s) THEN NoKids
                                  ELSE (s[c + 1] :> Branch(After(s, c + 1), v, bkt))))
  IN  ApplyPrefix(Upto(s, c), r)
ForkCost(s, c) == 2 + PrefixCost(Upto(s, c))

\* split_leaf.  The old value moves to a leaf of its own or to the term.
PutLeaf(nd, s, v, assign) ==
  LET c == Lcp(nd.suf, s)
      r == Setlist(<<>>, nd.val, (s[c + 1] :> Leaf(After(s, c + 1), v)) @@ NoKids)
  IN  CASE nd.suf = s /\ assign  -> {End("assigned", Leaf(s, v), 0)}
        [] nd.suf = s /\ ~assign -> {End("kept", nd, 0)}
        [] nd.suf # s /\ c < Len(nd.suf) ->
             {End("inserted", Forked(s, c, v, FALSE, nd.suf[c + 1], Leaf(After(nd.suf, c + 1), nd.val)),
                  ForkCost(s, c))} \cup Fails(nd)
        [] nd.suf # s /\ c = Len(nd.suf) ->
             {End("inserted", ApplyPrefix(Upto(s, c), r), ForkCost(s, c))} \cup Fails(nd)

\* collapse_to_bucket: the old entry and the new one in one page.
Collapses(nd, s, low) == Adaptive /\ low >= 2 /\ BktFits2(Len(nd.suf), Len(s))
Collapse(nd, s, v, assign) ==
  LET old == InsertEntry(NewPage, nd.suf, nd.val, TRUE)
      new == InsertEntry(old.page, s, v, assign)
  IN  {End(new.how, Bucket(new.page), 0)} \cup Fails(nd)

\* Values of the first i entries were moved away.
HollowUpto(p, i) ==
  [p EXCEPT !.tail = {IF \E j \in 0 .. i - 1 : SlotAt(p, j) = e.off THEN [e EXCEPT !.val = Hollow]
                      ELSE e : e \in @}]

\* split_prefix and its siblings: s parts from the prefix of nd after c bytes.
PutInPrefix(nd, s, c, v, bkt) ==
  LET b    == nd.pfx[c + 1]
      f    == After(nd.pfx, c + 1)
      cont == IF nd.kind = "pn" THEN MakePrefix(f, nd.next) ELSE [nd EXCEPT !.pfx = f]
      cost == IF nd.kind = "pn" THEN MakeCost(f, nd.next) - 1 ELSE 0
  IN  {End("inserted", Forked(s, c, v, bkt, b, cont), ForkCost(s, c) + cost)} \cup Fails(nd)

\* Slip: the prefix stays behind.
WidenedBare(nd) == [nd EXCEPT !.kind = "full", !.pfx = <<>>]

Widened(nd) == [nd EXCEPT !.kind = "full"]

\* A widen that throws.  bkt_put has cut the prefix off the setlist by then;
\* grow_router_ has lifted it into a prefix node of its own.
WidenFails(nd, bkt) ==
  LET bare == [nd EXCEPT !.pfx = <<>>]
  IN  IF bkt \/ nd.pfx = <<>> THEN Fails(bare)
      ELSE {[o EXCEPT !.d = 1] : o \in Fails(Pn(nd.pfx, bare))}

\* Add an edge; a full setlist is widened to a node_full, its prefix with it.
PutEdge(nd, b, s, v, bkt) ==
  LET kid == Branch(s, v, bkt)
  IN  Fails(nd) \cup
      IF nd.kind = "full" \/ Degree(nd) < SetlistCap
      THEN {End("inserted", WithKid(nd, b, kid), 1)}
      ELSE {End("inserted", WithKid(Widened(nd), b, kid), 1)} \cup WidenFails(nd, bkt)

\* Slip: the router goes, what hangs below it stays.
GivenBackRouter(built) == 1

\* free_all_: the blocks of a tree given back.
GivenBack(built) == Blocks(built)

\* A handle to a freed block somewhere in the tree.
RECURSIVE Broken(_)
Broken(nd) ==
  CASE nd.kind = "freed" -> TRUE
    [] nd.kind = "pn"    -> Broken(nd.next)
    [] nd.kind \in {"set", "full"} -> \E b \in DOMAIN nd.kids : Broken(nd.kids[b])
    [] nd.kind \in {"null", "leaf", "bucket"} -> FALSE

\* The guard of a rebuild gives back what its handle, which is the one from
\* before the call that threw, leads to, and the page stays.  If that is a block
\* which the call has freed, it is freed again, and the tree is lost.
Unwound(o, page, d) ==
  IF Broken(o.node) THEN Thrown(Freed, d + o.d, FALSE)
                    ELSE Thrown(page, d + o.d - GivenBack(o.node), FALSE)

RECURSIVE Put(_, _, _, _, _, _), SplitFrom(_, _, _, _)

\* bkt_split moves the entries of a page, one by one, below a router that has
\* their common prefix.  A throw gives back what was built; the page stays, its
\* first values moved-from.
SplitFrom(p, i, top, d) ==
  IF i = p.n THEN {End("split", top, d - 1)}
  ELSE LET e == EntryAt(p, i)
       IN  UNION {IF o.out = "throw"
                  THEN {Unwound(o, Bucket(HollowUpto(p, IF o.took THEN i + 1 ELSE i)), d)}
                  ELSE SplitFrom(p, i + 1, o.node, d + o.d)
                  : o \in Put(top, e.suf, e.val, TRUE, TRUE, 0)}

SplitPrefix(p) == LET first == EntryAt(p, 0).suf
                      last  == EntryAt(p, p.n - 1).suf
                  IN  Upto(first, Lcp(first, last))

Split(p) ==
  LET f == SplitPrefix(p)
  IN  SplitFrom(p, 0, ApplyPrefix(f, Setlist(<<>>, NoVal, NoKids)), 1 + PrefixCost(f))
        \cup Fails(Bucket(p))

\* Insert key bytes s below the node nd: bkt_put when bkt, the loop of insert_
\* otherwise; low counts the routers of low fanout above.
Put(nd, s, v, assign, bkt, low) ==
  LET low2 == IF IsRouter(nd) /\ Degree(nd) < 3 THEN low + 1 ELSE 0
      c    == IF nd.kind = "pn" \/ IsRouter(nd) THEN Lcp(nd.pfx, s) ELSE 0
      r    == After(s, c)
  IN
  CASE nd.kind = "null" -> PutNull(s, v, bkt)
    [] nd.kind = "bucket" ->
         LET e == InsertEntry(nd.page, s, v, assign)
         IN  IF e.how # "full" THEN {End(e.how, Bucket(e.page), 0)}
             ELSE UNION {IF o.out = "throw" THEN {o}
                         ELSE Then(Put(o.node, s, v, assign, bkt, low), o.d, bkt)
                         : o \in Split(nd.page)}
    [] nd.kind = "leaf" ->
         IF ~bkt /\ Collapses(nd, s, low) THEN Collapse(nd, s, v, assign)
         ELSE PutLeaf(nd, s, v, assign)
    [] nd.kind = "pn" /\ Fuses(nd.pfx, nd.next) ->
         Then(AfterFusion(Put(MakePrefix(nd.pfx, nd.next), s, v, assign, bkt, low), bkt), -1, bkt)
    [] nd.kind = "pn" /\ ~Fuses(nd.pfx, nd.next) /\ c = Len(nd.pfx) ->
         Within(Put(nd.next, r, v, assign, bkt, low), LAMBDA x : Pn(nd.pfx, x), 0)
    [] nd.kind = "pn" /\ ~Fuses(nd.pfx, nd.next) /\ c < Len(nd.pfx) -> PutInPrefix(nd, s, c, v, bkt)
    [] IsRouter(nd) /\ c < Len(nd.pfx) -> PutInPrefix(nd, s, c, v, bkt)
    [] IsRouter(nd) /\ c = Len(nd.pfx) /\ r = <<>> -> PutTerm(nd, v, assign)
    [] IsRouter(nd) /\ c = Len(nd.pfx) /\ r # <<>> /\ r[1] \in DOMAIN nd.kids ->
         (IF nd.kind = "set" /\ nd.kids[r[1]].kind = "leaf" THEN Fails(nd) ELSE {})
           \cup Within(Put(nd.kids[r[1]], After(r, 1), v, assign, bkt, low2),
                       LAMBDA x : WithKid(nd, r[1], x), 0)
    [] IsRouter(nd) /\ c = Len(nd.pfx) /\ r # <<>> /\ r[1] \notin DOMAIN nd.kids ->
         PutEdge(nd, r[1], After(r, 1), v, bkt)

-----------------------------------------------------------------------------
(* Removing.                                                               *)

Gone == Null

\* make_prefix in a noexcept shrink: when it throws, the router stays as it is.
Hang(nd, f, kid) ==
  {End("removed", MakePrefix(f, kid), MakeCost(f, kid) - 1)}
    \cup (IF mode \in Faulty /\ MakeCost(f, kid) > 0 THEN {End("removed", nd, 0)} ELSE {})

\* rm_collapse_: a router with one edge gives way to its child.
CollapseInto(nd, f, kid) ==
  IF kid.kind = "set" /\ Len(f) + Len(kid.pfx) <= PrefixCap
  THEN {End("removed", [kid EXCEPT !.pfx = f \o @], -1)}
  ELSE Hang(nd, f, kid)

\* rm_shrink_: the router nd has lost an edge or its term.
RECURSIVE Shrink(_)
Shrink(nd) ==
  LET b   == CHOOSE b \in DOMAIN nd.kids : TRUE
      kid == nd.kids[b]
      lone == Degree(nd) = 1 /\ nd.term = NoVal
      small == Degree(nd) <= ShrinkMax /\ nd.kind = "full" /\ Len(nd.pfx) <= PrefixCap
  IN
  CASE Degree(nd) = 0 /\ nd.term = NoVal -> {End("removed", Gone, -1)}
    [] Degree(nd) = 0 /\ nd.term # NoVal -> Hang(nd, nd.pfx, Leaf(<<>>, nd.term))
    [] lone -> CollapseInto(nd, nd.pfx \o <<b>>, kid)
                 \cup (IF nd.kind = "set" /\ kid.kind = "leaf" THEN {End("removed", nd, 0)} ELSE {})
    [] Degree(nd) > 0 /\ ~lone /\ small ->
         Shrink([nd EXCEPT !.kind = "set"])
           \cup (IF mode \in Faulty THEN {End("removed", nd, 0)} ELSE {})
    [] Degree(nd) > 0 /\ ~lone /\ ~small -> {End("removed", nd, 0)}

\* After a removal below: o.d more blocks, and on from there.
OnFrom(o, ends) == {[x EXCEPT !.d = @ + o.d] : x \in ends}

\* The page's arm of remove: an empty page goes.  The new page that a T which is
\* not trivially copyable needs is granted (README, Not modelled).
RemoveBucket(nd, s) ==
  LET at == Locate(nd.page, s)
      p  == RemovedAt(nd.page, at, pod)
  IN  CASE at < 0             -> {End("absent", nd, 0)}
        [] at >= 0 /\ p.n = 0 -> {End("removed", Gone, -1)}
        [] at >= 0 /\ p.n > 0 -> {End("removed", Bucket(p), 0)}

\* remove_bytes_ and rm_unwind_, in trees that fit the path window.
RECURSIVE Rem(_, _)
Rem(nd, s) ==
  LET c == IF nd.kind = "pn" \/ IsRouter(nd) THEN Lcp(nd.pfx, s) ELSE 0
      r == After(s, c)
  IN
  CASE nd.kind = "null" -> {End("absent", nd, 0)}
    [] nd.kind = "leaf" -> IF nd.suf = s THEN {End("removed", Gone, -1)} ELSE {End("absent", nd, 0)}
    [] nd.kind = "bucket" -> RemoveBucket(nd, s)
    [] (nd.kind = "pn" \/ IsRouter(nd)) /\ c < Len(nd.pfx) -> {End("absent", nd, 0)}
    [] nd.kind = "pn" /\ c = Len(nd.pfx) ->
         UNION {IF o.node = Gone THEN OnFrom(o, {End("removed", Gone, -1)})
                ELSE {[o EXCEPT !.node = Pn(nd.pfx, @)]} : o \in Rem(nd.next, r)}
    [] IsRouter(nd) /\ c = Len(nd.pfx) /\ r = <<>> ->
         IF nd.term = NoVal THEN {End("absent", nd, 0)}
         ELSE OnFrom(End("removed", nd, -1), Shrink([nd EXCEPT !.term = NoVal]))
    [] IsRouter(nd) /\ c = Len(nd.pfx) /\ r # <<>> ->
         IF r[1] \notin DOMAIN nd.kids THEN {End("absent", nd, 0)}
         ELSE UNION {IF o.node = Gone THEN OnFrom(o, Shrink(NoKid(nd, r[1])))
                     ELSE {[o EXCEPT !.node = WithKid(nd, r[1], @)]}
                     : o \in Rem(nd.kids[r[1]], After(r, 1))}

-----------------------------------------------------------------------------
(* Reading.                                                                *)

\* descend_read: the value at s below nd, or NoVal.
RECURSIVE Find(_, _)
Find(nd, s) ==
  LET c == IF nd.kind = "pn" \/ IsRouter(nd) THEN Lcp(nd.pfx, s) ELSE 0
      r == After(s, c)
  IN
  CASE nd.kind \in {"null", "freed"} -> NoVal
    [] nd.kind = "leaf" -> IF nd.suf = s THEN nd.val ELSE NoVal
    [] nd.kind = "bucket" ->
         LET at == Locate(nd.page, s) IN IF at < 0 THEN NoVal ELSE EntryAt(nd.page, at).val
    [] (nd.kind = "pn" \/ IsRouter(nd)) /\ c < Len(nd.pfx) -> NoVal
    [] nd.kind = "pn" /\ c = Len(nd.pfx) -> Find(nd.next, r)
    [] IsRouter(nd) /\ c = Len(nd.pfx) /\ r = <<>> -> nd.term
    [] IsRouter(nd) /\ c = Len(nd.pfx) /\ r # <<>> ->
         IF r[1] \in DOMAIN nd.kids THEN Find(nd.kids[r[1]], After(r, 1)) ELSE NoVal

Ascending(S) == [i \in 1 .. Cardinality(S) |->
                   CHOOSE b \in S : Cardinality({x \in S : x < b}) = i - 1]

\* walk_: the pairs (key, value) below nd, in the order for_each reports them; f
\* is the key buffer.  A page is reported by index.
RECURSIVE Walk(_, _)
Walk(nd, f) ==
  LET g  == IF nd.kind = "pn" \/ IsRouter(nd) THEN f \o nd.pfx ELSE f
  IN
  CASE nd.kind \in {"null", "freed"} -> <<>>
    [] nd.kind = "leaf"   -> <<<<f \o nd.suf, nd.val>>>>
    [] nd.kind = "bucket" -> [i \in 1 .. nd.page.n |->
                                LET e == EntryAt(nd.page, i - 1) IN <<f \o e.suf, e.val>>]
    [] nd.kind = "pn"     -> Walk(nd.next, g)
    [] IsRouter(nd) ->
         LET bs == Ascending(DOMAIN nd.kids)
         IN  (IF nd.term = NoVal THEN <<>> ELSE <<<<g, nd.term>>>>)
               \o Seqs!FlattenSeq([i \in DOMAIN bs |-> Walk(nd.kids[bs[i]], Append(g, bs[i]))])

-----------------------------------------------------------------------------
(* The map's calls.                                                        *)

Basic == INSTANCE BasicMap WITH dict <- seen

\* What for_each shows of the tree nd.
Contents(nd) == LET shown == Seqs!ToSet(Walk(nd, <<>>))
                IN  [k \in {kv[1] : kv \in shown} |-> (CHOOSE kv \in shown : kv[1] = k)[2]]

Ends(o) ==
  /\ root' = o.node /\ blocks' = blocks + o.d /\ ret' = o.out /\ seen' = Contents(o.node)
  /\ UNCHANGED <<mode, pod, load>>

\* A call ends in one of its ways.  A map whose slots refer to a freed block has
\* no next call.
Called(op, k, v, ends) ==
  /\ ~Broken(root)
  /\ asked' = [op |-> op, key |-> k, val |-> v]
  /\ \E o \in {[e EXCEPT !.took = TRUE] : e \in ends} : Ends(o)

Insert(k, v)  == Called("insert", k, v, Put(root, k, v, TRUE, ~Adaptive, 0))
Emplace(k, v) == Called("emplace", k, v, Put(root, k, v, FALSE, ~Adaptive, 0))
Remove(k)     == Called("remove", k, NoVal, Rem(root, k))

Init ==
  /\ root = Null /\ blocks = 0 /\ seen = Contents(Null)
  /\ asked = Basic!NoRequest /\ ret = "none"
  /\ \E s \in Setups : mode = s.mode /\ pod = s.pod /\ load = s.load

Next ==
  \/ \E kv \in load : Insert(kv[1], kv[2]) \/ Emplace(kv[1], kv[2])
  \/ \E k \in {kv[1] : kv \in load} : Remove(k)

Spec == Init /\ [][Next]_vars

-----------------------------------------------------------------------------
(* Properties.                                                             *)

RECURSIVE PagesIn(_)
PagesIn(nd) ==
  CASE nd.kind = "bucket" -> {nd.page}
    [] nd.kind = "pn"     -> PagesIn(nd.next)
    [] nd.kind \in {"set", "full"} -> UNION {PagesIn(nd.kids[b]) : b \in DOMAIN nd.kids}
    [] nd.kind \in {"null", "leaf", "freed"} -> {}

\* Every page is an ordered index over disjoint entries that fill the tail
\* without a hole, in every order of arrivals, removals, splits and collapses
\* (map.hpp: "the div/slot index is in total lexicographic suffix order at all
\* times").
PagesSound == \A p \in PagesIn(root) : p.n > 0 /\ PageSound(p)

\* Nothing that was allocated is lost, also by a call that throws half way
\* through a split (README: "basic guarantee with zero leaks").
NoLeak == blocks = Blocks(root)

\* for_each reports every key once, in order; find finds what it reports, with the
\* same value, and no other key.
WalkAgreesWithFind ==
  /\ LET told == Walk(root, <<>>)
     IN  Ord!Lists([i \in DOMAIN told |-> told[i][1]], DOMAIN seen)
  /\ \A k \in Keys : Find(root, k) = IF k \in DOMAIN seen THEN seen[k] ELSE NoVal

\* No slot refers to a block that was freed, also after a call that threw
\* (README: "mutating operations provide the basic guarantee").
NoDanglingSlot == ~Broken(root)

\* The bucket engine implements a dictionary with the basic guarantee: a call
\* changes the key it was asked for, as it was asked, and no other (README:
\* "mutating operations provide the basic guarantee").
ImplementsBasicMap == Basic!BasicSpec
=============================================================================
