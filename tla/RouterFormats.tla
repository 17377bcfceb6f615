--------------------------- MODULE RouterFormats ---------------------------
(***************************************************************************)
(* How a router stores its edges: the five layouts and their operations.   *)
(* A setlist and a u16 keep sorted, padded stems beside a branch array; a  *)
(* setlist may also host small leaves at the end of its own cache line.  A *)
(* c2, c4 or c8 keeps a presence bitmap per segment and a branch array in  *)
(* rank order; a full keeps lines of slots and the population of each.     *)
(*                                                                         *)
(* A router is a value.  A handle is a record: an external leaf or a node  *)
(* of byte b, or the tail offset of a leaf in the line.  MaxB is both the  *)
(* greatest byte and the pad of unused stems; a stem of a u16 is a number  *)
(* in the same range.                                                      *)
(***************************************************************************)
EXTENDS Integers, SequencesExt

CONSTANTS
  MaxB,        \* the greatest byte, 255
  Lanes,       \* stem lanes, 16; a find reads them in two halves
  SetCap,      \* setlist::CAP
  U16Cap,      \* setlist16::CAP
  SegCap,      \* cnode<N>::CAP, by kind
  WordBits,    \* bits of a bitmap word, 64
  PerLine,     \* full_per_line_v
  RecipBits,   \* the reciprocal's shift, 16
  InlineMax,   \* SL_INLINE_BRANCH, 7
  Line,        \* SL_LINE, 128
  BranchOff,   \* sl_branch_off
  PtrSize,     \* sizeof(Ptr)
  ValAlign,    \* SL_VAL_ALIGN
  LeafSize     \* leaf_alloc_size of the leaf below each byte

\* The members of a set of numbers, in order.
Ascending(S) == [i \in 1 .. Cardinality(S) |-> CHOOSE x \in S : Cardinality({y \in S : y < x}) = i - 1]

Byte     == 0 .. MaxB
NSeg(k)  == CASE k = "c2" -> 2 [] k = "c4" -> 4 [] k = "c8" -> 8
Cnodes   == {"c2", "c4", "c8"}
SegW(k)  == (MaxB + 1) \div NSeg(k)
Recip    == (2 ^ RecipBits) \div PerLine + 1
Lines    == (MaxB + PerLine) \div PerLine

ASSUME StemAssumption ==
  /\ {MaxB, Lanes, SetCap, U16Cap} \subseteq Nat
  /\ SetCap <= Lanes /\ U16Cap <= Lanes
ASSUME LineAssumption ==
  /\ {Line, BranchOff, PtrSize, InlineMax} \subseteq Nat
  /\ BranchOff + SetCap * PtrSize <= Line
  /\ ValAlign \in Nat \ {0} /\ Line % ValAlign = 0   \* alignof(T) divides a line
  /\ LeafSize \in [Byte -> Nat \ {0}]
ASSUME SegmentAssumption ==
  /\ (MaxB + 1) % 8 = 0 /\ WordBits \in Nat \ {0}
  /\ \A k \in Cnodes : SegW(k) <= WordBits \/ SegW(k) = 2 * WordBits
  /\ SegCap \in [Cnodes -> Nat]
  /\ SetCap <= SegCap["c2"] /\ SegCap["c2"] <= SegCap["c4"] /\ SegCap["c4"] <= SegCap["c8"]
ASSUME FullAssumption ==
  /\ PerLine \in Nat \ {0}
  /\ \A b \in Byte : (b * Recip) \div (2 ^ RecipBits) = b \div PerLine  \* static_assert

NoEdge      == [t |-> "none", v |-> 0]
NoStep      == <<>>   \* router_next, router_prev: there is none
LeafAt(b)   == [t |-> "leaf", v |-> b]
NodeAt(b)   == [t |-> "node", v |-> b]
InLine(off) == [t |-> "inline", v |-> off]   \* sl_inline_handle

\* What update-or-insert returns: whether there was room, and the router.
Done(r) == [ok |-> TRUE, router |-> r]
Full(r) == [ok |-> FALSE, router |-> r]

-----------------------------------------------------------------------------
(* Sorted stems: setlist and setlist16.                                    *)

Stems(kind) == [kind |-> kind, bytes |-> [i \in 1 .. Lanes |-> MaxB], branch |-> <<>>,
                inl |-> {}, line |-> {}]

Cap(s)      == IF s.kind = "set" THEN SetCap ELSE U16Cap
Count(s)    == Len(s.branch)

\* The number of stems below b; the pad never counts.
LowerBound(s, b) == Cardinality({i \in 1 .. Lanes : s.bytes[i] < b})

\* Where stem b is, or -1.  A setlist looks for the first lane equal to b in each
\* half of the lanes: for b = MaxB that lane may be a pad.
IndexOf(s, b) ==
  LET half(lo, hi) == {i \in lo .. hi : s.bytes[i + 1] = b}
      found == {i \in {Min(h) : h \in {half(0, Lanes \div 2 - 1), half(Lanes \div 2, Lanes - 1)}
                                     \ {{}}} : i < Count(s)}
      lb    == LowerBound(s, b)
  IN  CASE s.kind = "set" -> IF found = {} THEN -1 ELSE Min(found)
        [] s.kind = "u16" -> IF lb < Count(s) /\ s.bytes[lb + 1] = b THEN lb ELSE -1

BranchEnd(n) == BranchOff + n * PtrSize

\* Update-or-insert: a stem more pushes the branch array over what lay behind it.
StemSet(s, b, h) ==
  LET n  == Count(s)
      at == LowerBound(s, b)
  IN  IF at < n /\ s.bytes[at + 1] = b THEN Done([s EXCEPT !.branch[at + 1] = h])
      ELSE IF n >= Cap(s) THEN Full(s)
      ELSE Done([s EXCEPT
             !.bytes  = SubSeq(@, 1, at) \o <<b>> \o SubSeq(@, at + 1, n) \o SubSeq(@, n + 2, Lanes),
             !.branch = InsertAt(@, at + 1, h),
             !.line   = {p \in @ : p.at >= BranchEnd(n + 1)}])

StemCut(s, i) ==
  LET n == Count(s)
  IN  [s EXCEPT !.bytes  = SubSeq(@, 1, i) \o SubSeq(@, i + 2, n) \o <<MaxB>> \o SubSeq(@, n + 1, Lanes),
                !.branch = RemoveAt(@, i + 1)]

StemRemove(s, b) == IF IndexOf(s, b) < 0 THEN s ELSE StemCut(s, IndexOf(s, b))

-----------------------------------------------------------------------------
(* Leaves in the line.  inl is the set of branches whose handle is a tail  *)
(* offset; line is the set of leaves there, each with where it starts.     *)

RoundDown(x) == (x \div ValAlign) * ValAlign

\* The leaf that branch i's tail offset leads to.
InlineLeaf(s, i) ==
  LET at == {p \in s.line : p.at = Line - s.branch[i + 1].v}
  IN  IF at = {} THEN NoEdge ELSE LeafAt((CHOOSE p \in at : TRUE).leaf)

Child(s, i) == IF i \in s.inl THEN InlineLeaf(s, i) ELSE s.branch[i + 1]

\* Where the leaves of the branches in I start when they are packed from the end
\* of the line down, in branch order.
Packed(s, I) ==
  LET below[i \in -1 .. InlineMax] ==
        IF i = -1 THEN Line
        ELSE IF i \in I THEN RoundDown(below[i - 1] - LeafSize[Child(s, i).v]) ELSE below[i - 1]
  IN  [i \in I |-> below[i]]

\* The branches in I as tail offsets, with their leaves where Packed puts them.
Hosted(s, I) ==
  LET at == Packed(s, I)
  IN  [s EXCEPT !.inl    = I,
                !.branch = [i \in 1 .. Count(s) |-> IF i - 1 \in I THEN InLine(Line - at[i - 1]) ELSE @[i]],
                !.line   = {[at |-> at[i], leaf |-> Child(s, i).v] : i \in I}]

Repack(s) == IF s.inl = {} THEN s ELSE Hosted(s, s.inl)

\* Slip: as if the last branch took no room.
CompactTight(s) ==
  LET I  == {i \in 0 .. Count(s) - 1 : i < InlineMax /\ Child(s, i).t = "leaf"}
      at == Packed(s, I)
  IN  IF \E i \in I : at[i] < BranchEnd(Count(s) - 1) THEN s ELSE Hosted(s, I)

\* sl_inline_compact_: all leaf children, or none.
Compact(s) ==
  LET I  == {i \in 0 .. Count(s) - 1 : i < InlineMax /\ Child(s, i).t = "leaf"}
      at == Packed(s, I)
  IN  IF \E i \in I : at[i] < BranchEnd(Count(s)) THEN s ELSE Hosted(s, I)

Out(s, I) == [s EXCEPT !.inl    = @ \ I,
                       !.branch = [i \in 1 .. Count(s) |-> IF i - 1 \in I THEN Child(s, i - 1) ELSE @[i]]]

Externalize(s, i) == IF i \in s.inl THEN Repack(Out(s, {i})) ELSE s
\* sl_externalize_all_ when it has moved the first m of them.
ExternalizeSome(s, m) == Out(s, {i \in s.inl : Cardinality({x \in s.inl : x <= i}) <= m})
ExternalizeAll(s)     == Out(s, s.inl)

\* sl_remove_branch_: the flags above i move down with their branches.
RemoveBranch(s, i) ==
  Repack([StemCut(s, i) EXCEPT !.inl = {x \in s.inl : x < i} \cup {x - 1 : x \in {y \in s.inl : y > i}}])

-----------------------------------------------------------------------------
(* Segments: c2, c4 and c8.                                                *)

Cnode(k) == [kind |-> k, nbranch |-> 0,
             segs |-> [i \in 0 .. NSeg(k) - 1 |-> [present |-> {}, branch |-> <<>>]]]

\* One word of a bitmap.  A bitmap shorter than a word is read with the first
\* bytes of the branch array behind it, whose bits are taken to be set.
BmWord(k, s, w) == {i \in 0 .. WordBits - 1 : LET d == w * WordBits + i
                                              IN  d \in s.present \/ d >= SegW(k)}
Words(k)        == 0 .. (SegW(k) - 1) \div WordBits
\* ... with those bits masked off.
Mask(k, bits)   == {i \in bits : i < SegW(k)}

BmCount(k, s) ==
  IF SegW(k) <= WordBits THEN Cardinality(Mask(k, BmWord(k, s, 0)))
  ELSE Cardinality(BmWord(k, s, 0)) + Cardinality(BmWord(k, s, 1))

\* Slip: the second word alone.
BmRankInWord(k, s, d) ==
  Cardinality({i \in BmWord(k, s, d \div WordBits) : i < d % WordBits})

BmRank(k, s, d) ==
  IF d < WordBits THEN Cardinality({i \in BmWord(k, s, 0) : i < d})
  ELSE Cardinality(BmWord(k, s, 0)) + Cardinality({i \in BmWord(k, s, 1) : i < d - WordBits})

BranchOf(k, s, d) == s.branch[BmRank(k, s, d) + 1]

CnodeFind(c, b) ==
  LET s == c.segs[b \div SegW(c.kind)]
      d == b % SegW(c.kind)
  IN  IF d \in s.present THEN BranchOf(c.kind, s, d) ELSE NoEdge

CnodeSet(c, b, h) ==
  LET sg  == b \div SegW(c.kind)
      d   == b % SegW(c.kind)
      s   == c.segs[sg]
      pos == BmRank(c.kind, s, d)
  IN  IF d \in s.present THEN Done([c EXCEPT !.segs[sg].branch[pos + 1] = h])
      ELSE IF BmCount(c.kind, s) >= SegCap[c.kind] THEN Full(c)
      ELSE Done([c EXCEPT !.segs[sg] = [present |-> @.present \cup {d},
                                        branch  |-> InsertAt(@.branch, pos + 1, h)],
                          !.nbranch  = @ + 1])

CnodeRemove(c, b) ==
  LET sg == b \div SegW(c.kind)
      d  == b % SegW(c.kind)
      s  == c.segs[sg]
  IN  IF d \notin s.present THEN c
      ELSE [c EXCEPT !.segs[sg] = [present |-> @.present \ {d},
                                   branch  |-> RemoveAt(@.branch, BmRank(c.kind, s, d) + 1)],
                     !.nbranch  = @ - 1]

CnodeEntry(c, sg, d) == <<sg * SegW(c.kind) + d, BranchOf(c.kind, c.segs[sg], d)>>

\* The bits of segment sg, word w that a scan from byte `from` up (down) looks at.
BitsUp(c, sg, w, from) ==
  {i \in Mask(c.kind, BmWord(c.kind, c.segs[sg], w)) : sg * SegW(c.kind) + w * WordBits + i >= from}
BitsDown(c, sg, w, from) ==
  {i \in Mask(c.kind, BmWord(c.kind, c.segs[sg], w)) : sg * SegW(c.kind) + w * WordBits + i <= from}

\* The first (last) segment with such a bit, its first (last) word, the bit.
CnodeNext(c, from) ==
  LET hit == {p \in (DOMAIN c.segs) \X Words(c.kind) :
                p[1] >= from \div SegW(c.kind) /\ BitsUp(c, p[1], p[2], from) # {}}
      at  == CHOOSE p \in hit : \A q \in hit : p[1] < q[1] \/ (p[1] = q[1] /\ p[2] <= q[2])
  IN  IF hit = {} THEN NoStep
      ELSE CnodeEntry(c, at[1], at[2] * WordBits + Min(BitsUp(c, at[1], at[2], from)))

CnodePrev(c, from) ==
  LET hit == {p \in (DOMAIN c.segs) \X Words(c.kind) :
                p[1] <= from \div SegW(c.kind) /\ BitsDown(c, p[1], p[2], from) # {}}
      at  == CHOOSE p \in hit : \A q \in hit : p[1] > q[1] \/ (p[1] = q[1] /\ p[2] >= q[2])
  IN  IF hit = {} THEN NoStep
      ELSE CnodeEntry(c, at[1], at[2] * WordBits + Max(BitsDown(c, at[1], at[2], from)))

\* cnode_for_each reads only the bitmap's own bytes, and the branches in turn.
CnodeForEach(c) ==
  LET seg(sg) == LET d == Ascending(c.segs[sg].present)
                 IN  [i \in 1 .. Len(d) |-> <<sg * SegW(c.kind) + d[i], c.segs[sg].branch[i]>>]
      first[n \in 0 .. NSeg(c.kind)] == IF n = 0 THEN <<>> ELSE first[n - 1] \o seg(n - 1)
  IN  first[NSeg(c.kind)]

-----------------------------------------------------------------------------
(* Lines of slots: node_full.                                              *)

FullNode == [kind |-> "full", nbranch |-> 0,
             ptr  |-> [i \in 0 .. Lines * PerLine - 1 |-> NoEdge],
             nset |-> [i \in 0 .. Lines - 1 |-> 0]]

FullLine(b) == (b * Recip) \div (2 ^ RecipBits)
FullAt(b)   == FullLine(b) * PerLine + (b - FullLine(b) * PerLine)

\* Slip: the population of the line is not kept.
FullSetBare(f, b, h) ==
  LET was  == f.ptr[FullAt(b)] # NoEdge
      more == IF ~was /\ h # NoEdge THEN 1 ELSE IF was /\ h = NoEdge THEN -1 ELSE 0
  IN  [f EXCEPT !.ptr[FullAt(b)] = h, !.nbranch = @ + more]

FullSet(f, b, h) ==
  LET was  == f.ptr[FullAt(b)] # NoEdge
      more == IF ~was /\ h # NoEdge THEN 1 ELSE IF was /\ h = NoEdge THEN -1 ELSE 0
  IN  [f EXCEPT !.ptr[FullAt(b)]    = h,
                !.nset[FullLine(b)] = @ + more,
                !.nbranch           = @ + more]

\* The slots in use, the lines whose population is 0 skipped.
FullHits(f)    == {i \in DOMAIN f.ptr : f.nset[i \div PerLine] # 0 /\ f.ptr[i] # NoEdge}
FullEntry(f, I, i) == IF I = {} \/ i \notin Byte THEN NoStep ELSE <<i, f.ptr[i]>>

FullNext(f, from) == LET I == {i \in FullHits(f) : i >= FullAt(from)} IN FullEntry(f, I, Min(I))
FullPrev(f, from) == LET I == {i \in FullHits(f) : i <= FullAt(from)} IN FullEntry(f, I, Max(I))
FullForEach(f)    == LET at == Ascending(FullHits(f) \cap Byte)
                     IN  [i \in 1 .. Len(at) |-> <<at[i], f.ptr[at[i]]>>]

-----------------------------------------------------------------------------
(* Any router.                                                             *)

HasStems(r) == r.kind \in {"set", "u16"}
NBranch(r)  == IF HasStems(r) THEN Count(r) ELSE r.nbranch

RouterFind(r, b) ==
  CASE HasStems(r)      -> IF IndexOf(r, b) < 0 THEN NoEdge ELSE Child(r, IndexOf(r, b))
    [] r.kind \in Cnodes -> CnodeFind(r, b)
    [] r.kind = "full"  -> r.ptr[FullAt(b)]

TrySet(r, b, h) ==
  CASE HasStems(r)      -> StemSet(r, b, h)
    [] r.kind \in Cnodes -> CnodeSet(r, b, h)
    [] r.kind = "full"  -> Done(FullSet(r, b, h))

RouterRemove(r, b) ==
  CASE HasStems(r)      -> IF r.inl = {} THEN StemRemove(r, b)
                           ELSE IF IndexOf(r, b) < 0 THEN r ELSE RemoveBranch(r, IndexOf(r, b))
    [] r.kind \in Cnodes -> CnodeRemove(r, b)
    [] r.kind = "full"  -> FullSet(r, b, NoEdge)

ForEach(r) ==
  CASE HasStems(r)      -> [i \in 1 .. Count(r) |-> <<r.bytes[i], Child(r, i - 1)>>]
    [] r.kind \in Cnodes -> CnodeForEach(r)
    [] r.kind = "full"  -> FullForEach(r)

\* The first edge at or above byte `from`, and the last at or below it.
RouterNext(r, from) ==
  CASE HasStems(r)      -> LET i == Cardinality({x \in 1 .. Count(r) : r.bytes[x] < from})
                           IN  IF i >= Count(r) THEN NoStep ELSE <<r.bytes[i + 1], Child(r, i)>>
    [] r.kind \in Cnodes -> CnodeNext(r, from)
    [] r.kind = "full"  -> FullNext(r, from)

RouterPrev(r, from) ==
  CASE HasStems(r)      -> LET i == Cardinality({x \in 1 .. Count(r) : r.bytes[x] <= from})
                           IN  IF i = 0 THEN NoStep ELSE <<r.bytes[i], Child(r, i - 1)>>
    [] r.kind \in Cnodes -> CnodePrev(r, from)
    [] r.kind = "full"  -> FullPrev(r, from)

\* The edges of es set one after the other.
SetAll(fresh, es) ==
  LET with[n \in 0 .. Len(es)] ==
        IF n = 0 THEN fresh ELSE TrySet(with[n - 1], es[n][1], es[n][2]).router
  IN  with[Len(es)]

\* The same edges in a fresh router: build_wider, and rm_shrink_'s de-widening.
Rebuilt(r, fresh) == SetAll(fresh, ForEach(r))

\* widen on ladder "flat", "c4" or "c8"; the leaves in the line move out first.
Wider(r, ladder) ==
  IF ladder = "flat" THEN Rebuilt(r, FullNode)
  ELSE CASE r.kind = "set"                    -> Rebuilt(ExternalizeAll(r), Cnode("c2"))
         [] r.kind = "c2"                     -> Rebuilt(r, Cnode("c4"))
         [] r.kind = "c4" /\ ladder = "c8"    -> Rebuilt(r, Cnode("c8"))
         [] r.kind = "c4" /\ ladder # "c8"    -> Rebuilt(r, FullNode)
         [] r.kind = "c8"                     -> Rebuilt(r, FullNode)
=============================================================================
