---------------------------- MODULE ArtTreeFormat ----------------------------
(***************************************************************************)
(* Every node of ArtTree keeps within its format: proofs.                  *)
(*                                                                         *)
(* A router never has more edges, nor a longer prefix, than its format has *)
(* room for, and none is left without an edge and a term.  A leaf that     *)
(* lives in the line of its parent hangs below a setlist: no operation     *)
(* hands it to a node of another format.  When the keys are shorter than   *)
(* the window of remove, every edge leads to a node.                       *)
(***************************************************************************)
EXTENDS ArtTreeProofs

-----------------------------------------------------------------------------
(* Room.                                                                   *)

\* The edges of a cnode that go to segment s, and the room in all of them.
Segment(N, E, s) == {e \in E : SegOf(N, e[1]) = s}
Segmented(N, E)  == \A s \in 0 .. N - 1 : Cardinality(Segment(N, E, s)) <= CnodeCap[N]

LEMMA RoomyIs ==
  ASSUME NEW x
  PROVE  /\ x.kind \in {"leaf", "pn", "full"} => Roomy(x)
         /\ x.kind = "setlist" =>
              (Roomy(x) <=> Cardinality(x.edges) <= SetlistCap /\ Len(x.pfx) <= PrefixCap)
         /\ x.kind = "u16" => (Roomy(x) <=> Cardinality(x.edges) <= U16Cap)
         /\ x.kind = "pfxd" => (Roomy(x) <=> Len(x.pfx) <= FullPfxCap)
         /\ x.kind \in CnodeKinds => (Roomy(x) <=> Segmented(CnodeN(x.kind), x.edges))
  BY DEF Roomy, Segmented, Segment, CnodeKinds

LEMMA CnodeIs ==
  /\ CnodeKinds = {"c2", "c4", "c8"}
  /\ CnodeN("c2") = 2 /\ CnodeN("c4") = 4 /\ CnodeN("c8") = 8
  BY DEF CnodeKinds, CnodeN

LEMMA Sizes ==
  /\ SetlistCap \in Nat /\ SetlistCap >= 2 /\ PrefixCap \in Nat /\ FullPfxCap \in Nat
  /\ U16Cap \in Nat /\ U16Cap <= SetlistCap /\ FuseThresh \in Nat /\ FuseThresh <= U16Cap
  /\ CnodeCap[2] \in Nat /\ CnodeCap[4] \in Nat /\ CnodeCap[8] \in Nat
  /\ SetlistCap <= CnodeCap[2] /\ CnodeCap[2] <= CnodeCap[4] /\ CnodeCap[4] <= CnodeCap[8]
  /\ PrefixCap <= FullPfxCap /\ ShrinkMax \in Nat /\ ShrinkMax <= SetlistCap
  BY CapAssumption

\* A set has no fewer elements than a part of it.
LEMMA Fewer ==
  ASSUME NEW E, IsFiniteSet(E), NEW D \in SUBSET E
  PROVE  /\ IsFiniteSet(D) /\ Cardinality(D) \in Nat /\ Cardinality(E) \in Nat
         /\ Cardinality(D) <= Cardinality(E)
  BY FS_Subset, FS_CardinalityType

LEMMA SegmentPart ==
  ASSUME NEW N, NEW E, NEW D \in SUBSET E, NEW s
  PROVE  Segment(N, D, s) \in SUBSET Segment(N, E, s) /\ Segment(N, E, s) \in SUBSET E
  BY DEF Segment

\* With edges taken away and no longer prefix, a router is as roomy as before.
LEMMA RoomLeft ==
  ASSUME NEW x, NodeOK(x), x.kind \in RouterKinds, Roomy(x),
         NEW y, y.kind = x.kind, y.edges \in SUBSET x.edges, y.pfx \in Path,
         Len(y.pfx) <= Len(x.pfx)
  PROVE  Roomy(y)
  <1>1. IsFiniteSet(x.edges) /\ x.pfx \in Path /\ Len(x.pfx) \in Nat /\ Len(y.pfx) \in Nat
    BY EdgesFinite, NodeFields, PathFacts
  <1>2. /\ Cardinality(y.edges) \in Nat /\ Cardinality(x.edges) \in Nat
        /\ Cardinality(y.edges) <= Cardinality(x.edges)
    BY <1>1, Fewer
  <1>3. CASE x.kind = "setlist"
    BY <1>1, <1>2, <1>3, RoomyIs, Sizes
  <1>4. CASE x.kind = "u16"
    BY <1>2, <1>4, RoomyIs, Sizes
  <1>5. CASE x.kind = "pfxd"
    BY <1>1, <1>5, RoomyIs, Sizes
  <1>6. CASE x.kind \in CnodeKinds
    <2> DEFINE N == CnodeN(x.kind)
    <2>1. N \in {2, 4, 8} /\ CnodeCap[N] \in Nat
      BY <1>6, CnodeIs, Sizes
    <2> HIDE DEF N
    <2>2. ASSUME NEW s \in 0 .. N - 1
          PROVE  Cardinality(Segment(N, y.edges, s)) <= CnodeCap[N]
      <3>1. Segment(N, y.edges, s) \in SUBSET Segment(N, x.edges, s)
        BY SegmentPart
      <3>2. IsFiniteSet(Segment(N, x.edges, s))
        BY <1>1, SegmentPart, Fewer
      <3>3. /\ Cardinality(Segment(N, y.edges, s)) <= Cardinality(Segment(N, x.edges, s))
            /\ Cardinality(Segment(N, y.edges, s)) \in Nat
            /\ Cardinality(Segment(N, x.edges, s)) \in Nat
        BY <3>1, <3>2, Fewer
      <3>4. Cardinality(Segment(N, x.edges, s)) <= CnodeCap[N]
        BY <1>6, RoomyIs DEF Segmented, N
      <3> QED
        BY <2>1, <3>3, <3>4
    <2>3. Segmented(N, y.edges)
      BY <2>2 DEF Segmented
    <2> QED
      BY <1>6, <2>3, RoomyIs DEF N
  <1>7. CASE x.kind = "full"
    BY <1>7, RoomyIs
  <1> QED
    BY <1>3, <1>4, <1>5, <1>6, <1>7 DEF RouterKinds

LEMMA FitsIs ==
  ASSUME NEW x, NEW b
  PROVE  /\ x.kind = "setlist" => (Fits(x, b) <=> Cardinality(x.edges) < SetlistCap)
         /\ x.kind \in CnodeKinds =>
              (Fits(x, b) <=> Cardinality(Segment(CnodeN(x.kind), x.edges, SegOf(CnodeN(x.kind), b)))
                                < CnodeCap[CnodeN(x.kind)])
         /\ x.kind \in {"full", "pfxd"} => Fits(x, b)
  BY DEF Fits, Segment, CnodeKinds

\* One more edge, where the format has room for it.
LEMMA RoomAdded ==
  ASSUME NEW x, NodeOK(x), x.kind \in RouterKinds, Roomy(x), NEW e,
         x.kind = "u16" => Cardinality(x.edges) < U16Cap,
         x.kind # "u16" => Fits(x, e[1]),
         NEW y, y.kind = x.kind, y.edges = x.edges \cup {e}, y.pfx = x.pfx
  PROVE  Roomy(y)
  <1>1. IsFiniteSet(x.edges) /\ x.pfx \in Path /\ Len(x.pfx) \in Nat
    BY EdgesFinite, NodeFields, PathFacts
  <1>2. ASSUME NEW E, IsFiniteSet(E)
        PROVE  /\ Cardinality(E) \in Nat /\ Cardinality(E \cup {e}) \in Nat
               /\ Cardinality(E \cup {e}) <= Cardinality(E) + 1
    <2>1. /\ IsFiniteSet(E \cup {e})
          /\ Cardinality(E \cup {e}) = IF e \in E THEN Cardinality(E) ELSE Cardinality(E) + 1
      BY <1>2, FS_AddElement
    <2>2. Cardinality(E) \in Nat
      BY <1>2, FS_CardinalityType
    <2> QED
      BY <2>1, <2>2
  <1>3. CASE x.kind = "setlist"
    <2>1. Cardinality(x.edges) < SetlistCap
      BY <1>3, FitsIs
    <2>2. Cardinality(y.edges) <= SetlistCap
      BY <1>1, <1>2, <2>1, Sizes
    <2> QED
      BY <1>3, <2>2, RoomyIs
  <1>4. CASE x.kind = "u16"
    <2>1. Cardinality(y.edges) <= U16Cap
      BY <1>1, <1>2, <1>4, Sizes
    <2> QED
      BY <1>4, <2>1, RoomyIs
  <1>5. CASE x.kind = "pfxd"
    BY <1>5, RoomyIs
  <1>6. CASE x.kind \in CnodeKinds
    <2> DEFINE N == CnodeN(x.kind)
    <2>1. N \in {2, 4, 8} /\ CnodeCap[N] \in Nat
      BY <1>6, CnodeIs, Sizes
    <2>2. Cardinality(Segment(N, x.edges, SegOf(N, e[1]))) < CnodeCap[N]
      BY <1>6, FitsIs, CnodeIs
    <2> HIDE DEF N
    <2>3. ASSUME NEW s \in 0 .. N - 1
          PROVE  Cardinality(Segment(N, y.edges, s)) <= CnodeCap[N]
      <3>1. Cardinality(Segment(N, x.edges, s)) <= CnodeCap[N]
        BY <1>6, RoomyIs DEF Segmented, N
      <3>2. IsFiniteSet(Segment(N, x.edges, s))
        BY <1>1, SegmentPart, Fewer
      <3>3. CASE SegOf(N, e[1]) = s
        <4>1. Segment(N, y.edges, s) = Segment(N, x.edges, s) \cup {e}
          BY <3>3 DEF Segment
        <4>2. Cardinality(Segment(N, x.edges, s)) < CnodeCap[N]
          BY <2>2, <3>3
        <4>3. /\ Cardinality(Segment(N, x.edges, s)) \in Nat
              /\ Cardinality(Segment(N, y.edges, s)) \in Nat
              /\ Cardinality(Segment(N, y.edges, s)) <= Cardinality(Segment(N, x.edges, s)) + 1
          BY <1>2, <3>2, <4>1
        <4> QED
          BY <2>1, <4>2, <4>3
      <3>4. CASE SegOf(N, e[1]) # s
        <4>1. Segment(N, y.edges, s) = Segment(N, x.edges, s)
          BY <3>4 DEF Segment
        <4> QED
          BY <3>1, <4>1
      <3> QED
        BY <3>3, <3>4
    <2>4. Segmented(N, y.edges)
      BY <2>3 DEF Segmented
    <2> QED
      BY <1>6, <2>4, RoomyIs DEF N
  <1>7. CASE x.kind = "full"
    BY <1>7, RoomyIs
  <1> QED
    BY <1>3, <1>4, <1>5, <1>6, <1>7 DEF RouterKinds

\* The segments of a rung halve those of the rung before it.
LEMMA HalfSegments ==
  ASSUME NEW b \in Byte
  PROVE  /\ SegOf(4, b) \in 0 .. 1 => SegOf(2, b) = 0
         /\ SegOf(4, b) \in 2 .. 3 => SegOf(2, b) = 1
         /\ SegOf(8, b) \in 0 .. 1 => SegOf(4, b) = 0
         /\ SegOf(8, b) \in 2 .. 3 => SegOf(4, b) = 1
         /\ SegOf(8, b) \in 4 .. 5 => SegOf(4, b) = 2
         /\ SegOf(8, b) \in 6 .. 7 => SegOf(4, b) = 3
  <1> DEFINE M == MaxByte + 1
  <1>1. M \in Nat /\ M > 0 /\ b \in Nat
    BY MaxByteAssumption DEF Byte
  <1> HIDE DEF M
  <1>2. ASSUME NEW a \in Nat, NEW q \in Nat
        PROVE  a \div M = q <=> M * q <= a /\ a < M * q + M
    BY <1>1
  <1>3. \A q \in Nat : SegOf(2, b) = q <=> M * q <= b * 2 /\ b * 2 < M * q + M
    BY <1>1, <1>2 DEF SegOf, M
  <1>4. \A q \in Nat : SegOf(4, b) = q <=> M * q <= b * 4 /\ b * 4 < M * q + M
    BY <1>1, <1>2 DEF SegOf, M
  <1>5. \A q \in Nat : SegOf(8, b) = q <=> M * q <= b * 8 /\ b * 8 < M * q + M
    BY <1>1, <1>2 DEF SegOf, M
  <1>6. /\ SegOf(4, b) = 0 => SegOf(2, b) = 0
        /\ SegOf(4, b) = 1 => SegOf(2, b) = 0
        /\ SegOf(4, b) = 2 => SegOf(2, b) = 1
        /\ SegOf(4, b) = 3 => SegOf(2, b) = 1
    BY <1>1, <1>3, <1>4
  <1>7. /\ SegOf(8, b) = 0 => SegOf(4, b) = 0
        /\ SegOf(8, b) = 1 => SegOf(4, b) = 0
        /\ SegOf(8, b) = 2 => SegOf(4, b) = 1
        /\ SegOf(8, b) = 3 => SegOf(4, b) = 1
    BY <1>1, <1>4, <1>5
  <1>8. /\ SegOf(8, b) = 4 => SegOf(4, b) = 2
        /\ SegOf(8, b) = 5 => SegOf(4, b) = 2
        /\ SegOf(8, b) = 6 => SegOf(4, b) = 3
        /\ SegOf(8, b) = 7 => SegOf(4, b) = 3
    BY <1>1, <1>4, <1>5
  <1> QED
    BY <1>6, <1>7, <1>8

\* Each segment of the wider rung lies within one segment of the narrower.
LEMMA FinerSegments ==
  ASSUME NEW N \in {2, 4}, NEW E \in SUBSET Path, IsFiniteSet(E), \A e \in E : Len(e) = 1,
         Segmented(N, E)
  PROVE  Segmented(2 * N, E)
  <1>1. \A e \in E : e[1] \in Byte
    BY PathFacts
  <1>2. N \in Nat /\ CnodeCap[N] \in Nat /\ CnodeCap[2 * N] \in Nat /\ CnodeCap[N] <= CnodeCap[2 * N]
    BY Sizes
  <1>3. ASSUME NEW s \in 0 .. (2 * N) - 1
        PROVE  \E q \in 0 .. N - 1 : Segment(2 * N, E, s) \in SUBSET Segment(N, E, q)
    <2>1. CASE N = 2
      <3>1. CASE s \in 0 .. 1
        <4>1. \A e \in E : SegOf(4, e[1]) = s => SegOf(2, e[1]) = 0
          BY <1>1, <3>1, HalfSegments
        <4>2. Segment(2 * N, E, s) \in SUBSET Segment(N, E, 0)
          BY <2>1, <4>1 DEF Segment
        <4> QED
          BY <2>1, <4>2
      <3>2. CASE s \in 2 .. 3
        <4>1. \A e \in E : SegOf(4, e[1]) = s => SegOf(2, e[1]) = 1
          BY <1>1, <3>2, HalfSegments
        <4>2. Segment(2 * N, E, s) \in SUBSET Segment(N, E, 1)
          BY <2>1, <4>1 DEF Segment
        <4> QED
          BY <2>1, <4>2
      <3> QED
        BY <2>1, <3>1, <3>2
    <2>2. CASE N = 4
      <3>1. ASSUME NEW q \in 0 .. 3, s \in 2 * q .. (2 * q) + 1
            PROVE  Segment(2 * N, E, s) \in SUBSET Segment(N, E, q)
        <4>1. \A e \in E : SegOf(8, e[1]) = s => SegOf(4, e[1]) = q
          BY <1>1, <3>1, HalfSegments
        <4> QED
          BY <2>2, <4>1 DEF Segment
      <3>2. \E q \in 0 .. 3 : s \in 2 * q .. (2 * q) + 1
        <4>1. /\ 0 \in 0 .. 3 /\ 1 \in 0 .. 3 /\ 2 \in 0 .. 3 /\ 3 \in 0 .. 3
              /\ s \in 0 .. 7
          BY <2>2
        <4>2. \/ s \in 2 * 0 .. (2 * 0) + 1
              \/ s \in 2 * 1 .. (2 * 1) + 1
              \/ s \in 2 * 2 .. (2 * 2) + 1
              \/ s \in 2 * 3 .. (2 * 3) + 1
          BY <4>1
        <4> QED
          BY <4>1, <4>2
      <3> QED
        BY <2>2, <3>1, <3>2
    <2> QED
      BY <2>1, <2>2
  <1>4. ASSUME NEW s \in 0 .. (2 * N) - 1
        PROVE  Cardinality(Segment(2 * N, E, s)) <= CnodeCap[2 * N]
    <2>1. PICK q \in 0 .. N - 1 : Segment(2 * N, E, s) \in SUBSET Segment(N, E, q)
      BY <1>3
    <2>2. Cardinality(Segment(N, E, q)) <= CnodeCap[N]
      BY DEF Segmented
    <2>3. IsFiniteSet(Segment(N, E, q))
      BY SegmentPart, Fewer
    <2>4. /\ Cardinality(Segment(2 * N, E, s)) \in Nat /\ Cardinality(Segment(N, E, q)) \in Nat
          /\ Cardinality(Segment(2 * N, E, s)) <= Cardinality(Segment(N, E, q))
      BY <2>1, <2>3, Fewer
    <2> QED
      BY <1>2, <2>2, <2>4
  <1> QED
    BY <1>4 DEF Segmented

\* The wider rung has room for what the narrower one had room for.
LEMMA RoomWidened ==
  ASSUME NEW x, NodeOK(x), x.kind \in {"setlist"} \cup CnodeKinds, Roomy(x),
         NEW y, y.kind = WidenTo(x.kind), y.edges = x.edges
  PROVE  Roomy(y)
  <1>1. /\ IsFiniteSet(x.edges) /\ x.edges \in SUBSET Path
        /\ \A e \in x.edges : Len(e) = 1
    BY EdgesFinite, NodeFields, CnodeIs DEF RouterKinds, StemLen
  <1>2. CASE y.kind = "full"
    BY <1>2, RoomyIs
  <1>3. CASE x.kind = "setlist" /\ y.kind = "c2"
    <2>1. Cardinality(x.edges) <= SetlistCap
      BY <1>3, RoomyIs
    <2>2. ASSUME NEW s \in 0 .. 1
          PROVE  Cardinality(Segment(2, x.edges, s)) <= CnodeCap[2]
      <3>1. /\ Cardinality(Segment(2, x.edges, s)) \in Nat /\ Cardinality(x.edges) \in Nat
            /\ Cardinality(Segment(2, x.edges, s)) <= Cardinality(x.edges)
        BY <1>1, SegmentPart, Fewer
      <3> QED
        BY <2>1, <3>1, Sizes
    <2>3. Segmented(2, y.edges)
      BY <2>2 DEF Segmented
    <2> QED
      BY <1>3, <2>3, RoomyIs, CnodeIs
  <1>4. CASE x.kind = "c2" /\ y.kind = "c4"
    <2>1. Segmented(2, x.edges)
      BY <1>4, RoomyIs, CnodeIs
    <2>2. Segmented(2 * 2, x.edges)
      BY <1>1, <2>1, FinerSegments
    <2>3. Segmented(4, y.edges)
      BY <2>2
    <2> QED
      BY <1>4, <2>3, RoomyIs, CnodeIs
  <1>5. CASE x.kind = "c4" /\ y.kind = "c8"
    <2>1. Segmented(4, x.edges)
      BY <1>5, RoomyIs, CnodeIs
    <2>2. Segmented(2 * 4, x.edges)
      BY <1>1, <2>1, FinerSegments
    <2>3. Segmented(8, y.edges)
      BY <2>2
    <2> QED
      BY <1>5, <2>3, RoomyIs, CnodeIs
  <1>6. \/ y.kind = "full" \/ (x.kind = "setlist" /\ y.kind = "c2")
        \/ (x.kind = "c2" /\ y.kind = "c4") \/ (x.kind = "c4" /\ y.kind = "c8")
    BY DEF WidenTo, CnodeKinds
  <1> QED
    BY <1>2, <1>3, <1>4, <1>5, <1>6

\* A setlist with few edges and a short prefix.
LEMMA RoomySetlist ==
  ASSUME NEW x, x.kind = "setlist", x.pfx \in Path, Len(x.pfx) <= PrefixCap,
         NEW m \in Nat, m <= SetlistCap, Cardinality(x.edges) <= m, Cardinality(x.edges) \in Nat
  PROVE  Roomy(x)
  BY RoomyIs, Sizes

-----------------------------------------------------------------------------
(* Life.                                                                   *)

\* A router leads somewhere or holds a value.
Alive(x) == x.kind \in RouterKinds => x.edges # {} \/ x.term # NoVal

Sound(x) == Roomy(x) /\ Alive(x)

AllSound(t) == \A q \in DOMAIN t : Sound(t[q])

\* ... but for the router at p, which may be empty.
SoundBut(t, p) == \A q \in DOMAIN t : Roomy(t[q]) /\ (q # p => Alive(t[q]))

\* The invariant: a remove that shrinks a router has not looked yet whether
\* it is empty.
Sounds == IF pc = "shrink" THEN SoundBut(tree, lp) ELSE AllSound(tree)

LEMMA LeafSound ==
  ASSUME NEW x, x.kind \in {"leaf", "pn"}
  PROVE  Sound(x)
  BY RoomyIs DEF Sound, Alive, RouterKinds, CnodeKinds

LEMMA RouterFields ==
  ASSUME NEW kind, NEW pfx, NEW edges, NEW tm
  PROVE  LET x == Router(kind, pfx, edges, tm)
         IN  x.kind = kind /\ x.pfx = pfx /\ x.edges = edges /\ x.term = tm
  BY DEF Router

\* The trees that the helpers build.
LEMMA SoundUpd ==
  ASSUME NEW t, NEW p, NEW x, SoundBut(t, p), Sound(x)
  PROVE  AllSound(Upd(t, p, x))
  <1> DEFINE u == Upd(t, p, x)
  <1>1. DOMAIN u = DOMAIN t \cup {p} /\ u[p] = x /\ \A q \in DOMAIN t : q # p => u[q] = t[q]
    BY DEF Upd
  <1> HIDE DEF u
  <1>2. AllSound(u)
    BY <1>1 DEF AllSound, SoundBut, Sound
  <1> QED
    BY <1>2 DEF u

LEMMA SoundDrop ==
  ASSUME NEW t, NEW S
  PROVE  /\ AllSound(t) => AllSound(Drop(t, S))
         /\ \A p \in S : SoundBut(t, p) => AllSound(Drop(t, S))
  BY DEF AllSound, SoundBut, Sound, Drop

LEMMA SoundOver ==
  ASSUME NEW t, AllSound(t), NEW u, AllSound(u)
  PROVE  AllSound(Over(t, u))
  <1> DEFINE w == Over(t, u)
  <1>1. /\ DOMAIN w = DOMAIN t \cup DOMAIN u
        /\ \A q \in DOMAIN u : w[q] = u[q]
        /\ \A q \in DOMAIN t \ DOMAIN u : w[q] = t[q]
    BY DEF Over
  <1> HIDE DEF w
  <1>2. AllSound(w)
    BY <1>1 DEF AllSound
  <1> QED
    BY <1>2 DEF w

LEMMA SoundIsBut ==
  ASSUME NEW t, AllSound(t), NEW p
  PROVE  SoundBut(t, p)
  BY DEF AllSound, SoundBut, Sound

\* One node is edited in place.
LEMMA SoundEdit ==
  ASSUME NEW t, NEW p, SoundBut(t, p), NEW u, DOMAIN u = DOMAIN t,
         \A q \in DOMAIN t \ {p} : u[q] = t[q], Roomy(u[p])
  PROVE  SoundBut(u, p) /\ (Alive(u[p]) => AllSound(u))
  BY DEF SoundBut, AllSound, Sound

\* Leaves come and go, and nothing else.
LEMMA SoundSame ==
  ASSUME NEW t, AllSound(t), NEW u, DOMAIN u = DOMAIN t,
         \A q \in DOMAIN t : u[q] = t[q] \/ u[q].kind = "leaf"
  PROVE  AllSound(u)
  BY LeafSound DEF AllSound

LEMMA CompactSound ==
  ASSUME NEW t, TreeOK(t), AllSound(t), NEW p, NEW fits
  PROVE  AllSound(InlineCompact(t, p, fits))
  <1> DEFINE u == InlineCompact(t, p, fits)
  <1>1. DOMAIN u = DOMAIN t
    BY InlineCompactOK
  <1>2. ASSUME NEW q \in DOMAIN t
        PROVE  u[q] = t[q] \/ u[q].kind = "leaf"
    <2>1. NodeOK(t[q])
      BY DEF TreeOK
    <2>2. IsValuePtr(t[q]) => [t[q] EXCEPT !.inl = TRUE].kind = "leaf"
      BY <2>1, LeafEdits DEF IsValuePtr
    <2> QED
      BY <2>2 DEF InlineCompact
  <1> HIDE DEF u
  <1>3. AllSound(u)
    BY <1>1, <1>2, SoundSame
  <1> QED
    BY <1>3 DEF u

LEMMA ExternalizeSound ==
  ASSUME NEW t, TreeOK(t), AllSound(t), NEW p, NEW S \in SUBSET InlineKids(t, p)
  PROVE  AllSound(Externalize(t, S))
  <1> DEFINE u == Externalize(t, S)
  <1>1. DOMAIN u = DOMAIN t
    BY DEF Externalize
  <1>2. ASSUME NEW q \in DOMAIN t
        PROVE  u[q] = t[q] \/ u[q].kind = "leaf"
    <2>1. q \in S => t[q].kind = "leaf"
      BY DEF InlineKids, IsLeaf
    <2>2. u[q].kind = t[q].kind
      BY ExternalizeOK
    <2>3. q \notin S => u[q] = t[q]
      BY DEF Externalize
    <2> QED
      BY <2>1, <2>2, <2>3
  <1> HIDE DEF u
  <1>3. AllSound(u)
    BY <1>1, <1>2, SoundSame
  <1> QED
    BY <1>3 DEF u

LEMMA ForkLeafSound ==
  ASSUME NEW p, NEW r, NEW v, NEW c
  PROVE  AllSound(ForkLeaf(p, r, v, c))
  <1>1. \A suf : Sound(Leaf(suf, v))
    BY LeafSound DEF Leaf
  <1> QED
    BY <1>1 DEF AllSound, ForkLeaf

\* make_prefix takes a prefix into a header only if it fits.
LEMMA MakePrefixSound ==
  ASSUME NEW t, TreeOK(t), AllSound(t), NEW p \in Path, NEW pfx \in Path
  PROVE  AllSound(MakePrefix(t, p, pfx))
  <1> DEFINE c == p \o pfx
  <1>1. CASE pfx = <<>>
    BY <1>1 DEF MakePrefix
  <1>2. CASE pfx # <<>> /\ FusesInto(t, c, pfx)
    <2>1. /\ c \in DOMAIN t /\ t[c].kind \in {"full", "pfxd"} /\ NodeOK(t[c])
          /\ Len(pfx) + Len(t[c].pfx) <= FullPfxCap /\ Alive(t[c])
      BY <1>2 DEF FusesInto, TreeOK, AllSound, Sound
    <2>2. t[c].kind \in RouterKinds /\ t[c] \in RouterNode /\ t[c].pfx \in Path
      BY <2>1, NodeFields DEF RouterKinds
    <2> DEFINE y == pfx \o t[c].pfx
               x == [t[c] EXCEPT !.kind = "pfxd", !.pfx = y]
    <2>3. MakePrefix(t, p, pfx) = Upd(Drop(t, {c}), p, x)
      BY <1>2 DEF MakePrefix
    <2>4. Len(y) = Len(pfx) + Len(t[c].pfx)
      <3> HIDE DEF c
      <3> QED
        BY <2>2, ConcatFacts
    <2> HIDE DEF c, y
    <2>5. x = Router("pfxd", y, t[c].edges, t[c].term)
      BY <2>2, RouterIs
    <2>6. x.kind = "pfxd" /\ x.pfx = y /\ x.edges = t[c].edges /\ x.term = t[c].term
      BY <2>5 DEF Router
    <2> HIDE DEF x
    <2>7. Sound(x)
      BY <2>1, <2>2, <2>4, <2>6, RoomyIs DEF Sound, Alive
    <2>8. SoundBut(Drop(t, {c}), p)
      BY SoundDrop, SoundIsBut
    <2>9. AllSound(Upd(Drop(t, {c}), p, x))
      BY <2>7, <2>8, SoundUpd
    <2> QED
      BY <2>3, <2>9
  <1>3. CASE pfx # <<>> /\ ~FusesInto(t, c, pfx)
    <2>1. MakePrefix(t, p, pfx) = Upd(t, p, Pn(pfx))
      BY <1>3 DEF MakePrefix
    <2>2. Sound(Pn(pfx))
      BY LeafSound DEF Pn
    <2> QED
      BY <2>1, <2>2, SoundIsBut, SoundUpd
  <1> QED
    BY <1>1, <1>2, <1>3

\* A new setlist of at most two edges.
LEMMA ApplyPrefixSound ==
  ASSUME NEW p, NEW common \in Path, NEW edges, IsFiniteSet(edges), Cardinality(edges) <= 2,
         NEW tm, edges # {} \/ tm # NoVal
  PROVE  AllSound(ApplyPrefix(p, common, Router("setlist", <<>>, edges, tm)))
  <1> DEFINE r == Router("setlist", <<>>, edges, tm)
  <1>1. ASSUME NEW pfx \in Path, Len(pfx) <= PrefixCap
        PROVE  Sound(Router("setlist", pfx, edges, tm))
    <2> DEFINE x == Router("setlist", pfx, edges, tm)
    <2>1. x.kind = "setlist" /\ x.pfx = pfx /\ x.edges = edges /\ x.term = tm
      BY RouterFields
    <2>2. Cardinality(edges) \in Nat
      BY FS_CardinalityType
    <2> HIDE DEF x
    <2>3. Cardinality(x.edges) <= SetlistCap
      BY <2>1, <2>2, Sizes
    <2>4. Roomy(x)
      BY <1>1, <2>1, <2>3, RoomyIs
    <2>5. Sound(x)
      BY <2>1, <2>4 DEF Sound, Alive
    <2> QED
      BY <2>5 DEF x
  <1>2. CASE Len(common) <= PrefixCap
    <2>1. [r EXCEPT !.pfx = common] = Router("setlist", common, edges, tm)
      BY DEF Router
    <2>2. ApplyPrefix(p, common, r) = [q \in {p} |-> Router("setlist", common, edges, tm)]
      BY <1>2, <2>1 DEF ApplyPrefix
    <2> QED
      BY <1>1, <1>2, <2>2 DEF AllSound
  <1>3. CASE ~(Len(common) <= PrefixCap)
    <2>1. ApplyPrefix(p, common, r) =
            [q \in {p, p \o common} |-> IF q = p THEN Pn(common) ELSE r]
      BY <1>3 DEF ApplyPrefix
    <2>2. Sound(Pn(common))
      BY LeafSound DEF Pn
    <2>3. Sound(r)
      BY <1>1, EmptyPath, Sizes
    <2> HIDE DEF r
    <2>4. AllSound(ApplyPrefix(p, common, r))
      BY <2>1, <2>2, <2>3 DEF AllSound
    <2> QED
      BY <2>4 DEF r
  <1> QED
    BY <1>2, <1>3

LEMMA ForkSound ==
  ASSUME NEW p, NEW common \in Path, NEW r \in Path, NEW v \in Values, NEW c \in 0 .. Len(r),
         NEW oldEdges, IsFiniteSet(oldEdges), Cardinality(oldEdges) <= 1, NEW oldTerm
  PROVE  AllSound(ApplyPrefix(p, common, ForkRouter(r, v, c, oldEdges, oldTerm)))
  <1> DEFINE edges == oldEdges \cup IF c < Len(r) THEN {<<r[c + 1]>>} ELSE {}
             tm    == IF c = Len(r) THEN v ELSE oldTerm
  <1>1. ForkRouter(r, v, c, oldEdges, oldTerm) = Router("setlist", <<>>, edges, tm)
    BY DEF ForkRouter
  <1>2. IsFiniteSet(edges) /\ Cardinality(edges) <= 2
    <2>1. Cardinality(oldEdges) \in Nat
      BY FS_CardinalityType
    <2>2. CASE c < Len(r)
      <3> DEFINE e == <<r[c + 1]>>
      <3>1. edges = oldEdges \cup {e}
        BY <2>2
      <3> HIDE DEF e
      <3>2. /\ IsFiniteSet(oldEdges \cup {e})
            /\ Cardinality(oldEdges \cup {e}) =
                 IF e \in oldEdges THEN Cardinality(oldEdges) ELSE Cardinality(oldEdges) + 1
        BY FS_AddElement
      <3> HIDE DEF edges
      <3>3. IsFiniteSet(edges) /\ Cardinality(edges) <= 2
        BY <2>1, <3>1, <3>2
      <3> QED
        BY <3>3
    <2>3. CASE ~(c < Len(r))
      BY <2>1, <2>3
    <2> QED
      BY <2>2, <2>3
  <1>3. edges # {} \/ tm # NoVal
    <2>1. Len(r) \in Nat
      BY PathFacts
    <2>2. c < Len(r) => edges # {}
      OBVIOUS
    <2>3. c = Len(r) => tm # NoVal
      BY NoValAssumption
    <2> QED
      BY <2>1, <2>2, <2>3
  <1> HIDE DEF edges, tm
  <1> QED
    BY <1>1, <1>2, <1>3, ApplyPrefixSound

-----------------------------------------------------------------------------
(* The trees that the actions build.                                       *)

LEMMA FewEdges == /\ \A x : IsFiniteSet({x}) /\ Cardinality({x}) <= 1
                  /\ IsFiniteSet({}) /\ Cardinality({}) <= 1
  <1>1. ASSUME NEW x
        PROVE  IsFiniteSet({x}) /\ Cardinality({x}) <= 1
    <2> DEFINE m == Cardinality({x})
    <2>1. IsFiniteSet({x}) /\ m = 1
      BY FS_Singleton
    <2> HIDE DEF m
    <2>2. m <= 1
      BY <2>1
    <2> QED
      BY <2>1, <2>2 DEF m
  <1>2. IsFiniteSet({}) /\ Cardinality({}) <= 1
    <2> DEFINE m == Cardinality({})
    <2>1. IsFiniteSet({}) /\ m = 0
      BY FS_EmptySet
    <2> HIDE DEF m
    <2>2. m <= 1
      BY <2>1
    <2> QED
      BY <2>1, <2>2 DEF m
  <1> QED
    BY <1>1, <1>2

LEMMA SplitLeafSound ==
  ASSUME TreeOK(tree), AllSound(tree), slot \in DOMAIN tree, nd.kind = "leaf", R \in Path,
         req.val \in Values, NEW fits
  PROVE  AllSound(SplitLeafTree(fits))
  <1> DEFINE S        == nd.suf
             c        == Lcp(S, R)
             common   == Front(R, c)
             oldEdges == IF c < Len(S) THEN {<<S[c + 1]>>} ELSE {}
             oldTerm  == IF c = Len(S) THEN nd.val ELSE NoVal
             r        == ForkRouter(R, req.val, c, oldEdges, oldTerm)
             u1       == ApplyPrefix(slot, common, r)
             u2       == ForkLeaf(slot, R, req.val, c)
             u3       == ForkLeaf(slot, S, nd.val, c)
             t0       == Drop(tree, {slot})
             t1       == Over(t0, u1)
             t2       == Over(t1, u2)
             t3       == Over(t2, u3)
  <1>1. slot \in Path /\ S \in Path /\ nd.val \in Values
    BY NodeFields DEF TreeOK, nd
  <1>2. c \in 0 .. Len(S) /\ c \in 0 .. Len(R)
    BY <1>1, LcpFacts, PathFacts
  <1>3. common \in Path
    BY <1>2, FrontFacts
  <1>4. IsFiniteSet(oldEdges) /\ Cardinality(oldEdges) <= 1
    BY FewEdges
  <1>5. /\ oldEdges \in SUBSET Path /\ \A e \in oldEdges : Len(e) = 1
        /\ oldTerm \in Values \cup {NoVal}
    <2>1. c < Len(S) => c + 1 \in 1 .. Len(S)
      BY <1>1, <1>2, PathFacts
    <2>2. c < Len(S) => <<S[c + 1]>> \in Path /\ Len(<<S[c + 1]>>) = 1
      BY <1>1, <2>1, OneByte
    <2> QED
      BY <1>1, <2>2
  <1>6. TreeOK(u1) /\ AllSound(u1)
    <2> HIDE DEF c, common, oldEdges, oldTerm
    <2> QED
      BY <1>1, <1>2, <1>3, <1>4, <1>5, ForkOK, ForkSound
  <1>7. TreeOK(u2) /\ TreeOK(u3) /\ AllSound(u2) /\ AllSound(u3)
    <2> HIDE DEF c, S
    <2> QED
      BY <1>1, <1>2, ForkLeafOK, ForkLeafSound
  <1>8. TreeOK(t0) /\ AllSound(t0)
    BY DropOK, SoundDrop
  <1>9. TreeOK(t1) /\ AllSound(t1)
    <2> HIDE DEF t0, u1
    <2> QED
      BY <1>6, <1>8, OverOK, SoundOver
  <1>10. TreeOK(t2) /\ AllSound(t2)
    <2> HIDE DEF t1, u2
    <2> QED
      BY <1>7, <1>9, OverOK, SoundOver
  <1>11. TreeOK(t3) /\ AllSound(t3)
    <2> HIDE DEF t2, u3
    <2> QED
      BY <1>7, <1>10, OverOK, SoundOver
  <1>12. SplitLeafTree(fits) = InlineCompact(t3, ForkSlot(slot, common), fits)
    BY DEF SplitLeafTree
  <1> HIDE DEF t3, common
  <1> QED
    BY <1>11, <1>12, CompactSound

\* What is left of the old node has a shorter prefix.
LEMMA ShorterSound ==
  ASSUME NEW x, NodeOK(x), x.kind \in {"setlist", "pfxd"}, Sound(x),
         NEW rest \in Path, Len(rest) <= Len(x.pfx),
         NEW kind, x.kind = "setlist" => kind = "setlist",
         x.kind = "pfxd" => kind = IF rest = <<>> THEN "full" ELSE "pfxd"
  PROVE  NodeOK(Router(kind, rest, x.edges, x.term)) /\ Sound(Router(kind, rest, x.edges, x.term))
  <1> DEFINE y == Router(kind, rest, x.edges, x.term)
  <1>1. y.kind = kind /\ y.pfx = rest /\ y.edges = x.edges /\ y.term = x.term
    BY RouterFields
  <1> HIDE DEF y
  <1>2. x.kind \in RouterKinds
    BY DEF RouterKinds
  <1>3. Roomy(y)
    <2>1. CASE kind = x.kind
      BY <1>1, <1>2, <2>1, RoomLeft DEF Sound
    <2>2. CASE kind = "full"
      BY <1>1, <2>2, RoomyIs
    <2> QED
      BY <2>1, <2>2
  <1>4. Sound(y)
    BY <1>1, <1>2, <1>3 DEF Sound, Alive
  <1>5. /\ x.edges \in SUBSET Path /\ x.term \in Values \cup {NoVal}
        /\ \A e \in x.edges : Len(e) = StemLen(kind)
    BY <1>2, NodeFields DEF StemLen
  <1>6. kind \in RouterKinds /\ (kind = "pfxd" => rest # <<>>)
        /\ (kind \notin {"setlist", "pfxd"} => rest = <<>>)
    BY DEF RouterKinds
  <1>7. NodeOK(y)
    BY <1>5, <1>6, RouterOK DEF y
  <1> QED
    BY <1>4, <1>7 DEF y

LEMMA SplitPrefixSound ==
  ASSUME TreeOK(tree), AllSound(tree), slot \in DOMAIN tree, nd.kind # "leaf", R \in Path,
         req.val \in Values, ~StartsWith(R, nd.pfx), NEW fits
  PROVE  AllSound(SplitPrefixTree(fits))
  <1> DEFINE c      == Lcp(nd.pfx, R)
             common == Front(nd.pfx, c)
             rest   == Back(nd.pfx, c + 1)
             q      == slot \o Front(nd.pfx, c + 1)
             old    == Drop(tree, {slot})
             kept   == CASE nd.kind = "pn"      -> MakePrefix(old, q, rest)
                         [] nd.kind = "setlist" -> Upd(old, q, [nd EXCEPT !.pfx = rest])
                         [] nd.kind = "pfxd"    ->
                              Upd(old, q, [nd EXCEPT !.kind = IF rest = <<>> THEN "full" ELSE "pfxd",
                                                     !.pfx = rest])
             r      == ForkRouter(R, req.val, c, {<<nd.pfx[c + 1]>>}, NoVal)
             u1     == ApplyPrefix(slot, common, r)
             u2     == ForkLeaf(slot, R, req.val, c)
             t1     == Over(kept, u1)
             t2     == Over(t1, u2)
  <1>1. slot \in Path /\ nd.pfx \in Path /\ NodeOK(nd) /\ Sound(nd)
    BY NodeFields DEF TreeOK, AllSound, nd
  <1>2. c \in 0 .. Len(nd.pfx) /\ c \in 0 .. Len(R) /\ c + 1 \in 1 .. Len(nd.pfx)
    BY <1>1, LcpFacts, PathFacts
  <1>3. common \in Path /\ rest \in Path /\ q \in Path /\ Len(rest) <= Len(nd.pfx)
    <2>1. c + 1 \in 0 .. Len(nd.pfx)
      BY <1>2
    <2>2. Front(nd.pfx, c + 1) \in Path
      BY <1>1, <2>1, FrontFacts
    <2>3. rest \in Path /\ Len(rest) = Len(nd.pfx) - (c + 1)
      BY <1>1, <2>1, BackFacts
    <2>4. Len(nd.pfx) \in Nat
      BY <1>1, PathFacts
    <2>5. Len(rest) <= Len(nd.pfx)
      BY <1>2, <2>3, <2>4
    <2> QED
      BY <1>1, <1>2, <2>2, <2>3, <2>5, FrontFacts, ConcatFacts
  <1>4. TreeOK(u1) /\ AllSound(u1)
    <2> DEFINE E == {<<nd.pfx[c + 1]>>}
    <2>1. <<nd.pfx[c + 1]>> \in Path /\ Len(<<nd.pfx[c + 1]>>) = 1
      BY <1>1, <1>2, OneByte
    <2>2. E \in SUBSET Path /\ (\A e \in E : Len(e) = 1) /\ IsFiniteSet(E) /\ Cardinality(E) <= 1
      BY <2>1, FewEdges
    <2> HIDE DEF c, common, E
    <2>3. /\ TreeOK(ApplyPrefix(slot, common, ForkRouter(R, req.val, c, E, NoVal)))
          /\ AllSound(ApplyPrefix(slot, common, ForkRouter(R, req.val, c, E, NoVal)))
      BY <1>1, <1>2, <1>3, <2>2, ForkOK, ForkSound
    <2> QED
      BY <2>3 DEF E
  <1>5. TreeOK(u2) /\ AllSound(u2)
    <2> HIDE DEF c
    <2> QED
      BY <1>1, <1>2, ForkLeafOK, ForkLeafSound
  <1>6. TreeOK(old) /\ AllSound(old)
    BY DropOK, SoundDrop
  <1>7. nd.kind \in {"pn", "setlist", "pfxd"}
    <2>1. nd.pfx # <<>>
      BY <1>1, StartsWithEmpty
    <2> QED
      BY <1>1, <2>1, NodeFields
  <1>8. TreeOK(kept) /\ AllSound(kept)
    <2>1. CASE nd.kind = "pn"
      <3>1. TreeOK(MakePrefix(old, q, rest)) /\ AllSound(MakePrefix(old, q, rest))
        <4> HIDE DEF old, q, rest
        <4> QED
          BY <1>3, <1>6, MakePrefixOK, MakePrefixSound
      <3> QED
        BY <2>1, <3>1
    <2>2. CASE nd.kind \in {"setlist", "pfxd"}
      <3> DEFINE kind == IF nd.kind = "pfxd" /\ rest = <<>> THEN "full" ELSE nd.kind
                 x    == Router(kind, rest, nd.edges, nd.term)
      <3>1. nd \in RouterNode
        BY <1>1, <2>2, NodeFields DEF RouterKinds
      <3>2. kept = Upd(old, q, x)
        <4>1. [nd EXCEPT !.pfx = rest] = Router(nd.kind, rest, nd.edges, nd.term)
          <5> HIDE DEF rest
          <5> QED
            BY <3>1, RouterIs
        <4> DEFINE k2 == IF rest = <<>> THEN "full" ELSE "pfxd"
        <4>2. [nd EXCEPT !.kind = k2, !.pfx = rest] = Router(k2, rest, nd.edges, nd.term)
          <5> HIDE DEF rest, k2
          <5> QED
            BY <3>1, RouterIs
        <4>3. CASE nd.kind = "setlist"
          BY <4>1, <4>3
        <4>4. CASE nd.kind = "pfxd"
          BY <4>2, <4>4
        <4> QED
          BY <2>2, <4>3, <4>4
      <3>3. /\ nd.kind = "setlist" => kind = "setlist"
            /\ nd.kind = "pfxd" => kind = IF rest = <<>> THEN "full" ELSE "pfxd"
        OBVIOUS
      <3>4. NodeOK(x) /\ Sound(x)
        <4> HIDE DEF kind, rest
        <4> QED
          BY <1>1, <1>3, <2>2, <3>3, ShorterSound
      <3>5. SoundBut(old, q)
        BY <1>6, SoundIsBut
      <3> HIDE DEF old, x, q, kept
      <3> QED
        BY <1>3, <1>6, <3>2, <3>4, <3>5, UpdOK, SoundUpd
    <2> QED
      BY <1>7, <2>1, <2>2
  <1>9. TreeOK(t1) /\ AllSound(t1)
    <2> HIDE DEF kept, u1
    <2> QED
      BY <1>4, <1>8, OverOK, SoundOver
  <1>10. TreeOK(t2) /\ AllSound(t2)
    <2> HIDE DEF t1, u2
    <2> QED
      BY <1>5, <1>9, OverOK, SoundOver
  <1>11. SplitPrefixTree(fits) = InlineCompact(t2, ForkSlot(slot, common), fits)
    BY DEF SplitPrefixTree
  <1> HIDE DEF t2, common
  <1> QED
    BY <1>10, <1>11, CompactSound

\* A new edge, and the new leaf it leads to.
LEMMA LinkSound ==
  ASSUME NEW t, TreeOK(t), AllSound(t), NEW p \in DOMAIN t, t[p].kind \in RouterKinds, NEW e,
         t[p].kind = "u16" => Cardinality(t[p].edges) < U16Cap,
         t[p].kind # "u16" => Fits(t[p], e[1]), NEW suf
  PROVE  AllSound(Link(t, p, e, suf))
  <1> DEFINE E == t[p].edges \cup {e}
             x == [t[p] EXCEPT !.edges = E]
             u == [t EXCEPT ![p] = x]
  <1>1. NodeOK(t[p]) /\ t[p] \in RouterNode /\ Sound(t[p])
    BY NodeFields DEF TreeOK, AllSound
  <1>2. x = Router(t[p].kind, t[p].pfx, E, t[p].term)
    <2> HIDE DEF E
    <2> QED
      BY <1>1, RouterIs
  <1>3. x.kind = t[p].kind /\ x.pfx = t[p].pfx /\ x.edges = E
    BY <1>2 DEF Router
  <1>4. Sound(x)
    <2> HIDE DEF x
    <2>1. Roomy(x)
      BY <1>1, <1>3, RoomAdded DEF Sound
    <2>2. x.edges # {}
      BY <1>3
    <2> QED
      BY <2>1, <2>2 DEF Sound, Alive
  <1>5. DOMAIN u = DOMAIN t /\ u[p] = x /\ \A q \in DOMAIN t \ {p} : u[q] = t[q]
    OBVIOUS
  <1>6. AllSound(u)
    <2> HIDE DEF u, x
    <2> QED
      BY <1>4, <1>5 DEF AllSound
  <1>7. Link(t, p, e, suf) = Upd(u, At(t, p) \o e, Leaf(suf, req.val))
    BY DEF Link
  <1>8. Sound(Leaf(suf, req.val))
    BY LeafSound DEF Leaf
  <1> HIDE DEF u
  <1> QED
    BY <1>6, <1>7, <1>8, SoundIsBut, SoundUpd

\* An image has no more elements than what it is of.
LEMMA ImageSize ==
  ASSUME NEW S, IsFiniteSet(S), NEW f, NEW T, T = {f[x] : x \in S}
  PROVE  IsFiniteSet(T) /\ Cardinality(T) \in Nat /\ Cardinality(T) <= Cardinality(S)
  <1> DEFINE g == [x \in S |-> f[x]]
  <1>1. g \in Surjection(S, T)
    BY DEF Surjection
  <1> HIDE DEF g
  <1> QED
    BY <1>1, FS_Surjection, FS_CardinalityType

\* A full two-byte router has no more first bytes, and no more second bytes
\* below one of them, than a setlist has room for.
LEMMA RestrideSound ==
  ASSUME TreeOK(tree), AllSound(tree), slot \in DOMAIN tree, nd.kind = "u16"
  PROVE  AllSound(RestrideTree)
  <1> DEFINE his   == {Front(e, 1) : e \in nd.edges}
             mine(q) == {x \in nd.edges : slot \o Front(x, 1) = q}
             los(q) == {Back(e, 1) : e \in mine(q)}
             group == [q \in {slot \o h : h \in his} |-> Router("setlist", <<>>, los(q), NoVal)]
             top   == Router("setlist", <<>>, his, nd.term)
             t     == Upd(tree, slot, top)
  <1>1. NodeOK(nd) /\ nd.kind \in RouterKinds /\ Roomy(nd) /\ Alive(nd)
    BY DEF TreeOK, AllSound, Sound, nd, RouterKinds
  <1>2. IsFiniteSet(nd.edges) /\ Cardinality(nd.edges) \in Nat /\ Cardinality(nd.edges) <= U16Cap
    BY <1>1, EdgesFinite, FS_CardinalityType, RoomyIs
  <1>3. Cardinality(his) \in Nat /\ Cardinality(his) <= SetlistCap
    <2> DEFINE f == [e \in nd.edges |-> Front(e, 1)]
    <2>1. his = {f[x] : x \in nd.edges}
      OBVIOUS
    <2> HIDE DEF f, his
    <2>2. Cardinality(his) \in Nat /\ Cardinality(his) <= Cardinality(nd.edges)
      BY <1>2, <2>1, ImageSize
    <2> QED
      BY <1>2, <2>2, Sizes
  <1>4. \A q : Cardinality(los(q)) \in Nat /\ Cardinality(los(q)) <= SetlistCap
    <2> SUFFICES ASSUME NEW q PROVE Cardinality(los(q)) \in Nat /\ Cardinality(los(q)) <= SetlistCap
      OBVIOUS
    <2> DEFINE E == mine(q)
               f == [e \in E |-> Back(e, 1)]
               L == los(q)
    <2>1. E \in SUBSET nd.edges
      OBVIOUS
    <2>2. L = {f[x] : x \in E}
      OBVIOUS
    <2> HIDE DEF E, f, L
    <2>3. IsFiniteSet(E) /\ Cardinality(E) \in Nat /\ Cardinality(E) <= Cardinality(nd.edges)
      BY <1>2, <2>1, Fewer
    <2>4. Cardinality(L) \in Nat /\ Cardinality(L) <= Cardinality(E)
      BY <2>2, <2>3, ImageSize
    <2>5. Cardinality(L) \in Nat /\ Cardinality(L) <= SetlistCap
      BY <1>2, <2>3, <2>4, Sizes
    <2> QED
      BY <2>5 DEF L
  <1>5. ASSUME NEW edges, Cardinality(edges) \in Nat, Cardinality(edges) <= SetlistCap, NEW tm,
               edges # {} \/ tm # NoVal
        PROVE  Sound(Router("setlist", <<>>, edges, tm))
    <2> DEFINE x == Router("setlist", <<>>, edges, tm)
    <2>1. x.kind = "setlist" /\ x.pfx = <<>> /\ x.edges = edges /\ x.term = tm
      BY RouterFields
    <2> HIDE DEF x
    <2>2. Roomy(x)
      BY <1>5, <2>1, RoomyIs, EmptyPath, Sizes
    <2>3. Sound(x)
      BY <1>5, <2>1, <2>2 DEF Sound, Alive
    <2> QED
      BY <2>3 DEF x
  <1>6. Sound(top)
    <2>1. his # {} \/ nd.term # NoVal
      BY <1>1 DEF Alive
    <2> HIDE DEF his
    <2> QED
      BY <1>3, <1>5, <2>1
  <1>7. AllSound(group)
    <2>1. ASSUME NEW q \in {slot \o h : h \in his}
          PROVE  Sound(Router("setlist", <<>>, los(q), NoVal))
      <3>1. PICK e \in nd.edges : q = slot \o Front(e, 1)
        OBVIOUS
      <3>2. e \in mine(q)
        BY <3>1
      <3>3. los(q) # {}
        BY <3>2
      <3> DEFINE L == los(q)
      <3>4. Cardinality(L) \in Nat /\ Cardinality(L) <= SetlistCap /\ L # {}
        BY <1>4, <3>3
      <3> HIDE DEF L
      <3>5. Sound(Router("setlist", <<>>, L, NoVal))
        BY <1>5, <3>4
      <3> QED
        BY <3>5 DEF L
    <2> HIDE DEF los, his
    <2> QED
      BY <2>1 DEF AllSound
  <1>8. AllSound(t)
    <2> HIDE DEF top
    <2> QED
      BY <1>6, SoundIsBut, SoundUpd
  <1>9. RestrideTree = Over(t, group)
    BY DEF RestrideTree
  <1> HIDE DEF t, group
  <1> QED
    BY <1>7, <1>8, <1>9, SoundOver

LEMMA FuseSound ==
  ASSUME NEW t, TreeOK(t), AllSound(t), NEW p \in DOMAIN t, Fusable(t, p)
  PROVE  AllSound(FuseTree(t, p))
  <1> DEFINE G == Grandedges(t, p)
             x == Router("u16", <<>>, G, t[p].term)
             d == Drop(t, Children(t, p))
  <1>1. FuseTree(t, p) = Upd(d, p, x)
    BY DEF FuseTree
  <1>2. /\ t[p].kind = "setlist" /\ t[p].pfx = <<>> /\ t[p].edges # {}
        /\ Cardinality(G) <= FuseThresh /\ p \in Path
    BY DEF Fusable, TreeOK
  <1>3. x.kind = "u16" /\ x.edges = G
    BY DEF Router
  <1>4. NodeOK(x)
    <2> DEFINE u == FuseTree(t, p)
    <2>1. TreeOK(u)
      BY FuseOK
    <2>2. p \in DOMAIN u /\ u[p] = x
      BY <1>1 DEF Upd
    <2> HIDE DEF u, x
    <2> QED
      BY <2>1, <2>2 DEF TreeOK
  <1>5. Cardinality(G) \in Nat
    <2>1. x.kind \in RouterKinds
      BY <1>3 DEF RouterKinds
    <2> HIDE DEF x
    <2>2. IsFiniteSet(x.edges)
      BY <1>4, <2>1, EdgesFinite
    <2> QED
      BY <1>3, <2>2, FS_CardinalityType
  <1>6. G # {}
    <2>1. PICK e \in t[p].edges : TRUE
      BY <1>2
    <2>2. At(t, p) = p
      BY <1>2, ConcatEmpty DEF At
    <2>3. p \o e \in Children(t, p)
      BY <1>2, <2>2 DEF Children, IsLeaf, IsPn, IsRouter, RouterKinds
    <2>4. p \o e \in DOMAIN t /\ t[p \o e].kind \in RouterKinds /\ t[p \o e].term = NoVal
      BY <2>3 DEF Fusable, Absorbable
    <2>5. t[p \o e].edges # {}
      BY <2>4 DEF AllSound, Sound, Alive
    <2>6. PICK f \in t[p \o e].edges : TRUE
      BY <2>5
    <2>7. e \o f \in G
      BY <2>6 DEF Grandedges
    <2> QED
      BY <2>7
  <1>7. Sound(x)
    <2> HIDE DEF x, G
    <2>1. Roomy(x)
      BY <1>2, <1>3, <1>5, RoomyIs, Sizes
    <2> QED
      BY <1>3, <1>6, <2>1 DEF Sound, Alive
  <1>8. AllSound(d)
    BY SoundDrop
  <1> HIDE DEF x, d
  <1> QED
    BY <1>1, <1>7, <1>8, SoundIsBut, SoundUpd

LEMMA CollapseSound ==
  ASSUME NEW t, TreeOK(t), AllSound(t), NEW p \in DOMAIN t, t[p].kind \in RouterKinds,
         t[p].edges # {}
  PROVE  AllSound(CollapseTree(t, p))
  <1> DEFINE e   == CHOOSE x \in t[p].edges : TRUE
             c   == At(t, p) \o e
             pfx == t[p].pfx \o e
  <1>1. p \in Path /\ t[p].pfx \in Path /\ e \in Path
    <2>1. e \in t[p].edges
      OBVIOUS
    <2> QED
      BY <2>1, NodeFields DEF TreeOK
  <1>2. pfx \in Path
    BY <1>1, ConcatFacts
  <1>3. CASE c \in DOMAIN t /\ t[c].kind = "setlist" /\ Len(t[c].pfx) + Len(pfx) <= PrefixCap
    <2>1. /\ t[c] \in RouterNode /\ t[c].pfx \in Path /\ NodeOK(t[c]) /\ Sound(t[c])
          /\ t[c].kind \in RouterKinds
      BY <1>3, NodeFields DEF TreeOK, AllSound, RouterKinds
    <2> DEFINE z == pfx \o t[c].pfx
               x == [t[c] EXCEPT !.pfx = z]
    <2>2. CollapseTree(t, p) = Upd(Drop(t, {c}), p, x)
      BY <1>3 DEF CollapseTree
    <2>3. z \in Path /\ Len(z) = Len(pfx) + Len(t[c].pfx) /\ Len(pfx) \in Nat /\ Len(t[c].pfx) \in Nat
      <3> HIDE DEF pfx, c
      <3> QED
        BY <1>2, <2>1, ConcatFacts, PathFacts
    <2>4. Len(z) <= PrefixCap
      <3> HIDE DEF pfx, c, z
      <3> QED
        BY <1>3, <2>3
    <2> HIDE DEF z, c
    <2>5. x = Router(t[c].kind, z, t[c].edges, t[c].term)
      BY <2>1, RouterIs
    <2>6. x.kind = "setlist" /\ x.pfx = z /\ x.edges = t[c].edges /\ x.term = t[c].term
      BY <1>3, <2>5 DEF Router
    <2> HIDE DEF x
    <2>7. Sound(x)
      <3>1. Roomy(t[c]) /\ Alive(t[c])
        BY <2>1 DEF Sound
      <3>2. Cardinality(t[c].edges) <= SetlistCap
        BY <1>3, <3>1, RoomyIs
      <3>3. Roomy(x)
        BY <2>4, <2>6, <3>2, RoomyIs
      <3> QED
        BY <1>3, <2>6, <3>1, <3>3 DEF Sound, Alive
    <2>8. SoundBut(Drop(t, {c}), p)
      BY SoundDrop, SoundIsBut
    <2> QED
      BY <2>2, <2>7, <2>8, SoundUpd
  <1>4. CASE ~(c \in DOMAIN t /\ t[c].kind = "setlist" /\ Len(t[c].pfx) + Len(pfx) <= PrefixCap)
    <2>1. CollapseTree(t, p) = MakePrefix(t, p, pfx)
      BY <1>4 DEF CollapseTree
    <2> HIDE DEF pfx
    <2> QED
      BY <1>1, <1>2, <2>1, MakePrefixSound
  <1> QED
    BY <1>3, <1>4

-----------------------------------------------------------------------------
(* insert_.                                                                *)

LEMMA RestSound ==
  ASSUME pc' # "shrink", AllSound(tree')
  PROVE  Sounds'
  BY DEF Sounds

LEMMA FinishSound ==
  ASSUME NEW r, Finish(r), AllSound(tree')
  PROVE  Sounds'
  BY RestSound DEF Finish

LEMMA BusySound ==
  ASSUME Sounds, pc # "shrink"
  PROVE  AllSound(tree)
  BY DEF Sounds

LEMMA ThrowSound ==
  ASSUME Sounds, pc # "shrink", Throw
  PROVE  Sounds'
  BY BusySound, FinishSound DEF Throw

LEMMA InitSound == Init => Sounds
  BY DEF Init, Sounds, AllSound

LEMMA CallSound ==
  ASSUME Sounds, NEW op \in Ops, NEW k \in Keys, NEW v \in Values, Call(op, k, v)
  PROVE  Sounds'
  BY BusySound, RestSound DEF Call, Entry, Ops

\* A value is given to a leaf or to a router.
LEMMA ValSound ==
  ASSUME NEW t, TreeOK(t), AllSound(t), NEW p \in DOMAIN t, t[p].kind = "leaf", NEW v
  PROVE  AllSound([t EXCEPT ![p].val = v])
  <1> DEFINE u == [t EXCEPT ![p].val = v]
  <1>1. NodeOK(t[p])
    BY DEF TreeOK
  <1>2. /\ DOMAIN u = DOMAIN t /\ u[p] = [t[p] EXCEPT !.val = v]
        /\ \A q \in DOMAIN t \ {p} : u[q] = t[q]
    OBVIOUS
  <1>3. u[p].kind = "leaf"
    BY <1>1, <1>2, LeafEdits
  <1> HIDE DEF u
  <1>4. AllSound(u)
    BY <1>2, <1>3, SoundSame
  <1> QED
    BY <1>4 DEF u

LEMMA TermSound ==
  ASSUME NEW t, TreeOK(t), AllSound(t), NEW p \in DOMAIN t, t[p].kind \in RouterKinds, NEW tm
  PROVE  /\ SoundBut([t EXCEPT ![p].term = tm], p)
         /\ tm # NoVal => AllSound([t EXCEPT ![p].term = tm])
  <1> DEFINE u == [t EXCEPT ![p].term = tm]
  <1>1. t[p] \in RouterNode /\ NodeOK(t[p]) /\ Roomy(t[p]) /\ t[p].pfx \in Path
    BY NodeFields DEF TreeOK, AllSound, Sound
  <1>2. u[p] = Router(t[p].kind, t[p].pfx, t[p].edges, tm)
    BY <1>1, RouterIs
  <1>3. DOMAIN u = DOMAIN t /\ \A q \in DOMAIN t \ {p} : u[q] = t[q]
    OBVIOUS
  <1> HIDE DEF u
  <1>4. u[p].kind = t[p].kind /\ u[p].pfx = t[p].pfx /\ u[p].edges = t[p].edges /\ u[p].term = tm
    BY <1>2 DEF Router
  <1>5. Roomy(u[p])
    <2>1. Len(t[p].pfx) <= Len(t[p].pfx)
      BY <1>1, PathFacts
    <2> QED
      BY <1>1, <1>4, <2>1, RoomLeft
  <1>6. SoundBut(u, p) /\ (Alive(u[p]) => AllSound(u))
    BY <1>3, <1>5, SoundIsBut, SoundEdit
  <1>7. tm # NoVal => Alive(u[p])
    BY <1>4 DEF Alive
  <1> QED
    BY <1>6, <1>7 DEF u

LEMMA PutNullSound ==
  ASSUME IInv, Sounds, PutNull
  PROVE  Sounds'
  <1>1. AllSound(tree) /\ pc # "shrink"
    BY BusySound DEF PutNull, Putting
  <1>2. CASE Throw
    BY <1>1, <1>2, ThrowSound
  <1>3. CASE tree' = Upd(tree, slot, Leaf(R, req.val)) /\ Finish("true")
    <2>1. Sound(Leaf(R, req.val))
      BY LeafSound DEF Leaf
    <2>2. AllSound(Upd(tree, slot, Leaf(R, req.val)))
      BY <1>1, <2>1, SoundIsBut, SoundUpd
    <2> QED
      BY <1>3, <2>2, FinishSound
  <1> QED
    BY <1>2, <1>3 DEF PutNull

LEMMA PutSameLeafSound ==
  ASSUME IInv, Sounds, PutSameLeaf
  PROVE  Sounds'
  <1>1. AllSound(tree) /\ slot \in DOMAIN tree /\ tree[slot].kind = "leaf" /\ Finish("false")
    BY BusySound DEF PutSameLeaf, nd, Putting
  <1>2. AllSound([tree EXCEPT ![slot].val = req.val])
    BY <1>1, StateFacts, ValSound
  <1>3. tree' = [tree EXCEPT ![slot].val = req.val] \/ tree' = tree
    BY DEF PutSameLeaf
  <1>4. AllSound(tree')
    BY <1>1, <1>2, <1>3
  <1> QED
    BY <1>1, <1>4, FinishSound

LEMMA PutSplitLeafSound ==
  ASSUME IInv, Sounds, PutSplitLeaf
  PROVE  Sounds'
  <1>1. AllSound(tree) /\ pc # "shrink"
    BY BusySound DEF PutSplitLeaf, Putting
  <1>2. CASE Throw
    BY <1>1, <1>2, ThrowSound
  <1>3. ASSUME NEW fits \in BOOLEAN, tree' = SplitLeafTree(fits),
               pc' = "fuse" \/ Finish("true")
        PROVE  Sounds'
    <2>1. slot \in DOMAIN tree /\ nd.kind = "leaf" /\ R \in Path
      BY PutFacts DEF PutSplitLeaf
    <2>2. AllSound(tree')
      BY <1>1, <1>3, <2>1, StateFacts, SplitLeafSound
    <2> QED
      BY <1>3, <2>2, FinishSound, RestSound
  <1> QED
    BY <1>2, <1>3 DEF PutSplitLeaf

LEMMA PutLazyFuseSound ==
  ASSUME IInv, Sounds, PutLazyFuse
  PROVE  Sounds'
  <1> DEFINE pfx == tree[slot].pfx
  <1>1. /\ slot \in DOMAIN tree /\ tree[slot].kind = "pn" /\ pc' = "put"
        /\ tree' = MakePrefix(tree, slot, pfx) /\ AllSound(tree)
    BY BusySound DEF PutLazyFuse, Putting, nd
  <1>2. slot \in Path /\ pfx \in Path
    BY <1>1, StateFacts, NodeFields DEF TreeOK
  <1> HIDE DEF pfx
  <1>3. AllSound(tree')
    BY <1>1, <1>2, StateFacts, MakePrefixSound
  <1> QED
    BY <1>1, <1>3, RestSound

LEMMA PutSplitPrefixSound ==
  ASSUME IInv, Sounds, PutSplitPrefix
  PROVE  Sounds'
  <1>1. AllSound(tree) /\ pc # "shrink"
    BY BusySound DEF PutSplitPrefix, Putting
  <1>2. CASE Throw
    BY <1>1, <1>2, ThrowSound
  <1>3. ASSUME NEW fits \in BOOLEAN, tree' = SplitPrefixTree(fits), Finish("true")
        PROVE  Sounds'
    <2>1. slot \in DOMAIN tree /\ nd.kind # "leaf" /\ R \in Path /\ ~StartsWith(R, nd.pfx)
      BY PutFacts DEF PutSplitPrefix
    <2>2. AllSound(tree')
      BY <1>1, <1>3, <2>1, StateFacts, SplitPrefixSound
    <2> QED
      BY <1>3, <2>2, FinishSound
  <1> QED
    BY <1>2, <1>3 DEF PutSplitPrefix

LEMMA PutTermSound ==
  ASSUME IInv, Sounds, PutTerm
  PROVE  Sounds'
  <1>1. AllSound(tree) /\ pc # "shrink" /\ slot \in DOMAIN tree /\ tree[slot].kind \in RouterKinds
    BY BusySound DEF PutTerm, Putting, nd
  <1>2. CASE Throw
    BY <1>1, <1>2, ThrowSound
  <1>3. CASE ~Throw
    <2>1. req.val # NoVal
      BY StateFacts, NoValAssumption
    <2>2. AllSound([tree EXCEPT ![slot].term = req.val])
      BY <1>1, <2>1, StateFacts, TermSound
    <2>3. (tree' = [tree EXCEPT ![slot].term = req.val] \/ tree' = tree)
          /\ (Finish("true") \/ Finish("false"))
      BY <1>3 DEF PutTerm
    <2>4. AllSound(tree')
      BY <1>1, <2>2, <2>3
    <2> QED
      BY <2>3, <2>4, FinishSound
  <1> QED
    BY <1>2, <1>3

LEMMA PutDescendSound ==
  ASSUME IInv, Sounds, PutDescend
  PROVE  Sounds'
  <1> DEFINE S == {NextSlot} \cap InlineKids(tree, slot)
  <1>1. AllSound(tree) /\ pc # "shrink"
    BY BusySound DEF PutDescend, Putting
  <1>2. CASE Throw
    BY <1>1, <1>2, ThrowSound
  <1>3. CASE tree' = Externalize(tree, S) /\ pc' = "put"
    <2>1. S \in SUBSET InlineKids(tree, slot)
      OBVIOUS
    <2> HIDE DEF S
    <2>2. AllSound(tree')
      BY <1>1, <1>3, <2>1, StateFacts, ExternalizeSound
    <2> QED
      BY <1>3, <2>2, RestSound
  <1> QED
    BY <1>2, <1>3 DEF PutDescend, NextSlot, Putting

LEMMA PutExternalizeAllSound ==
  ASSUME IInv, Sounds, PutExternalizeAll
  PROVE  Sounds'
  <1>1. AllSound(tree) /\ pc = "put"
    BY BusySound DEF PutExternalizeAll, Putting
  <1>2. ASSUME NEW S \in SUBSET InlineKids(tree, slot), tree' = Externalize(tree, S)
        PROVE  AllSound(tree')
    BY <1>1, <1>2, StateFacts, ExternalizeSound
  <1>3. CASE tree' = Externalize(tree, InlineKids(tree, slot)) /\ pc' = pc
    BY <1>1, <1>2, <1>3, RestSound
  <1>4. ASSUME NEW c \in InlineKids(tree, slot), Finish("throw"),
               tree' = Externalize(tree, {d \in InlineKids(tree, slot) : d[Len(d)] < c[Len(c)]})
        PROVE  Sounds'
    <2>1. AllSound(tree')
      BY <1>2, <1>4
    <2> QED
      BY <1>4, <2>1, FinishSound
  <1> QED
    BY <1>3, <1>4 DEF PutExternalizeAll

LEMMA PutAddSound ==
  ASSUME IInv, Sounds, PutAdd
  PROVE  Sounds'
  <1> DEFINE suf == Rest(req.key, here \o Edge)
  <1>1. /\ AllSound(tree) /\ pc # "shrink" /\ slot \in DOMAIN tree /\ nd = tree[slot]
        /\ tree[slot].kind \in RouterKinds /\ tree[slot].kind # "u16"
    BY BusySound DEF PutAdd, Putting, nd, NoChild
  <1>2. CASE Throw
    BY <1>1, <1>2, ThrowSound
  <1>3. CASE Fits(nd, Edge[1]) /\ tree' = Link(tree, slot, Edge, suf) /\ Finish("true")
    <2> HIDE DEF suf
    <2>1. AllSound(Link(tree, slot, Edge, suf))
      BY <1>1, <1>3, StateFacts, LinkSound
    <2> QED
      BY <1>3, <2>1, FinishSound
  <1>4. CASE pc' = "grow" /\ UNCHANGED tree
    BY <1>1, <1>4, RestSound
  <1> QED
    BY <1>2, <1>3, <1>4 DEF PutAdd

LEMMA PutAddStemSound ==
  ASSUME IInv, Sounds, PutAddStem
  PROVE  Sounds'
  <1> DEFINE suf == Rest(req.key, here \o Edge)
  <1>1. /\ AllSound(tree) /\ pc # "shrink" /\ slot \in DOMAIN tree
        /\ tree[slot].kind \in RouterKinds /\ tree[slot].kind = "u16"
        /\ Cardinality(tree[slot].edges) < U16Cap
    BY BusySound DEF PutAddStem, Putting, nd, NoChild
  <1>2. CASE Throw
    BY <1>1, <1>2, ThrowSound
  <1>3. CASE tree' = Link(tree, slot, Edge, suf) /\ Finish("true")
    <2> HIDE DEF suf
    <2>1. AllSound(Link(tree, slot, Edge, suf))
      BY <1>1, StateFacts, LinkSound
    <2> QED
      BY <1>3, <2>1, FinishSound
  <1> QED
    BY <1>2, <1>3 DEF PutAddStem

LEMMA PutRestrideSound ==
  ASSUME IInv, Sounds, PutRestride
  PROVE  Sounds'
  <1>1. AllSound(tree) /\ pc = "put" /\ slot \in DOMAIN tree /\ nd.kind = "u16"
    BY BusySound DEF PutRestride, Putting, NoChild
  <1>2. CASE Throw
    BY <1>1, <1>2, ThrowSound
  <1>3. CASE tree' = RestrideTree /\ pc' = pc
    <2>1. AllSound(tree')
      BY <1>1, <1>3, StateFacts, RestrideSound
    <2> QED
      BY <1>1, <1>3, <2>1, RestSound
  <1> QED
    BY <1>2, <1>3 DEF PutRestride

-----------------------------------------------------------------------------
(* grow_router_ and try_fuse_parent.                                       *)

LEMMA GrowLiftSound ==
  ASSUME IInv, Sounds, GrowLift
  PROVE  Sounds'
  <1> DEFINE b == At(tree, gnode)
             x == [gnd EXCEPT !.pfx = <<>>]
             u == [q \in {gnode, b} |-> IF q = gnode THEN Pn(gnd.pfx) ELSE x]
  <1>1. AllSound(tree) /\ pc = "grow"
    BY BusySound DEF GrowLift
  <1>2. CASE Throw
    BY <1>1, <1>2, ThrowSound
  <1>3. CASE tree' = Over(tree, u) /\ pc' = pc
    <2>1. /\ gnode \in DOMAIN tree /\ gnd = tree[gnode] /\ NodeOK(gnd) /\ gnd \in RouterNode
          /\ gnd.kind \in RouterKinds /\ gnd.pfx \in Path /\ Sound(gnd)
      BY <1>1, GrowFacts DEF gnd, AllSound
    <2>2. x = Router(gnd.kind, <<>>, gnd.edges, gnd.term)
      BY <2>1, RouterIs
    <2>3. x.kind = gnd.kind /\ x.pfx = <<>> /\ x.edges = gnd.edges /\ x.term = gnd.term
      BY <2>2 DEF Router
    <2> HIDE DEF x
    <2>4. Roomy(x)
      <3>1. Len(<<>>) <= Len(gnd.pfx) /\ <<>> \in Path
        BY <2>1, EmptyPath, PathFacts
      <3>2. x.pfx \in Path /\ Len(x.pfx) <= Len(gnd.pfx)
        BY <2>3, <3>1
      <3> QED
        BY <2>1, <2>3, <3>2, RoomLeft DEF Sound
    <2>5. Sound(x)
      BY <2>1, <2>3, <2>4 DEF Sound, Alive
    <2>6. Sound(Pn(gnd.pfx))
      BY LeafSound DEF Pn
    <2>7. AllSound(u)
      BY <2>5, <2>6 DEF AllSound
    <2> HIDE DEF u
    <2>8. AllSound(tree')
      BY <1>1, <1>3, <2>7, SoundOver
    <2> QED
      BY <1>1, <1>3, <2>8, RestSound
  <1> QED
    BY <1>2, <1>3 DEF GrowLift

LEMMA GrowWidenSound ==
  ASSUME IInv, Sounds, GrowWiden
  PROVE  Sounds'
  <1> DEFINE u == [tree EXCEPT ![gnode].kind = WidenTo(@)]
  <1>1. AllSound(tree) /\ pc = "grow"
    BY BusySound DEF GrowWiden
  <1>2. CASE Throw
    BY <1>1, <1>2, ThrowSound
  <1>3. CASE tree' = u /\ pc' = pc
    <2>1. /\ gnode \in DOMAIN tree /\ gnd = tree[gnode] /\ NodeOK(gnd) /\ gnd \in RouterNode
          /\ gnd.kind \in RouterKinds \ {"u16"} /\ Sound(gnd)
      BY <1>1, GrowFacts DEF gnd, AllSound
    <2>2. gnd.kind \in {"setlist"} \cup CnodeKinds
      BY <2>1, FitsIs DEF GrowWiden, RouterKinds
    <2> DEFINE k == WidenTo(gnd.kind)
    <2>3. u = [tree EXCEPT ![gnode].kind = k]
      BY DEF gnd
    <2>4. u[gnode] = Router(k, gnd.pfx, gnd.edges, gnd.term)
      <3> HIDE DEF u, k
      <3> QED
        BY <2>1, <2>3, RouterIs
    <2>5. DOMAIN u = DOMAIN tree /\ \A q \in DOMAIN tree \ {gnode} : u[q] = tree[q]
      OBVIOUS
    <2> HIDE DEF u
    <2>6. u[gnode].kind = k /\ u[gnode].edges = gnd.edges /\ u[gnode].term = gnd.term
      BY <2>4 DEF Router
    <2>7. Roomy(u[gnode])
      BY <2>1, <2>2, <2>6, RoomWidened DEF Sound
    <2>8. Alive(u[gnode])
      BY <2>1, <2>6 DEF Sound, Alive
    <2>9. AllSound(u)
      BY <1>1, <2>5, <2>7, <2>8, SoundIsBut, SoundEdit
    <2> QED
      BY <1>1, <1>3, <2>9, RestSound
  <1> QED
    BY <1>2, <1>3 DEF GrowWiden

LEMMA GrowLinkSound ==
  ASSUME IInv, Sounds, GrowLink
  PROVE  Sounds'
  <1> DEFINE suf == Rest(req.key, At(tree, gnode) \o GEdge)
             t   == Link(tree, gnode, GEdge, suf)
             pfx == tree[slot].pfx
  <1>1. AllSound(tree) /\ pc = "grow" /\ Finish("true")
    BY BusySound DEF GrowLink
  <1>2. /\ gnode \in DOMAIN tree /\ tree[gnode].kind \in RouterKinds \ {"u16"}
        /\ Fits(tree[gnode], GEdge[1])
        /\ gnode # slot => slot \in DOMAIN tree /\ IsPn(tree, slot)
    BY <1>1, GrowFacts DEF GrowLink, gnd
  <1>3. TreeOK(t) /\ AllSound(t)
    <2>1. GEdge \in Path /\ Len(GEdge) = StemLen(tree[gnode].kind) /\ suf \in Path
      BY <1>1, <1>2, GrowEdgeOK DEF StemLen
    <2> HIDE DEF suf
    <2>2. TreeOK(t)
      BY <1>2, <2>1, StateFacts, LinkOK
    <2>3. AllSound(t)
      BY <1>1, <1>2, StateFacts, LinkSound
    <2> QED
      BY <2>2, <2>3
  <1>4. gnode # slot => AllSound(MakePrefix(t, slot, pfx))
    <2> SUFFICES ASSUME gnode # slot
                 PROVE  AllSound(MakePrefix(t, slot, pfx))
      OBVIOUS
    <2>1. slot \in Path /\ pfx \in Path
      BY <1>2, StateFacts, NodeFields DEF TreeOK, IsPn
    <2> HIDE DEF t, pfx
    <2> QED
      BY <1>3, <2>1, MakePrefixSound
  <1>5. AllSound(tree')
    BY <1>3, <1>4 DEF GrowLink
  <1> QED
    BY <1>1, <1>5, FinishSound

LEMMA FuseParentSound ==
  ASSUME IInv, Sounds, FuseParent
  PROVE  Sounds'
  <1>1. pslot \in DOMAIN tree /\ AllSound(tree)
    BY StateFacts, BusySound DEF FuseParent, PutLive
  <1>2. Fusable(tree, pslot) => AllSound(FuseTree(tree, pslot))
    BY <1>1, StateFacts, FuseSound
  <1>3. AllSound(tree') /\ Finish(ret)
    BY <1>1, <1>2 DEF FuseParent
  <1> QED
    BY <1>3, FinishSound

-----------------------------------------------------------------------------
(* find, update and clear.                                                 *)

LEMMA GetDescendSound ==
  ASSUME Sounds, GetDescend
  PROVE  Sounds'
  BY BusySound, RestSound DEF GetDescend, Getting

LEMMA GetMissSound ==
  ASSUME Sounds, GetMiss
  PROVE  Sounds'
  BY BusySound, FinishSound DEF GetMiss, Getting

LEMMA GetHitSound ==
  ASSUME IInv, Sounds, GetHit
  PROVE  Sounds'
  <1>1. /\ slot \in DOMAIN tree /\ (tree[slot].kind = "leaf" \/ tree[slot].kind \in RouterKinds)
        /\ AllSound(tree) /\ req.val # NoVal
    BY BusySound, StateFacts, NoValAssumption DEF GetHit, Getting, Holds, nd
  <1>2. tree[slot].kind = "leaf" => AllSound([tree EXCEPT ![slot].val = req.val])
    BY <1>1, StateFacts, ValSound
  <1>3. tree[slot].kind \in RouterKinds => AllSound([tree EXCEPT ![slot].term = req.val])
    BY <1>1, StateFacts, TermSound
  <1>4. \/ tree' = tree
        \/ tree[slot].kind = "leaf" /\ tree' = [tree EXCEPT ![slot].val = req.val]
        \/ tree[slot].kind # "leaf" /\ tree' = [tree EXCEPT ![slot].term = req.val]
    BY DEF GetHit, nd
  <1>5. AllSound(tree')
    BY <1>1, <1>2, <1>3, <1>4
  <1>6. \E r : Finish(r)
    BY DEF GetHit
  <1> QED
    BY <1>5, <1>6, FinishSound

LEMMA ClearSound ==
  ASSUME Clear
  PROVE  Sounds'
  <1>1. AllSound(tree')
    BY DEF Clear, AllSound
  <1> QED
    BY <1>1, FinishSound DEF Clear

-----------------------------------------------------------------------------
(* remove_bytes_, rm_unwind_ and rm_shrink_.                               *)

LEMMA FreedSound ==
  ASSUME NEW i, Freed(i), AllSound(tree')
  PROVE  Sounds'
  BY FinishSound, RestSound DEF Freed

\* A remove that took something from the router at slot shrinks it next.
LEMMA ToShrinkSound ==
  ASSUME IInv, Removing, ToShrink, SoundBut(tree', slot)
  PROVE  Sounds'
  <1>1. pc' = "shrink" /\ lp' = PathAt(n - 1)
    BY DEF ToShrink, lp, PathAt
  <1>2. PathAt(n - 1) = slot
    BY RemFacts
  <1> QED
    BY <1>1, <1>2 DEF Sounds

\* Edges are taken from a router.
LEMMA CutSound ==
  ASSUME NEW t, TreeOK(t), NEW p \in DOMAIN t, AllSound(t), t[p].kind \in RouterKinds, NEW e
  PROVE  SoundBut([t EXCEPT ![p].edges = @ \ {e}], p)
  <1> DEFINE E == t[p].edges \ {e}
             u == [t EXCEPT ![p].edges = @ \ {e}]
  <1>1. t[p] \in RouterNode /\ NodeOK(t[p]) /\ Roomy(t[p]) /\ t[p].pfx \in Path
    BY NodeFields DEF TreeOK, AllSound, Sound
  <1>2. DOMAIN u = DOMAIN t /\ (\A q \in DOMAIN t \ {p} : u[q] = t[q])
        /\ u[p] = [t[p] EXCEPT !.edges = E]
    OBVIOUS
  <1> HIDE DEF u
  <1>3. u[p].kind = t[p].kind /\ u[p].pfx = t[p].pfx /\ u[p].edges = E
    <2> HIDE DEF E
    <2>1. u[p] = Router(t[p].kind, t[p].pfx, E, t[p].term)
      BY <1>1, <1>2, RouterIs
    <2> QED
      BY <2>1 DEF Router
  <1>4. Len(t[p].pfx) <= Len(t[p].pfx) /\ E \in SUBSET t[p].edges
    BY <1>1, PathFacts
  <1>5. Roomy(u[p])
    BY <1>1, <1>3, <1>4, RoomLeft
  <1>6. SoundBut(u, p)
    BY <1>2, <1>5, SoundIsBut, SoundEdit
  <1> QED
    BY <1>6 DEF u

LEMMA RemDescendSound ==
  ASSUME Sounds, RemDescend
  PROVE  Sounds'
  BY BusySound, RestSound DEF RemDescend, Removing

LEMMA RemMissSound ==
  ASSUME Sounds, RemMiss
  PROVE  Sounds'
  BY BusySound, FinishSound DEF RemMiss, Removing

LEMMA RemLeafSound ==
  ASSUME Sounds, RemLeaf
  PROVE  Sounds'
  BY BusySound, SoundDrop, FreedSound DEF RemLeaf, Removing

LEMMA RemTermSound ==
  ASSUME IInv, Sounds, RemTerm
  PROVE  Sounds'
  <1>1. /\ slot \in DOMAIN tree /\ tree[slot].kind \in RouterKinds /\ Removing /\ ToShrink
        /\ tree' = [tree EXCEPT ![slot].term = NoVal] /\ AllSound(tree)
    BY BusySound DEF RemTerm, Removing, Holds, nd
  <1>2. SoundBut(tree', slot)
    BY <1>1, StateFacts, TermSound
  <1> QED
    BY <1>1, <1>2, ToShrinkSound

LEMMA RemInlineSound ==
  ASSUME IInv, Sounds, RemInline
  PROVE  Sounds'
  <1> DEFINE t == Drop(tree, {NextSlot})
             u == [t EXCEPT ![slot].edges = @ \ {Edge}]
  <1>1. /\ Removing /\ Passes /\ ToShrink /\ tree' = u /\ AllSound(tree)
        /\ NextSlot \in InlineKids(tree, slot)
    BY BusySound DEF RemInline, Removing
  <1>2. slot \in DOMAIN tree /\ tree[slot].kind = "setlist"
    BY <1>1 DEF InlineKids, Passes
  <1>3. slot # NextSlot
    <2>1. Len(slot) \in Nat /\ Len(NextSlot) \in Nat /\ Len(slot) < Len(NextSlot)
      BY <1>1, RemFacts, PassFacts, PathFacts
    <2> QED
      BY <2>1
  <1>4. TreeOK(t) /\ AllSound(t) /\ slot \in DOMAIN t /\ t[slot] = tree[slot]
    <2>1. TreeOK(t)
      BY StateFacts, DropOK
    <2>2. AllSound(t)
      BY <1>1, SoundDrop
    <2>3. slot \in DOMAIN t /\ t[slot] = tree[slot]
      BY <1>2, <1>3 DEF Drop
    <2> QED
      BY <2>1, <2>2, <2>3
  <1>5. t[slot].kind \in RouterKinds
    BY <1>2, <1>4 DEF RouterKinds
  <1> HIDE DEF t
  <1>6. SoundBut(u, slot)
    BY <1>4, <1>5, CutSound
  <1> HIDE DEF u
  <1> QED
    BY <1>1, <1>6, ToShrinkSound

LEMMA UnlinkPnSound ==
  ASSUME Sounds, UnlinkPn
  PROVE  Sounds'
  BY BusySound, SoundDrop, FreedSound DEF UnlinkPn

LEMMA UnlinkEdgeSound ==
  ASSUME IInv, Sounds, UnlinkEdge
  PROVE  Sounds'
  <1> DEFINE e == Rest(lvl[(j + 1) % RmLvn], At(tree, lp))
             u == [tree EXCEPT ![lp].edges = @ \ {e}]
  <1>1. /\ pc = "unlink" /\ pc' = "shrink" /\ tree' = u /\ lp' = lp /\ AllSound(tree)
        /\ lnd.kind # "pn" /\ lnd = tree[lp]
    BY BusySound DEF UnlinkEdge, lp, lnd
  <1>2. lp \in DOMAIN tree /\ tree[lp].kind \in RouterKinds
    BY <1>1, LevelFacts
  <1> HIDE DEF e
  <1>3. SoundBut(u, lp)
    BY <1>1, <1>2, StateFacts, CutSound
  <1> HIDE DEF u
  <1> QED
    BY <1>1, <1>3 DEF Sounds

LEMMA SurvivesSound ==
  ASSUME Survives, AllSound(tree')
  PROVE  Sounds'
  BY FinishSound DEF Survives

LEMMA ShrinkEmptySound ==
  ASSUME Sounds, ShrinkEmpty
  PROVE  Sounds'
  <1>1. SoundBut(tree, lp) /\ tree' = Drop(tree, {lp}) /\ Freed(j)
    BY DEF Sounds, ShrinkEmpty, Shrinking
  <1>2. AllSound(tree')
    BY <1>1, SoundDrop
  <1> QED
    BY <1>1, <1>2, FreedSound

\* A router that rm_shrink_ finds alive leaves the whole tree sound.
LEMMA AliveAgain ==
  ASSUME IInv, Sounds, Shrinking, Deg # 0 \/ lnd.term # NoVal
  PROVE  /\ AllSound(tree) /\ lp \in DOMAIN tree /\ lnd = tree[lp]
         /\ Deg # 0 => lnd.edges # {}
  <1>1. SoundBut(tree, lp) /\ lp \in DOMAIN tree /\ lnd = tree[lp]
    BY ShrinkFacts DEF Sounds, Shrinking, lnd
  <1>2. Deg # 0 => lnd.edges # {}
    BY FS_EmptySet DEF Deg
  <1>3. Alive(lnd)
    BY <1>2 DEF Alive
  <1>4. AllSound(tree)
    BY <1>1, <1>3 DEF SoundBut, AllSound, Sound
  <1> QED
    BY <1>1, <1>2, <1>4

LEMMA ShrinkToTermSound ==
  ASSUME IInv, Sounds, ShrinkToTerm
  PROVE  Sounds'
  <1> DEFINE value == Leaf(<<>>, lnd.term)
             x     == [q \in {lp, At(tree, lp)} |-> IF q = lp THEN Pn(lnd.pfx) ELSE value]
             u     == Over(tree, x)
             w     == Upd(tree, lp, value)
  <1>1. Survives /\ AllSound(tree)
    BY AliveAgain DEF ShrinkToTerm
  <1>2. Sound(value) /\ Sound(Pn(lnd.pfx))
    BY LeafSound DEF Leaf, Pn
  <1> HIDE DEF value
  <1>3. AllSound(w)
    BY <1>1, <1>2, SoundIsBut, SoundUpd
  <1>4. AllSound(x)
    BY <1>2 DEF AllSound
  <1> HIDE DEF x
  <1>5. AllSound(u)
    BY <1>1, <1>4, SoundOver
  <1>6. tree' = w \/ tree' = u \/ tree' = tree
    BY DEF ShrinkToTerm, value, x
  <1> HIDE DEF u, w
  <1>7. AllSound(tree')
    BY <1>1, <1>3, <1>5, <1>6
  <1> QED
    BY <1>1, <1>7, SurvivesSound

LEMMA ShrinkLoneSound ==
  ASSUME IInv, Sounds, ShrinkLone
  PROVE  Sounds'
  <1>1. Shrinking /\ Survives /\ tree' \in {tree, CollapseTree(tree, lp)} /\ Deg # 0
    BY DEF ShrinkLone
  <1>2. AllSound(tree) /\ lp \in DOMAIN tree /\ tree[lp].edges # {}
    BY <1>1, AliveAgain
  <1>3. tree[lp].kind \in RouterKinds
    BY <1>1, ShrinkFacts DEF lnd
  <1>4. AllSound(CollapseTree(tree, lp))
    BY <1>2, <1>3, StateFacts, CollapseSound
  <1>5. AllSound(tree')
    BY <1>1, <1>2, <1>4
  <1> QED
    BY <1>1, <1>5, SurvivesSound

LEMMA StandsAlive ==
  ASSUME IInv, Sounds, Shrinking, Stands
  PROVE  AllSound(tree)
  <1>1. Deg # 0
    BY DEF Stands
  <1> QED
    BY <1>1, AliveAgain

LEMMA ShrinkDewidenSound ==
  ASSUME IInv, Sounds, ShrinkDewiden
  PROVE  Sounds'
  <1> DEFINE u == [tree EXCEPT ![lp].kind = "setlist"]
  <1>1. /\ Shrinking /\ AllSound(tree) /\ lp \in DOMAIN tree /\ lnd = tree[lp]
        /\ lnd \in RouterNode /\ lnd.kind \in RouterKinds /\ lnd.pfx \in Path /\ NodeOK(lnd)
    BY StandsAlive, ShrinkFacts, StateFacts DEF ShrinkDewiden, lnd, TreeOK
  <1>2. CASE tree' = tree /\ Survives
    BY <1>1, <1>2, SurvivesSound
  <1>3. CASE tree' = u /\ UNCHANGED <<pc, lvl, j>>
    <2>1. DOMAIN u = DOMAIN tree /\ (\A q \in DOMAIN tree \ {lp} : u[q] = tree[q])
          /\ u[lp] = [tree[lp] EXCEPT !.kind = "setlist"]
      BY <1>1
    <2> HIDE DEF u
    <2>2. u[lp] = Router("setlist", lnd.pfx, lnd.edges, lnd.term)
      BY <1>1, <2>1, RouterIs
    <2>3. u[lp].kind = "setlist" /\ u[lp].pfx = lnd.pfx /\ u[lp].edges = lnd.edges
      BY <2>2 DEF Router
    <2>4. Len(lnd.pfx) <= PrefixCap
      <3>1. CASE lnd.kind = "pfxd"
        BY <3>1 DEF ShrinkDewiden, Dewidens
      <3>2. CASE lnd.kind # "pfxd"
        <4>1. lnd.kind \notin {"setlist", "pfxd"}
          BY <3>2 DEF ShrinkDewiden, Dewidens, CnodeKinds
        <4>2. lnd.pfx = <<>>
          BY <1>1, <4>1, NodeFields
        <4> QED
          BY <4>2, EmptyPath, Sizes
      <3> QED
        BY <3>1, <3>2
    <2>5. Cardinality(lnd.edges) <= ShrinkMax /\ Cardinality(lnd.edges) \in Nat
      <3>1. IsFiniteSet(lnd.edges)
        BY <1>1, EdgesFinite
      <3> QED
        BY <3>1, FS_CardinalityType DEF ShrinkDewiden, Dewidens, Deg
    <2>6. Roomy(u[lp])
      BY <1>1, <2>3, <2>4, <2>5, Sizes, RoomySetlist
    <2>7. SoundBut(u, lp)
      BY <1>1, <2>1, <2>6, SoundIsBut, SoundEdit
    <2>8. pc' = "shrink" /\ lp' = lp
      BY <1>1, <1>3 DEF Shrinking, lp
    <2> QED
      BY <1>3, <2>7, <2>8 DEF Sounds
  <1> QED
    BY <1>2, <1>3 DEF ShrinkDewiden

LEMMA ShrinkStandsSound ==
  ASSUME IInv, Sounds, ShrinkStands
  PROVE  Sounds'
  BY StandsAlive, SurvivesSound DEF ShrinkStands

-----------------------------------------------------------------------------
(* Every step.                                                             *)

LEMMA StutterSound ==
  ASSUME Sounds, UNCHANGED vars
  PROVE  Sounds'
  BY DEF vars, Sounds, lp

LEMMA PutStepSound ==
  ASSUME IInv, Sounds, Put
  PROVE  Sounds'
  BY PutNullSound, PutSameLeafSound, PutSplitLeafSound, PutLazyFuseSound, PutSplitPrefixSound,
     PutTermSound, PutDescendSound, PutExternalizeAllSound, PutAddSound, PutAddStemSound,
     PutRestrideSound, GrowLiftSound, GrowWidenSound, GrowLinkSound, FuseParentSound
  DEF Put

LEMMA RemStepSound ==
  ASSUME IInv, Sounds, Rem
  PROVE  Sounds'
  BY RemDescendSound, RemMissSound, RemLeafSound, RemTermSound, RemInlineSound, UnlinkPnSound,
     UnlinkEdgeSound, ShrinkEmptySound, ShrinkToTermSound, ShrinkLoneSound, ShrinkDewidenSound,
     ShrinkStandsSound
  DEF Rem

LEMMA StepSound ==
  ASSUME IInv, Sounds, Next
  PROVE  Sounds'
  BY PutStepSound, GetDescendSound, GetMissSound, GetHitSound, RemStepSound, ClearSound, CallSound
  DEF Next, Step, Get

LEMMA SoundHolds == Spec => [](IInv /\ Sounds)
  <1>1. Init => IInv /\ Sounds
    BY InitOK, InitSound
  <1>2. IInv /\ Sounds /\ [Next]_vars => IInv' /\ Sounds'
    BY StepOK, StutterOK, StepSound, StutterSound
  <1> QED
    BY <1>1, <1>2, PTL DEF Spec

\* In every state, between the steps of a running call too, every node keeps
\* within its format: no setlist, u16 router or cnode segment takes more edges
\* than its line has room for, no prefix is longer than its header field, and a
\* prefix or a two-byte stem is only where the format has a field for it.
THEOREM FormatsHold == Spec => []WithinFormat
  <1>1. IInv /\ Sounds => WithinFormat
    BY StateFacts DEF WithinFormat, TreeOK, NodeOK, Sounds, AllSound, SoundBut, Sound
  <1> QED
    BY <1>1, SoundHolds, PTL

\* No router is left without an edge and a term, but for the one that
\* rm_shrink_ is about to free: descend_min_ never enters a subtree that
\* starts at an empty router.
THEOREM RoutersStayAlive == Spec => []NoEmptyRouter
  <1>1. IInv /\ Sounds => NoEmptyRouter
    BY DEF NoEmptyRouter, IsRouter, Sounds, AllSound, SoundBut, Sound, Alive
  <1> QED
    BY <1>1, SoundHolds, PTL

-----------------------------------------------------------------------------
(* Leaves in their parent's line.                                          *)

Inline(x) == x.kind = "leaf" /\ x.inl = TRUE

\* No child of p lives in the line of p.
Bare(t, p) == \A q \in KidsOf(p, t[p]) \cap DOMAIN t : ~Inline(t[q])

\* Only a setlist has leaves in its line, and the root is in no line.
Housed(t) ==
  /\ <<>> \in DOMAIN t => ~Inline(t[<<>>])
  /\ \A p \in DOMAIN t : t[p].kind # "setlist" => Bare(t, p)

\* The invariant: grow_router_ widens a setlist whose leaves have moved out.
Homes == Housed(tree) /\ (pc = "grow" => Bare(tree, gnode))

\* No leaf of u moved into a line.
NoneMovedIn(t, u) == \A q \in DOMAIN u : Inline(u[q]) => q \in DOMAIN t /\ Inline(t[q])

\* What q leads to in u was led to by a node with no leaf in its line.
FromBare(t, u, q) == \E p \in DOMAIN t : Bare(t, p) /\ KidsOf(q, u[q]) \subseteq KidsOf(p, t[p])

LEMMA BareAgain ==
  ASSUME NEW t, NEW u, NoneMovedIn(t, u), NEW q, FromBare(t, u, q)
  PROVE  Bare(u, q)
  BY DEF Bare, NoneMovedIn, FromBare

LEMMA StaysHoused ==
  ASSUME NEW t, Housed(t), NEW u, NoneMovedIn(t, u),
         \A q \in DOMAIN u : u[q].kind = "setlist" \/ Bare(u, q) \/ FromBare(t, u, q)
  PROVE  Housed(u)
  <1>1. <<>> \in DOMAIN u => ~Inline(u[<<>>])
    BY DEF Housed, NoneMovedIn
  <1>2. \A q \in DOMAIN u : u[q].kind # "setlist" => Bare(u, q)
    BY BareAgain
  <1> QED
    BY <1>1, <1>2 DEF Housed

\* A node that stays as it is.
LEMMA SameHome ==
  ASSUME NEW t, Housed(t), NEW q \in DOMAIN t, NEW u, u[q] = t[q]
  PROVE  u[q].kind = "setlist" \/ FromBare(t, u, q)
  BY DEF Housed, FromBare

\* Nodes that lead to nothing new, in a format that is as good for it.
LEMMA LessHoused ==
  ASSUME NEW t, Housed(t), NEW u, DOMAIN u \subseteq DOMAIN t,
         \A q \in DOMAIN u :
           /\ Inline(u[q]) => Inline(t[q])
           /\ KidsOf(q, u[q]) \subseteq KidsOf(q, t[q])
           /\ u[q].kind = "setlist" \/ t[q].kind # "setlist" \/ Bare(t, q)
  PROVE  Housed(u) /\ NoneMovedIn(t, u)
  <1>1. NoneMovedIn(t, u)
    BY DEF NoneMovedIn
  <1>2. ASSUME NEW q \in DOMAIN u
        PROVE  u[q].kind = "setlist" \/ Bare(u, q) \/ FromBare(t, u, q)
    BY DEF Housed, FromBare
  <1> QED
    BY <1>1, <1>2, StaysHoused

LEMMA EditHoused ==
  ASSUME NEW t, Housed(t), NEW p, NEW u, DOMAIN u = DOMAIN t,
         \A q \in DOMAIN t \ {p} : u[q] = t[q],
         p \in DOMAIN t =>
           /\ Inline(u[p]) => Inline(t[p])
           /\ KidsOf(p, u[p]) \subseteq KidsOf(p, t[p])
           /\ u[p].kind = "setlist" \/ t[p].kind # "setlist" \/ Bare(t, p)
  PROVE  Housed(u)
  <1>1. ASSUME NEW q \in DOMAIN u
        PROVE  /\ Inline(u[q]) => Inline(t[q])
               /\ KidsOf(q, u[q]) \subseteq KidsOf(q, t[q])
               /\ u[q].kind = "setlist" \/ t[q].kind # "setlist" \/ Bare(t, q)
    <2>1. CASE q = p
      BY <2>1
    <2>2. CASE q # p
      <3>1. u[q] = t[q]
        BY <2>2
      <3> QED
        BY <3>1
    <2> QED
      BY <2>1, <2>2
  <1> QED
    BY <1>1, LessHoused

LEMMA DropHoused ==
  ASSUME NEW t, Housed(t), NEW S
  PROVE  Housed(Drop(t, S)) /\ NoneMovedIn(t, Drop(t, S))
  <1> DEFINE u == Drop(t, S)
  <1>1. DOMAIN u = DOMAIN t \ S /\ \A q \in DOMAIN u : u[q] = t[q]
    BY DEF Drop
  <1> HIDE DEF u
  <1>2. ASSUME NEW q \in DOMAIN u
        PROVE  /\ Inline(u[q]) => Inline(t[q])
               /\ KidsOf(q, u[q]) \subseteq KidsOf(q, t[q])
               /\ u[q].kind = "setlist" \/ t[q].kind # "setlist" \/ Bare(t, q)
    <2>1. u[q] = t[q]
      BY <1>1
    <2> QED
      BY <2>1
  <1>3. Housed(u) /\ NoneMovedIn(t, u)
    BY <1>1, <1>2, LessHoused
  <1> QED
    BY <1>3 DEF u

\* A piece of a tree whose leaves are in no line, and which leads to the rest of
\* the tree from setlists only.
Plain(x) ==
  \A q \in DOMAIN x :
    /\ ~Inline(x[q])
    /\ \/ x[q].kind \in {"leaf", "setlist"}
       \/ x[q].kind = "pn" /\ q \o x[q].pfx \in DOMAIN x

LEMMA OverHoused ==
  ASSUME NEW t, Housed(t), NEW x, Plain(x)
  PROVE  Housed(Over(t, x)) /\ NoneMovedIn(t, Over(t, x))
  <1> DEFINE u == Over(t, x)
  <1>1. /\ DOMAIN u = DOMAIN t \cup DOMAIN x
        /\ \A q \in DOMAIN x : u[q] = x[q]
        /\ \A q \in DOMAIN t \ DOMAIN x : u[q] = t[q]
    BY OverIs
  <1> HIDE DEF u
  <1>2. NoneMovedIn(t, u)
    BY <1>1 DEF NoneMovedIn, Plain
  <1>3. ASSUME NEW q \in DOMAIN u
        PROVE  u[q].kind = "setlist" \/ Bare(u, q) \/ FromBare(t, u, q)
    <2>1. CASE q \in DOMAIN x
      <3>1. u[q] = x[q]
        BY <1>1, <2>1
      <3>2. CASE x[q].kind = "leaf"
        <4>1. KidsOf(q, u[q]) = {}
          BY <3>1, <3>2, KidsOfIs
        <4> QED
          BY <4>1 DEF Bare
      <3>3. CASE x[q].kind = "pn" /\ q \o x[q].pfx \in DOMAIN x
        <4>1. KidsOf(q, u[q]) = {q \o x[q].pfx}
          BY <3>1, <3>3, KidsOfIs
        <4>2. ~Inline(u[q \o x[q].pfx])
          BY <1>1, <3>3 DEF Plain
        <4> QED
          BY <4>1, <4>2 DEF Bare
      <3> QED
        BY <2>1, <3>1, <3>2, <3>3 DEF Plain
    <2>2. CASE q \notin DOMAIN x
      <3>1. q \in DOMAIN t /\ u[q] = t[q]
        BY <1>1, <2>2
      <3> QED
        BY <3>1, SameHome
    <2> QED
      BY <2>1, <2>2
  <1>4. Housed(u) /\ NoneMovedIn(t, u)
    BY <1>2, <1>3, StaysHoused
  <1> QED
    BY <1>4 DEF u

\* One node that is put at p: a leaf, a setlist, or what leads nowhere new.
LEMMA UpdHoused ==
  ASSUME NEW t, Housed(t), NEW s, Housed(s), NoneMovedIn(t, s), NEW p, NEW x, ~Inline(x),
         \A q \in DOMAIN s : q # p => q \in DOMAIN t /\ s[q] = t[q],
         \/ x.kind \in {"leaf", "setlist"}
         \/ \E r \in DOMAIN t : Bare(t, r) /\ KidsOf(p, x) \subseteq KidsOf(r, t[r])
  PROVE  Housed(Upd(s, p, x))
  <1> DEFINE u == Upd(s, p, x)
  <1>1. /\ DOMAIN u = DOMAIN s \cup {p} /\ u[p] = x
        /\ \A q \in DOMAIN s : q # p => u[q] = s[q]
    BY DEF Upd
  <1> HIDE DEF u
  <1>2. NoneMovedIn(t, u)
    BY <1>1 DEF NoneMovedIn
  <1>3. ASSUME NEW q \in DOMAIN u
        PROVE  u[q].kind = "setlist" \/ Bare(u, q) \/ FromBare(t, u, q)
    <2>1. CASE q = p
      <3>1. CASE x.kind = "leaf"
        <4>1. KidsOf(p, u[p]) = {}
          BY <1>1, <3>1, KidsOfIs
        <4> QED
          BY <2>1, <4>1 DEF Bare
      <3>2. CASE x.kind = "setlist"
        BY <1>1, <2>1, <3>2
      <3>3. CASE \E r \in DOMAIN t : Bare(t, r) /\ KidsOf(p, x) \subseteq KidsOf(r, t[r])
        BY <1>1, <2>1, <3>3 DEF FromBare
      <3> QED
        BY <3>1, <3>2, <3>3
    <2>2. CASE q # p
      <3>1. q \in DOMAIN t /\ u[q] = t[q]
        BY <1>1, <2>2
      <3> QED
        BY <3>1, SameHome
    <2> QED
      BY <2>1, <2>2
  <1>4. Housed(u)
    BY <1>2, <1>3, StaysHoused
  <1> QED
    BY <1>4 DEF u

\* The piece of a fork, and its leaf.
LEMMA ForkPlain ==
  ASSUME NEW p, NEW common, NEW x, x.kind = "setlist",
         [x EXCEPT !.pfx = common].kind = "setlist"
  PROVE  Plain(ApplyPrefix(p, common, x))
  <1> DEFINE u == ApplyPrefix(p, common, x)
             y == [x EXCEPT !.pfx = common]
  <1>1. CASE Len(common) <= PrefixCap
    <2>1. u = [q \in {p} |-> y]
      BY <1>1 DEF ApplyPrefix
    <2> HIDE DEF y
    <2>2. DOMAIN u = {p} /\ u[p] = y
      BY <2>1
    <2> HIDE DEF u
    <2>3. Plain(u)
      BY <2>2 DEF Plain, Inline, y
    <2> QED
      BY <2>3 DEF u
  <1>2. CASE ~(Len(common) <= PrefixCap)
    <2>1. u = [q \in {p, p \o common} |-> IF q = p THEN Pn(common) ELSE x]
      BY <1>2 DEF ApplyPrefix
    <2>2. /\ DOMAIN u = {p, p \o common} /\ u[p] = Pn(common)
          /\ \A q \in DOMAIN u : q # p => u[q] = x
      BY <2>1
    <2> HIDE DEF u
    <2>3. Pn(common).kind = "pn" /\ Pn(common).pfx = common
      BY DEF Pn
    <2>4. ASSUME NEW q \in DOMAIN u
          PROVE  /\ ~Inline(u[q])
                 /\ \/ u[q].kind \in {"leaf", "setlist"}
                    \/ u[q].kind = "pn" /\ q \o u[q].pfx \in DOMAIN u
      <3>1. CASE q = p
        BY <2>2, <2>3, <3>1 DEF Inline
      <3>2. CASE q # p
        BY <2>2, <3>2 DEF Inline
      <3> QED
        BY <3>1, <3>2
    <2>5. Plain(u)
      BY <2>4 DEF Plain
    <2> QED
      BY <2>5 DEF u
  <1> QED
    BY <1>1, <1>2

LEMMA ForkRouterPlain ==
  ASSUME NEW r, NEW v, NEW c, NEW E, NEW tm, NEW p, NEW common
  PROVE  Plain(ApplyPrefix(p, common, ForkRouter(r, v, c, E, tm)))
  <1> DEFINE x == ForkRouter(r, v, c, E, tm)
  <1>1. x.kind = "setlist" /\ [x EXCEPT !.pfx = common].kind = "setlist"
    BY DEF ForkRouter, Router
  <1> HIDE DEF x
  <1>2. Plain(ApplyPrefix(p, common, x))
    BY <1>1, ForkPlain
  <1> QED
    BY <1>2 DEF x

LEMMA ForkLeafPlain ==
  ASSUME NEW p, NEW r, NEW v, NEW c
  PROVE  Plain(ForkLeaf(p, r, v, c))
  BY DEF Plain, ForkLeaf, Leaf, Inline

\* Where a fork has its router.
LEMMA ForkSlotIs ==
  ASSUME NEW p \in Path, NEW common \in Path, NEW r, NEW v, NEW c, NEW E, NEW tm
  PROVE  LET u == ApplyPrefix(p, common, ForkRouter(r, v, c, E, tm))
         IN  ForkSlot(p, common) \in DOMAIN u /\ u[ForkSlot(p, common)].kind = "setlist"
  <1> DEFINE x == ForkRouter(r, v, c, E, tm)
             y == [x EXCEPT !.pfx = common]
             u == ApplyPrefix(p, common, x)
             s == ForkSlot(p, common)
  <1>1. x.kind = "setlist" /\ y.kind = "setlist"
    BY DEF ForkRouter, Router
  <1> HIDE DEF x
  <1>2. CASE Len(common) <= PrefixCap
    <2>1. s = p /\ u = [q \in {p} |-> y]
      BY <1>2 DEF ForkSlot, ApplyPrefix
    <2> HIDE DEF y
    <2>2. s \in DOMAIN u /\ u[s] = y
      BY <2>1
    <2> QED
      BY <1>1, <2>2 DEF x, y
  <1>3. CASE ~(Len(common) <= PrefixCap)
    <2>1. s = p \o common /\ u = [q \in {p, p \o common} |-> IF q = p THEN Pn(common) ELSE x]
      BY <1>3 DEF ForkSlot, ApplyPrefix
    <2>2. common # <<>>
      BY <1>3, EmptyPath, CapAssumption
    <2>3. p \o common # p
      BY <2>2, StartsConcat
    <2>4. s \in DOMAIN u /\ u[s] = x
      BY <2>1, <2>3
    <2> QED
      BY <1>1, <2>4 DEF x
  <1> QED
    BY <1>2, <1>3

\* ... and still has it, or a leaf, once a leaf is put in.
LEMMA ForkSlotStays ==
  ASSUME NEW t, NEW s \in DOMAIN t, t[s].kind \in {"setlist", "leaf"},
         NEW p, NEW r, NEW v, NEW c
  PROVE  LET u == Over(t, ForkLeaf(p, r, v, c))
         IN  s \in DOMAIN u /\ u[s].kind \in {"setlist", "leaf"}
  <1> DEFINE f == ForkLeaf(p, r, v, c)
             u == Over(t, f)
  <1>1. \A q \in DOMAIN f : f[q].kind = "leaf"
    BY DEF ForkLeaf, Leaf
  <1> HIDE DEF f
  <1>2. /\ DOMAIN u = DOMAIN t \cup DOMAIN f
        /\ \A q \in DOMAIN f : u[q] = f[q]
        /\ \A q \in DOMAIN t \ DOMAIN f : u[q] = t[q]
    BY DEF Over
  <1> HIDE DEF u
  <1>3. s \in DOMAIN u /\ u[s].kind \in {"setlist", "leaf"}
    BY <1>1, <1>2
  <1> QED
    BY <1>3 DEF u, f

\* The leaves of a setlist move into its line.
LEMMA CompactHoused ==
  ASSUME NEW t, Housed(t), NEW p \in DOMAIN t, t[p].kind \in {"setlist", "leaf"}, NEW fits,
         Good(Kids(InlineCompact(t, p, fits)))
  PROVE  Housed(InlineCompact(t, p, fits))
  <1>1. CASE InlineChildren /\ fits
    <2> DEFINE u == [q \in DOMAIN t |-> IF q \in Children(t, p) /\ IsValuePtr(t[q])
                                        THEN [t[q] EXCEPT !.inl = TRUE] ELSE t[q]]
    <2>1. InlineCompact(t, p, fits) = u
      BY <1>1 DEF InlineCompact
    <2>2. DOMAIN u = DOMAIN t
      OBVIOUS
    <2>3. ASSUME NEW q \in DOMAIN t
          PROVE  /\ KidsOf(q, u[q]) = KidsOf(q, t[q]) /\ u[q].kind = t[q].kind
                 /\ q \in KidsOf(p, t[p]) \/ u[q] = t[q]
      <3>1. CASE u[q] = t[q]
        BY <3>1
      <3>2. CASE q \in Children(t, p) /\ IsValuePtr(t[q]) /\ u[q] = [t[q] EXCEPT !.inl = TRUE]
        <4>1. t[q].kind = "leaf" /\ [t[q] EXCEPT !.inl = TRUE].kind = t[q].kind
          BY <3>2 DEF IsValuePtr
        <4>2. q \in KidsOf(p, t[p])
          BY <3>2, ChildrenAre
        <4> HIDE DEF u
        <4> QED
          BY <3>2, <4>1, <4>2, KidsOfIs
      <3> QED
        BY <3>1, <3>2
    <2> HIDE DEF u
    <2>4. Good(Kids(u))
      BY <2>1
    <2>5. DOMAIN Kids(u) = DOMAIN t /\ \A q \in DOMAIN t : Kids(u)[q] = KidsOf(q, t[q])
      BY <2>2, <2>3, KidsIs
    <2>6. <<>> \in DOMAIN u => ~Inline(u[<<>>])
      <3>1. <<>> \notin KidsOf(p, t[p])
        <4> SUFFICES ASSUME <<>> \in KidsOf(p, t[p])
                     PROVE  FALSE
          OBVIOUS
        <4>1. <<>> \in Kids(u)[p] /\ p \in DOMAIN Kids(u) /\ ShapeOK(Kids(u))
          BY <2>4, <2>5 DEF Good
        <4>2. p \in Path /\ Len(p) < Len(<<>>)
          BY <4>1, KidFacts
        <4> QED
          BY <4>2, EmptyPath, PathFacts
      <3> QED
        BY <2>2, <2>3, <3>1 DEF Housed
    <2>7. ASSUME NEW q \in DOMAIN u, u[q].kind # "setlist", NEW c \in KidsOf(q, u[q]) \cap DOMAIN u,
                 Inline(u[c])
          PROVE  FALSE
      <3>1. c \in KidsOf(q, t[q]) /\ t[q].kind # "setlist" /\ q \in DOMAIN t /\ c \in DOMAIN t
        BY <2>2, <2>3, <2>7
      <3>2. ~Inline(t[c])
        BY <3>1 DEF Housed, Bare
      <3>3. c \in KidsOf(p, t[p])
        BY <2>3, <2>7, <3>1, <3>2
      <3>4. p = q
        BY <2>4, <2>5, <3>1, <3>3, OneParent
      <3>5. t[p].kind = "leaf"
        BY <3>1, <3>4
      <3>6. KidsOf(p, t[p]) = {}
        BY <3>5, KidsOfIs
      <3> QED
        BY <3>3, <3>6
    <2>8. Housed(u)
      BY <2>6, <2>7 DEF Housed, Bare
    <2> QED
      BY <2>1, <2>8
  <1>2. CASE ~(InlineChildren /\ fits)
    BY <1>2 DEF InlineCompact
  <1> QED
    BY <1>1, <1>2

\* make_prefix above a node that is not in a line.
LEMMA MakePrefixHoused ==
  ASSUME NEW t, TreeOK(t), Housed(t), NEW p \in Path, NEW pfx \in Path,
         p \o pfx \in DOMAIN t => ~Inline(t[p \o pfx])
  PROVE  Housed(MakePrefix(t, p, pfx))
  <1> DEFINE c == p \o pfx
  <1>1. CASE pfx = <<>>
    BY <1>1 DEF MakePrefix
  <1>2. CASE pfx # <<>> /\ FusesInto(t, c, pfx)
    <2> DEFINE x == [t[c] EXCEPT !.kind = "pfxd", !.pfx = pfx \o t[c].pfx]
               s == Drop(t, {c})
    <2>1. MakePrefix(t, p, pfx) = Upd(s, p, x)
      BY <1>2 DEF MakePrefix
    <2>2. c \in DOMAIN t /\ t[c].kind \in {"full", "pfxd"}
      BY <1>2 DEF FusesInto
    <2> HIDE DEF c
    <2>3. /\ x.kind \in RouterKinds /\ x.edges = t[c].edges /\ x.pfx = pfx \o t[c].pfx
          /\ t[c].pfx \in Path /\ t[c].kind \in RouterKinds
      BY <1>2, <2>2, FusedNode
    <2> HIDE DEF x
    <2>4. KidsOf(p, x) = KidsOf(c, t[c])
      <3>1. p \o (pfx \o t[c].pfx) = (p \o pfx) \o t[c].pfx
        BY <2>3, ConcatAssoc
      <3>2. Alike(p, x, c, t[c])
        BY <2>3, <3>1 DEF Alike, c
      <3> QED
        BY <3>2, SameEdges
    <2>5. Bare(t, c)
      BY <2>2 DEF Housed
    <2>6. Housed(s) /\ NoneMovedIn(t, s) /\ \A q \in DOMAIN s : q # p => q \in DOMAIN t /\ s[q] = t[q]
      <3>1. \A q \in DOMAIN s : q # p => q \in DOMAIN t /\ s[q] = t[q]
        BY DEF Drop
      <3> QED
        BY <3>1, DropHoused
    <2>7. ~Inline(x)
      BY <2>3 DEF Inline, RouterKinds, CnodeKinds
    <2> HIDE DEF s
    <2>8. Housed(Upd(s, p, x))
      BY <2>2, <2>4, <2>5, <2>6, <2>7, UpdHoused
    <2> QED
      BY <2>1, <2>8
  <1>3. CASE pfx # <<>> /\ ~FusesInto(t, c, pfx)
    <2> DEFINE u == Upd(t, p, Pn(pfx))
    <2>1. MakePrefix(t, p, pfx) = u
      BY <1>3 DEF MakePrefix
    <2>2. Pn(pfx).kind = "pn" /\ Pn(pfx).pfx = pfx
      BY DEF Pn
    <2>3. /\ DOMAIN u = DOMAIN t \cup {p} /\ u[p] = Pn(pfx)
          /\ \A q \in DOMAIN t : q # p => u[q] = t[q]
      BY DEF Upd
    <2> HIDE DEF u
    <2>4. NoneMovedIn(t, u)
      BY <2>2, <2>3 DEF NoneMovedIn, Inline
    <2>5. Bare(u, p)
      <3>1. KidsOf(p, u[p]) = {c}
        BY <2>2, <2>3, KidsOfIs
      <3>2. c \in DOMAIN u => ~Inline(u[c])
        BY <2>4 DEF NoneMovedIn
      <3> QED
        BY <3>1, <3>2 DEF Bare
    <2>6. ASSUME NEW q \in DOMAIN u
          PROVE  u[q].kind = "setlist" \/ Bare(u, q) \/ FromBare(t, u, q)
      <3>1. CASE q = p
        BY <2>5, <3>1
      <3>2. CASE q # p
        <4>1. q \in DOMAIN t /\ u[q] = t[q]
          BY <2>3, <3>2
        <4> QED
          BY <4>1, SameHome
      <3> QED
        BY <3>1, <3>2
    <2>7. Housed(u)
      BY <2>4, <2>6, StaysHoused
    <2> QED
      BY <2>1, <2>7
  <1> QED
    BY <1>1, <1>2, <1>3

LEMMA SplitLeafHoused ==
  ASSUME TreeOK(tree), Good(Kids(tree)), Housed(tree), slot \in DOMAIN tree, nd.kind = "leaf",
         R \in Path, req.val \in Values, NEW fits
  PROVE  Housed(SplitLeafTree(fits))
  <1> DEFINE S        == nd.suf
             c        == Lcp(S, R)
             common   == Front(R, c)
             oldEdges == IF c < Len(S) THEN {<<S[c + 1]>>} ELSE {}
             oldTerm  == IF c = Len(S) THEN nd.val ELSE NoVal
             u1       == ApplyPrefix(slot, common, ForkRouter(R, req.val, c, oldEdges, oldTerm))
             u2       == ForkLeaf(slot, R, req.val, c)
             u3       == ForkLeaf(slot, S, nd.val, c)
             t0       == Drop(tree, {slot})
             t1       == Over(t0, u1)
             t2       == Over(t1, u2)
             t3       == Over(t2, u3)
             f        == ForkSlot(slot, common)
  <1>1. slot \in Path /\ S \in Path
    BY NodeFields DEF TreeOK, nd
  <1>2. c \in 0 .. Len(S) /\ c \in 0 .. Len(R)
    BY <1>1, LcpFacts, PathFacts
  <1>3. common \in Path
    BY <1>2, FrontFacts
  <1>4. SplitLeafTree(fits) = InlineCompact(t3, f, fits)
    BY DEF SplitLeafTree
  <1>5. Good(Kids(SplitLeafTree(fits)))
    BY SplitLeafShape
  <1> HIDE DEF c, S, oldEdges, oldTerm, common
  <1>6. Plain(u1) /\ Plain(u2) /\ Plain(u3)
    BY ForkRouterPlain, ForkLeafPlain
  <1>7. f \in DOMAIN u1 /\ u1[f].kind = "setlist"
    BY <1>1, <1>3, ForkSlotIs
  <1>8. Housed(t1) /\ f \in DOMAIN t1 /\ t1[f].kind \in {"setlist", "leaf"}
    <2>1. Housed(t0)
      BY DropHoused
    <2> HIDE DEF t0, u1, f
    <2>2. Housed(t1)
      BY <1>6, <2>1, OverHoused
    <2>3. f \in DOMAIN t1 /\ t1[f] = u1[f]
      BY <1>7 DEF Over
    <2> QED
      BY <1>7, <2>2, <2>3
  <1> HIDE DEF t1, f
  <1>9. Housed(t2) /\ f \in DOMAIN t2 /\ t2[f].kind \in {"setlist", "leaf"}
    BY <1>6, <1>8, OverHoused, ForkSlotStays
  <1> HIDE DEF t2
  <1>10. Housed(t3) /\ f \in DOMAIN t3 /\ t3[f].kind \in {"setlist", "leaf"}
    BY <1>6, <1>9, OverHoused, ForkSlotStays
  <1> HIDE DEF t3
  <1> QED
    BY <1>4, <1>5, <1>10, CompactHoused

LEMMA SplitPrefixHoused ==
  ASSUME TreeOK(tree), Good(Kids(tree)), Housed(tree), slot \in DOMAIN tree, nd.kind # "leaf",
         R \in Path, req.val \in Values, ~StartsWith(R, nd.pfx), NEW fits
  PROVE  Housed(SplitPrefixTree(fits))
  <1> DEFINE pfx    == nd.pfx
             c      == Lcp(pfx, R)
             common == Front(pfx, c)
             rest   == Back(pfx, c + 1)
             q      == slot \o Front(pfx, c + 1)
             old    == Drop(tree, {slot})
             kind   == IF rest = <<>> THEN "full" ELSE "pfxd"
             kept   == CASE nd.kind = "pn"      -> MakePrefix(old, q, rest)
                         [] nd.kind = "setlist" -> Upd(old, q, [nd EXCEPT !.pfx = rest])
                         [] nd.kind = "pfxd"    -> Upd(old, q, [nd EXCEPT !.kind = kind, !.pfx = rest])
             u1     == ApplyPrefix(slot, common,
                                   ForkRouter(R, req.val, c, {<<pfx[c + 1]>>}, NoVal))
             u2     == ForkLeaf(slot, R, req.val, c)
             t1     == Over(kept, u1)
             t2     == Over(t1, u2)
             s      == ForkSlot(slot, common)
  <1>1. slot \in Path /\ pfx \in Path /\ NodeOK(nd) /\ nd = tree[slot]
    BY NodeFields DEF TreeOK, nd
  <1>2. c \in 0 .. Len(pfx) /\ c \in 0 .. Len(R) /\ c < Len(pfx)
    BY <1>1, LcpFacts, PathFacts
  <1>3. nd.kind \in {"pn", "setlist", "pfxd"}
    <2>1. pfx # <<>>
      BY <1>1, StartsWithEmpty
    <2> QED
      BY <1>1, <2>1, NodeFields
  <1>4. SplitPrefixTree(fits) = InlineCompact(t2, s, fits)
    BY DEF SplitPrefixTree
  <1>5. Good(Kids(SplitPrefixTree(fits)))
    BY SplitPrefixShape
  <1> HIDE DEF c, pfx
  <1>6. common \in Path /\ rest \in Path /\ q \in Path /\ q \o rest = slot \o pfx
    <2> DEFINE f == Front(pfx, c + 1)
    <2>1. c + 1 \in 0 .. Len(pfx)
      BY <1>1, <1>2, PathFacts
    <2>2. f \in Path /\ rest \in Path /\ pfx = f \o rest
      BY <1>1, <2>1, FrontFacts, BackFacts, FrontBack
    <2>3. common \in Path
      BY <1>1, <1>2, FrontFacts
    <2> HIDE DEF f, rest
    <2>4. slot \o (f \o rest) = (slot \o f) \o rest
      BY <1>1, <2>2, ConcatAssoc
    <2>5. slot \o f \in Path
      BY <1>1, <2>2, ConcatFacts
    <2> QED
      BY <2>2, <2>3, <2>4, <2>5 DEF f
  <1> HIDE DEF rest, q, common
  <1>7. TreeOK(old) /\ Housed(old) /\ NoneMovedIn(tree, old)
        /\ \A r \in DOMAIN old : r # q => r \in DOMAIN tree /\ old[r] = tree[r]
    <2>1. \A r \in DOMAIN old : r # q => r \in DOMAIN tree /\ old[r] = tree[r]
      BY DEF Drop
    <2> QED
      BY <2>1, DropOK, DropHoused
  <1>8. Housed(kept)
    <2>1. CASE nd.kind = "pn"
      <3>1. q \o rest \in KidsOf(slot, tree[slot])
        <4>1. KidsOf(slot, tree[slot]) = {slot \o nd.pfx}
          BY <1>1, <2>1, KidsOfIs
        <4> QED
          BY <1>6, <4>1 DEF pfx
      <3>2. q \o rest \in DOMAIN tree => ~Inline(tree[q \o rest])
        BY <1>1, <2>1, <3>1 DEF Housed, Bare
      <3>3. q \o rest \in DOMAIN old => ~Inline(old[q \o rest])
        BY <1>7, <3>2 DEF NoneMovedIn
      <3> HIDE DEF old
      <3>4. Housed(MakePrefix(old, q, rest))
        BY <1>6, <1>7, <3>3, MakePrefixHoused
      <3> QED
        BY <2>1, <3>4
    <2>2. CASE nd.kind \in {"setlist", "pfxd"}
      <3> DEFINE k == IF nd.kind = "setlist" THEN "setlist" ELSE kind
                 x == Router(k, rest, nd.edges, nd.term)
      <3>1. nd \in RouterNode /\ nd.kind \in RouterKinds
        BY <1>1, <2>2, NodeFields DEF RouterKinds
      <3>2. kept = Upd(old, q, x)
        <4>1. [nd EXCEPT !.pfx = rest] = Router(nd.kind, rest, nd.edges, nd.term)
          BY <3>1, RouterIs
        <4>2. [nd EXCEPT !.kind = kind, !.pfx = rest] = Router(kind, rest, nd.edges, nd.term)
          <5> HIDE DEF kind
          <5> QED
            BY <3>1, RouterIs
        <4>3. CASE nd.kind = "setlist"
          BY <4>1, <4>3
        <4>4. CASE nd.kind = "pfxd"
          BY <4>2, <4>4
        <4> QED
          BY <2>2, <4>3, <4>4
      <3>3. k \in RouterKinds /\ (nd.kind = "setlist" => k = "setlist")
        BY DEF RouterKinds
      <3> HIDE DEF k, kept
      <3>4. x.kind = k /\ x.pfx = rest /\ x.edges = nd.edges
        BY DEF Router
      <3> HIDE DEF x
      <3>5. ~Inline(x)
        BY <3>3, <3>4 DEF Inline, RouterKinds, CnodeKinds
      <3>6. KidsOf(q, x) = KidsOf(slot, tree[slot])
        <4>1. Alike(q, x, slot, nd)
          BY <1>6, <3>1, <3>3, <3>4 DEF Alike, pfx
        <4> QED
          BY <1>1, <4>1, SameEdges
      <3>7. \/ x.kind \in {"leaf", "setlist"}
            \/ \E r \in DOMAIN tree : Bare(tree, r) /\ KidsOf(q, x) \subseteq KidsOf(r, tree[r])
        <4>1. CASE nd.kind = "setlist"
          BY <3>3, <3>4, <4>1
        <4>2. CASE nd.kind # "setlist"
          <5>1. Bare(tree, slot)
            BY <1>1, <4>2 DEF Housed
          <5> QED
            BY <3>6, <5>1
        <4> QED
          BY <4>1, <4>2
      <3> HIDE DEF old
      <3>8. Housed(Upd(old, q, x))
        BY <1>7, <3>5, <3>7, UpdHoused
      <3> QED
        BY <3>2, <3>8
    <2> QED
      BY <1>3, <2>1, <2>2
  <1>9. Plain(u1) /\ Plain(u2)
    BY ForkRouterPlain, ForkLeafPlain
  <1>10. s \in DOMAIN u1 /\ u1[s].kind = "setlist"
    BY <1>1, <1>6, ForkSlotIs
  <1> HIDE DEF kept
  <1>11. Housed(t1) /\ s \in DOMAIN t1 /\ t1[s].kind \in {"setlist", "leaf"}
    <2> HIDE DEF u1, s
    <2>1. Housed(t1)
      BY <1>8, <1>9, OverHoused
    <2>2. s \in DOMAIN t1 /\ t1[s] = u1[s]
      BY <1>10 DEF Over
    <2> QED
      BY <1>10, <2>1, <2>2
  <1> HIDE DEF t1, s
  <1>12. Housed(t2) /\ s \in DOMAIN t2 /\ t2[s].kind \in {"setlist", "leaf"}
    BY <1>9, <1>11, OverHoused, ForkSlotStays
  <1> HIDE DEF t2
  <1> QED
    BY <1>4, <1>5, <1>12, CompactHoused

\* A new edge, and the new leaf it leads to.
LEMMA LinkHoused ==
  ASSUME NEW t, TreeOK(t), Housed(t), NEW p \in DOMAIN t, t[p].kind \in RouterKinds, NEW e, NEW suf
  PROVE  Housed(Link(t, p, e, suf)) /\ NoneMovedIn(t, Link(t, p, e, suf))
  <1> DEFINE E == t[p].edges \cup {e}
             w == [t EXCEPT ![p].edges = E]
             s == At(t, p) \o e
             l == Leaf(suf, req.val)
             u == Upd(w, s, l)
  <1>1. Link(t, p, e, suf) = u
    BY DEF Link
  <1>2. t[p] \in RouterNode /\ t[p].kind # "leaf"
    BY NodeFields DEF TreeOK, RouterKinds, CnodeKinds
  <1>3. l.kind = "leaf" /\ ~Inline(l)
    BY DEF Leaf, Inline
  <1>4. DOMAIN w = DOMAIN t /\ (\A q \in DOMAIN t \ {p} : w[q] = t[q])
        /\ w[p] = [t[p] EXCEPT !.edges = E]
    OBVIOUS
  <1> HIDE DEF w, l
  <1>5. w[p].kind = t[p].kind /\ w[p].pfx = t[p].pfx /\ w[p].edges = E
    <2> HIDE DEF E
    <2>1. w[p] = Router(t[p].kind, t[p].pfx, E, t[p].term)
      BY <1>2, <1>4, RouterIs
    <2> QED
      BY <2>1 DEF Router
  <1>6. /\ DOMAIN u = DOMAIN t \cup {s} /\ u[s] = l
        /\ \A q \in DOMAIN t : q # s => u[q] = w[q]
    BY <1>4 DEF Upd
  <1>7. s = (p \o t[p].pfx) \o e
    BY <1>2 DEF At
  <1> HIDE DEF u, s
  <1>8. NoneMovedIn(t, u)
    <2> SUFFICES ASSUME NEW q \in DOMAIN u, Inline(u[q])
                 PROVE  q \in DOMAIN t /\ Inline(t[q])
      BY DEF NoneMovedIn
    <2>1. q # s /\ q \in DOMAIN t /\ u[q] = w[q]
      BY <1>3, <1>6
    <2>2. q # p
      BY <1>2, <1>5, <2>1 DEF Inline
    <2> QED
      BY <1>4, <2>1, <2>2
  <1>9. ASSUME NEW q \in DOMAIN u
        PROVE  u[q].kind = "setlist" \/ Bare(u, q) \/ FromBare(t, u, q)
    <2>1. CASE q = s
      <3>1. KidsOf(q, u[q]) = {}
        BY <1>3, <1>6, <2>1, KidsOfIs
      <3> QED
        BY <3>1 DEF Bare
    <2>2. CASE q = p /\ q # s
      <3>1. u[p] = w[p]
        BY <1>6, <2>2
      <3>2. KidsOf(p, u[p]) = {(p \o t[p].pfx) \o f : f \in E}
        <4>1. u[p].kind \in RouterKinds /\ u[p].pfx = t[p].pfx /\ u[p].edges = E
          BY <1>5, <3>1
        <4> HIDE DEF E
        <4>2. KidsOf(p, u[p]) = {(p \o u[p].pfx) \o f : f \in u[p].edges}
          BY <4>1, KidsOfIs
        <4> QED
          BY <4>1, <4>2
      <3>3. KidsOf(p, t[p]) = {(p \o t[p].pfx) \o f : f \in t[p].edges}
        BY KidsOfIs
      <3>4. \A c \in KidsOf(p, u[p]) : c = s \/ c \in KidsOf(p, t[p])
        BY <1>7, <3>2, <3>3
      <3>5. CASE t[p].kind # "setlist"
        <4>1. Bare(t, p)
          BY <3>5 DEF Housed
        <4>2. ASSUME NEW c \in KidsOf(p, u[p]) \cap DOMAIN u, Inline(u[c])
              PROVE  FALSE
          <5>1. c # s
            BY <1>3, <1>6, <4>2
          <5>2. c \in DOMAIN t /\ Inline(t[c]) /\ c \in KidsOf(p, t[p])
            BY <1>8, <3>4, <4>2, <5>1 DEF NoneMovedIn
          <5> QED
            BY <4>1, <5>2 DEF Bare
        <4> QED
          BY <2>2, <4>2 DEF Bare
      <3>6. CASE t[p].kind = "setlist"
        BY <1>5, <2>2, <3>1, <3>6
      <3> QED
        BY <3>5, <3>6
    <2>3. CASE q # p /\ q # s
      <3>1. q \in DOMAIN t /\ u[q] = t[q]
        BY <1>4, <1>6, <2>3
      <3> QED
        BY <3>1, SameHome
    <2> QED
      BY <2>1, <2>2, <2>3
  <1>10. Housed(u)
    BY <1>8, <1>9, StaysHoused
  <1> QED
    BY <1>1, <1>8, <1>10

\* A re-stride makes setlists.
LEMMA RestrideHoused ==
  ASSUME Housed(tree)
  PROVE  Housed(RestrideTree)
  <1> DEFINE his == {Front(e, 1) : e \in nd.edges}
             group == [q \in {slot \o h : h \in his} |->
                         Router("setlist", <<>>,
                                {Back(e, 1) : e \in {x \in nd.edges : slot \o Front(x, 1) = q}},
                                NoVal)]
             x == Router("setlist", <<>>, his, nd.term)
             u == Upd(tree, slot, x)
  <1>1. RestrideTree = Over(u, group)
    BY DEF RestrideTree
  <1>2. Plain(group)
    <2>1. \A q \in DOMAIN group : group[q].kind = "setlist"
      BY DEF Router
    <2> HIDE DEF group
    <2> QED
      BY <2>1 DEF Plain, Inline
  <1>3. x.kind = "setlist"
    BY DEF Router
  <1> HIDE DEF x, group
  <1>4. Housed(u)
    <2>1. ~Inline(x) /\ NoneMovedIn(tree, tree)
      BY <1>3 DEF Inline, NoneMovedIn
    <2> QED
      BY <1>3, <2>1, UpdHoused
  <1> HIDE DEF u
  <1> QED
    BY <1>1, <1>2, <1>4, OverHoused

\* A router without leaves in its line.
LEMMA NoInlineKids ==
  ASSUME NEW t, Housed(t), NEW p \in DOMAIN t, InlineKids(t, p) = {}
  PROVE  Bare(t, p)
  <1>1. CASE t[p].kind # "setlist"
    BY <1>1 DEF Housed
  <1>2. CASE t[p].kind = "setlist"
    <2> SUFFICES ASSUME NEW q \in KidsOf(p, t[p]) \cap DOMAIN t, Inline(t[q])
                 PROVE  FALSE
      BY DEF Bare
    <2>1. q \in Children(t, p) /\ IsLeaf(t, q) /\ t[q].inl
      BY ChildrenAre DEF Inline, IsLeaf
    <2>2. q \in InlineKids(t, p)
      BY <1>2, <2>1 DEF InlineKids
    <2> QED
      BY <2>2
  <1> QED
    BY <1>1, <1>2

LEMMA FuseHoused ==
  ASSUME NEW t, TreeOK(t), Housed(t), NEW p \in DOMAIN t, Fusable(t, p)
  PROVE  Housed(FuseTree(t, p))
  <1> DEFINE C == Children(t, p)
             G == Grandedges(t, p)
             x == Router("u16", <<>>, G, t[p].term)
             s == Drop(t, C)
             u == FuseTree(t, p)
  <1>1. p \in Path /\ NodeOK(t[p]) /\ t[p].kind = "setlist" /\ t[p].pfx = <<>>
        /\ t[p].kind \in RouterKinds
    BY DEF TreeOK, Fusable, RouterKinds
  <1>2. C = {p \o e : e \in t[p].edges} /\ \A e \in t[p].edges : e \in Path
    BY <1>1, BareKids, ChildrenAre, NodeFields
  <1>3. u = Upd(s, p, x)
    BY DEF FuseTree
  <1>4. x.kind = "u16" /\ x.pfx = <<>> /\ x.edges = G /\ "u16" \in RouterKinds
    BY DEF Router, RouterKinds
  <1> HIDE DEF x
  <1>5. KidsOf(p, x) = {p \o y : y \in G}
    <2> HIDE DEF G
    <2> QED
      BY <1>1, <1>4, BareKids
  <1>6. ASSUME NEW c \in C
        PROVE  /\ Bare(t, c) /\ c \in DOMAIN t /\ c \in Path /\ t[c].edges \subseteq Path
               /\ KidsOf(c, t[c]) = {c \o f : f \in t[c].edges}
    <2>1. /\ c \in DOMAIN t /\ t[c].kind \in RouterKinds /\ InlineKids(t, c) = {}
          /\ t[c].kind \in {"setlist", "pfxd"} => t[c].pfx = <<>>
      BY <1>6 DEF Fusable, Absorbable
    <2>2. Bare(t, c)
      BY <2>1, NoInlineKids
    <2>3. NodeOK(t[c]) /\ c \in Path
      BY <2>1 DEF TreeOK
    <2>4. t[c].pfx = <<>> /\ t[c].edges \subseteq Path
      BY <2>1, <2>3, NodeFields
    <2>5. KidsOf(c, t[c]) = {c \o f : f \in t[c].edges}
      BY <2>1, <2>3, <2>4, BareKids
    <2> QED
      BY <2>1, <2>2, <2>3, <2>4, <2>5
  <1>7. ASSUME NEW z \in KidsOf(p, x)
        PROVE  \E c \in C : z \in KidsOf(c, t[c])
    <2>1. PICK y \in G : z = p \o y
      BY <1>5
    <2>2. PICK e \in t[p].edges : \E f \in t[p \o e].edges : y = e \o f
      BY <2>1 DEF Grandedges
    <2>3. PICK f \in t[p \o e].edges : y = e \o f
      BY <2>2
    <2>4. p \o e \in C /\ e \in Path
      BY <1>2
    <2>5. f \in Path /\ KidsOf(p \o e, t[p \o e]) = {(p \o e) \o g : g \in t[p \o e].edges}
      BY <1>6, <2>4
    <2>6. p \o (e \o f) = (p \o e) \o f
      BY <1>1, <2>4, <2>5, ConcatAssoc
    <2>7. z \in KidsOf(p \o e, t[p \o e])
      BY <2>1, <2>3, <2>5, <2>6
    <2> QED
      BY <2>4, <2>7
  <1>8. NoneMovedIn(t, s) /\ \A q \in DOMAIN s : q # p => q \in DOMAIN t /\ s[q] = t[q]
    <2>1. \A q \in DOMAIN s : q # p => q \in DOMAIN t /\ s[q] = t[q]
      BY DEF Drop
    <2> QED
      BY <2>1, DropHoused
  <1> HIDE DEF C, s
  <1>9. /\ DOMAIN u = DOMAIN s \cup {p} /\ u[p] = x
        /\ \A q \in DOMAIN s : q # p => u[q] = s[q]
    BY <1>3 DEF Upd
  <1> HIDE DEF u
  <1>10. NoneMovedIn(t, u)
    <2>1. ~Inline(u[p])
      BY <1>4, <1>9 DEF Inline
    <2> QED
      BY <1>8, <1>9, <2>1 DEF NoneMovedIn
  <1>11. Bare(u, p)
    <2> SUFFICES ASSUME NEW z \in KidsOf(p, u[p]) \cap DOMAIN u, Inline(u[z])
                 PROVE  FALSE
      BY DEF Bare
    <2>1. PICK c \in C : z \in KidsOf(c, t[c])
      BY <1>7, <1>9
    <2>2. z \in DOMAIN t /\ Inline(t[z])
      BY <1>10 DEF NoneMovedIn
    <2> QED
      BY <1>6, <2>1, <2>2 DEF Bare
  <1>12. ASSUME NEW q \in DOMAIN u
         PROVE  u[q].kind = "setlist" \/ Bare(u, q) \/ FromBare(t, u, q)
    <2>1. CASE q = p
      BY <1>11, <2>1
    <2>2. CASE q # p
      <3>1. q \in DOMAIN t /\ u[q] = t[q]
        BY <1>8, <1>9, <2>2
      <3> QED
        BY <3>1, SameHome
    <2> QED
      BY <2>1, <2>2
  <1>13. Housed(u)
    BY <1>10, <1>12, StaysHoused
  <1> QED
    BY <1>13 DEF u

\* A lone child that is not in the line takes its router's place.
LEMMA CollapseHoused ==
  ASSUME NEW t, TreeOK(t), Housed(t), NEW p \in DOMAIN t, t[p].kind \in RouterKinds,
         t[p].edges # {}, Bare(t, p)
  PROVE  Housed(CollapseTree(t, p))
  <1> DEFINE e   == CHOOSE x \in t[p].edges : TRUE
             c   == At(t, p) \o e
             pfx == t[p].pfx \o e
  <1>1. e \in t[p].edges
    OBVIOUS
  <1>2. p \in Path /\ t[p].pfx \in Path /\ e \in Path /\ t[p].kind # "leaf"
    BY <1>1, NodeFields DEF TreeOK, RouterKinds, CnodeKinds
  <1>3. c = (p \o t[p].pfx) \o e
    BY <1>2 DEF At
  <1>4. c \in KidsOf(p, t[p])
    <2>1. KidsOf(p, t[p]) = {(p \o t[p].pfx) \o f : f \in t[p].edges}
      BY KidsOfIs
    <2> HIDE DEF e
    <2> QED
      BY <1>1, <1>3, <2>1
  <1>5. CASE c \in DOMAIN t /\ t[c].kind = "setlist" /\ Len(t[c].pfx) + Len(pfx) <= PrefixCap
    <2> DEFINE z == pfx \o t[c].pfx
               x == [t[c] EXCEPT !.pfx = z]
               s == Drop(t, {c})
    <2>1. CollapseTree(t, p) = Upd(s, p, x)
      BY <1>5 DEF CollapseTree
    <2>2. t[c] \in RouterNode
      BY <1>5, NodeFields DEF TreeOK, RouterKinds
    <2> HIDE DEF z, c
    <2>3. x = Router(t[c].kind, z, t[c].edges, t[c].term)
      BY <2>2, RouterIs
    <2>4. x.kind = "setlist"
      BY <1>5, <2>3 DEF Router
    <2> HIDE DEF x
    <2>5. ~Inline(x)
      BY <2>4 DEF Inline
    <2>6. Housed(s) /\ NoneMovedIn(t, s) /\ \A q \in DOMAIN s : q # p => q \in DOMAIN t /\ s[q] = t[q]
      <3>1. \A q \in DOMAIN s : q # p => q \in DOMAIN t /\ s[q] = t[q]
        BY DEF Drop
      <3> QED
        BY <3>1, DropHoused
    <2> HIDE DEF s
    <2>7. Housed(Upd(s, p, x))
      BY <2>4, <2>5, <2>6, UpdHoused
    <2> QED
      BY <2>1, <2>7
  <1>6. CASE ~(c \in DOMAIN t /\ t[c].kind = "setlist" /\ Len(t[c].pfx) + Len(pfx) <= PrefixCap)
    <2>1. CollapseTree(t, p) = MakePrefix(t, p, pfx)
      BY <1>6 DEF CollapseTree
    <2>2. pfx \in Path /\ p \o pfx = c
      <3> HIDE DEF e
      <3>1. pfx \in Path
        BY <1>2, ConcatFacts
      <3>2. p \o (t[p].pfx \o e) = (p \o t[p].pfx) \o e
        BY <1>2, ConcatAssoc
      <3> QED
        BY <1>3, <3>1, <3>2
    <2>3. c \in DOMAIN t => ~Inline(t[c])
      BY <1>4 DEF Bare
    <2> HIDE DEF pfx, c
    <2> QED
      BY <1>2, <2>1, <2>2, <2>3, MakePrefixHoused
  <1> QED
    BY <1>5, <1>6

\* Another value, term or format, and fewer edges.
LEMMA ValHoused ==
  ASSUME NEW t, TreeOK(t), Housed(t), NEW p \in DOMAIN t, t[p].kind = "leaf", NEW v
  PROVE  Housed([t EXCEPT ![p].val = v])
  <1> DEFINE u == [t EXCEPT ![p].val = v]
  <1>1. t[p] \in LeafNode
    BY NodeFields DEF TreeOK
  <1>2. DOMAIN u = DOMAIN t /\ (\A q \in DOMAIN t \ {p} : u[q] = t[q])
        /\ u[p] = [t[p] EXCEPT !.val = v]
    OBVIOUS
  <1> HIDE DEF u
  <1>3. u[p].kind = "leaf" /\ u[p].inl = t[p].inl
    BY <1>1, <1>2 DEF LeafNode
  <1>4. KidsOf(p, u[p]) = {} /\ Inline(u[p]) = Inline(t[p])
    BY <1>3, KidsOfIs DEF Inline
  <1>5. Housed(u)
    BY <1>2, <1>4, EditHoused
  <1> QED
    BY <1>5 DEF u

LEMMA RouterHoused ==
  ASSUME NEW t, TreeOK(t), Housed(t), NEW p \in DOMAIN t, t[p].kind \in RouterKinds,
         NEW k \in RouterKinds, k = "setlist" \/ t[p].kind # "setlist" \/ Bare(t, p),
         NEW E \in SUBSET t[p].edges, NEW tm,
         NEW u, DOMAIN u = DOMAIN t, \A q \in DOMAIN t \ {p} : u[q] = t[q],
         u[p] = Router(k, t[p].pfx, E, tm)
  PROVE  Housed(u) /\ (Bare(t, p) => Bare(u, p))
  <1>1. u[p].kind = k /\ u[p].pfx = t[p].pfx /\ u[p].edges = E
    BY DEF Router
  <1>2. ~Inline(u[p])
    BY <1>1 DEF Inline, RouterKinds, CnodeKinds
  <1>3. KidsOf(p, u[p]) \subseteq KidsOf(p, t[p])
    <2>1. KidsOf(p, u[p]) = {(p \o u[p].pfx) \o f : f \in u[p].edges}
      BY <1>1, KidsOfIs
    <2>2. KidsOf(p, t[p]) = {(p \o t[p].pfx) \o f : f \in t[p].edges}
      BY KidsOfIs
    <2> QED
      BY <1>1, <2>1, <2>2
  <1>4. Housed(u)
    BY <1>1, <1>2, <1>3, EditHoused
  <1>5. ASSUME Bare(t, p), NEW q \in KidsOf(p, u[p]) \cap DOMAIN u
        PROVE  ~Inline(u[q])
    <2>1. CASE q = p
      BY <1>2, <2>1
    <2>2. CASE q # p
      <3>1. u[q] = t[q] /\ q \in KidsOf(p, t[p]) \cap DOMAIN t
        BY <1>3, <1>5, <2>2
      <3> QED
        BY <1>5, <3>1 DEF Bare
    <2> QED
      BY <2>1, <2>2
  <1> QED
    BY <1>4, <1>5 DEF Bare

LEMMA TermHoused ==
  ASSUME NEW t, TreeOK(t), Housed(t), NEW p \in DOMAIN t, t[p].kind \in RouterKinds, NEW tm
  PROVE  Housed([t EXCEPT ![p].term = tm])
  <1> DEFINE u == [t EXCEPT ![p].term = tm]
  <1>1. t[p] \in RouterNode
    BY NodeFields DEF TreeOK
  <1>2. u[p] = Router(t[p].kind, t[p].pfx, t[p].edges, tm)
    BY <1>1, RouterIs
  <1>3. DOMAIN u = DOMAIN t /\ \A q \in DOMAIN t \ {p} : u[q] = t[q]
    OBVIOUS
  <1> HIDE DEF u
  <1>4. t[p].kind = "setlist" \/ t[p].kind # "setlist" \/ Bare(t, p)
    OBVIOUS
  <1>5. Housed(u)
    BY <1>2, <1>3, <1>4, RouterHoused
  <1> QED
    BY <1>5 DEF u

LEMMA CutHoused ==
  ASSUME NEW t, TreeOK(t), Housed(t), NEW p \in DOMAIN t, t[p].kind \in RouterKinds, NEW e
  PROVE  Housed([t EXCEPT ![p].edges = @ \ {e}])
  <1> DEFINE u == [t EXCEPT ![p].edges = @ \ {e}]
             E == t[p].edges \ {e}
  <1>1. t[p] \in RouterNode
    BY NodeFields DEF TreeOK
  <1>2. DOMAIN u = DOMAIN t /\ (\A q \in DOMAIN t \ {p} : u[q] = t[q])
    OBVIOUS
  <1>3. u[p] = [t[p] EXCEPT !.edges = E]
    OBVIOUS
  <1>4. E \in SUBSET t[p].edges
    OBVIOUS
  <1> HIDE DEF u, E
  <1>5. u[p] = Router(t[p].kind, t[p].pfx, E, t[p].term)
    BY <1>1, <1>3, RouterIs
  <1>6. t[p].kind = "setlist" \/ t[p].kind # "setlist" \/ Bare(t, p)
    OBVIOUS
  <1>7. Housed(u)
    BY <1>2, <1>4, <1>5, <1>6, RouterHoused
  <1> QED
    BY <1>7 DEF u

LEMMA KindHoused ==
  ASSUME NEW t, TreeOK(t), Housed(t), NEW p \in DOMAIN t, t[p].kind \in RouterKinds,
         NEW k \in RouterKinds, k = "setlist" \/ t[p].kind # "setlist" \/ Bare(t, p)
  PROVE  LET u == [t EXCEPT ![p].kind = k]
         IN  Housed(u) /\ (Bare(t, p) => Bare(u, p))
  <1> DEFINE u == [t EXCEPT ![p].kind = k]
             E == t[p].edges
  <1>1. t[p] \in RouterNode
    BY NodeFields DEF TreeOK
  <1>2. DOMAIN u = DOMAIN t /\ (\A q \in DOMAIN t \ {p} : u[q] = t[q])
    OBVIOUS
  <1>3. u[p] = Router(k, t[p].pfx, E, t[p].term)
    BY <1>1, RouterIs
  <1>4. E \in SUBSET t[p].edges
    OBVIOUS
  <1> HIDE DEF u, E
  <1>5. Housed(u) /\ (Bare(t, p) => Bare(u, p))
    BY <1>2, <1>3, <1>4, RouterHoused
  <1> QED
    BY <1>5 DEF u

\* Leaves move out of a line.
LEMMA ExternalizeHoused ==
  ASSUME NEW t, TreeOK(t), Housed(t), NEW p, NEW S \in SUBSET InlineKids(t, p)
  PROVE  Housed(Externalize(t, S))
  <1> DEFINE u == Externalize(t, S)
  <1>1. DOMAIN u = DOMAIN t
    BY DEF Externalize
  <1>2. ASSUME NEW q \in DOMAIN u
        PROVE  /\ Inline(u[q]) => Inline(t[q])
               /\ KidsOf(q, u[q]) \subseteq KidsOf(q, t[q])
               /\ u[q].kind = "setlist" \/ t[q].kind # "setlist" \/ Bare(t, q)
    <2>1. CASE q \notin S
      <3>1. u[q] = t[q]
        BY <1>1, <2>1 DEF Externalize
      <3> HIDE DEF u
      <3> QED
        BY <3>1
    <2>2. CASE q \in S
      <3>1. t[q].kind = "leaf" /\ t[q] \in LeafNode
        BY <1>1, <2>2, NodeFields DEF InlineKids, IsLeaf, TreeOK
      <3>2. u[q] = [t[q] EXCEPT !.inl = FALSE]
        BY <1>1, <2>2 DEF Externalize
      <3> HIDE DEF u
      <3>3. u[q].kind = "leaf" /\ u[q].inl = FALSE
        BY <3>1, <3>2 DEF LeafNode
      <3>4. KidsOf(q, u[q]) = {} /\ ~Inline(u[q])
        BY <3>3, KidsOfIs DEF Inline
      <3> QED
        BY <3>1, <3>4
    <2> QED
      BY <2>1, <2>2
  <1> HIDE DEF u
  <1>3. Housed(u)
    BY <1>1, <1>2, LessHoused
  <1> QED
    BY <1>3 DEF u

-----------------------------------------------------------------------------
(* insert_.                                                                *)

LEMMA RestHomes ==
  ASSUME pc' # "grow", Housed(tree')
  PROVE  Homes'
  BY DEF Homes

LEMMA FinishHomes ==
  ASSUME NEW r, Finish(r), Housed(tree')
  PROVE  Homes'
  BY RestHomes DEF Finish

LEMMA ThrowHomes ==
  ASSUME Homes, Throw
  PROVE  Homes'
  BY FinishHomes DEF Throw, Homes

LEMMA EmptyHoused == Housed([q \in {} |-> Pn(<<>>)])
  BY DEF Housed

LEMMA InitHomes == Init => Homes
  BY EmptyHoused DEF Init, Homes

LEMMA CallHomes ==
  ASSUME Homes, NEW op \in Ops, NEW k \in Keys, NEW v \in Values, Call(op, k, v)
  PROVE  Homes'
  BY RestHomes DEF Call, Entry, Ops, Homes

LEMMA PutNullHomes ==
  ASSUME Homes, PutNull
  PROVE  Homes'
  <1>1. CASE Throw
    BY <1>1, ThrowHomes
  <1>2. CASE tree' = Upd(tree, slot, Leaf(R, req.val)) /\ Finish("true")
    <2> DEFINE x == Leaf(R, req.val)
    <2>1. x.kind = "leaf" /\ ~Inline(x)
      BY DEF Leaf, Inline
    <2> HIDE DEF x
    <2>2. NoneMovedIn(tree, tree) /\ Housed(tree)
      BY DEF NoneMovedIn, Homes
    <2>3. Housed(Upd(tree, slot, x))
      BY <2>1, <2>2, UpdHoused
    <2> QED
      BY <1>2, <2>3, FinishHomes DEF x
  <1> QED
    BY <1>1, <1>2 DEF PutNull

LEMMA PutSameLeafHomes ==
  ASSUME IInv, Homes, PutSameLeaf
  PROVE  Homes'
  <1>1. Housed(tree) /\ slot \in DOMAIN tree /\ tree[slot].kind = "leaf" /\ Finish("false")
    BY DEF PutSameLeaf, nd, Homes
  <1>2. Housed([tree EXCEPT ![slot].val = req.val])
    BY <1>1, StateFacts, ValHoused
  <1>3. tree' = [tree EXCEPT ![slot].val = req.val] \/ tree' = tree
    BY DEF PutSameLeaf
  <1>4. Housed(tree')
    BY <1>1, <1>2, <1>3
  <1> QED
    BY <1>1, <1>4, FinishHomes

LEMMA PutSplitLeafHomes ==
  ASSUME IInv, Shape, Homes, PutSplitLeaf
  PROVE  Homes'
  <1>1. CASE Throw
    BY <1>1, ThrowHomes
  <1>2. ASSUME NEW fits \in BOOLEAN, tree' = SplitLeafTree(fits),
               pc' = "fuse" \/ Finish("true")
        PROVE  Homes'
    <2>1. slot \in DOMAIN tree /\ nd.kind = "leaf" /\ R \in Path
      BY PutFacts DEF PutSplitLeaf
    <2>2. Housed(tree')
      BY <1>2, <2>1, StateFacts, SplitLeafHoused DEF Shape, Homes
    <2> QED
      BY <1>2, <2>2, FinishHomes, RestHomes
  <1> QED
    BY <1>1, <1>2 DEF PutSplitLeaf

LEMMA PutLazyFuseHomes ==
  ASSUME IInv, Homes, PutLazyFuse
  PROVE  Homes'
  <1> DEFINE pfx == tree[slot].pfx
  <1>1. /\ slot \in DOMAIN tree /\ tree[slot].kind = "pn" /\ pc' = "put"
        /\ tree' = MakePrefix(tree, slot, pfx) /\ Housed(tree)
    BY DEF PutLazyFuse, Putting, nd, Homes
  <1>2. slot \in Path /\ pfx \in Path /\ KidsOf(slot, tree[slot]) = {slot \o pfx}
    BY <1>1, StateFacts, NodeFields, KidsOfIs DEF TreeOK
  <1> HIDE DEF pfx
  <1>3. slot \o pfx \in DOMAIN tree => ~Inline(tree[slot \o pfx])
    BY <1>1, <1>2 DEF Housed, Bare
  <1>4. Housed(tree')
    BY <1>1, <1>2, <1>3, StateFacts, MakePrefixHoused
  <1> QED
    BY <1>1, <1>4, RestHomes

LEMMA PutSplitPrefixHomes ==
  ASSUME IInv, Shape, Homes, PutSplitPrefix
  PROVE  Homes'
  <1>1. CASE Throw
    BY <1>1, ThrowHomes
  <1>2. ASSUME NEW fits \in BOOLEAN, tree' = SplitPrefixTree(fits), Finish("true")
        PROVE  Homes'
    <2>1. slot \in DOMAIN tree /\ nd.kind # "leaf" /\ R \in Path /\ ~StartsWith(R, nd.pfx)
      BY PutFacts DEF PutSplitPrefix
    <2>2. Housed(tree')
      BY <1>2, <2>1, StateFacts, SplitPrefixHoused DEF Shape, Homes
    <2> QED
      BY <1>2, <2>2, FinishHomes
  <1> QED
    BY <1>1, <1>2 DEF PutSplitPrefix

LEMMA PutTermHomes ==
  ASSUME IInv, Homes, PutTerm
  PROVE  Homes'
  <1>1. Housed(tree) /\ slot \in DOMAIN tree /\ tree[slot].kind \in RouterKinds
    BY DEF PutTerm, nd, Homes
  <1>2. CASE Throw
    BY <1>2, ThrowHomes
  <1>3. CASE ~Throw
    <2>1. Housed([tree EXCEPT ![slot].term = req.val])
      BY <1>1, StateFacts, TermHoused
    <2>2. (tree' = [tree EXCEPT ![slot].term = req.val] \/ tree' = tree)
          /\ (Finish("true") \/ Finish("false"))
      BY <1>3 DEF PutTerm
    <2>3. Housed(tree')
      BY <1>1, <2>1, <2>2
    <2> QED
      BY <2>2, <2>3, FinishHomes
  <1> QED
    BY <1>2, <1>3

LEMMA PutDescendHomes ==
  ASSUME IInv, Homes, PutDescend
  PROVE  Homes'
  <1> DEFINE S == {NextSlot} \cap InlineKids(tree, slot)
  <1>1. CASE Throw
    BY <1>1, ThrowHomes
  <1>2. CASE tree' = Externalize(tree, S) /\ pc' = "put"
    <2>1. S \in SUBSET InlineKids(tree, slot)
      OBVIOUS
    <2> HIDE DEF S
    <2>2. Housed(tree')
      BY <1>2, <2>1, StateFacts, ExternalizeHoused DEF Homes
    <2> QED
      BY <1>2, <2>2, RestHomes
  <1> QED
    BY <1>1, <1>2 DEF PutDescend, NextSlot, Putting

LEMMA PutExternalizeAllHomes ==
  ASSUME IInv, Homes, PutExternalizeAll
  PROVE  Homes'
  <1>1. pc = "put" /\ Housed(tree)
    BY DEF PutExternalizeAll, Putting, Homes
  <1>2. ASSUME NEW S \in SUBSET InlineKids(tree, slot), tree' = Externalize(tree, S)
        PROVE  Housed(tree')
    BY <1>1, <1>2, StateFacts, ExternalizeHoused
  <1>3. CASE tree' = Externalize(tree, InlineKids(tree, slot)) /\ pc' = pc
    BY <1>1, <1>2, <1>3, RestHomes
  <1>4. ASSUME NEW c \in InlineKids(tree, slot), Finish("throw"),
               tree' = Externalize(tree, {d \in InlineKids(tree, slot) : d[Len(d)] < c[Len(c)]})
        PROVE  Homes'
    <2>1. Housed(tree')
      BY <1>2, <1>4
    <2> QED
      BY <1>4, <2>1, FinishHomes
  <1> QED
    BY <1>3, <1>4 DEF PutExternalizeAll

LEMMA PutAddHomes ==
  ASSUME IInv, Homes, PutAdd
  PROVE  Homes'
  <1> DEFINE suf == Rest(req.key, here \o Edge)
  <1>1. /\ Housed(tree) /\ slot \in DOMAIN tree /\ tree[slot].kind \in RouterKinds
        /\ InlineKids(tree, slot) = {}
    BY DEF PutAdd, nd, NoChild, Homes
  <1>2. CASE Throw
    BY <1>2, ThrowHomes
  <1>3. CASE tree' = Link(tree, slot, Edge, suf) /\ Finish("true")
    <2> HIDE DEF suf
    <2>1. Housed(Link(tree, slot, Edge, suf))
      BY <1>1, StateFacts, LinkHoused
    <2> QED
      BY <1>3, <2>1, FinishHomes
  <1>4. CASE gnode' = slot /\ UNCHANGED tree
    <2>1. Bare(tree, slot)
      BY <1>1, NoInlineKids
    <2> QED
      BY <1>1, <1>4, <2>1 DEF Homes
  <1> QED
    BY <1>2, <1>3, <1>4 DEF PutAdd

LEMMA PutAddStemHomes ==
  ASSUME IInv, Homes, PutAddStem
  PROVE  Homes'
  <1> DEFINE suf == Rest(req.key, here \o Edge)
  <1>1. Housed(tree) /\ slot \in DOMAIN tree /\ tree[slot].kind \in RouterKinds
    BY DEF PutAddStem, nd, NoChild, Homes
  <1>2. CASE Throw
    BY <1>2, ThrowHomes
  <1>3. CASE tree' = Link(tree, slot, Edge, suf) /\ Finish("true")
    <2> HIDE DEF suf
    <2>1. Housed(Link(tree, slot, Edge, suf))
      BY <1>1, StateFacts, LinkHoused
    <2> QED
      BY <1>3, <2>1, FinishHomes
  <1> QED
    BY <1>2, <1>3 DEF PutAddStem

LEMMA PutRestrideHomes ==
  ASSUME Homes, PutRestride
  PROVE  Homes'
  <1>1. CASE Throw
    BY <1>1, ThrowHomes
  <1>2. CASE tree' = RestrideTree /\ pc' = pc
    <2>1. Housed(tree') /\ pc' = "put"
      BY <1>2, RestrideHoused DEF Homes, PutRestride, Putting
    <2> QED
      BY <2>1, RestHomes
  <1> QED
    BY <1>1, <1>2 DEF PutRestride

LEMMA GrowLiftHomes ==
  ASSUME IInv, Homes, GrowLift
  PROVE  Homes'
  <1> DEFINE b == At(tree, gnode)
             x == [gnd EXCEPT !.pfx = <<>>]
             u == [q \in {gnode, b} |-> IF q = gnode THEN Pn(gnd.pfx) ELSE x]
  <1>1. Housed(tree) /\ Bare(tree, gnode) /\ pc = "grow"
    BY DEF GrowLift, Homes
  <1>2. CASE Throw
    BY <1>2, ThrowHomes
  <1>3. CASE tree' = Over(tree, u) /\ gnode' = b
    <2>1. /\ gnode \in DOMAIN tree /\ gnode \in Path /\ gnd = tree[gnode] /\ gnd \in RouterNode
          /\ gnd.kind = "setlist" /\ gnd.pfx \in Path /\ gnd.pfx # <<>>
      BY <1>1, GrowFacts DEF gnd, GrowLift
    <2>2. x = Router(gnd.kind, <<>>, gnd.edges, gnd.term)
      BY <2>1, RouterIs
    <2>3. x.kind = "setlist" /\ x.pfx = <<>> /\ x.edges = gnd.edges
      BY <2>1, <2>2 DEF Router
    <2>4. b = gnode \o gnd.pfx /\ b \in Path /\ b # gnode
      BY <2>1, StartsConcat DEF At
    <2>5. Pn(gnd.pfx).kind = "pn" /\ Pn(gnd.pfx).pfx = gnd.pfx
      BY DEF Pn
    <2> HIDE DEF x, b
    <2>6. DOMAIN u = {gnode, b} /\ u[gnode] = Pn(gnd.pfx) /\ u[b] = x
      BY <2>4
    <2> HIDE DEF u
    <2>7. Plain(u)
      BY <2>3, <2>4, <2>5, <2>6 DEF Plain, Inline
    <2>8. Housed(tree') /\ NoneMovedIn(tree, tree')
      BY <1>1, <1>3, <2>7, OverHoused
    <2>9. b \in DOMAIN tree' /\ tree'[b] = x
      BY <1>3, <2>6 DEF Over
    <2>10. KidsOf(b, tree'[b]) \subseteq KidsOf(gnode, tree[gnode])
      <3>1. KidsOf(gnode, gnd) = {(gnode \o gnd.pfx) \o e : e \in gnd.edges}
        BY <2>1, KidsOfIs DEF RouterKinds
      <3>2. KidsOf(b, x) = {(b \o x.pfx) \o e : e \in x.edges}
        BY <2>3, KidsOfIs DEF RouterKinds
      <3>3. b \o <<>> = b
        BY <2>4, ConcatEmpty
      <3> QED
        BY <2>1, <2>3, <2>4, <2>9, <3>1, <3>2, <3>3
    <2>11. FromBare(tree, tree', b)
      BY <1>1, <2>1, <2>10 DEF FromBare
    <2>12. Bare(tree', b)
      BY <2>8, <2>11, BareAgain
    <2> QED
      BY <1>3, <2>8, <2>12 DEF Homes
  <1> QED
    BY <1>2, <1>3 DEF GrowLift

LEMMA GrowWidenHomes ==
  ASSUME IInv, Homes, GrowWiden
  PROVE  Homes'
  <1> DEFINE u == [tree EXCEPT ![gnode].kind = WidenTo(@)]
             k == WidenTo(gnd.kind)
  <1>1. Housed(tree) /\ Bare(tree, gnode) /\ pc = "grow"
    BY DEF GrowWiden, Homes
  <1>2. CASE Throw
    BY <1>2, ThrowHomes
  <1>3. CASE tree' = u /\ gnode' = gnode
    <2>1. gnode \in DOMAIN tree /\ gnd = tree[gnode] /\ gnd.kind \in RouterKinds \ {"u16"}
      BY <1>1, GrowFacts DEF gnd
    <2>2. gnd.kind \in {"setlist"} \cup CnodeKinds
      BY <2>1 DEF GrowWiden, Fits, RouterKinds, CnodeKinds
    <2>3. k \in RouterKinds
      BY <2>2 DEF WidenTo, RouterKinds, CnodeKinds
    <2>4. u = [tree EXCEPT ![gnode].kind = k]
      BY DEF gnd
    <2> HIDE DEF u, k
    <2>5. Housed(u) /\ Bare(u, gnode)
      BY <1>1, <2>1, <2>3, <2>4, StateFacts, KindHoused
    <2> QED
      BY <1>3, <2>5 DEF Homes
  <1> QED
    BY <1>2, <1>3 DEF GrowWiden

LEMMA GrowLinkHomes ==
  ASSUME IInv, Homes, GrowLink
  PROVE  Homes'
  <1> DEFINE suf == Rest(req.key, At(tree, gnode) \o GEdge)
             t   == Link(tree, gnode, GEdge, suf)
             pfx == tree[slot].pfx
  <1>1. Housed(tree) /\ pc = "grow" /\ Finish("true")
    BY DEF GrowLink, Homes
  <1>2. /\ gnode \in DOMAIN tree /\ tree[gnode].kind \in RouterKinds \ {"u16"}
        /\ gnode # slot => slot \in DOMAIN tree /\ IsPn(tree, slot)
    BY <1>1, GrowFacts DEF gnd
  <1>3. TreeOK(t) /\ Housed(t) /\ NoneMovedIn(tree, t)
    <2>1. GEdge \in Path /\ Len(GEdge) = StemLen(tree[gnode].kind) /\ suf \in Path
      BY <1>1, <1>2, GrowEdgeOK DEF StemLen
    <2> HIDE DEF suf
    <2>2. TreeOK(t)
      BY <1>2, <2>1, StateFacts, LinkOK
    <2>3. Housed(t) /\ NoneMovedIn(tree, t)
      BY <1>1, <1>2, StateFacts, LinkHoused
    <2> QED
      BY <2>2, <2>3
  <1>4. gnode # slot => Housed(MakePrefix(t, slot, pfx))
    <2> SUFFICES ASSUME gnode # slot
                 PROVE  Housed(MakePrefix(t, slot, pfx))
      OBVIOUS
    <2>1. slot \in DOMAIN tree /\ tree[slot].kind = "pn" /\ slot \in Path /\ pfx \in Path
      BY <1>2, StateFacts, NodeFields DEF TreeOK, IsPn
    <2>2. KidsOf(slot, tree[slot]) = {slot \o pfx}
      BY <2>1, KidsOfIs
    <2> HIDE DEF t, pfx
    <2>3. slot \o pfx \in DOMAIN tree => ~Inline(tree[slot \o pfx])
      BY <1>1, <2>1, <2>2 DEF Housed, Bare
    <2>4. slot \o pfx \in DOMAIN t => ~Inline(t[slot \o pfx])
      BY <1>3, <2>3 DEF NoneMovedIn
    <2> QED
      BY <1>3, <2>1, <2>4, MakePrefixHoused
  <1>5. Housed(tree')
    BY <1>3, <1>4 DEF GrowLink
  <1> QED
    BY <1>1, <1>5, FinishHomes

LEMMA FuseParentHomes ==
  ASSUME IInv, Homes, FuseParent
  PROVE  Homes'
  <1>1. pslot \in DOMAIN tree /\ Housed(tree)
    BY StateFacts DEF FuseParent, PutLive, Homes
  <1>2. Fusable(tree, pslot) => Housed(FuseTree(tree, pslot))
    BY <1>1, StateFacts, FuseHoused
  <1>3. Housed(tree') /\ Finish(ret)
    BY <1>1, <1>2 DEF FuseParent
  <1> QED
    BY <1>3, FinishHomes

-----------------------------------------------------------------------------
(* find, update and clear.                                                 *)

LEMMA GetDescendHomes ==
  ASSUME Homes, GetDescend
  PROVE  Homes'
  BY RestHomes DEF GetDescend, Getting, Homes

LEMMA GetMissHomes ==
  ASSUME Homes, GetMiss
  PROVE  Homes'
  BY FinishHomes DEF GetMiss, Homes

LEMMA GetHitHomes ==
  ASSUME IInv, Homes, GetHit
  PROVE  Homes'
  <1>1. slot \in DOMAIN tree /\ (tree[slot].kind = "leaf" \/ tree[slot].kind \in RouterKinds)
        /\ Housed(tree)
    BY DEF GetHit, Holds, nd, Homes
  <1>2. tree[slot].kind = "leaf" => Housed([tree EXCEPT ![slot].val = req.val])
    BY <1>1, StateFacts, ValHoused
  <1>3. tree[slot].kind \in RouterKinds => Housed([tree EXCEPT ![slot].term = req.val])
    BY <1>1, StateFacts, TermHoused
  <1>4. \/ tree' = tree
        \/ tree[slot].kind = "leaf" /\ tree' = [tree EXCEPT ![slot].val = req.val]
        \/ tree[slot].kind # "leaf" /\ tree' = [tree EXCEPT ![slot].term = req.val]
    BY DEF GetHit, nd
  <1>5. Housed(tree')
    BY <1>1, <1>2, <1>3, <1>4
  <1>6. \E r : Finish(r)
    BY DEF GetHit
  <1> QED
    BY <1>5, <1>6, FinishHomes

LEMMA ClearHomes ==
  ASSUME Clear
  PROVE  Homes'
  BY EmptyHoused, FinishHomes DEF Clear

-----------------------------------------------------------------------------
(* remove_bytes_, rm_unwind_ and rm_shrink_.                               *)

LEMMA FreedHomes ==
  ASSUME NEW i, Freed(i), Housed(tree')
  PROVE  Homes'
  BY FinishHomes, RestHomes DEF Freed

LEMMA RemDescendHomes ==
  ASSUME Homes, RemDescend
  PROVE  Homes'
  BY RestHomes DEF RemDescend, Removing, Homes

LEMMA RemMissHomes ==
  ASSUME Homes, RemMiss
  PROVE  Homes'
  BY FinishHomes DEF RemMiss, Homes

LEMMA RemLeafHomes ==
  ASSUME Homes, RemLeaf
  PROVE  Homes'
  BY DropHoused, FreedHomes DEF RemLeaf, Homes

LEMMA RemTermHomes ==
  ASSUME IInv, Homes, RemTerm
  PROVE  Homes'
  <1>1. /\ slot \in DOMAIN tree /\ tree[slot].kind \in RouterKinds /\ Housed(tree)
        /\ tree' = [tree EXCEPT ![slot].term = NoVal] /\ pc' = "shrink"
    BY DEF RemTerm, Holds, nd, ToShrink, Homes
  <1>2. Housed(tree')
    BY <1>1, StateFacts, TermHoused
  <1> QED
    BY <1>1, <1>2, RestHomes

LEMMA RemInlineHomes ==
  ASSUME IInv, Homes, RemInline
  PROVE  Homes'
  <1> DEFINE t == Drop(tree, {NextSlot})
             u == [t EXCEPT ![slot].edges = @ \ {Edge}]
  <1>1. /\ Removing /\ Passes /\ pc' = "shrink" /\ tree' = u /\ Housed(tree)
        /\ NextSlot \in InlineKids(tree, slot)
    BY DEF RemInline, ToShrink, Homes
  <1>2. slot \in DOMAIN tree /\ tree[slot].kind = "setlist"
    BY <1>1 DEF InlineKids, Passes
  <1>3. slot # NextSlot
    <2>1. Len(slot) \in Nat /\ Len(NextSlot) \in Nat /\ Len(slot) < Len(NextSlot)
      BY <1>1, RemFacts, PassFacts, PathFacts
    <2> QED
      BY <2>1
  <1>4. TreeOK(t) /\ Housed(t) /\ slot \in DOMAIN t /\ t[slot] = tree[slot]
    <2>1. TreeOK(t)
      BY StateFacts, DropOK
    <2>2. Housed(t)
      BY <1>1, DropHoused
    <2>3. slot \in DOMAIN t /\ t[slot] = tree[slot]
      BY <1>2, <1>3 DEF Drop
    <2> QED
      BY <2>1, <2>2, <2>3
  <1>5. t[slot].kind \in RouterKinds
    BY <1>2, <1>4 DEF RouterKinds
  <1> HIDE DEF t
  <1>6. Housed(u)
    BY <1>4, <1>5, CutHoused
  <1> HIDE DEF u
  <1> QED
    BY <1>1, <1>6, RestHomes

LEMMA UnlinkPnHomes ==
  ASSUME Homes, UnlinkPn
  PROVE  Homes'
  BY DropHoused, FreedHomes DEF UnlinkPn, Homes

LEMMA UnlinkEdgeHomes ==
  ASSUME IInv, Homes, UnlinkEdge
  PROVE  Homes'
  <1> DEFINE e == Rest(lvl[(j + 1) % RmLvn], At(tree, lp))
             u == [tree EXCEPT ![lp].edges = @ \ {e}]
  <1>1. /\ pc = "unlink" /\ pc' = "shrink" /\ tree' = u /\ Housed(tree)
        /\ lnd.kind # "pn" /\ lnd = tree[lp]
    BY DEF UnlinkEdge, lnd, Homes
  <1>2. lp \in DOMAIN tree /\ tree[lp].kind \in RouterKinds
    BY <1>1, LevelFacts
  <1> HIDE DEF e
  <1>3. Housed(u)
    BY <1>1, <1>2, StateFacts, CutHoused
  <1> HIDE DEF u
  <1> QED
    BY <1>1, <1>3, RestHomes

LEMMA SurvivesHomes ==
  ASSUME Survives, Housed(tree')
  PROVE  Homes'
  BY FinishHomes DEF Survives

LEMMA ShrinkEmptyHomes ==
  ASSUME Homes, ShrinkEmpty
  PROVE  Homes'
  BY DropHoused, FreedHomes DEF ShrinkEmpty, Homes

LEMMA ShrinkToTermHomes ==
  ASSUME IInv, Homes, ShrinkToTerm
  PROVE  Homes'
  <1> DEFINE b     == At(tree, lp)
             value == Leaf(<<>>, lnd.term)
             x     == [q \in {lp, b} |-> IF q = lp THEN Pn(lnd.pfx) ELSE value]
             u     == Over(tree, x)
             w     == Upd(tree, lp, value)
  <1>1. /\ Shrinking /\ Survives /\ Housed(tree) /\ NoneMovedIn(tree, tree)
        /\ (lnd.pfx # <<>> => tree' = tree \/ tree' = u) /\ (lnd.pfx = <<>> => tree' = w)
    BY DEF ShrinkToTerm, Homes, NoneMovedIn
  <1>2. value.kind = "leaf" /\ ~Inline(value) /\ Pn(lnd.pfx).kind = "pn" /\ Pn(lnd.pfx).pfx = lnd.pfx
    BY DEF Leaf, Pn, Inline
  <1> HIDE DEF value
  <1>3. Housed(w)
    BY <1>1, <1>2, UpdHoused
  <1>4. lnd.pfx # <<>> => Housed(u)
    <2> SUFFICES ASSUME lnd.pfx # <<>>
                 PROVE  Housed(u)
      OBVIOUS
    <2>1. lp \in Path /\ lnd.pfx \in Path /\ lnd.kind \in RouterKinds /\ lnd = tree[lp]
      BY <1>1, ShrinkFacts DEF lnd
    <2>2. b = lp \o lnd.pfx /\ b # lp
      BY <2>1, StartsConcat DEF At, RouterKinds, CnodeKinds
    <2> HIDE DEF b
    <2>3. DOMAIN x = {lp, b} /\ x[lp] = Pn(lnd.pfx) /\ x[b] = value
      BY <2>2
    <2> HIDE DEF x
    <2>4. Plain(x)
      BY <1>2, <2>2, <2>3 DEF Plain, Inline
    <2> QED
      BY <1>1, <2>4, OverHoused
  <1> HIDE DEF u, w
  <1>5. Housed(tree')
    BY <1>1, <1>3, <1>4
  <1> QED
    BY <1>1, <1>5, SurvivesHomes

LEMMA ShrinkLoneHomes ==
  ASSUME IInv, Homes, ShrinkLone
  PROVE  Homes'
  <1>1. /\ Shrinking /\ Survives /\ Deg # 0 /\ Housed(tree)
        /\ tree' = tree \/ (InlineKids(tree, lp) = {} /\ tree' = CollapseTree(tree, lp))
    BY DEF ShrinkLone, Homes
  <1>2. lp \in DOMAIN tree /\ tree[lp].kind \in RouterKinds
    BY <1>1, ShrinkFacts DEF lnd
  <1>3. tree[lp].edges # {}
    BY <1>1, FS_EmptySet DEF Deg, lnd
  <1>4. InlineKids(tree, lp) = {} => Housed(CollapseTree(tree, lp))
    BY <1>1, <1>2, <1>3, StateFacts, NoInlineKids, CollapseHoused
  <1>5. Housed(tree')
    BY <1>1, <1>4
  <1> QED
    BY <1>1, <1>5, SurvivesHomes

LEMMA ShrinkDewidenHomes ==
  ASSUME IInv, Homes, ShrinkDewiden
  PROVE  Homes'
  <1> DEFINE k == "setlist"
             u == [tree EXCEPT ![lp].kind = k]
  <1>1. Shrinking /\ Housed(tree)
    BY DEF ShrinkDewiden, Homes
  <1>2. CASE tree' = tree /\ Survives
    BY <1>1, <1>2, SurvivesHomes
  <1>3. CASE tree' = u /\ pc' = pc
    <2>1. lp \in DOMAIN tree /\ tree[lp].kind \in RouterKinds
      BY <1>1, ShrinkFacts DEF lnd
    <2>2. k \in RouterKinds /\ k = "setlist"
      BY DEF RouterKinds
    <2> HIDE DEF k
    <2>3. Housed(u)
      BY <1>1, <2>1, <2>2, StateFacts, KindHoused
    <2> HIDE DEF u
    <2> QED
      BY <1>1, <1>3, <2>3, RestHomes DEF Shrinking
  <1> QED
    BY <1>2, <1>3 DEF ShrinkDewiden

LEMMA ShrinkStandsHomes ==
  ASSUME Homes, ShrinkStands
  PROVE  Homes'
  BY SurvivesHomes DEF ShrinkStands, Homes

-----------------------------------------------------------------------------
(* Every step.                                                             *)

LEMMA StutterHomes ==
  ASSUME Homes, UNCHANGED vars
  PROVE  Homes'
  BY DEF vars, Homes

LEMMA PutStepHomes ==
  ASSUME IInv, Shape, Homes, Put
  PROVE  Homes'
  BY PutNullHomes, PutSameLeafHomes, PutSplitLeafHomes, PutLazyFuseHomes, PutSplitPrefixHomes,
     PutTermHomes, PutDescendHomes, PutExternalizeAllHomes, PutAddHomes, PutAddStemHomes,
     PutRestrideHomes, GrowLiftHomes, GrowWidenHomes, GrowLinkHomes, FuseParentHomes
  DEF Put

LEMMA RemStepHomes ==
  ASSUME IInv, Homes, Rem
  PROVE  Homes'
  BY RemDescendHomes, RemMissHomes, RemLeafHomes, RemTermHomes, RemInlineHomes, UnlinkPnHomes,
     UnlinkEdgeHomes, ShrinkEmptyHomes, ShrinkToTermHomes, ShrinkLoneHomes, ShrinkDewidenHomes,
     ShrinkStandsHomes
  DEF Rem

LEMMA StepHomes ==
  ASSUME IInv, Shape, Homes, Next
  PROVE  Homes'
  BY PutStepHomes, GetDescendHomes, GetMissHomes, GetHitHomes, RemStepHomes, ClearHomes, CallHomes
  DEF Next, Step, Get

LEMMA HomesHold == Spec => [](IInv /\ Shape /\ Homes)
  <1>1. Init => IInv /\ Shape /\ Homes
    BY InitOK, InitShape, InitHomes
  <1>2. IInv /\ Shape /\ Homes /\ [Next]_vars => IInv' /\ Shape' /\ Homes'
    BY StepOK, StutterOK, StepShape, StutterShape, StepHomes, StutterHomes
  <1> QED
    BY <1>1, <1>2, PTL DEF Spec

\* A leaf of a sound tree that is in a line is in that of its parent.
LEMMA InLine ==
  ASSUME NEW t, TreeOK(t), Good(Kids(t)), Housed(t), NEW q \in DOMAIN t, Inline(t[q])
  PROVE  \E p \in DOMAIN t : q \in Children(t, p) /\ t[p].kind = "setlist"
  <1>1. q # <<>>
    BY DEF Housed
  <1>2. DOMAIN Kids(t) = DOMAIN t /\ \A p \in DOMAIN t : Kids(t)[p] = KidsOf(p, t[p])
    BY KidsIs
  <1>3. PICK p \in DOMAIN t : q \in KidsOf(p, t[p])
    BY <1>1, <1>2 DEF Good, Hung
  <1>4. t[p].kind = "setlist"
    BY <1>3 DEF Housed, Bare
  <1> QED
    BY <1>3, <1>4, ChildrenAre

\* In every state, a leaf whose handle is an offset into a line is the child of
\* a setlist: a router of another format, a prefix node and the root slot only
\* ever hold handles of blocks, so no offset is dereferenced as an address.
THEOREM InlineHoused == Spec => []InlineUnderSetlist
  <1>1. ASSUME IInv, Shape, Homes
        PROVE  InlineUnderSetlist
    <2> SUFFICES ASSUME NEW q \in DOMAIN tree, IsLeaf(tree, q), tree[q].inl
                 PROVE  \E p \in DOMAIN tree : q \in Children(tree, p) /\ tree[p].kind = "setlist"
      BY DEF InlineUnderSetlist
    <2>1. tree[q].kind = "leaf" /\ tree[q].inl = TRUE
      <3>1. tree[q].kind = "leaf" /\ tree[q] \in LeafNode
        BY <1>1, StateFacts, NodeFields DEF IsLeaf, TreeOK
      <3>2. tree[q].inl \in BOOLEAN
        BY <3>1 DEF LeafNode
      <3> QED
        BY <3>1, <3>2, Zenon
    <2> QED
      BY <1>1, <2>1, StateFacts, InLine DEF Inline, Shape, Homes
  <1>2. IInv /\ Shape /\ Homes => InlineUnderSetlist
    BY <1>1
  <1> QED
    BY <1>2, HomesHold, PTL

-----------------------------------------------------------------------------
(* Edges that lead somewhere.                                              *)

\* Every edge of t leads to a node of t, or into S.
Linked(t, S) == \A p \in DOMAIN t : KidsOf(p, t[p]) \subseteq DOMAIN t \cup S

\* No node of t but p leads to c.
OnlyFrom(t, p, c) == \A q \in DOMAIN t : q # p => c \notin KidsOf(q, t[q])

LEMMA TakenOnce ==
  ASSUME NEW t, Good(Kids(t)), NEW p \in DOMAIN t, NEW c \in KidsOf(p, t[p])
  PROVE  OnlyFrom(t, p, c)
  <1> SUFFICES ASSUME NEW q \in DOMAIN t, q # p, c \in KidsOf(q, t[q])
               PROVE  FALSE
    BY DEF OnlyFrom
  <1>1. /\ p \in DOMAIN Kids(t) /\ q \in DOMAIN Kids(t)
        /\ c \in Kids(t)[p] /\ c \in Kids(t)[q]
    BY KidsIs
  <1>2. p = q
    BY <1>1, OneParent
  <1> QED
    BY <1>2

\* The edges of a node lead away from it, and never to the root.
LEMMA KidsLeave ==
  ASSUME NEW p \in Path, NEW x, NodeOK(x)
  PROVE  p \notin KidsOf(p, x) /\ <<>> \notin KidsOf(p, x)
  <1>1. KidsOK(p, KidsOf(p, x))
    BY NodeKidsOK
  <1>2. p \notin KidsOf(p, x)
    BY <1>1 DEF KidsOK
  <1>3. <<>> \in KidsOf(p, x) => p = <<>>
    BY <1>1, StartsEmpty DEF KidsOK
  <1> QED
    BY <1>2, <1>3

LEMMA LinkedMore ==
  ASSUME NEW t, NEW S, Linked(t, S), NEW U, S \subseteq DOMAIN t \cup U
  PROVE  Linked(t, U)
  BY DEF Linked

\* Trees with the same edges.
LEMMA LinkedSame ==
  ASSUME NEW t, NEW S, Linked(t, S), NEW u, DOMAIN u = DOMAIN t,
         \A q \in DOMAIN t : KidsOf(q, u[q]) \subseteq KidsOf(q, t[q])
  PROVE  Linked(u, S)
  BY DEF Linked

LEMMA LinkedOver ==
  ASSUME NEW t, NEW S, Linked(t, S), NEW x, NEW T, Linked(x, T), NEW U,
         S \subseteq (DOMAIN t \cup DOMAIN x) \cup U, T \subseteq (DOMAIN t \cup DOMAIN x) \cup U
  PROVE  Linked(Over(t, x), U)
  <1> DEFINE u == Over(t, x)
  <1>1. /\ DOMAIN u = DOMAIN t \cup DOMAIN x
        /\ \A q \in DOMAIN x : u[q] = x[q]
        /\ \A q \in DOMAIN t \ DOMAIN x : u[q] = t[q]
    BY OverIs
  <1> HIDE DEF u
  <1>2. ASSUME NEW q \in DOMAIN u
        PROVE  KidsOf(q, u[q]) \subseteq DOMAIN u \cup U
    <2>1. CASE q \in DOMAIN x
      <3>1. KidsOf(q, u[q]) \subseteq DOMAIN x \cup T
        BY <1>1, <2>1 DEF Linked
      <3> QED
        BY <1>1, <3>1
    <2>2. CASE q \notin DOMAIN x
      <3>1. KidsOf(q, u[q]) \subseteq DOMAIN t \cup S
        BY <1>1, <1>2, <2>2 DEF Linked
      <3> QED
        BY <1>1, <3>1
    <2> QED
      BY <2>1, <2>2
  <1>3. Linked(u, U)
    BY <1>2 DEF Linked
  <1> QED
    BY <1>3 DEF u

LEMMA LinkedUpd ==
  ASSUME NEW t, NEW S, Linked(t, S), NEW p, NEW x, NEW U,
         S \subseteq DOMAIN t \cup ({p} \cup U), KidsOf(p, x) \subseteq DOMAIN t \cup ({p} \cup U)
  PROVE  Linked(Upd(t, p, x), U)
  <1> DEFINE u == Upd(t, p, x)
  <1>1. /\ DOMAIN u = DOMAIN t \cup {p} /\ u[p] = x
        /\ \A q \in DOMAIN t : q # p => u[q] = t[q]
    BY DEF Upd
  <1> HIDE DEF u
  <1>2. ASSUME NEW q \in DOMAIN u
        PROVE  KidsOf(q, u[q]) \subseteq DOMAIN u \cup U
    <2>1. CASE q = p
      BY <1>1, <2>1
    <2>2. CASE q # p
      <3>1. KidsOf(q, u[q]) \subseteq DOMAIN t \cup S
        BY <1>1, <1>2, <2>2 DEF Linked
      <3> QED
        BY <1>1, <3>1
    <2> QED
      BY <2>1, <2>2
  <1>3. Linked(u, U)
    BY <1>2 DEF Linked
  <1> QED
    BY <1>3 DEF u

\* A node goes: what leads to it hangs.
LEMMA LinkedDrop ==
  ASSUME NEW t, NEW S, Linked(t, S), NEW p
  PROVE  Linked(Drop(t, {p}), S \cup {p})
  BY DEF Linked, Drop

\* A node goes that alone led to the slot that was hanging.
LEMMA LinkedDropOver ==
  ASSUME NEW t, NEW p \in DOMAIN t, NEW c, Linked(t, {c}), OnlyFrom(t, p, c)
  PROVE  Linked(Drop(t, {p}), {p})
  BY DEF Linked, Drop, OnlyFrom

\* The root goes.
LEMMA LinkedNoRoot ==
  ASSUME NEW t, TreeOK(t), Linked(t, {<<>>})
  PROVE  Linked(t, {})
  <1>1. ASSUME NEW q \in DOMAIN t
        PROVE  <<>> \notin KidsOf(q, t[q])
    BY KidsLeave DEF TreeOK
  <1> QED
    BY <1>1 DEF Linked

\* make_prefix above a node that nothing else leads to.
LEMMA MakePrefixLinked ==
  ASSUME NEW t, TreeOK(t), NEW S, NEW p \in Path, NEW pfx \in Path, Linked(t, S),
         p \o pfx \in DOMAIN t, OnlyFrom(t, p, p \o pfx)
  PROVE  Linked(MakePrefix(t, p, pfx), S) /\ p \in DOMAIN MakePrefix(t, p, pfx)
  <1> DEFINE c == p \o pfx
  <1>1. CASE pfx = <<>>
    BY <1>1, ConcatEmpty DEF MakePrefix
  <1>2. CASE pfx # <<>> /\ FusesInto(t, c, pfx)
    <2> DEFINE x == [t[c] EXCEPT !.kind = "pfxd", !.pfx = pfx \o t[c].pfx]
               s == Drop(t, {c})
               u == Upd(s, p, x)
    <2>1. MakePrefix(t, p, pfx) = u
      BY <1>2 DEF MakePrefix
    <2>2. c \in DOMAIN t /\ t[c].kind \in {"full", "pfxd"} /\ OnlyFrom(t, p, c) /\ c \in Path
          /\ NodeOK(t[c])
      BY <1>2 DEF FusesInto, TreeOK
    <2> HIDE DEF c
    <2>3. /\ x.kind \in RouterKinds /\ x.edges = t[c].edges /\ x.pfx = pfx \o t[c].pfx
          /\ t[c].pfx \in Path /\ t[c].kind \in RouterKinds
      BY <1>2, <2>2, FusedNode
    <2> HIDE DEF x
    <2>4. KidsOf(p, x) = KidsOf(c, t[c])
      <3>1. p \o (pfx \o t[c].pfx) = (p \o pfx) \o t[c].pfx
        BY <2>3, ConcatAssoc
      <3>2. Alike(p, x, c, t[c])
        BY <2>3, <3>1 DEF Alike, c
      <3> QED
        BY <3>2, SameEdges
    <2>5. c \notin KidsOf(c, t[c])
      BY <2>2, KidsLeave
    <2>6. /\ DOMAIN u = (DOMAIN t \ {c}) \cup {p} /\ u[p] = x
          /\ \A q \in DOMAIN u : q # p => q \in DOMAIN t /\ u[q] = t[q]
      BY DEF Upd, Drop
    <2> HIDE DEF s, u
    <2>7. ASSUME NEW q \in DOMAIN u
          PROVE  KidsOf(q, u[q]) \subseteq DOMAIN u \cup S
      <3>1. CASE q = p
        <4>1. KidsOf(q, u[q]) \subseteq DOMAIN t \cup S
          BY <2>2, <2>4, <2>6, <3>1 DEF Linked
        <4>2. c \notin KidsOf(q, u[q])
          BY <2>4, <2>5, <2>6, <3>1
        <4> QED
          BY <2>6, <4>1, <4>2
      <3>2. CASE q # p
        <4>1. q \in DOMAIN t /\ u[q] = t[q]
          BY <2>6, <3>2
        <4>2. KidsOf(q, u[q]) \subseteq DOMAIN t \cup S /\ c \notin KidsOf(q, u[q])
          BY <2>2, <3>2, <4>1 DEF Linked, OnlyFrom
        <4> QED
          BY <2>6, <4>2
      <3> QED
        BY <3>1, <3>2
    <2>8. Linked(u, S) /\ p \in DOMAIN u
      BY <2>6, <2>7 DEF Linked
    <2> QED
      BY <2>1, <2>8
  <1>3. CASE pfx # <<>> /\ ~FusesInto(t, c, pfx)
    <2> DEFINE x == Pn(pfx)
               u == Upd(t, p, x)
    <2>1. MakePrefix(t, p, pfx) = u
      BY <1>3 DEF MakePrefix
    <2>2. x.kind = "pn" /\ x.pfx = pfx
      BY DEF Pn
    <2> HIDE DEF x
    <2>3. KidsOf(p, x) = {c}
      BY <2>2, KidsOfIs
    <2>4. S \subseteq DOMAIN t \cup ({p} \cup S)
          /\ KidsOf(p, x) \subseteq DOMAIN t \cup ({p} \cup S)
      BY <2>3
    <2>5. Linked(u, S)
      BY <2>4, LinkedUpd
    <2>6. p \in DOMAIN u
      BY DEF Upd
    <2> QED
      BY <2>1, <2>5, <2>6
  <1> QED
    BY <1>1, <1>2, <1>3

\* The router of a fork, below its shared bytes.
LEMMA ApplyPrefixLinked ==
  ASSUME NEW p \in Path, NEW common \in Path, NEW E, NEW tm, NEW K,
         \A e \in E : (p \o common) \o e \in K
  PROVE  LET u == ApplyPrefix(p, common, Router("setlist", <<>>, E, tm))
         IN  Linked(u, K) /\ p \in DOMAIN u
  <1> DEFINE r == Router("setlist", <<>>, E, tm)
             y == [r EXCEPT !.pfx = common]
             u == ApplyPrefix(p, common, r)
             a == p \o common
  <1>1. r.kind = "setlist" /\ r.pfx = <<>> /\ r.edges = E
        /\ y.kind = "setlist" /\ y.pfx = common /\ y.edges = E
    BY DEF Router
  <1> HIDE DEF r, y
  <1>2. "setlist" \in RouterKinds
    BY DEF RouterKinds
  <1>3. CASE Len(common) <= PrefixCap
    <2>1. u = [q \in {p} |-> y]
      BY <1>3 DEF ApplyPrefix, y
    <2>2. DOMAIN u = {p} /\ u[p] = y
      BY <2>1
    <2> HIDE DEF u
    <2>3. KidsOf(p, y) = {(p \o y.pfx) \o e : e \in y.edges}
      BY <1>1, <1>2, KidsOfIs
    <2>4. ASSUME NEW k \in KidsOf(p, u[p])
          PROVE  k \in K
      <3>1. PICK e \in y.edges : k = (p \o y.pfx) \o e
        BY <2>2, <2>3
      <3> QED
        BY <1>1, <3>1
    <2>5. Linked(u, K) /\ p \in DOMAIN u
      BY <2>2, <2>4 DEF Linked
    <2> QED
      BY <2>5 DEF u, r
  <1>4. CASE ~(Len(common) <= PrefixCap)
    <2>1. u = [q \in {p, a} |-> IF q = p THEN Pn(common) ELSE r]
      BY <1>4 DEF ApplyPrefix
    <2>2. common # <<>>
      BY <1>4, EmptyPath, CapAssumption
    <2>3. a # p /\ a \in Path
      BY <2>2, StartsConcat
    <2>4. Pn(common).kind = "pn" /\ Pn(common).pfx = common
      BY DEF Pn
    <2>5. DOMAIN u = {p, a} /\ u[p] = Pn(common) /\ u[a] = r
      BY <2>1, <2>3
    <2> HIDE DEF u
    <2>6. KidsOf(p, u[p]) = {a}
      BY <2>4, <2>5, KidsOfIs
    <2>7. ASSUME NEW k \in KidsOf(a, u[a])
          PROVE  k \in K
      <3>1. KidsOf(a, r) = {(a \o r.pfx) \o e : e \in r.edges}
        BY <1>1, <1>2, KidsOfIs
      <3>2. a \o <<>> = a
        BY <2>3, ConcatEmpty
      <3>3. PICK e \in r.edges : k = (a \o r.pfx) \o e
        BY <2>5, <3>1
      <3> QED
        BY <1>1, <3>2, <3>3
    <2>8. Linked(u, K) /\ p \in DOMAIN u
      BY <2>5, <2>6, <2>7 DEF Linked
    <2> QED
      BY <2>8 DEF u, r
  <1> QED
    BY <1>3, <1>4

LEMMA ForkLeafLinked ==
  ASSUME NEW p, NEW r, NEW v, NEW c
  PROVE  LET f == ForkLeaf(p, r, v, c)
         IN  /\ DOMAIN f = IF c < Len(r) THEN {p \o Front(r, c + 1)} ELSE {}
             /\ Linked(f, {})
  <1> DEFINE f == ForkLeaf(p, r, v, c)
  <1>1. DOMAIN f = IF c < Len(r) THEN {p \o Front(r, c + 1)} ELSE {}
    BY DEF ForkLeaf
  <1>2. \A q \in DOMAIN f : f[q].kind = "leaf"
    BY DEF ForkLeaf, Leaf
  <1> HIDE DEF f
  <1>3. \A q \in DOMAIN f : KidsOf(q, f[q]) = {}
    BY <1>2, KidsOfIs
  <1>4. Linked(f, {})
    BY <1>3 DEF Linked
  <1> QED
    BY <1>1, <1>4 DEF f

\* A fork put into a tree: its edges lead to what is kept of the old node, and
\* to the leaf of the new key.
LEMMA ForkLinked ==
  ASSUME NEW t, NEW p \in Path, Linked(t, {p}), NEW r \in Path, NEW v,
         NEW c \in 0 .. Len(r), NEW E, NEW tm, NEW D,
         \A e \in E : (p \o Front(r, c)) \o e \in DOMAIN t \cup D
  PROVE  LET t1 == Over(t, ApplyPrefix(p, Front(r, c), ForkRouter(r, v, c, E, tm)))
         IN  Linked(Over(t1, ForkLeaf(p, r, v, c)), D)
  <1> DEFINE common == Front(r, c)
             G  == E \cup IF c < Len(r) THEN {<<r[c + 1]>>} ELSE {}
             tn == IF c = Len(r) THEN v ELSE tm
             u  == ApplyPrefix(p, common, Router("setlist", <<>>, G, tn))
             f  == ForkLeaf(p, r, v, c)
             t1 == Over(t, u)
             N  == IF c < Len(r) THEN {p \o Front(r, c + 1)} ELSE {}
             K  == DOMAIN t \cup (D \cup N)
  <1>1. ForkRouter(r, v, c, E, tm) = Router("setlist", <<>>, G, tn)
    BY DEF ForkRouter
  <1>2. common \in Path
    BY FrontFacts
  <1>3. \A e \in G : (p \o common) \o e \in K
    <2>1. c < Len(r) => p \o Front(r, c + 1) = (p \o Front(r, c)) \o <<r[c + 1]>>
      BY ForkEdge
    <2> QED
      BY <2>1
  <1>4. DOMAIN f = N /\ Linked(f, {})
    BY ForkLeafLinked
  <1> HIDE DEF common, G, tn, K, f, N
  <1>5. Linked(u, K) /\ p \in DOMAIN u
    BY <1>2, <1>3, ApplyPrefixLinked
  <1> HIDE DEF u
  <1>6. Linked(t1, D \cup N)
    <2>1. {p} \subseteq (DOMAIN t \cup DOMAIN u) \cup (D \cup N)
          /\ K \subseteq (DOMAIN t \cup DOMAIN u) \cup (D \cup N)
      BY <1>5 DEF K
    <2> QED
      BY <1>5, <2>1, LinkedOver
  <1> HIDE DEF t1
  <1>7. Linked(Over(t1, f), D)
    <2>1. D \cup N \subseteq (DOMAIN t1 \cup DOMAIN f) \cup D
          /\ {} \subseteq (DOMAIN t1 \cup DOMAIN f) \cup D
      BY <1>4
    <2> QED
      BY <1>4, <1>6, <2>1, LinkedOver
  <1> QED
    BY <1>1, <1>7 DEF t1, u, common, f

\* Leaves that move into a line.
LEMMA CompactLinked ==
  ASSUME NEW t, NEW S, Linked(t, S), NEW p, NEW fits
  PROVE  Linked(InlineCompact(t, p, fits), S)
  <1>1. CASE InlineChildren /\ fits
    <2> DEFINE u == [q \in DOMAIN t |-> IF q \in Children(t, p) /\ IsValuePtr(t[q])
                                        THEN [t[q] EXCEPT !.inl = TRUE] ELSE t[q]]
    <2>1. InlineCompact(t, p, fits) = u
      BY <1>1 DEF InlineCompact
    <2>2. DOMAIN u = DOMAIN t
      OBVIOUS
    <2>3. ASSUME NEW q \in DOMAIN t
          PROVE  KidsOf(q, u[q]) \subseteq KidsOf(q, t[q])
      <3>1. CASE u[q] = t[q]
        BY <3>1
      <3>2. CASE q \in Children(t, p) /\ IsValuePtr(t[q]) /\ u[q] = [t[q] EXCEPT !.inl = TRUE]
        <4>1. t[q].kind = "leaf" /\ [t[q] EXCEPT !.inl = TRUE].kind = t[q].kind
          BY <3>2 DEF IsValuePtr
        <4> HIDE DEF u
        <4> QED
          BY <3>2, <4>1, KidsOfIs
      <3> QED
        BY <3>1, <3>2
    <2> HIDE DEF u
    <2>4. Linked(u, S)
      BY <2>2, <2>3, LinkedSame
    <2> QED
      BY <2>1, <2>4
  <1>2. CASE ~(InlineChildren /\ fits)
    BY <1>2 DEF InlineCompact
  <1> QED
    BY <1>1, <1>2
LEMMA SplitLeafLinked ==
  ASSUME TreeOK(tree), Linked(tree, {}), slot \in DOMAIN tree, nd.kind = "leaf", R \in Path,
         NEW fits
  PROVE  Linked(SplitLeafTree(fits), {})
  <1> DEFINE S        == nd.suf
             c        == Lcp(S, R)
             oldEdges == IF c < Len(S) THEN {<<S[c + 1]>>} ELSE {}
             oldTerm  == IF c = Len(S) THEN nd.val ELSE NoVal
             D        == IF c < Len(S) THEN {slot \o Front(S, c + 1)} ELSE {}
             t0       == Drop(tree, {slot})
             u1       == ApplyPrefix(slot, Front(R, c), ForkRouter(R, req.val, c, oldEdges, oldTerm))
             t2       == Over(Over(t0, u1), ForkLeaf(slot, R, req.val, c))
             u3       == ForkLeaf(slot, S, nd.val, c)
             t3       == Over(t2, u3)
  <1>1. slot \in Path /\ S \in Path
    BY NodeFields DEF TreeOK, nd
  <1>2. c \in 0 .. Len(S) /\ c \in 0 .. Len(R) /\ Front(S, c) = Front(R, c)
    BY <1>1, LcpFacts, PathFacts
  <1>3. SplitLeafTree(fits) = InlineCompact(t3, ForkSlot(slot, Front(R, c)), fits)
    BY DEF SplitLeafTree
  <1> HIDE DEF c, S
  <1>4. \A e \in oldEdges : (slot \o Front(R, c)) \o e \in DOMAIN t0 \cup D
    <2>1. c < Len(S) => slot \o Front(S, c + 1) = (slot \o Front(S, c)) \o <<S[c + 1]>>
      BY <1>1, <1>2, ForkEdge
    <2> QED
      BY <1>2, <2>1
  <1>5. Linked(t0, {slot})
    <2>1. {} \cup {slot} = {slot}
      OBVIOUS
    <2> QED
      BY <2>1, LinkedDrop
  <1> HIDE DEF oldEdges, oldTerm, t0
  <1>6. DOMAIN u3 = D /\ Linked(u3, {})
    BY ForkLeafLinked
  <1> HIDE DEF D, u3
  <1>7. Linked(t2, D)
    BY <1>1, <1>2, <1>4, <1>5, ForkLinked
  <1> HIDE DEF t2
  <1>8. Linked(t3, {})
    <2>1. D \subseteq (DOMAIN t2 \cup DOMAIN u3) \cup {}
          /\ {} \subseteq (DOMAIN t2 \cup DOMAIN u3) \cup {}
      BY <1>6
    <2> QED
      BY <1>6, <1>7, <2>1, LinkedOver
  <1> HIDE DEF t3
  <1> QED
    BY <1>3, <1>8, CompactLinked

LEMMA SplitPrefixLinked ==
  ASSUME TreeOK(tree), Good(Kids(tree)), Linked(tree, {}), slot \in DOMAIN tree, nd.kind # "leaf",
         R \in Path, ~StartsWith(R, nd.pfx), NEW fits
  PROVE  Linked(SplitPrefixTree(fits), {})
  <1> DEFINE pfx  == nd.pfx
             c    == Lcp(pfx, R)
             rest == Back(pfx, c + 1)
             q    == slot \o Front(pfx, c + 1)
             old  == Drop(tree, {slot})
             kind == IF rest = <<>> THEN "full" ELSE "pfxd"
             kept == CASE nd.kind = "pn"      -> MakePrefix(old, q, rest)
                       [] nd.kind = "setlist" -> Upd(old, q, [nd EXCEPT !.pfx = rest])
                       [] nd.kind = "pfxd"    -> Upd(old, q, [nd EXCEPT !.kind = kind, !.pfx = rest])
             E    == {<<pfx[c + 1]>>}
             u1   == ApplyPrefix(slot, Front(R, c), ForkRouter(R, req.val, c, E, NoVal))
             t2   == Over(Over(kept, u1), ForkLeaf(slot, R, req.val, c))
  <1>1. slot \in Path /\ pfx \in Path /\ NodeOK(nd) /\ nd = tree[slot]
    BY NodeFields DEF TreeOK, nd
  <1>2. c \in 0 .. Len(pfx) /\ c \in 0 .. Len(R) /\ c < Len(pfx) /\ Front(pfx, c) = Front(R, c)
    BY <1>1, LcpFacts, PathFacts
  <1>3. nd.kind \in {"pn", "setlist", "pfxd"}
    <2>1. pfx # <<>>
      BY <1>1, StartsWithEmpty
    <2> QED
      BY <1>1, <2>1, NodeFields
  <1>4. SplitPrefixTree(fits) = InlineCompact(t2, ForkSlot(slot, Front(R, c)), fits)
    <2>1. Front(pfx, c) = Front(R, c)
      BY <1>2
    <2> QED
      BY <2>1 DEF SplitPrefixTree
  <1>5. q = (slot \o Front(pfx, c)) \o <<pfx[c + 1]>> /\ q \in Path
    BY <1>1, <1>2, ForkEdge
  <1> HIDE DEF c, pfx
  <1>6. rest \in Path /\ q \in Path /\ q \o rest = slot \o pfx /\ q # slot
    <2> DEFINE f == Front(pfx, c + 1)
    <2>1. c + 1 \in 0 .. Len(pfx)
      BY <1>1, <1>2, PathFacts
    <2>2. f \in Path /\ rest \in Path /\ pfx = f \o rest /\ Len(f) = c + 1
      BY <1>1, <2>1, FrontFacts, BackFacts, FrontBack
    <2>3. f # <<>>
      BY <1>2, <2>2, EmptyPath
    <2> HIDE DEF f, rest
    <2>4. slot \o (f \o rest) = (slot \o f) \o rest
      BY <1>1, <2>2, ConcatAssoc
    <2>5. slot \o f \in Path /\ slot \o f # slot
      BY <1>1, <2>2, <2>3, StartsConcat
    <2> QED
      BY <2>2, <2>4, <2>5 DEF f
  <1> HIDE DEF rest, q
  <1>7. /\ TreeOK(old) /\ Linked(old, {slot}) /\ slot \notin DOMAIN old
        /\ DOMAIN old = DOMAIN tree \ {slot} /\ \A r \in DOMAIN old : old[r] = tree[r]
    <2>1. {} \cup {slot} = {slot}
      OBVIOUS
    <2>2. Linked(old, {slot})
      BY <2>1, LinkedDrop
    <2>3. TreeOK(old) /\ DOMAIN old = DOMAIN tree \ {slot}
          /\ \A r \in DOMAIN tree \ {slot} : old[r] = tree[r]
      BY DropOK
    <2> QED
      BY <2>2, <2>3
  <1> HIDE DEF old
  <1>8. Linked(kept, {slot}) /\ q \in DOMAIN kept
    <2>1. CASE nd.kind = "pn"
      <3>1. KidsOf(slot, tree[slot]) = {q \o rest}
        BY <1>1, <1>6, <2>1, KidsOfIs DEF pfx
      <3>2. q \o rest \in DOMAIN tree /\ q \o rest # slot
        <4>1. slot \notin KidsOf(slot, tree[slot])
          BY <1>1, KidsLeave
        <4> QED
          BY <3>1, <4>1 DEF Linked
      <3>3. OnlyFrom(tree, slot, q \o rest)
        BY <3>1, TakenOnce
      <3>4. q \o rest \in DOMAIN old /\ OnlyFrom(old, q, q \o rest)
        BY <1>7, <3>2, <3>3 DEF OnlyFrom
      <3>5. Linked(MakePrefix(old, q, rest), {slot}) /\ q \in DOMAIN MakePrefix(old, q, rest)
        BY <1>6, <1>7, <3>4, MakePrefixLinked
      <3> QED
        BY <2>1, <3>5
    <2>2. CASE nd.kind \in {"setlist", "pfxd"}
      <3> DEFINE k == IF nd.kind = "setlist" THEN "setlist" ELSE kind
                 x == Router(k, rest, nd.edges, nd.term)
      <3>1. nd \in RouterNode /\ nd.kind \in RouterKinds
        BY <1>1, <2>2, NodeFields DEF RouterKinds
      <3>2. kept = Upd(old, q, x)
        <4>1. [nd EXCEPT !.pfx = rest] = Router(nd.kind, rest, nd.edges, nd.term)
          BY <3>1, RouterIs
        <4>2. [nd EXCEPT !.kind = kind, !.pfx = rest] = Router(kind, rest, nd.edges, nd.term)
          <5> HIDE DEF kind
          <5> QED
            BY <3>1, RouterIs
        <4>3. CASE nd.kind = "setlist"
          BY <4>1, <4>3
        <4>4. CASE nd.kind = "pfxd"
          BY <4>2, <4>4
        <4> QED
          BY <2>2, <4>3, <4>4
      <3>3. k \in RouterKinds
        BY DEF RouterKinds
      <3> HIDE DEF k, kept
      <3>4. x.kind = k /\ x.pfx = rest /\ x.edges = nd.edges
        BY DEF Router
      <3> HIDE DEF x
      <3>5. KidsOf(q, x) = KidsOf(slot, tree[slot])
        <4>1. Alike(q, x, slot, nd)
          BY <1>6, <3>1, <3>3, <3>4 DEF Alike, pfx
        <4> QED
          BY <1>1, <4>1, SameEdges
      <3>6. KidsOf(q, x) \subseteq DOMAIN old \cup ({q} \cup {slot})
            /\ {slot} \subseteq DOMAIN old \cup ({q} \cup {slot})
        BY <1>7, <3>5 DEF Linked
      <3>7. Linked(Upd(old, q, x), {slot})
        BY <1>7, <3>6, LinkedUpd
      <3>8. q \in DOMAIN Upd(old, q, x)
        BY DEF Upd
      <3> QED
        BY <3>2, <3>7, <3>8
    <2> QED
      BY <1>3, <2>1, <2>2
  <1> HIDE DEF kept
  <1>9. \A e \in E : (slot \o Front(R, c)) \o e \in DOMAIN kept \cup {}
    BY <1>2, <1>5, <1>8
  <1> HIDE DEF E
  <1>10. Linked(t2, {})
    BY <1>1, <1>2, <1>8, <1>9, ForkLinked
  <1> HIDE DEF t2
  <1> QED
    BY <1>4, <1>10, CompactLinked

\* A new edge, and the new leaf it leads to.
LEMMA LinkLinked ==
  ASSUME NEW t, TreeOK(t), Linked(t, {}), NEW p \in DOMAIN t, t[p].kind \in RouterKinds, NEW e,
         NEW suf
  PROVE  Linked(Link(t, p, e, suf), {})
  <1> DEFINE E == t[p].edges \cup {e}
             w == [t EXCEPT ![p].edges = E]
             s == At(t, p) \o e
             l == Leaf(suf, req.val)
  <1>1. Link(t, p, e, suf) = Upd(w, s, l)
    BY DEF Link
  <1>2. t[p] \in RouterNode /\ t[p].kind # "leaf"
    BY NodeFields DEF TreeOK, RouterKinds, CnodeKinds
  <1>3. KidsOf(s, l) = {}
    <2>1. l.kind = "leaf"
      BY DEF Leaf
    <2> HIDE DEF l
    <2> QED
      BY <2>1, KidsOfIs
  <1>4. DOMAIN w = DOMAIN t /\ (\A q \in DOMAIN t \ {p} : w[q] = t[q])
        /\ w[p] = [t[p] EXCEPT !.edges = E]
    OBVIOUS
  <1> HIDE DEF w, l
  <1>5. w[p].kind = t[p].kind /\ w[p].pfx = t[p].pfx /\ w[p].edges = E
    <2> HIDE DEF E
    <2>1. w[p] = Router(t[p].kind, t[p].pfx, E, t[p].term)
      BY <1>2, <1>4, RouterIs
    <2> QED
      BY <2>1 DEF Router
  <1>6. s = (p \o t[p].pfx) \o e
    BY <1>2 DEF At
  <1>7. KidsOf(p, w[p]) \subseteq KidsOf(p, t[p]) \cup {s}
    <2>1. KidsOf(p, t[p]) = {(p \o t[p].pfx) \o f : f \in t[p].edges}
      BY KidsOfIs
    <2>2. KidsOf(p, w[p]) = {(p \o w[p].pfx) \o f : f \in w[p].edges}
      BY <1>5, KidsOfIs
    <2> HIDE DEF s
    <2>3. ASSUME NEW z \in KidsOf(p, w[p])
          PROVE  z \in KidsOf(p, t[p]) \cup {s}
      <3>1. PICK f \in w[p].edges : z = (p \o w[p].pfx) \o f
        BY <2>2
      <3> QED
        BY <1>5, <1>6, <2>1, <3>1
    <2> QED
      BY <2>3
  <1> HIDE DEF s
  <1>8. Linked(w, {s})
    <2>1. ASSUME NEW q \in DOMAIN w
          PROVE  KidsOf(q, w[q]) \subseteq DOMAIN w \cup {s}
      <3>1. KidsOf(q, t[q]) \subseteq DOMAIN t
        BY <1>4, <2>1 DEF Linked
      <3>2. q = p \/ w[q] = t[q]
        BY <1>4, <2>1
      <3> QED
        BY <1>4, <1>7, <3>1, <3>2
    <2> QED
      BY <2>1 DEF Linked
  <1>9. {s} \subseteq DOMAIN w \cup ({s} \cup {}) /\ KidsOf(s, l) \subseteq DOMAIN w \cup ({s} \cup {})
    BY <1>3
  <1>10. Linked(Upd(w, s, l), {})
    BY <1>8, <1>9, LinkedUpd
  <1> QED
    BY <1>1, <1>10
\* The nodes of a re-stride share the edges of the two-byte router.
LEMMA RestrideLinked ==
  ASSUME TreeOK(tree), Linked(tree, {}), slot \in DOMAIN tree, nd.kind = "u16"
  PROVE  Linked(RestrideTree, {})
  <1> DEFINE his == {Front(e, 1) : e \in nd.edges}
             B(q) == {Back(e, 1) : e \in {x \in nd.edges : slot \o Front(x, 1) = q}}
             group == [q \in {slot \o h : h \in his} |-> Router("setlist", <<>>, B(q), NoVal)]
             x == Router("setlist", <<>>, his, nd.term)
             u == Upd(tree, slot, x)
  <1>1. RestrideTree = Over(u, group)
    BY DEF RestrideTree
  <1>2. /\ slot \in Path /\ NodeOK(nd) /\ nd = tree[slot] /\ nd.kind \in RouterKinds
        /\ nd.pfx = <<>> /\ nd.edges \subseteq Path /\ \A e \in nd.edges : Len(e) = 2
        /\ "setlist" \in RouterKinds
    <2>1. slot \in Path /\ NodeOK(nd) /\ nd = tree[slot]
      BY DEF TreeOK, nd
    <2>2. nd.kind \in RouterKinds /\ "setlist" \in RouterKinds
      BY DEF RouterKinds
    <2>3. nd.pfx = <<>> /\ nd.edges \subseteq Path /\ \A e \in nd.edges : Len(e) = StemLen(nd.kind)
      BY <2>1, <2>2, NodeFields
    <2>4. StemLen(nd.kind) = 2
      BY DEF StemLen
    <2> QED
      BY <2>1, <2>2, <2>3, <2>4
  <1>3. KidsOf(slot, x) = DOMAIN group
    <2>1. x.kind = "setlist" /\ x.pfx = <<>> /\ x.edges = his
      BY DEF Router
    <2> HIDE DEF x
    <2>2. KidsOf(slot, x) = {slot \o e : e \in x.edges}
      BY <1>2, <2>1, BareKids
    <2> HIDE DEF his
    <2> QED
      BY <2>1, <2>2
  <1>4. KidsOf(slot, tree[slot]) = {slot \o e : e \in nd.edges}
    BY <1>2, BareKids
  <1>5. ASSUME NEW q \in DOMAIN group, NEW z \in KidsOf(q, group[q])
        PROVE  z \in DOMAIN tree
    <2>1. q \in Path
      <3>1. PICK e \in nd.edges : q = slot \o Front(e, 1)
        OBVIOUS
      <3> QED
        BY <1>2, <3>1, StemHalves
    <2>2. group[q] = Router("setlist", <<>>, B(q), NoVal)
      OBVIOUS
    <2> HIDE DEF group
    <2>3. group[q].kind = "setlist" /\ group[q].pfx = <<>> /\ group[q].edges = B(q)
      BY <2>2 DEF Router
    <2>4. KidsOf(q, group[q]) = {q \o b : b \in group[q].edges}
      BY <1>2, <2>1, <2>3, BareKids
    <2>5. PICK b \in B(q) : z = q \o b
      BY <1>5, <2>3, <2>4
    <2>6. PICK e \in nd.edges : slot \o Front(e, 1) = q /\ b = Back(e, 1)
      BY <2>5
    <2>7. slot \o e = (slot \o Front(e, 1)) \o Back(e, 1)
      BY <1>2, <2>6, StemHalves
    <2>8. z \in KidsOf(slot, tree[slot])
      BY <1>4, <2>5, <2>6, <2>7
    <2> QED
      BY <2>8 DEF Linked
  <1> HIDE DEF group, x
  <1>6. Linked(u, DOMAIN group)
    <2>1. {} \subseteq DOMAIN tree \cup ({slot} \cup DOMAIN group)
          /\ KidsOf(slot, x) \subseteq DOMAIN tree \cup ({slot} \cup DOMAIN group)
      BY <1>3
    <2> QED
      BY <2>1, LinkedUpd
  <1>7. Linked(group, DOMAIN tree)
    BY <1>5 DEF Linked
  <1>8. DOMAIN group \subseteq (DOMAIN u \cup DOMAIN group) \cup {}
        /\ DOMAIN tree \subseteq (DOMAIN u \cup DOMAIN group) \cup {}
    <2>1. DOMAIN u = DOMAIN tree \cup {slot}
      BY DEF Upd
    <2> QED
      BY <2>1
  <1> HIDE DEF u
  <1>9. Linked(Over(u, group), {})
    BY <1>6, <1>7, <1>8, LinkedOver
  <1> QED
    BY <1>1, <1>9

\* try_fuse_parent takes the children out, and leads to what they led to.
LEMMA FuseLinked ==
  ASSUME NEW t, TreeOK(t), Good(Kids(t)), Linked(t, {}), NEW p \in DOMAIN t, Fusable(t, p)
  PROVE  Linked(FuseTree(t, p), {})
  <1> DEFINE C == Children(t, p)
             G == Grandedges(t, p)
             x == Router("u16", <<>>, G, t[p].term)
             u == FuseTree(t, p)
  <1>1. p \in Path /\ NodeOK(t[p]) /\ t[p].kind = "setlist" /\ t[p].pfx = <<>>
        /\ t[p].kind \in RouterKinds
    BY DEF TreeOK, Fusable, RouterKinds
  <1>2. C = {p \o e : e \in t[p].edges} /\ C = KidsOf(p, t[p])
        /\ \A e \in t[p].edges : e \in Path
    BY <1>1, BareKids, ChildrenAre, NodeFields
  <1>3. u = Upd(Drop(t, C), p, x)
    BY DEF FuseTree
  <1>4. x.kind = "u16" /\ x.pfx = <<>> /\ x.edges = G /\ "u16" \in RouterKinds
    BY DEF Router, RouterKinds
  <1> HIDE DEF x
  <1>5. KidsOf(p, x) = {p \o y : y \in G}
    <2> HIDE DEF G
    <2> QED
      BY <1>1, <1>4, BareKids
  <1>6. ASSUME NEW c \in C
        PROVE  /\ c \in DOMAIN t /\ c \in Path /\ t[c].edges \subseteq Path
               /\ KidsOf(c, t[c]) = {c \o f : f \in t[c].edges}
    <2>1. /\ c \in DOMAIN t /\ t[c].kind \in RouterKinds
          /\ t[c].kind \in {"setlist", "pfxd"} => t[c].pfx = <<>>
      BY <1>6 DEF Fusable, Absorbable
    <2>2. NodeOK(t[c]) /\ c \in Path
      BY <2>1 DEF TreeOK
    <2>3. t[c].pfx = <<>> /\ t[c].edges \subseteq Path
      BY <2>1, <2>2, NodeFields
    <2>4. KidsOf(c, t[c]) = {c \o f : f \in t[c].edges}
      BY <2>1, <2>2, <2>3, BareKids
    <2> QED
      BY <2>1, <2>2, <2>3, <2>4
  <1>7. ASSUME NEW z \in KidsOf(p, x)
        PROVE  \E c \in C : z \in KidsOf(c, t[c])
    <2>1. PICK y \in G : z = p \o y
      BY <1>5
    <2>2. PICK e \in t[p].edges : \E f \in t[p \o e].edges : y = e \o f
      BY <2>1 DEF Grandedges
    <2>3. PICK f \in t[p \o e].edges : y = e \o f
      BY <2>2
    <2>4. p \o e \in C /\ e \in Path
      BY <1>2
    <2>5. f \in Path /\ KidsOf(p \o e, t[p \o e]) = {(p \o e) \o g : g \in t[p \o e].edges}
      BY <1>6, <2>4
    <2>6. p \o (e \o f) = (p \o e) \o f
      BY <1>1, <2>4, <2>5, ConcatAssoc
    <2>7. z \in KidsOf(p \o e, t[p \o e])
      BY <2>1, <2>3, <2>5, <2>6
    <2> QED
      BY <2>4, <2>7
  <1>8. p \notin C
    BY <1>1, <1>2, KidsLeave
  <1>9. ASSUME NEW q \in DOMAIN t, q # p
        PROVE  KidsOf(q, t[q]) \subseteq DOMAIN t \ C
    <2>1. KidsOf(q, t[q]) \subseteq DOMAIN t
      BY DEF Linked
    <2>2. ASSUME NEW c \in C
          PROVE  c \notin KidsOf(q, t[q])
      <3>1. OnlyFrom(t, p, c)
        BY <1>2, TakenOnce
      <3> QED
        BY <1>9, <3>1 DEF OnlyFrom
    <2> QED
      BY <2>1, <2>2
  <1> HIDE DEF C
  <1>10. /\ DOMAIN u = DOMAIN t \ C /\ u[p] = x
         /\ \A q \in DOMAIN u : q # p => q \in DOMAIN t /\ u[q] = t[q]
    BY <1>3, <1>8 DEF Upd, Drop
  <1> HIDE DEF u
  <1>11. ASSUME NEW q \in DOMAIN u
         PROVE  KidsOf(q, u[q]) \subseteq DOMAIN u
    <2>1. CASE q = p
      <3>1. ASSUME NEW z \in KidsOf(p, x)
            PROVE  z \in DOMAIN u
        <4>1. PICK c \in C : z \in KidsOf(c, t[c])
          BY <1>7
        <4>2. c \in DOMAIN t /\ c # p
          BY <1>6, <1>8
        <4> QED
          BY <1>9, <1>10, <4>1, <4>2
      <3> QED
        BY <1>10, <2>1, <3>1
    <2>2. CASE q # p
      BY <1>9, <1>10, <2>2
    <2> QED
      BY <2>1, <2>2
  <1>12. Linked(u, {})
    BY <1>11 DEF Linked
  <1> QED
    BY <1>12 DEF u

\* A lone child takes its router's place.
LEMMA CollapseLinked ==
  ASSUME NEW t, TreeOK(t), Good(Kids(t)), Linked(t, {}), NEW p \in DOMAIN t,
         t[p].kind \in RouterKinds, t[p].edges # {}
  PROVE  Linked(CollapseTree(t, p), {})
  <1> DEFINE e   == CHOOSE x \in t[p].edges : TRUE
             c   == At(t, p) \o e
             pfx == t[p].pfx \o e
  <1>1. e \in t[p].edges
    OBVIOUS
  <1>2. p \in Path /\ t[p].pfx \in Path /\ e \in Path /\ t[p].kind # "leaf"
    BY <1>1, NodeFields DEF TreeOK, RouterKinds, CnodeKinds
  <1>3. c = (p \o t[p].pfx) \o e
    BY <1>2 DEF At
  <1>4. c \in KidsOf(p, t[p])
    <2>1. KidsOf(p, t[p]) = {(p \o t[p].pfx) \o f : f \in t[p].edges}
      BY KidsOfIs
    <2> HIDE DEF e
    <2> QED
      BY <1>1, <1>3, <2>1
  <1>5. c \in DOMAIN t /\ OnlyFrom(t, p, c)
    <2> HIDE DEF c
    <2> QED
      BY <1>4, TakenOnce DEF Linked
  <1>6. pfx \in Path /\ p \o pfx = c
    <2> HIDE DEF e
    <2>1. pfx \in Path
      BY <1>2, ConcatFacts
    <2>2. p \o (t[p].pfx \o e) = (p \o t[p].pfx) \o e
      BY <1>2, ConcatAssoc
    <2> QED
      BY <1>3, <2>1, <2>2
  <1>7. CASE t[c].kind = "setlist" /\ Len(t[c].pfx) + Len(pfx) <= PrefixCap
    <2> DEFINE z == pfx \o t[c].pfx
               x == [t[c] EXCEPT !.pfx = z]
               u == Upd(Drop(t, {c}), p, x)
    <2>1. CollapseTree(t, p) = u
      BY <1>5, <1>7 DEF CollapseTree
    <2>2. t[c] \in RouterNode /\ t[c].kind \in RouterKinds /\ t[c].pfx \in Path /\ NodeOK(t[c])
          /\ c \in Path
      <3>1. NodeOK(t[c]) /\ c \in Path
        BY <1>5 DEF TreeOK
      <3>2. t[c].kind \in RouterKinds
        BY <1>7 DEF RouterKinds
      <3> HIDE DEF c
      <3> QED
        BY <3>1, <3>2, NodeFields
    <2>3. p \o z = c \o t[c].pfx
      <3> DEFINE w == t[c].pfx
      <3>1. w \in Path
        BY <2>2
      <3> HIDE DEF w, pfx
      <3>2. p \o (pfx \o w) = (p \o pfx) \o w
        BY <1>2, <1>6, <3>1, ConcatAssoc
      <3> QED
        BY <1>6, <3>2 DEF w
    <2> HIDE DEF z, c
    <2>4. x = Router(t[c].kind, z, t[c].edges, t[c].term)
      BY <2>2, RouterIs
    <2>5. x.kind = t[c].kind /\ x.pfx = z /\ x.edges = t[c].edges
      BY <2>4 DEF Router
    <2> HIDE DEF x
    <2>6. KidsOf(p, x) = KidsOf(c, t[c])
      <3>1. Alike(p, x, c, t[c])
        BY <2>2, <2>3, <2>5 DEF Alike
      <3> QED
        BY <3>1, SameEdges
    <2>7. c \notin KidsOf(c, t[c])
      BY <2>2, KidsLeave
    <2>8. /\ DOMAIN u = (DOMAIN t \ {c}) \cup {p} /\ u[p] = x
          /\ \A q \in DOMAIN u : q # p => q \in DOMAIN t /\ u[q] = t[q]
      BY DEF Upd, Drop
    <2> HIDE DEF u
    <2>9. ASSUME NEW q \in DOMAIN u
          PROVE  KidsOf(q, u[q]) \subseteq DOMAIN u
      <3>1. CASE q = p
        <4>1. KidsOf(c, t[c]) \subseteq DOMAIN t
          BY <1>5 DEF Linked
        <4> QED
          BY <2>6, <2>7, <2>8, <3>1, <4>1
      <3>2. CASE q # p
        <4>1. q \in DOMAIN t /\ u[q] = t[q]
          BY <2>8, <3>2
        <4>2. KidsOf(q, t[q]) \subseteq DOMAIN t /\ c \notin KidsOf(q, t[q])
          BY <1>5, <3>2, <4>1 DEF Linked, OnlyFrom
        <4> QED
          BY <2>8, <4>1, <4>2
      <3> QED
        BY <3>1, <3>2
    <2>10. Linked(u, {})
      BY <2>9 DEF Linked
    <2> QED
      BY <2>1, <2>10
  <1>8. CASE ~(t[c].kind = "setlist" /\ Len(t[c].pfx) + Len(pfx) <= PrefixCap)
    <2>1. CollapseTree(t, p) = MakePrefix(t, p, pfx)
      BY <1>8 DEF CollapseTree
    <2> HIDE DEF pfx, c
    <2>2. p \o pfx \in DOMAIN t /\ OnlyFrom(t, p, p \o pfx)
      BY <1>5, <1>6
    <2>3. Linked(MakePrefix(t, p, pfx), {})
      BY <1>2, <1>6, <2>2, MakePrefixLinked
    <2> QED
      BY <2>1, <2>3
  <1> QED
    BY <1>7, <1>8

\* Another value, term or format leaves the edges alone.
LEMMA ValLinked ==
  ASSUME NEW t, TreeOK(t), Linked(t, {}), NEW p \in DOMAIN t, t[p].kind = "leaf", NEW v
  PROVE  Linked([t EXCEPT ![p].val = v], {})
  <1> DEFINE u == [t EXCEPT ![p].val = v]
  <1>1. t[p] \in LeafNode
    BY NodeFields DEF TreeOK
  <1>2. DOMAIN u = DOMAIN t /\ (\A q \in DOMAIN t \ {p} : u[q] = t[q])
        /\ u[p] = [t[p] EXCEPT !.val = v]
    OBVIOUS
  <1> HIDE DEF u
  <1>3. u[p].kind = "leaf"
    BY <1>1, <1>2 DEF LeafNode
  <1>4. KidsOf(p, u[p]) = {}
    BY <1>3, KidsOfIs
  <1>5. \A q \in DOMAIN t : KidsOf(q, u[q]) \subseteq KidsOf(q, t[q])
    BY <1>2, <1>4
  <1>6. Linked(u, {})
    BY <1>2, <1>5, LinkedSame
  <1> QED
    BY <1>6 DEF u

LEMMA RouterLinked ==
  ASSUME NEW t, TreeOK(t), NEW S, Linked(t, S), NEW p \in DOMAIN t, t[p].kind \in RouterKinds,
         NEW u, DOMAIN u = DOMAIN t, \A q \in DOMAIN t \ {p} : u[q] = t[q],
         NEW k \in RouterKinds, NEW tm, u[p] = Router(k, t[p].pfx, t[p].edges, tm)
  PROVE  Linked(u, S)
  <1>1. u[p].kind = k /\ u[p].pfx = t[p].pfx /\ u[p].edges = t[p].edges
    BY DEF Router
  <1>2. Alike(p, u[p], p, t[p])
    BY <1>1 DEF Alike
  <1>3. KidsOf(p, u[p]) = KidsOf(p, t[p])
    BY <1>2, SameEdges
  <1>4. \A q \in DOMAIN t : KidsOf(q, u[q]) \subseteq KidsOf(q, t[q])
    BY <1>3
  <1> QED
    BY <1>4, LinkedSame

LEMMA TermLinked ==
  ASSUME NEW t, TreeOK(t), Linked(t, {}), NEW p \in DOMAIN t, t[p].kind \in RouterKinds, NEW tm
  PROVE  Linked([t EXCEPT ![p].term = tm], {})
  <1> DEFINE u == [t EXCEPT ![p].term = tm]
  <1>1. t[p] \in RouterNode
    BY NodeFields DEF TreeOK
  <1>2. u[p] = Router(t[p].kind, t[p].pfx, t[p].edges, tm)
    BY <1>1, RouterIs
  <1>3. DOMAIN u = DOMAIN t /\ \A q \in DOMAIN t \ {p} : u[q] = t[q]
    OBVIOUS
  <1> HIDE DEF u
  <1>4. Linked(u, {})
    BY <1>2, <1>3, RouterLinked
  <1> QED
    BY <1>4 DEF u

LEMMA KindLinked ==
  ASSUME NEW t, TreeOK(t), Linked(t, {}), NEW p \in DOMAIN t, t[p].kind \in RouterKinds,
         NEW k \in RouterKinds
  PROVE  Linked([t EXCEPT ![p].kind = k], {})
  <1> DEFINE u == [t EXCEPT ![p].kind = k]
  <1>1. t[p] \in RouterNode
    BY NodeFields DEF TreeOK
  <1>2. u[p] = Router(k, t[p].pfx, t[p].edges, t[p].term)
    BY <1>1, RouterIs
  <1>3. DOMAIN u = DOMAIN t /\ \A q \in DOMAIN t \ {p} : u[q] = t[q]
    OBVIOUS
  <1> HIDE DEF u
  <1>4. Linked(u, {})
    BY <1>2, <1>3, RouterLinked
  <1> QED
    BY <1>4 DEF u

LEMMA ExternalizeLinked ==
  ASSUME NEW t, TreeOK(t), Good(Kids(t)), Linked(t, {}), NEW p, NEW S \in SUBSET InlineKids(t, p)
  PROVE  Linked(Externalize(t, S), {})
  <1> DEFINE u == Externalize(t, S)
  <1>1. Kids(u) = Kids(t)
    BY ExternalizeShape
  <1>2. DOMAIN u = DOMAIN t
    BY DEF Externalize
  <1> HIDE DEF u
  <1>3. \A q \in DOMAIN t : KidsOf(q, u[q]) = KidsOf(q, t[q])
    BY <1>1, <1>2, KidsIs
  <1>4. Linked(u, {})
    BY <1>2, <1>3, LinkedSame
  <1> QED
    BY <1>4 DEF u

\* The edge to the slot that hangs goes.
LEMMA CutLinked ==
  ASSUME NEW t, TreeOK(t), NEW p \in DOMAIN t, t[p].kind \in RouterKinds,
         NEW e \in t[p].edges, NEW c, c = At(t, p) \o e, Linked(t, {c}), OnlyFrom(t, p, c)
  PROVE  Linked([t EXCEPT ![p].edges = @ \ {e}], {})
  <1> DEFINE u == [t EXCEPT ![p].edges = @ \ {e}]
             E == t[p].edges \ {e}
             a == At(t, p)
  <1>1. t[p] \in RouterNode /\ t[p].pfx \in Path /\ p \in Path /\ t[p].edges \subseteq Path
    BY NodeFields DEF TreeOK
  <1>2. a = p \o t[p].pfx /\ a \in Path
    BY <1>1, ConcatFacts DEF At
  <1>3. DOMAIN u = DOMAIN t /\ (\A q \in DOMAIN t \ {p} : u[q] = t[q])
        /\ u[p] = [t[p] EXCEPT !.edges = E]
    OBVIOUS
  <1>4. E \subseteq t[p].edges /\ e \notin E
    OBVIOUS
  <1> HIDE DEF u, E
  <1>5. u[p].kind = t[p].kind /\ u[p].pfx = t[p].pfx /\ u[p].edges = E
    <2>1. u[p] = Router(t[p].kind, t[p].pfx, E, t[p].term)
      BY <1>1, <1>3, RouterIs
    <2> QED
      BY <2>1 DEF Router
  <1>6. KidsOf(p, t[p]) = {(p \o t[p].pfx) \o f : f \in t[p].edges}
        /\ KidsOf(p, u[p]) = {(p \o u[p].pfx) \o f : f \in u[p].edges}
    BY <1>5, KidsOfIs
  <1> HIDE DEF a
  <1>7. ASSUME NEW z \in KidsOf(p, u[p])
        PROVE  z \in KidsOf(p, t[p]) /\ z # c
    <2>1. PICK f \in u[p].edges : z = (p \o u[p].pfx) \o f
      BY <1>6
    <2>2. f \in E /\ f \in t[p].edges /\ f # e /\ z = a \o f
      BY <1>2, <1>4, <1>5, <2>1
    <2>3. z \in KidsOf(p, t[p])
      BY <1>2, <1>6, <2>2
    <2>4. a \o f # a \o e
      BY <1>1, <1>2, <2>2, ConcatCancel
    <2> QED
      BY <2>2, <2>3, <2>4 DEF a
  <1>8. ASSUME NEW q \in DOMAIN u
        PROVE  KidsOf(q, u[q]) \subseteq DOMAIN u
    <2>1. KidsOf(q, t[q]) \subseteq DOMAIN t \cup {c}
      BY <1>3 DEF Linked
    <2>2. CASE q = p
      BY <1>3, <1>7, <2>1, <2>2
    <2>3. CASE q # p
      <3>1. u[q] = t[q] /\ c \notin KidsOf(q, t[q])
        BY <1>3, <2>3 DEF OnlyFrom
      <3> QED
        BY <1>3, <2>1, <3>1
    <2> QED
      BY <2>2, <2>3
  <1>9. Linked(u, {})
    BY <1>8 DEF Linked
  <1> QED
    BY <1>9 DEF u
\* No key has as many bytes as the window has levels.
ShortKeys == \A k \in Keys : Len(k) < RmLvn

\* The invariant: one edge hangs while an unwind is to unlink it, and none else.
\* A remove of a short key has the root in its window.
Linkage ==
  /\ pc = "unlink" => Linked(tree, {PathAt(j + 1)})
  /\ pc # "unlink" => Linked(tree, {})
  /\ pc \in {"rem", "unlink", "shrink"} => PathAt(0) = <<>> /\ n <= Len(req.key) + 1
  /\ pc = "rem" => n <= Len(slot) + 1

LEMMA RestLinks ==
  ASSUME pc' \notin {"rem", "unlink", "shrink"}, Linked(tree', {})
  PROVE  Linkage'
  BY DEF Linkage

LEMMA FinishLinks ==
  ASSUME NEW r, Finish(r), Linked(tree', {})
  PROVE  Linkage'
  BY RestLinks DEF Finish

LEMMA ThrowLinks ==
  ASSUME Linkage, pc # "unlink", Throw
  PROVE  Linkage'
  BY FinishLinks DEF Throw, Linkage

LEMMA EmptyLinked == Linked([q \in {} |-> Pn(<<>>)], {})
  BY DEF Linked

LEMMA InitLinks == Init => Linkage
  BY EmptyLinked DEF Init, Linkage

LEMMA CallLinks ==
  ASSUME IInv, Linkage, NEW op \in Ops, NEW k \in Keys, NEW v \in Values, Call(op, k, v)
  PROVE  Linkage'
  <1>1. /\ pc = "idle" /\ pc' \in {"put", "get", "rem", "clear"} /\ Linked(tree', {})
        /\ lvl' = EmptyRing /\ n' = 1 /\ slot' = <<>> /\ req'.key = k
    BY StateFacts DEF Call, Entry, Ops, Linkage, PathLive
  <1>2. lvl'[0 % RmLvn] = <<>>
    <2>1. 0 % RmLvn \in 0 .. RmLvn - 1
      BY ModRange
    <2> QED
      BY <1>1, <2>1 DEF EmptyRing
  <1>3. n' <= Len(slot') + 1
    BY <1>1, EmptyPath
  <1>4. n' <= Len(req'.key) + 1
    <2>1. Len(k) \in Nat
      BY KeysAssumption, PathFacts
    <2> QED
      BY <1>1, <2>1
  <1> QED
    BY <1>1, <1>2, <1>3, <1>4 DEF Linkage, PathAt

LEMMA PutNullLinks ==
  ASSUME Linkage, PutNull
  PROVE  Linkage'
  <1>1. pc = "put" /\ Linked(tree, {})
    BY DEF PutNull, Putting, Linkage
  <1>2. CASE Throw
    BY <1>1, <1>2, ThrowLinks
  <1>3. CASE tree' = Upd(tree, slot, Leaf(R, req.val)) /\ Finish("true")
    <2> DEFINE x == Leaf(R, req.val)
    <2>1. x.kind = "leaf"
      BY DEF Leaf
    <2> HIDE DEF x
    <2>2. KidsOf(slot, x) = {}
      BY <2>1, KidsOfIs
    <2>3. {} \subseteq DOMAIN tree \cup ({slot} \cup {})
          /\ KidsOf(slot, x) \subseteq DOMAIN tree \cup ({slot} \cup {})
      BY <2>2
    <2>4. Linked(Upd(tree, slot, x), {})
      BY <1>1, <2>3, LinkedUpd
    <2> QED
      BY <1>3, <2>4, FinishLinks DEF x
  <1> QED
    BY <1>2, <1>3 DEF PutNull

LEMMA PutSameLeafLinks ==
  ASSUME IInv, Linkage, PutSameLeaf
  PROVE  Linkage'
  <1>1. Linked(tree, {}) /\ slot \in DOMAIN tree /\ tree[slot].kind = "leaf" /\ Finish("false")
    BY DEF PutSameLeaf, nd, Putting, Linkage
  <1>2. Linked([tree EXCEPT ![slot].val = req.val], {})
    BY <1>1, StateFacts, ValLinked
  <1>3. tree' = [tree EXCEPT ![slot].val = req.val] \/ tree' = tree
    BY DEF PutSameLeaf
  <1>4. Linked(tree', {})
    BY <1>1, <1>2, <1>3
  <1> QED
    BY <1>1, <1>4, FinishLinks

LEMMA PutSplitLeafLinks ==
  ASSUME IInv, Linkage, PutSplitLeaf
  PROVE  Linkage'
  <1>1. pc = "put" /\ Linked(tree, {})
    BY DEF PutSplitLeaf, Putting, Linkage
  <1>2. CASE Throw
    BY <1>1, <1>2, ThrowLinks
  <1>3. ASSUME NEW fits \in BOOLEAN, tree' = SplitLeafTree(fits),
               pc' = "fuse" \/ Finish("true")
        PROVE  Linkage'
    <2>1. slot \in DOMAIN tree /\ nd.kind = "leaf" /\ R \in Path
      BY PutFacts DEF PutSplitLeaf
    <2>2. Linked(tree', {})
      BY <1>1, <1>3, <2>1, StateFacts, SplitLeafLinked
    <2> QED
      BY <1>3, <2>2, FinishLinks, RestLinks
  <1> QED
    BY <1>2, <1>3 DEF PutSplitLeaf

LEMMA PutLazyFuseLinks ==
  ASSUME IInv, Shape, Linkage, PutLazyFuse
  PROVE  Linkage'
  <1> DEFINE pfx == tree[slot].pfx
  <1>1. /\ slot \in DOMAIN tree /\ tree[slot].kind = "pn" /\ pc' = "put"
        /\ tree' = MakePrefix(tree, slot, pfx) /\ Linked(tree, {})
    BY DEF PutLazyFuse, Putting, nd, Linkage
  <1>2. slot \in Path /\ pfx \in Path /\ KidsOf(slot, tree[slot]) = {slot \o pfx}
    BY <1>1, StateFacts, NodeFields, KidsOfIs DEF TreeOK
  <1> HIDE DEF pfx
  <1>3. slot \o pfx \in DOMAIN tree /\ OnlyFrom(tree, slot, slot \o pfx)
    BY <1>1, <1>2, TakenOnce DEF Linked, Shape
  <1>4. Linked(tree', {})
    BY <1>1, <1>2, <1>3, StateFacts, MakePrefixLinked
  <1> QED
    BY <1>1, <1>4, RestLinks

LEMMA PutSplitPrefixLinks ==
  ASSUME IInv, Shape, Linkage, PutSplitPrefix
  PROVE  Linkage'
  <1>1. pc = "put" /\ Linked(tree, {})
    BY DEF PutSplitPrefix, Putting, Linkage
  <1>2. CASE Throw
    BY <1>1, <1>2, ThrowLinks
  <1>3. ASSUME NEW fits \in BOOLEAN, tree' = SplitPrefixTree(fits), Finish("true")
        PROVE  Linkage'
    <2>1. slot \in DOMAIN tree /\ nd.kind # "leaf" /\ R \in Path /\ ~StartsWith(R, nd.pfx)
      BY PutFacts DEF PutSplitPrefix
    <2>2. Linked(tree', {})
      BY <1>1, <1>3, <2>1, StateFacts, SplitPrefixLinked DEF Shape
    <2> QED
      BY <1>3, <2>2, FinishLinks
  <1> QED
    BY <1>2, <1>3 DEF PutSplitPrefix

LEMMA PutTermLinks ==
  ASSUME IInv, Linkage, PutTerm
  PROVE  Linkage'
  <1>1. pc = "put" /\ Linked(tree, {}) /\ slot \in DOMAIN tree /\ tree[slot].kind \in RouterKinds
    BY DEF PutTerm, nd, Putting, Linkage
  <1>2. CASE Throw
    BY <1>1, <1>2, ThrowLinks
  <1>3. CASE ~Throw
    <2>1. Linked([tree EXCEPT ![slot].term = req.val], {})
      BY <1>1, StateFacts, TermLinked
    <2>2. (tree' = [tree EXCEPT ![slot].term = req.val] \/ tree' = tree)
          /\ (Finish("true") \/ Finish("false"))
      BY <1>3 DEF PutTerm
    <2>3. Linked(tree', {})
      BY <1>1, <2>1, <2>2
    <2> QED
      BY <2>2, <2>3, FinishLinks
  <1> QED
    BY <1>2, <1>3

LEMMA PutDescendLinks ==
  ASSUME IInv, Shape, Linkage, PutDescend
  PROVE  Linkage'
  <1> DEFINE S == {NextSlot} \cap InlineKids(tree, slot)
  <1>1. pc = "put" /\ Linked(tree, {})
    BY DEF PutDescend, Putting, Linkage
  <1>2. CASE Throw
    BY <1>1, <1>2, ThrowLinks
  <1>3. CASE tree' = Externalize(tree, S) /\ pc' = "put"
    <2>1. S \in SUBSET InlineKids(tree, slot)
      OBVIOUS
    <2> HIDE DEF S
    <2>2. Linked(tree', {})
      BY <1>1, <1>3, <2>1, StateFacts, ExternalizeLinked DEF Shape
    <2> QED
      BY <1>3, <2>2, RestLinks
  <1> QED
    BY <1>2, <1>3 DEF PutDescend, NextSlot, Putting

LEMMA PutExternalizeAllLinks ==
  ASSUME IInv, Shape, Linkage, PutExternalizeAll
  PROVE  Linkage'
  <1>1. pc = "put" /\ Linked(tree, {})
    BY DEF PutExternalizeAll, Putting, Linkage
  <1>2. ASSUME NEW S \in SUBSET InlineKids(tree, slot), tree' = Externalize(tree, S)
        PROVE  Linked(tree', {})
    BY <1>1, <1>2, StateFacts, ExternalizeLinked DEF Shape
  <1>3. CASE tree' = Externalize(tree, InlineKids(tree, slot)) /\ pc' = pc
    <2>1. Linked(tree', {}) /\ pc' = "put"
      BY <1>1, <1>2, <1>3
    <2> QED
      BY <2>1, RestLinks
  <1>4. ASSUME NEW c \in InlineKids(tree, slot), Finish("throw"),
               tree' = Externalize(tree, {d \in InlineKids(tree, slot) : d[Len(d)] < c[Len(c)]})
        PROVE  Linkage'
    <2>1. Linked(tree', {})
      BY <1>2, <1>4
    <2> QED
      BY <1>4, <2>1, FinishLinks
  <1> QED
    BY <1>3, <1>4 DEF PutExternalizeAll

LEMMA PutAddLinks ==
  ASSUME IInv, Linkage, PutAdd
  PROVE  Linkage'
  <1> DEFINE suf == Rest(req.key, here \o Edge)
  <1>1. pc = "put" /\ Linked(tree, {}) /\ slot \in DOMAIN tree /\ tree[slot].kind \in RouterKinds
    BY DEF PutAdd, nd, NoChild, Putting, Linkage
  <1>2. CASE Throw
    BY <1>1, <1>2, ThrowLinks
  <1>3. CASE tree' = Link(tree, slot, Edge, suf) /\ Finish("true")
    <2> HIDE DEF suf
    <2>1. Linked(Link(tree, slot, Edge, suf), {})
      BY <1>1, StateFacts, LinkLinked
    <2> QED
      BY <1>3, <2>1, FinishLinks
  <1>4. CASE pc' = "grow" /\ UNCHANGED tree
    BY <1>1, <1>4, RestLinks
  <1> QED
    BY <1>2, <1>3, <1>4 DEF PutAdd

LEMMA PutAddStemLinks ==
  ASSUME IInv, Linkage, PutAddStem
  PROVE  Linkage'
  <1> DEFINE suf == Rest(req.key, here \o Edge)
  <1>1. pc = "put" /\ Linked(tree, {}) /\ slot \in DOMAIN tree /\ tree[slot].kind \in RouterKinds
    BY DEF PutAddStem, nd, NoChild, Putting, Linkage
  <1>2. CASE Throw
    BY <1>1, <1>2, ThrowLinks
  <1>3. CASE tree' = Link(tree, slot, Edge, suf) /\ Finish("true")
    <2> HIDE DEF suf
    <2>1. Linked(Link(tree, slot, Edge, suf), {})
      BY <1>1, StateFacts, LinkLinked
    <2> QED
      BY <1>3, <2>1, FinishLinks
  <1> QED
    BY <1>2, <1>3 DEF PutAddStem

LEMMA PutRestrideLinks ==
  ASSUME IInv, Linkage, PutRestride
  PROVE  Linkage'
  <1>1. pc = "put" /\ Linked(tree, {}) /\ slot \in DOMAIN tree /\ nd.kind = "u16"
    BY DEF PutRestride, NoChild, Putting, Linkage
  <1>2. CASE Throw
    BY <1>1, <1>2, ThrowLinks
  <1>3. CASE tree' = RestrideTree /\ pc' = pc
    <2>1. Linked(tree', {}) /\ pc' = "put"
      BY <1>1, <1>3, StateFacts, RestrideLinked
    <2> QED
      BY <2>1, RestLinks
  <1> QED
    BY <1>2, <1>3 DEF PutRestride

LEMMA GrowLiftLinks ==
  ASSUME IInv, Linkage, GrowLift
  PROVE  Linkage'
  <1> DEFINE b == At(tree, gnode)
             x == [gnd EXCEPT !.pfx = <<>>]
             u == [q \in {gnode, b} |-> IF q = gnode THEN Pn(gnd.pfx) ELSE x]
  <1>1. pc = "grow" /\ Linked(tree, {})
    BY DEF GrowLift, Linkage
  <1>2. CASE Throw
    BY <1>1, <1>2, ThrowLinks
  <1>3. CASE tree' = Over(tree, u) /\ pc' = pc
    <2>1. /\ gnode \in DOMAIN tree /\ gnode \in Path /\ gnd = tree[gnode] /\ gnd \in RouterNode
          /\ gnd.kind = "setlist" /\ gnd.pfx \in Path /\ gnd.pfx # <<>>
      BY <1>1, GrowFacts DEF gnd, GrowLift
    <2>2. x = Router(gnd.kind, <<>>, gnd.edges, gnd.term)
      BY <2>1, RouterIs
    <2>3. x.kind = "setlist" /\ x.pfx = <<>> /\ x.edges = gnd.edges
      BY <2>1, <2>2 DEF Router
    <2>4. b = gnode \o gnd.pfx /\ b \in Path /\ b # gnode
      BY <2>1, StartsConcat DEF At
    <2>5. Pn(gnd.pfx).kind = "pn" /\ Pn(gnd.pfx).pfx = gnd.pfx
      BY DEF Pn
    <2> HIDE DEF x, b
    <2>6. DOMAIN u = {gnode, b} /\ u[gnode] = Pn(gnd.pfx) /\ u[b] = x
      BY <2>4
    <2> HIDE DEF u
    <2>7. KidsOf(gnode, u[gnode]) = {b}
      BY <2>4, <2>5, <2>6, KidsOfIs
    <2>8. KidsOf(b, x) = KidsOf(gnode, gnd)
      <3>1. b \o <<>> = b
        BY <2>4, ConcatEmpty
      <3>2. Alike(b, x, gnode, gnd)
        BY <2>1, <2>3, <2>4, <3>1 DEF Alike, RouterKinds
      <3> QED
        BY <3>2, SameEdges
    <2>9. Linked(u, DOMAIN tree)
      <3>1. KidsOf(b, u[b]) \subseteq DOMAIN tree
        BY <1>1, <2>1, <2>6, <2>8 DEF Linked
      <3> QED
        BY <2>6, <2>7, <3>1 DEF Linked
    <2>10. {} \subseteq (DOMAIN tree \cup DOMAIN u) \cup {}
           /\ DOMAIN tree \subseteq (DOMAIN tree \cup DOMAIN u) \cup {}
      OBVIOUS
    <2>11. Linked(tree', {}) /\ pc' = "grow"
      BY <1>1, <1>3, <2>9, <2>10, LinkedOver
    <2> QED
      BY <2>11, RestLinks
  <1> QED
    BY <1>2, <1>3 DEF GrowLift

LEMMA GrowWidenLinks ==
  ASSUME IInv, Linkage, GrowWiden
  PROVE  Linkage'
  <1> DEFINE u == [tree EXCEPT ![gnode].kind = WidenTo(@)]
             k == WidenTo(gnd.kind)
  <1>1. pc = "grow" /\ Linked(tree, {})
    BY DEF GrowWiden, Linkage
  <1>2. CASE Throw
    BY <1>1, <1>2, ThrowLinks
  <1>3. CASE tree' = u /\ pc' = pc
    <2>1. gnode \in DOMAIN tree /\ gnd = tree[gnode] /\ gnd.kind \in RouterKinds \ {"u16"}
      BY <1>1, GrowFacts DEF gnd
    <2>2. gnd.kind \in {"setlist"} \cup CnodeKinds
      BY <2>1 DEF GrowWiden, Fits, RouterKinds, CnodeKinds
    <2>3. k \in RouterKinds
      BY <2>2 DEF WidenTo, RouterKinds, CnodeKinds
    <2>4. u = [tree EXCEPT ![gnode].kind = k]
      BY DEF gnd
    <2> HIDE DEF u, k
    <2>5. Linked(u, {})
      BY <1>1, <2>1, <2>3, <2>4, StateFacts, KindLinked
    <2> QED
      BY <1>1, <1>3, <2>5, RestLinks
  <1> QED
    BY <1>2, <1>3 DEF GrowWiden

LEMMA GrowLinkLinks ==
  ASSUME IInv, Shape, Linkage, GrowLink
  PROVE  Linkage'
  <1> DEFINE suf == Rest(req.key, At(tree, gnode) \o GEdge)
             t   == Link(tree, gnode, GEdge, suf)
             pfx == tree[slot].pfx
  <1>1. pc = "grow" /\ Linked(tree, {}) /\ Finish("true") /\ Good(Kids(tree))
    BY DEF GrowLink, Linkage, Shape
  <1>2. /\ gnode \in DOMAIN tree /\ tree[gnode].kind \in RouterKinds \ {"u16"}
        /\ gnode # slot => slot \in DOMAIN tree /\ tree[slot].kind = "pn"
    BY <1>1, GrowFacts DEF gnd, IsPn
  <1>3. GEdge \in Path /\ Len(GEdge) = StemLen(tree[gnode].kind) /\ suf \in Path
        /\ GEdge \notin tree[gnode].edges /\ req.val \in Values
    BY <1>1, <1>2, StateFacts, GrowEdgeOK DEF StemLen, Shape, Hanging, gnd
  <1> HIDE DEF suf
  <1>4. TreeOK(t) /\ Linked(t, {}) /\ Good(Kids(t))
    <2>1. TreeOK(t)
      BY <1>2, <1>3, StateFacts, LinkOK
    <2>2. Linked(t, {})
      BY <1>1, <1>2, StateFacts, LinkLinked
    <2>3. Good(Kids(t))
      BY <1>1, <1>2, <1>3, StateFacts, LinkShape
    <2> QED
      BY <2>1, <2>2, <2>3
  <1>5. gnode # slot => Linked(MakePrefix(t, slot, pfx), {})
    <2> SUFFICES ASSUME gnode # slot
                 PROVE  Linked(MakePrefix(t, slot, pfx), {})
      OBVIOUS
    <2>1. slot \in DOMAIN tree /\ tree[slot].kind = "pn" /\ slot \in Path /\ pfx \in Path
      BY <1>2, StateFacts, NodeFields DEF TreeOK
    <2>2. slot \in DOMAIN t /\ t[slot] = tree[slot]
      <3>1. At(tree, gnode) \o GEdge # slot
        <4>1. At(tree, gnode) \o GEdge \notin DOMAIN tree
          BY <1>1, <1>2, <1>3, StateFacts, LinkShape
        <4> QED
          BY <2>1, <4>1
      <3> QED
        BY <2>1, <3>1 DEF Link, Upd
    <2>3. KidsOf(slot, t[slot]) = {slot \o pfx}
      BY <2>1, <2>2, KidsOfIs
    <2> HIDE DEF t, pfx
    <2>4. slot \o pfx \in DOMAIN t /\ OnlyFrom(t, slot, slot \o pfx)
      BY <1>4, <2>2, <2>3, TakenOnce DEF Linked
    <2> QED
      BY <1>4, <2>1, <2>4, MakePrefixLinked
  <1>6. Linked(tree', {})
    BY <1>4, <1>5 DEF GrowLink, suf
  <1> QED
    BY <1>1, <1>6, FinishLinks

LEMMA FuseParentLinks ==
  ASSUME IInv, Shape, Linkage, FuseParent
  PROVE  Linkage'
  <1>1. pslot \in DOMAIN tree /\ Linked(tree, {}) /\ Good(Kids(tree))
    BY StateFacts DEF FuseParent, PutLive, Linkage, Shape
  <1>2. Fusable(tree, pslot) => Linked(FuseTree(tree, pslot), {})
    BY <1>1, StateFacts, FuseLinked
  <1>3. Linked(tree', {}) /\ Finish(ret)
    BY <1>1, <1>2 DEF FuseParent
  <1> QED
    BY <1>3, FinishLinks

LEMMA GetStepLinks ==
  ASSUME IInv, Linkage, Get
  PROVE  Linkage'
  <1>1. CASE GetDescend
    BY <1>1, RestLinks DEF GetDescend, Getting, Linkage
  <1>2. CASE GetMiss
    BY <1>2, FinishLinks DEF GetMiss, Getting, Linkage
  <1>3. CASE GetHit
    <2>1. slot \in DOMAIN tree /\ (tree[slot].kind = "leaf" \/ tree[slot].kind \in RouterKinds)
          /\ Linked(tree, {})
      BY <1>3 DEF GetHit, Getting, Holds, nd, Linkage
    <2>2. tree[slot].kind = "leaf" => Linked([tree EXCEPT ![slot].val = req.val], {})
      BY <2>1, StateFacts, ValLinked
    <2>3. tree[slot].kind \in RouterKinds => Linked([tree EXCEPT ![slot].term = req.val], {})
      BY <2>1, StateFacts, TermLinked
    <2>4. \/ tree' = tree
          \/ tree[slot].kind = "leaf" /\ tree' = [tree EXCEPT ![slot].val = req.val]
          \/ tree[slot].kind # "leaf" /\ tree' = [tree EXCEPT ![slot].term = req.val]
      BY <1>3 DEF GetHit, nd
    <2>5. Linked(tree', {})
      BY <2>1, <2>2, <2>3, <2>4
    <2>6. \E r : Finish(r)
      BY <1>3 DEF GetHit
    <2> QED
      BY <2>5, <2>6, FinishLinks
  <1> QED
    BY <1>1, <1>2, <1>3 DEF Get

LEMMA ClearLinks ==
  ASSUME Clear
  PROVE  Linkage'
  BY EmptyLinked, FinishLinks DEF Clear

\* A short key never wraps the ring around.
LEMMA WindowHolds ==
  ASSUME ShortKeys, IInv, Linkage, pc \in {"rem", "unlink", "shrink"}, NEW i \in Window,
         n - i >= RmLvn
  PROVE  i = 0
  <1>1. req.key \in Keys /\ i \in Nat /\ n \in Nat
    BY StateFacts, RingFacts DEF LocalsOK
  <1>2. Len(req.key) \in Nat /\ Len(req.key) < RmLvn
    BY <1>1, KeysAssumption, PathFacts DEF ShortKeys
  <1>3. n <= Len(req.key) + 1
    BY DEF Linkage
  <1> QED
    BY <1>1, <1>2, <1>3, CapAssumption

\* The node of level i is gone, and only the edge to it hangs.
LEMMA FreedLinks ==
  ASSUME ShortKeys, IInv, Linkage, pc \in {"rem", "unlink", "shrink"}, NEW i \in Window,
         TreeOK(tree'), Linked(tree', {PathAt(i)}), Freed(i)
  PROVE  Linkage'
  <1>1. CASE i = 0 \/ n - i >= RmLvn
    <2>1. i = 0 /\ PathAt(0) = <<>>
      BY <1>1, WindowHolds DEF Linkage
    <2>2. Linked(tree', {})
      BY <2>1, LinkedNoRoot
    <2> QED
      BY <1>1, <2>2, FinishLinks DEF Freed
  <1>2. CASE ~(i = 0 \/ n - i >= RmLvn)
    <2>1. pc' = "unlink" /\ j' = i - 1 /\ UNCHANGED <<req, lvl, n>>
      BY <1>2 DEF Freed
    <2>2. j' + 1 = i
      BY <2>1, RingFacts
    <2>3. PathAt(j + 1)' = PathAt(i) /\ PathAt(0)' = PathAt(0)
      BY <2>1, <2>2 DEF PathAt
    <2>4. Linked(tree', {PathAt(j + 1)'})
      BY <2>3
    <2> QED
      BY <2>1, <2>3, <2>4 DEF Linkage
  <1> QED
    BY <1>1, <1>2

LEMMA ShrinkLinks ==
  ASSUME Linkage, pc \in {"rem", "unlink", "shrink"}, pc' = "shrink", Linked(tree', {}),
         UNCHANGED <<req, lvl, n>>
  PROVE  Linkage'
  BY DEF Linkage, PathAt

LEMMA RemDescendLinks ==
  ASSUME ShortKeys, IInv, Linkage, RemDescend
  PROVE  Linkage'
  <1>1. pc = "rem" /\ Removing /\ Passes /\ req.key \in Keys
    BY StateFacts DEF RemDescend, Removing, LocalsOK
  <1>2. /\ n' = n + 1 /\ lvl' = [lvl EXCEPT ![n % RmLvn] = NextSlot] /\ slot' = NextSlot
        /\ UNCHANGED <<tree, pc, req>>
    BY DEF RemDescend
  <1>3. /\ Linked(tree, {}) /\ PathAt(0) = <<>> /\ n <= Len(slot) + 1
    BY <1>1 DEF Linkage
  <1>4. StartsWith(req.key, slot) /\ slot \in Path /\ req.key \in Path /\ n \in Nat /\ n >= 1
    BY <1>1, RemFacts, RingFacts, StateFacts
  <1>5. NextSlot \in Path /\ StartsWith(req.key, NextSlot) /\ Len(slot) < Len(NextSlot)
    BY <1>1, <1>4, PassFacts
  <1>6. /\ Len(slot) \in Nat /\ Len(NextSlot) \in Nat /\ Len(req.key) \in Nat
        /\ Len(NextSlot) <= Len(req.key) /\ Len(req.key) < RmLvn
    BY <1>1, <1>4, <1>5, PathFacts, StartsLen DEF ShortKeys
  <1> HIDE DEF NextSlot
  <1>7. n + 1 <= Len(NextSlot) + 1 /\ n + 1 <= Len(req.key) + 1 /\ n - 0 < RmLvn
    BY <1>3, <1>4, <1>5, <1>6, CapAssumption
  <1>8. 0 % RmLvn # n % RmLvn
    BY <1>4, <1>7, ModDiffers
  <1>9. lvl'[0 % RmLvn] = <<>>
    <2>1. 0 % RmLvn \in 0 .. RmLvn - 1
      BY ModRange
    <2> QED
      BY <1>2, <1>3, <1>8, <2>1, StateFacts DEF PathAt
  <1> QED
    BY <1>1, <1>2, <1>3, <1>7, <1>9 DEF Linkage, PathAt

LEMMA RemMissLinks ==
  ASSUME Linkage, RemMiss
  PROVE  Linkage'
  BY FinishLinks DEF RemMiss, Removing, Linkage

LEMMA RemLeafLinks ==
  ASSUME ShortKeys, IInv, Linkage, RemLeaf
  PROVE  Linkage'
  <1>1. pc = "rem" /\ Removing /\ tree' = Drop(tree, {slot}) /\ Freed(n - 1) /\ Linked(tree, {})
    BY DEF RemLeaf, Removing, Linkage
  <1>2. n - 1 \in Window /\ PathAt(n - 1) = slot
    BY <1>1, RingFacts, RemFacts
  <1>3. TreeOK(tree')
    BY <1>1, StateFacts, DropOK
  <1>4. Linked(tree', {} \cup {slot})
    BY <1>1, LinkedDrop
  <1>5. Linked(tree', {PathAt(n - 1)})
    BY <1>2, <1>4
  <1> QED
    BY <1>1, <1>2, <1>3, <1>5, FreedLinks

LEMMA RemTermLinks ==
  ASSUME IInv, Linkage, RemTerm
  PROVE  Linkage'
  <1>1. /\ slot \in DOMAIN tree /\ tree[slot].kind \in RouterKinds /\ pc = "rem"
        /\ tree' = [tree EXCEPT ![slot].term = NoVal] /\ Linked(tree, {})
        /\ pc' = "shrink" /\ UNCHANGED <<req, lvl, n>>
    BY DEF RemTerm, Holds, nd, Removing, ToShrink, Linkage
  <1>2. Linked(tree', {})
    BY <1>1, StateFacts, TermLinked
  <1> QED
    BY <1>1, <1>2, ShrinkLinks

LEMMA RemInlineLinks ==
  ASSUME IInv, Shape, Linkage, RemInline
  PROVE  Linkage'
  <1> DEFINE t == Drop(tree, {NextSlot})
             u == [t EXCEPT ![slot].edges = @ \ {Edge}]
  <1>1. /\ pc = "rem" /\ Removing /\ Passes /\ NextSlot \in InlineKids(tree, slot)
        /\ tree' = u /\ Linked(tree, {})
        /\ pc' = "shrink" /\ UNCHANGED <<req, lvl, n>>
    BY DEF RemInline, Removing, ToShrink, Linkage
  <1>2. /\ slot \in DOMAIN tree /\ tree[slot].kind = "setlist" /\ NextSlot \in DOMAIN tree
    BY <1>1 DEF InlineKids, Passes
  <1>3. slot # NextSlot
    BY <1>1, RemFacts, PassFacts, PathFacts
  <1>4. NextSlot = At(tree, slot) \o Edge /\ Edge \in tree[slot].edges
    BY <1>1, <1>2 DEF NextSlot, nd, here, Passes, RouterKinds
  <1>5. OnlyFrom(tree, slot, NextSlot)
    <2>1. NextSlot \in KidsOf(slot, tree[slot])
      BY <1>1, NextIsKid
    <2> HIDE DEF NextSlot
    <2> QED
      BY <1>2, <2>1, TakenOnce DEF Shape
  <1>6. TreeOK(t) /\ DOMAIN t = DOMAIN tree \ {NextSlot} /\ \A q \in DOMAIN t : t[q] = tree[q]
    BY StateFacts, DropOK
  <1>7. Linked(t, {} \cup {NextSlot})
    BY <1>1, LinkedDrop
  <1> HIDE DEF t
  <1>8. OnlyFrom(t, slot, NextSlot)
    BY <1>5, <1>6 DEF OnlyFrom
  <1>9. /\ slot \in DOMAIN t /\ t[slot].kind \in RouterKinds /\ Edge \in t[slot].edges
        /\ NextSlot = At(t, slot) \o Edge
    <2>1. slot \in DOMAIN t /\ t[slot] = tree[slot]
      BY <1>2, <1>3, <1>6
    <2> QED
      BY <1>2, <1>4, <2>1 DEF At, RouterKinds
  <1>10. Linked(t, {NextSlot})
    BY <1>7
  <1>11. Linked(u, {})
    BY <1>6, <1>8, <1>9, <1>10, CutLinked
  <1> HIDE DEF u
  <1> QED
    BY <1>1, <1>11, ShrinkLinks

LEMMA UnlinkPnLinks ==
  ASSUME ShortKeys, IInv, Shape, Linkage, UnlinkPn
  PROVE  Linkage'
  <1>1. pc = "unlink" /\ Freed(j) /\ tree' = Drop(tree, {lp})
    BY DEF UnlinkPn
  <1>2. /\ j \in Window /\ PathAt(j) = lp /\ lp \in DOMAIN tree
        /\ PathAt(j + 1) \in KidsOf(lp, tree[lp])
    BY <1>1, UnwindFacts
  <1>3. Linked(tree, {PathAt(j + 1)}) /\ OnlyFrom(tree, lp, PathAt(j + 1))
    BY <1>1, <1>2, TakenOnce DEF Linkage, Shape
  <1>4. Linked(tree', {lp})
    BY <1>1, <1>2, <1>3, LinkedDropOver
  <1>5. TreeOK(tree')
    BY <1>1, StateFacts, DropOK
  <1> QED
    BY <1>1, <1>2, <1>4, <1>5, FreedLinks

LEMMA UnlinkEdgeLinks ==
  ASSUME IInv, Shape, Linkage, UnlinkEdge
  PROVE  Linkage'
  <1> DEFINE c == PathAt(j + 1)
             a == At(tree, lp)
             e == Rest(c, a)
             u == [tree EXCEPT ![lp].edges = @ \ {e}]
  <1>1. /\ pc = "unlink" /\ pc' = "shrink" /\ tree' = u /\ Linked(tree, {c})
        /\ UNCHANGED <<req, lvl, n>>
    BY DEF UnlinkEdge, PathAt, Linkage
  <1>2. /\ lp \in DOMAIN tree /\ tree[lp].kind \in RouterKinds
        /\ lnd = tree[lp] /\ NodeOK(lnd) /\ lp \in Path /\ a \in Path /\ a = lp \o lnd.pfx
    <2>1. lp \in DOMAIN tree /\ lnd = tree[lp] /\ tree[lp].kind \in RouterKinds
      BY LevelFacts DEF UnlinkEdge, lnd
    <2>2. NodeOK(lnd) /\ lp \in Path
      BY <2>1, StateFacts DEF TreeOK
    <2>3. tree[lp].kind # "leaf"
      BY <2>1 DEF RouterKinds, CnodeKinds
    <2> QED
      BY <2>1, <2>2, <2>3, StateFacts, AtOK DEF At
  <1>3. c \in KidsOf(lp, tree[lp]) /\ OnlyFrom(tree, lp, c)
    <2>1. c \in KidsOf(lp, tree[lp])
      BY <1>1, <1>2, UnwindFacts
    <2> HIDE DEF c
    <2> QED
      BY <1>2, <2>1, TakenOnce DEF Shape
  <1>4. KidsOf(lp, tree[lp]) = {a \o x : x \in lnd.edges} /\ lnd.edges \subseteq Path
    <2>1. KidsOf(lp, lnd) = {(lp \o lnd.pfx) \o x : x \in lnd.edges}
      BY <1>2, KidsOfIs
    <2>2. lnd.edges \subseteq Path
      BY <1>2, NodeFields
    <2> QED
      BY <1>2, <2>1, <2>2
  <1> HIDE DEF a, c
  <1>5. PICK x \in lnd.edges : c = a \o x
    BY <1>3, <1>4
  <1>6. e \in tree[lp].edges /\ c = a \o e
    <2>1. x \in Path
      BY <1>4
    <2>2. Rest(a \o x, a) = x
      BY <1>2, <2>1, RestConcat
    <2> QED
      BY <1>2, <1>5, <2>2
  <1> HIDE DEF e
  <1>7. Linked(u, {})
    BY <1>1, <1>2, <1>3, <1>6, StateFacts, CutLinked DEF a
  <1> HIDE DEF u
  <1> QED
    BY <1>1, <1>7, ShrinkLinks

LEMMA SurvivesLinks ==
  ASSUME Survives, Linked(tree', {})
  PROVE  Linkage'
  BY FinishLinks DEF Survives

LEMMA ShrinkEmptyLinks ==
  ASSUME ShortKeys, IInv, Shape, Linkage, ShrinkEmpty
  PROVE  Linkage'
  <1>1. pc = "shrink" /\ Freed(j) /\ tree' = Drop(tree, {lp}) /\ Linked(tree, {})
    BY DEF ShrinkEmpty, Shrinking, Linkage
  <1>2. j \in Window /\ PathAt(j) = lp
    BY <1>1, UnwindFacts
  <1>3. Linked(tree', {} \cup {lp})
    BY <1>1, LinkedDrop
  <1>4. TreeOK(tree')
    BY <1>1, StateFacts, DropOK
  <1>5. Linked(tree', {PathAt(j)})
    BY <1>2, <1>3
  <1> QED
    BY <1>1, <1>2, <1>4, <1>5, FreedLinks

LEMMA ShrinkToTermLinks ==
  ASSUME IInv, Linkage, ShrinkToTerm
  PROVE  Linkage'
  <1> DEFINE value == Leaf(<<>>, lnd.term)
             b     == At(tree, lp)
             x     == [q \in {lp, b} |-> IF q = lp THEN Pn(lnd.pfx) ELSE value]
             u     == Over(tree, x)
             w     == Upd(tree, lp, value)
  <1>1. Shrinking /\ Survives /\ Linked(tree, {})
    BY DEF ShrinkToTerm, Shrinking, Linkage
  <1>2. value.kind = "leaf"
    BY DEF Leaf
  <1>3. /\ lp \in DOMAIN tree /\ lp \in Path /\ lnd = tree[lp] /\ lnd.pfx \in Path
        /\ b = lp \o lnd.pfx
    <2>1. lp \in DOMAIN tree /\ lp \in Path /\ lnd.pfx \in Path /\ lnd.kind \in RouterKinds
      BY <1>1, ShrinkFacts
    <2>2. tree[lp].kind # "leaf"
      BY <2>1 DEF RouterKinds, CnodeKinds, lnd
    <2> QED
      BY <2>1, <2>2 DEF At, lnd
  <1> HIDE DEF value, b
  <1>4. \A q : KidsOf(q, value) = {}
    BY <1>2, KidsOfIs
  <1>5. Linked(w, {})
    <2>1. {} \subseteq DOMAIN tree \cup ({lp} \cup {})
          /\ KidsOf(lp, value) \subseteq DOMAIN tree \cup ({lp} \cup {})
      BY <1>4
    <2> QED
      BY <1>1, <2>1, LinkedUpd
  <1>6. ASSUME lnd.pfx # <<>>
        PROVE  Linked(u, {})
    <2>1. b # lp
      BY <1>3, <1>6, StartsConcat
    <2>2. Pn(lnd.pfx).kind = "pn" /\ Pn(lnd.pfx).pfx = lnd.pfx
      BY DEF Pn
    <2>3. DOMAIN x = {lp, b} /\ x[lp] = Pn(lnd.pfx) /\ x[b] = value
      BY <2>1
    <2> HIDE DEF x
    <2>4. KidsOf(lp, x[lp]) = {b}
      BY <1>3, <2>2, <2>3, KidsOfIs
    <2>5. Linked(x, {})
      BY <1>4, <2>3, <2>4 DEF Linked
    <2>6. {} \subseteq (DOMAIN tree \cup DOMAIN x) \cup {}
      OBVIOUS
    <2> QED
      BY <1>1, <2>5, <2>6, LinkedOver
  <1>7. tree' = w \/ (lnd.pfx # <<>> /\ tree' = u) \/ tree' = tree
    BY DEF ShrinkToTerm, value, b
  <1> HIDE DEF u, w
  <1>8. Linked(tree', {})
    BY <1>1, <1>5, <1>6, <1>7
  <1> QED
    BY <1>1, <1>8, SurvivesLinks

LEMMA ShrinkLoneLinks ==
  ASSUME IInv, Shape, Linkage, ShrinkLone
  PROVE  Linkage'
  <1>1. /\ Shrinking /\ Survives /\ tree' \in {tree, CollapseTree(tree, lp)} /\ Deg = 1
        /\ Linked(tree, {})
    BY DEF ShrinkLone, Shrinking, Linkage
  <1>2. /\ lp \in DOMAIN tree /\ tree[lp].kind \in RouterKinds
        /\ Cardinality(tree[lp].edges) = 1
    BY <1>1, ShrinkFacts DEF lnd, Deg
  <1>3. tree[lp].edges # {}
    BY <1>2, FS_EmptySet
  <1>4. Linked(CollapseTree(tree, lp), {})
    BY <1>1, <1>2, <1>3, StateFacts, CollapseLinked DEF Shape
  <1>5. Linked(tree', {})
    BY <1>1, <1>4
  <1> QED
    BY <1>1, <1>5, SurvivesLinks

LEMMA ShrinkDewidenLinks ==
  ASSUME IInv, Linkage, ShrinkDewiden
  PROVE  Linkage'
  <1>1. pc = "shrink" /\ lp \in DOMAIN tree /\ tree[lp].kind \in RouterKinds /\ Linked(tree, {})
    BY ShrinkFacts DEF ShrinkDewiden, Shrinking, lnd, Linkage
  <1>2. CASE tree' = tree /\ Survives
    BY <1>1, <1>2, SurvivesLinks
  <1>3. CASE tree' = [tree EXCEPT ![lp].kind = "setlist"] /\ UNCHANGED <<pc, req, lvl, n>>
    <2>1. "setlist" \in RouterKinds
      BY DEF RouterKinds
    <2>2. Linked(tree', {})
      BY <1>1, <1>3, <2>1, StateFacts, KindLinked
    <2> QED
      BY <1>1, <1>3, <2>2, ShrinkLinks
  <1> QED
    BY <1>2, <1>3 DEF ShrinkDewiden

LEMMA ShrinkStandsLinks ==
  ASSUME Linkage, ShrinkStands
  PROVE  Linkage'
  BY SurvivesLinks DEF ShrinkStands, Shrinking, Linkage

LEMMA StutterLinks ==
  ASSUME Linkage, UNCHANGED vars
  PROVE  Linkage'
  BY DEF vars, Linkage, PathAt

LEMMA PutStepLinks ==
  ASSUME IInv, Shape, Linkage, Put
  PROVE  Linkage'
  BY PutNullLinks, PutSameLeafLinks, PutSplitLeafLinks, PutLazyFuseLinks, PutSplitPrefixLinks,
     PutTermLinks, PutDescendLinks, PutExternalizeAllLinks, PutAddLinks, PutAddStemLinks,
     PutRestrideLinks, GrowLiftLinks, GrowWidenLinks, GrowLinkLinks, FuseParentLinks
  DEF Put

LEMMA RemStepLinks ==
  ASSUME ShortKeys, IInv, Shape, Linkage, Rem
  PROVE  Linkage'
  BY RemDescendLinks, RemMissLinks, RemLeafLinks, RemTermLinks, RemInlineLinks, UnlinkPnLinks,
     UnlinkEdgeLinks, ShrinkEmptyLinks, ShrinkToTermLinks, ShrinkLoneLinks, ShrinkDewidenLinks,
     ShrinkStandsLinks
  DEF Rem

LEMMA StepLinks ==
  ASSUME ShortKeys, IInv, Shape, Linkage, Next
  PROVE  Linkage'
  BY PutStepLinks, GetStepLinks, RemStepLinks, ClearLinks, CallLinks
  DEF Next, Step

LEMMA LinksHold == ShortKeys => (Spec => [](IInv /\ Shape /\ Linkage))
  <1> SUFFICES ASSUME ShortKeys
               PROVE  Spec => [](IInv /\ Shape /\ Linkage)
    OBVIOUS
  <1>1. Init => IInv /\ Shape /\ Linkage
    BY InitOK, InitShape, InitLinks
  <1>2. IInv /\ Shape /\ Linkage /\ [Next]_vars => IInv' /\ Shape' /\ Linkage'
    BY StepOK, StutterOK, StepShape, StutterShape, StepLinks, StutterLinks
  <1> QED
    BY <1>1, <1>2, PTL DEF Spec

LEMMA LinksNoDeadEdge ==
  ASSUME IInv, Shape, Linkage
  PROVE  NoDeadEdge
  <1> DEFINE D == DeadEdges(tree)
  <1>1. \A d : d \in D <=> \E p \in DOMAIN tree : \E z \in KidsOf(p, tree[p]) :
                             z \notin DOMAIN tree /\ d = <<p, z>>
    BY ChildrenAre DEF DeadEdges
  <1>2. CASE pc # "unlink"
    <2>1. Linked(tree, {})
      BY <1>2 DEF Linkage
    <2>2. ASSUME NEW d \in D
          PROVE  FALSE
      BY <1>1, <2>1 DEF Linked
    <2> QED
      BY <1>2, <2>2 DEF NoDeadEdge
  <1>3. CASE pc = "unlink"
    <2> DEFINE c == PathAt(j + 1)
    <2>1. lp \in DOMAIN tree /\ c \in KidsOf(lp, tree[lp]) /\ Linked(tree, {c})
      BY <1>3, UnwindFacts DEF Linkage
    <2>2. c \notin DOMAIN tree
      <3>1. \A q \in DOMAIN tree : ~StartsWith(q, c) /\ q \in Path
        BY <1>3, StateFacts DEF Shape, Hanging, TreeOK
      <3> QED
        BY <3>1, StartsRefl
    <2>3. lvl[(j + 1) % RmLvn] = c
      BY DEF PathAt
    <2> HIDE DEF c
    <2>4. OnlyFrom(tree, lp, c)
      BY <2>1, TakenOnce DEF Shape
    <2>5. <<lp, c>> \in D
      BY <1>1, <2>1, <2>2
    <2>6. ASSUME NEW d \in D
          PROVE  d = <<lp, c>>
      <3>1. PICK p \in DOMAIN tree :
              \E z \in KidsOf(p, tree[p]) : z \notin DOMAIN tree /\ d = <<p, z>>
        BY <1>1
      <3>2. PICK z \in KidsOf(p, tree[p]) : z \notin DOMAIN tree /\ d = <<p, z>>
        BY <3>1
      <3>3. z = c
        BY <2>1, <3>2 DEF Linked
      <3>4. p = lp
        BY <2>4, <3>2, <3>3 DEF OnlyFrom
      <3> QED
        BY <3>2, <3>3, <3>4
    <2> HIDE DEF D
    <2>7. D = {<<lp, c>>}
      BY <2>5, <2>6
    <2> QED
      BY <1>3, <2>3, <2>7 DEF NoDeadEdge, D
  <1> QED
    BY <1>2, <1>3

\* When every key is shorter than the remove window (RM_LVN, 64 bytes), no edge
\* of the tree leads to a null or freed node, but for the one that an unwind
\* unlinks next, whatever was split, fused, re-strided, widened, collapsed or
\* freed and whichever allocation failed: the iterators and descend_min_ follow
\* every edge without a test.  The way to a longer key may have more levels than
\* the window, and remove then leaves a dead edge above it.
THEOREM NoEdgeHangs == ShortKeys => (Spec => []NoDeadEdge)
  <1> SUFFICES ASSUME ShortKeys
               PROVE  Spec => []NoDeadEdge
    OBVIOUS
  <1>1. Spec => [](IInv /\ Shape /\ Linkage)
    BY LinksHold
  <1>2. IInv /\ Shape /\ Linkage => NoDeadEdge
    BY LinksNoDeadEdge
  <1> QED
    BY <1>1, <1>2, PTL

=============================================================================
