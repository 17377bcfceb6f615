----------------------------- MODULE ArtTreeProofs -----------------------------
(***************************************************************************)
(* Proofs about ArtTree, for every set of keys, every capacity and mode:   *)
(* types and live pointers; then the tree as a trie, where the slots below *)
(* a node are those below one of its children and every node but the root  *)
(* is a child of one other node: UniqueKeys and OnlyOneParent follow.     *)
(***************************************************************************)
EXTENDS ArtTree, SequenceTheorems, FiniteSetTheorems, WellFoundedInduction, TLAPS

-----------------------------------------------------------------------------
(* Byte sequences.                                                         *)

LEMMA PathFacts ==
  ASSUME NEW s \in Path
  PROVE  /\ Len(s) \in Nat
         /\ \A i \in 1 .. Len(s) : s[i] \in Byte
         /\ s # <<>> => Len(s) > 0
  BY LenProperties, ElementOfSeq, EmptySeq DEF Path

LEMMA EmptyPath == <<>> \in Path /\ Len(<<>>) = 0
  BY EmptySeq DEF Path

LEMMA SamePath ==
  ASSUME NEW s \in Path, NEW x \in Path,
         Len(s) = Len(x), \A i \in 1 .. Len(s) : s[i] = x[i]
  PROVE  s = x
  BY SeqEqual DEF Path

LEMMA ConcatFacts ==
  ASSUME NEW s \in Path, NEW x \in Path
  PROVE  /\ s \o x \in Path
         /\ Len(s \o x) = Len(s) + Len(x)
         /\ \A i \in 1 .. Len(s) + Len(x) :
              (s \o x)[i] = IF i <= Len(s) THEN s[i] ELSE x[i - Len(s)]
  BY ConcatProperties DEF Path

LEMMA ConcatEmpty ==
  ASSUME NEW s \in Path
  PROVE  s \o <<>> = s
  BY ConcatEmptySeq DEF Path

LEMMA ConcatNonEmpty ==
  ASSUME NEW s \in Path, NEW x \in Path, s # <<>> \/ x # <<>>
  PROVE  s \o x \in Path /\ s \o x # <<>>
  <1>1. Len(s) \in Nat /\ Len(x) \in Nat /\ (Len(s) > 0 \/ Len(x) > 0)
    BY PathFacts
  <1>2. s \o x \in Path /\ Len(s \o x) > 0
    BY <1>1, ConcatFacts
  <1> QED
    BY <1>2, EmptyPath

\* The part of s from its m-th to its c-th byte.
LEMMA SliceFacts ==
  ASSUME NEW s \in Path, NEW m \in 1 .. Len(s) + 1, NEW c \in m - 1 .. Len(s)
  PROVE  /\ SubSeq(s, m, c) \in Path
         /\ Len(SubSeq(s, m, c)) = c - m + 1
         /\ \A i \in 1 .. c - m + 1 : SubSeq(s, m, c)[i] = s[m + i - 1]
  <1>1. Len(s) \in Nat
    BY PathFacts
  <1>2. m \in Int /\ c \in Int /\ \A i \in m .. c : s[i] \in Byte
    BY <1>1, PathFacts
  <1>3. /\ SubSeq(s, m, c) \in Seq(Byte)
        /\ Len(SubSeq(s, m, c)) = IF m <= c THEN c - m + 1 ELSE 0
        /\ \A i \in 1 .. c - m + 1 : SubSeq(s, m, c)[i] = s[m + i - 1]
    BY <1>2, SubSeqProperties
  <1> QED
    BY <1>1, <1>3 DEF Path

LEMMA FrontFacts ==
  ASSUME NEW s \in Path, NEW c \in 0 .. Len(s)
  PROVE  /\ Front(s, c) \in Path
         /\ Len(Front(s, c)) = c
         /\ \A i \in 1 .. c : Front(s, c)[i] = s[i]
  <1>1. Len(s) \in Nat
    BY PathFacts
  <1>2. 1 \in 1 .. Len(s) + 1 /\ c \in 1 - 1 .. Len(s)
    BY <1>1
  <1> QED
    BY <1>1, <1>2, SliceFacts DEF Front

LEMMA BackFacts ==
  ASSUME NEW s \in Path, NEW c \in 0 .. Len(s)
  PROVE  /\ Back(s, c) \in Path
         /\ Len(Back(s, c)) = Len(s) - c
         /\ \A i \in 1 .. Len(s) - c : Back(s, c)[i] = s[c + i]
  <1>1. Len(s) \in Nat
    BY PathFacts
  <1>2. c + 1 \in 1 .. Len(s) + 1 /\ Len(s) \in (c + 1) - 1 .. Len(s)
    BY <1>1
  <1>3. /\ SubSeq(s, c + 1, Len(s)) \in Path
        /\ Len(SubSeq(s, c + 1, Len(s))) = Len(s) - (c + 1) + 1
        /\ \A i \in 1 .. Len(s) - (c + 1) + 1 : SubSeq(s, c + 1, Len(s))[i] = s[(c + 1) + i - 1]
    BY <1>2, SliceFacts
  <1> QED
    BY <1>1, <1>3 DEF Back

LEMMA RestFacts ==
  ASSUME NEW k \in Path, NEW p \in Path, Len(p) <= Len(k)
  PROVE  /\ Rest(k, p) \in Path
         /\ Len(Rest(k, p)) = Len(k) - Len(p)
         /\ \A i \in 1 .. Len(k) - Len(p) : Rest(k, p)[i] = k[Len(p) + i]
  <1>1. Len(p) \in 0 .. Len(k)
    BY PathFacts
  <1> QED
    BY <1>1, BackFacts DEF Rest, Back

\* StartsWith byte by byte.
LEMMA StartsWithIff ==
  ASSUME NEW s \in Path, NEW x \in Path
  PROVE  StartsWith(s, x) <=> Len(x) <= Len(s) /\ \A i \in 1 .. Len(x) : s[i] = x[i]
  <1>1. CASE Len(x) <= Len(s)
    <2>1. Len(x) \in 0 .. Len(s)
      BY <1>1, PathFacts
    <2>2. /\ Front(s, Len(x)) \in Path
          /\ Len(Front(s, Len(x))) = Len(x)
          /\ \A i \in 1 .. Len(x) : Front(s, Len(x))[i] = s[i]
      BY <2>1, FrontFacts
    <2>3. Front(s, Len(x)) = x <=> \A i \in 1 .. Len(x) : s[i] = x[i]
      BY <2>2, SamePath
    <2> QED
      BY <1>1, <2>3 DEF StartsWith
  <1>2. CASE ~(Len(x) <= Len(s))
    BY <1>2 DEF StartsWith
  <1> QED
    BY <1>1, <1>2

LEMMA StartsWithEmpty ==
  ASSUME NEW s \in Path
  PROVE  StartsWith(s, <<>>)
  BY StartsWithIff, EmptyPath, PathFacts

LEMMA Longer ==
  ASSUME NEW k \in Path, NEW p \in Path, StartsWith(k, p), k # p
  PROVE  Len(p) < Len(k)
  <1>1. Len(p) \in Nat /\ Len(k) \in Nat
    BY PathFacts
  <1>2. Len(p) <= Len(k) /\ \A i \in 1 .. Len(p) : k[i] = p[i]
    BY StartsWithIff
  <1>3. Len(p) # Len(k)
    BY <1>2, SamePath
  <1> QED
    BY <1>1, <1>2, <1>3

\* The key goes on past a prefix, and over an edge.
LEMMA PassPrefix ==
  ASSUME NEW k \in Path, NEW p \in Path, NEW x \in Path,
         StartsWith(k, p), StartsWith(Rest(k, p), x)
  PROVE  StartsWith(k, p \o x)
  <1>1. Len(p) \in Nat /\ Len(x) \in Nat /\ Len(k) \in Nat
    BY PathFacts
  <1>2. Len(p) <= Len(k) /\ \A i \in 1 .. Len(p) : k[i] = p[i]
    BY StartsWithIff
  <1>3. /\ Rest(k, p) \in Path /\ Len(Rest(k, p)) = Len(k) - Len(p)
        /\ \A i \in 1 .. Len(k) - Len(p) : Rest(k, p)[i] = k[Len(p) + i]
    BY <1>2, RestFacts
  <1>4. Len(x) <= Len(k) - Len(p) /\ \A i \in 1 .. Len(x) : Rest(k, p)[i] = x[i]
    BY <1>3, StartsWithIff
  <1>5. /\ p \o x \in Path /\ Len(p \o x) = Len(p) + Len(x)
        /\ \A i \in 1 .. Len(p) + Len(x) :
             (p \o x)[i] = IF i <= Len(p) THEN p[i] ELSE x[i - Len(p)]
    BY ConcatFacts
  <1>6. ASSUME NEW i \in 1 .. Len(p) + Len(x)
        PROVE  k[i] = (p \o x)[i]
    <2>1. CASE i <= Len(p)
      BY <1>1, <1>2, <1>5, <2>1
    <2>2. CASE ~(i <= Len(p))
      <3>1. i - Len(p) \in 1 .. Len(x) /\ Len(p) + (i - Len(p)) = i
        BY <1>1, <2>2
      <3>2. i - Len(p) \in 1 .. Len(k) - Len(p)
        BY <1>1, <1>4, <3>1
      <3>3. Rest(k, p)[i - Len(p)] = k[i]
        BY <1>3, <3>1, <3>2
      <3> QED
        BY <1>4, <1>5, <2>2, <3>1, <3>3
    <2> QED
      BY <2>1, <2>2
  <1>7. Len(p \o x) <= Len(k) /\ \A i \in 1 .. Len(p \o x) : k[i] = (p \o x)[i]
    BY <1>1, <1>4, <1>5, <1>6
  <1> QED
    BY <1>5, <1>7, StartsWithIff

LEMMA PassEdge ==
  ASSUME NEW k \in Path, NEW p \in Path, StartsWith(k, p), NEW m \in Len(p) .. Len(k)
  PROVE  LET e == SubSeq(k, Len(p) + 1, m)
         IN  e \in Path /\ Len(e) = m - Len(p) /\ StartsWith(k, p \o e)
  <1> DEFINE e == SubSeq(k, Len(p) + 1, m)
  <1>1. Len(p) \in Nat /\ Len(k) \in Nat /\ Len(p) <= Len(k)
    BY PathFacts, StartsWithIff
  <1>2. Len(p) + 1 \in 1 .. Len(k) + 1 /\ m \in (Len(p) + 1) - 1 .. Len(k)
    BY <1>1
  <1>3. /\ e \in Path /\ Len(e) = m - (Len(p) + 1) + 1
        /\ \A i \in 1 .. m - (Len(p) + 1) + 1 : e[i] = k[(Len(p) + 1) + i - 1]
    BY <1>2, SliceFacts
  <1>4. Len(e) = m - Len(p) /\ \A i \in 1 .. Len(e) : e[i] = k[Len(p) + i]
    BY <1>1, <1>3
  <1>5. Rest(k, p) \in Path /\ Len(Rest(k, p)) = Len(k) - Len(p)
        /\ \A i \in 1 .. Len(k) - Len(p) : Rest(k, p)[i] = k[Len(p) + i]
    BY <1>1, RestFacts
  <1>6. StartsWith(Rest(k, p), e)
    <2> HIDE DEF e
    <2>1. Len(e) <= Len(Rest(k, p))
      BY <1>1, <1>4, <1>5
    <2>2. \A i \in 1 .. Len(e) : Rest(k, p)[i] = e[i]
      BY <1>1, <1>4, <1>5
    <2> QED
      BY <1>3, <1>5, <2>1, <2>2, StartsWithIff
  <1> QED
    BY <1>3, <1>4, <1>6, PassPrefix

\* lcp() is what its name says.
LEMMA LcpFacts ==
  ASSUME NEW s \in Path, NEW x \in Path
  PROVE  /\ Lcp(s, x) \in 0 .. Len(s) /\ Lcp(s, x) <= Len(x)
         /\ ~StartsWith(x, s) => Lcp(s, x) < Len(s)
         /\ Lcp(s, x) = Len(s) /\ Lcp(s, x) = Len(x) => s = x
         /\ Front(s, Lcp(s, x)) = Front(x, Lcp(s, x))
         /\ Lcp(s, x) < Len(s) /\ Lcp(s, x) < Len(x) => s[Lcp(s, x) + 1] # x[Lcp(s, x) + 1]
  <1> DEFINE m == Min2(Len(s), Len(x))
             D == {c \in Nat : c = m \/ (c < m /\ s[c + 1] # x[c + 1])}
             Ok(c) == /\ Front(s, c) = Front(x, c)
                      /\ c < Min2(Len(s), Len(x)) => s[c + 1] # x[c + 1]
  <1>1. Len(s) \in Nat /\ Len(x) \in Nat /\ m \in Nat /\ m <= Len(s) /\ m <= Len(x)
        /\ (m = Len(s) \/ m = Len(x))
    BY PathFacts DEF Min2
  <1>2. \E c \in D : \A b \in D : ~(<<b, c>> \in {ss \in Nat \X Nat : ss[1] < ss[2]})
    <2>1. D \subseteq Nat /\ m \in D
      BY <1>1
    <2>2. IsWellFoundedOn({ss \in Nat \X Nat : ss[1] < ss[2]}, Nat)
      BY NatLessThanWellFounded DEF OpToRel
    <2> HIDE DEF D
    <2> QED
      BY <2>1, <2>2, WFMin
  <1>3. PICK c \in D : \A b \in D : ~(b < c)
    BY <1>2
  <1>4. c \in 0 .. m /\ \A i \in 1 .. c : s[i] = x[i]
    <2>1. c \in 0 .. m
      BY <1>1
    <2>2. ASSUME NEW i \in 1 .. c, s[i] # x[i]
          PROVE  FALSE
      <3>1. i - 1 \in Nat /\ i - 1 < c /\ i - 1 < m /\ (i - 1) + 1 = i
        BY <1>1, <2>1
      <3>2. i - 1 \in D
        BY <2>2, <3>1
      <3> QED
        BY <1>3, <3>1, <3>2
    <2> QED
      BY <2>1, <2>2
  <1>5. c \in 0 .. Min2(Len(s), Len(x)) /\ Ok(c)
    <2>1. /\ Front(s, c) \in Path /\ Len(Front(s, c)) = c
          /\ \A i \in 1 .. c : Front(s, c)[i] = s[i]
      BY <1>1, <1>4, FrontFacts
    <2>2. /\ Front(x, c) \in Path /\ Len(Front(x, c)) = c
          /\ \A i \in 1 .. c : Front(x, c)[i] = x[i]
      BY <1>1, <1>4, FrontFacts
    <2>3. Front(s, c) = Front(x, c)
      BY <1>4, <2>1, <2>2, SamePath
    <2> QED
      BY <1>1, <1>4, <2>3
  <1>6. Lcp(s, x) \in 0 .. m /\ Ok(Lcp(s, x))
    BY <1>5 DEF Lcp
  <1> DEFINE l == Lcp(s, x)
  <1>7. /\ Front(s, l) = Front(x, l) /\ l \in 0 .. m
        /\ l < Len(s) /\ l < Len(x) => s[l + 1] # x[l + 1]
    BY <1>1, <1>6
  <1> HIDE DEF l
  <1>8. \A i \in 1 .. l : s[i] = x[i]
    <2>1. /\ Front(s, l) \in Path /\ Len(Front(s, l)) = l
          /\ \A i \in 1 .. l : Front(s, l)[i] = s[i]
      BY <1>1, <1>7, FrontFacts
    <2>2. \A i \in 1 .. l : Front(x, l)[i] = x[i]
      BY <1>1, <1>7, FrontFacts
    <2> QED
      BY <1>7, <2>1, <2>2
  <1>9. l = Len(s) => StartsWith(x, s)
    BY <1>1, <1>7, <1>8, StartsWithIff
  <1>10. l = Len(s) /\ l = Len(x) => s = x
    BY <1>8, SamePath
  <1> QED
    BY <1>1, <1>7, <1>9, <1>10 DEF l

-----------------------------------------------------------------------------
(* Nodes and trees.                                                        *)

NodeOK(x) == x \in Node /\ Formed(x)
TreeOK(t) == DOMAIN t \subseteq Path /\ \A p \in DOMAIN t : NodeOK(t[p])

StemLen(kind) == IF kind = "u16" THEN 2 ELSE 1

LEMMA NodeFields ==
  ASSUME NEW x, NodeOK(x)
  PROVE  /\ x.kind \in {"leaf", "pn"} \cup RouterKinds
         /\ x.kind = "leaf" => x \in LeafNode /\ x.suf \in Path /\ x.val \in Values
         /\ x.kind = "pn" => x \in PnNode /\ x.pfx \in Path /\ x.pfx # <<>>
         /\ x.kind \in RouterKinds =>
              /\ x \in RouterNode /\ x.pfx \in Path
              /\ x.edges \subseteq Path /\ x.term \in Values \cup {NoVal}
              /\ x.kind = "pfxd" => x.pfx # <<>>
              /\ x.kind \notin {"setlist", "pfxd"} => x.pfx = <<>>
              /\ \A e \in x.edges : Len(e) = StemLen(x.kind)
         /\ x.kind # "leaf" => x.pfx \in Path
  BY DEF NodeOK, Formed, Node, LeafNode, PnNode, RouterNode, RouterKinds, CnodeKinds, StemLen

LEMMA LeafOK ==
  ASSUME NEW suf \in Path, NEW v \in Values
  PROVE  NodeOK(Leaf(suf, v)) /\ Leaf(suf, v).kind = "leaf"
  BY DEF NodeOK, Formed, Node, LeafNode, RouterKinds, CnodeKinds, Leaf

LEMMA PnOK ==
  ASSUME NEW pfx \in Path, pfx # <<>>
  PROVE  NodeOK(Pn(pfx)) /\ Pn(pfx).kind = "pn"
  BY DEF NodeOK, Formed, Node, PnNode, RouterKinds, CnodeKinds, Pn

LEMMA RouterOK ==
  ASSUME NEW kind \in RouterKinds, NEW pfx \in Path, NEW edges \in SUBSET Path,
         NEW tm \in Values \cup {NoVal},
         kind = "pfxd" => pfx # <<>>,
         kind \notin {"setlist", "pfxd"} => pfx = <<>>,
         \A e \in edges : Len(e) = StemLen(kind)
  PROVE  /\ NodeOK(Router(kind, pfx, edges, tm))
         /\ Router(kind, pfx, edges, tm).kind = kind
  BY DEF NodeOK, Formed, Node, RouterNode, RouterKinds, CnodeKinds, Router, StemLen

\* A router is what its four fields say.
LEMMA RouterIs ==
  ASSUME NEW x \in RouterNode, NEW y, NEW z
  PROVE  /\ x = Router(x.kind, x.pfx, x.edges, x.term)
         /\ [x EXCEPT !.kind = y]  = Router(y, x.pfx, x.edges, x.term)
         /\ [x EXCEPT !.pfx = y]   = Router(x.kind, y, x.edges, x.term)
         /\ [x EXCEPT !.edges = y] = Router(x.kind, x.pfx, y, x.term)
         /\ [x EXCEPT !.term = y]  = Router(x.kind, x.pfx, x.edges, y)
         /\ [x EXCEPT !.kind = y, !.pfx = z] = Router(y, z, x.edges, x.term)
  <1>1. x = Router(x.kind, x.pfx, x.edges, x.term)
    BY DEF RouterNode, Router
  <1>2. [x EXCEPT !.kind = y] = Router(y, x.pfx, x.edges, x.term)
    BY <1>1 DEF Router
  <1>3. [x EXCEPT !.pfx = y] = Router(x.kind, y, x.edges, x.term)
    BY <1>1 DEF Router
  <1>4. [x EXCEPT !.edges = y] = Router(x.kind, x.pfx, y, x.term)
    BY <1>1 DEF Router
  <1>5. [x EXCEPT !.term = y] = Router(x.kind, x.pfx, x.edges, y)
    BY <1>1 DEF Router
  <1>6. [x EXCEPT !.kind = y, !.pfx = z] = Router(y, z, x.edges, x.term)
    <2>1. [x EXCEPT !.kind = y, !.pfx = z] = [[x EXCEPT !.kind = y] EXCEPT !.pfx = z]
      OBVIOUS
    <2>2. [Router(y, x.pfx, x.edges, x.term) EXCEPT !.pfx = z] = Router(y, z, x.edges, x.term)
      BY DEF Router
    <2> QED
      BY <1>2, <2>1, <2>2
  <1> QED
    BY <1>1, <1>2, <1>3, <1>4, <1>5, <1>6

LEMMA LeafEdits ==
  ASSUME NEW x, NodeOK(x), x.kind = "leaf"
  PROVE  /\ \A v \in Values : NodeOK([x EXCEPT !.val = v])
         /\ \A b \in BOOLEAN : NodeOK([x EXCEPT !.inl = b])
         /\ \A v : [x EXCEPT !.val = v].kind = "leaf"
         /\ \A b : [x EXCEPT !.inl = b].kind = "leaf"
  BY DEF NodeOK, Formed, Node, LeafNode, PnNode, RouterNode, RouterKinds, CnodeKinds

LEMMA UpdOK ==
  ASSUME NEW t, TreeOK(t), NEW p \in Path, NEW x, NodeOK(x)
  PROVE  /\ TreeOK(Upd(t, p, x))
         /\ DOMAIN Upd(t, p, x) = DOMAIN t \cup {p}
         /\ Upd(t, p, x)[p] = x
         /\ \A q \in DOMAIN t : q # p => Upd(t, p, x)[q] = t[q]
  BY DEF TreeOK, Upd

LEMMA DropOK ==
  ASSUME NEW t, TreeOK(t), NEW S
  PROVE  /\ TreeOK(Drop(t, S))
         /\ DOMAIN Drop(t, S) = DOMAIN t \ S
         /\ \A q \in DOMAIN t \ S : Drop(t, S)[q] = t[q]
  BY DEF TreeOK, Drop

LEMMA OverOK ==
  ASSUME NEW t, TreeOK(t), NEW u, TreeOK(u)
  PROVE  /\ TreeOK(Over(t, u))
         /\ DOMAIN Over(t, u) = DOMAIN t \cup DOMAIN u
         /\ \A q \in DOMAIN u : Over(t, u)[q] = u[q]
         /\ \A q \in DOMAIN t \ DOMAIN u : Over(t, u)[q] = t[q]
  BY DEF TreeOK, Over

\* EXCEPT at one slot.
LEMMA ExceptOK ==
  ASSUME NEW t, TreeOK(t), NEW p \in DOMAIN t, NEW x, NodeOK(x)
  PROVE  TreeOK([t EXCEPT ![p] = x])
  BY DEF TreeOK

LEMMA AtOK ==
  ASSUME NEW t, TreeOK(t), NEW p \in DOMAIN t, t[p].kind # "leaf"
  PROVE  /\ p \in Path /\ t[p].pfx \in Path /\ At(t, p) \in Path
         /\ Len(At(t, p)) = Len(p) + Len(t[p].pfx)
         /\ t[p].pfx = <<>> => At(t, p) = p
  <1>1. p \in Path /\ t[p].pfx \in Path
    BY NodeFields DEF TreeOK
  <1> QED
    BY <1>1, ConcatFacts, ConcatEmpty DEF At

LEMMA MakePrefixOK ==
  ASSUME NEW t, TreeOK(t), NEW p \in Path, NEW pfx \in Path
  PROVE  /\ TreeOK(MakePrefix(t, p, pfx))
         /\ DOMAIN t \ {p \o pfx} \subseteq DOMAIN MakePrefix(t, p, pfx)
         /\ DOMAIN MakePrefix(t, p, pfx) \subseteq DOMAIN t \cup {p}
         /\ pfx # <<>> => p \in DOMAIN MakePrefix(t, p, pfx)
         /\ pfx = <<>> => MakePrefix(t, p, pfx) = t
  <1> DEFINE c == p \o pfx
  <1>1. CASE pfx = <<>>
    BY <1>1 DEF MakePrefix
  <1>2. CASE pfx # <<>> /\ FusesInto(t, c, pfx)
    <2> DEFINE x == [t[c] EXCEPT !.kind = "pfxd", !.pfx = pfx \o t[c].pfx]
    <2>1. c \in DOMAIN t /\ t[c].kind \in {"full", "pfxd"} /\ NodeOK(t[c])
      BY <1>2 DEF FusesInto, TreeOK
    <2>2. t[c].kind \in RouterKinds
      BY <2>1 DEF RouterKinds
    <2>3. /\ t[c] \in RouterNode /\ t[c].pfx \in Path
          /\ t[c].edges \subseteq Path /\ t[c].term \in Values \cup {NoVal}
          /\ \A e \in t[c].edges : Len(e) = 1
      BY <2>1, <2>2, NodeFields DEF StemLen
    <2>4. x = Router("pfxd", pfx \o t[c].pfx, t[c].edges, t[c].term)
      <3> HIDE DEF c
      <3> QED
        BY <2>3, RouterIs
    <2>5. pfx \o t[c].pfx \in Path /\ pfx \o t[c].pfx # <<>>
      BY <1>2, <2>3, ConcatNonEmpty
    <2>6. NodeOK(Router("pfxd", pfx \o t[c].pfx, t[c].edges, t[c].term))
      BY <2>3, <2>5, RouterOK DEF StemLen, RouterKinds
    <2>7. MakePrefix(t, p, pfx) = Upd(Drop(t, {c}), p, x)
      BY <1>2 DEF MakePrefix
    <2>8. TreeOK(Drop(t, {c})) /\ DOMAIN Drop(t, {c}) = DOMAIN t \ {c}
      BY DropOK
    <2>9. NodeOK(x)
      BY <2>4, <2>6
    <2>10. /\ TreeOK(Upd(Drop(t, {c}), p, x))
           /\ DOMAIN Upd(Drop(t, {c}), p, x) = (DOMAIN t \ {c}) \cup {p}
      <3> HIDE DEF x, c
      <3> QED
        BY <2>8, <2>9, UpdOK
    <2> QED
      BY <1>2, <2>7, <2>10
  <1>3. CASE pfx # <<>> /\ ~FusesInto(t, c, pfx)
    <2>1. MakePrefix(t, p, pfx) = Upd(t, p, Pn(pfx))
      BY <1>3 DEF MakePrefix
    <2>2. NodeOK(Pn(pfx))
      BY <1>3, PnOK
    <2>3. TreeOK(Upd(t, p, Pn(pfx))) /\ DOMAIN Upd(t, p, Pn(pfx)) = DOMAIN t \cup {p}
      BY <2>2, UpdOK
    <2> QED
      BY <1>3, <2>1, <2>3
  <1> QED
    BY <1>1, <1>2, <1>3

LEMMA ApplyPrefixOK ==
  ASSUME NEW p \in Path, NEW common \in Path, NEW edges \in SUBSET Path,
         NEW tm \in Values \cup {NoVal}, \A e \in edges : Len(e) = 1
  PROVE  LET u == ApplyPrefix(p, common, Router("setlist", <<>>, edges, tm))
         IN  TreeOK(u) /\ p \in DOMAIN u
  <1> DEFINE r == Router("setlist", <<>>, edges, tm)
  <1>1. NodeOK(r) /\ NodeOK(Router("setlist", common, edges, tm)) /\ r \in RouterNode
    <2>1. "setlist" \in RouterKinds
      BY DEF RouterKinds
    <2>2. NodeOK(r) /\ NodeOK(Router("setlist", common, edges, tm)) /\ r.kind = "setlist"
      BY <2>1, EmptyPath, RouterOK DEF StemLen
    <2> QED
      BY <2>1, <2>2, NodeFields
  <1>2. [r EXCEPT !.pfx = common] = Router("setlist", common, edges, tm)
    BY DEF Router
  <1>3. CASE Len(common) <= PrefixCap
    <2>1. ApplyPrefix(p, common, r) = [q \in {p} |-> Router("setlist", common, edges, tm)]
      BY <1>2, <1>3 DEF ApplyPrefix
    <2> QED
      BY <1>1, <2>1 DEF TreeOK
  <1>4. CASE ~(Len(common) <= PrefixCap)
    <2>1. common # <<>> /\ p \o common \in Path
      BY <1>4, EmptyPath, ConcatFacts, CapAssumption
    <2>2. NodeOK(Pn(common))
      BY <2>1, PnOK
    <2>3. ApplyPrefix(p, common, r) =
            [q \in {p, p \o common} |-> IF q = p THEN Pn(common) ELSE r]
      BY <1>4 DEF ApplyPrefix
    <2> HIDE DEF r
    <2> QED
      BY <1>1, <2>1, <2>2, <2>3 DEF TreeOK, r
  <1> QED
    BY <1>3, <1>4

LEMMA InlineCompactOK ==
  ASSUME NEW t, TreeOK(t), NEW p, NEW fits
  PROVE  TreeOK(InlineCompact(t, p, fits)) /\ DOMAIN InlineCompact(t, p, fits) = DOMAIN t
  <1>1. CASE InlineChildren /\ fits
    <2> DEFINE u == [q \in DOMAIN t |-> IF q \in Children(t, p) /\ IsValuePtr(t[q])
                                        THEN [t[q] EXCEPT !.inl = TRUE] ELSE t[q]]
    <2>1. InlineCompact(t, p, fits) = u
      BY <1>1 DEF InlineCompact
    <2>2. ASSUME NEW q \in DOMAIN t
          PROVE  q \in Path /\ NodeOK(u[q])
      <3>1. q \in Path /\ NodeOK(t[q])
        BY DEF TreeOK
      <3>2. IsValuePtr(t[q]) => NodeOK([t[q] EXCEPT !.inl = TRUE])
        BY <3>1, LeafEdits DEF IsValuePtr
      <3> QED
        BY <3>1, <3>2
    <2> QED
      BY <2>1, <2>2 DEF TreeOK
  <1>2. CASE ~(InlineChildren /\ fits)
    BY <1>2 DEF InlineCompact
  <1> QED
    BY <1>1, <1>2

LEMMA ExternalizeOK ==
  ASSUME NEW t, TreeOK(t), NEW p, NEW S \in SUBSET InlineKids(t, p)
  PROVE  /\ TreeOK(Externalize(t, S))
         /\ DOMAIN Externalize(t, S) = DOMAIN t
         /\ \A q \in DOMAIN t : Externalize(t, S)[q].kind = t[q].kind
  <1>1. ASSUME NEW q \in S
        PROVE  q \in DOMAIN t /\ t[q].kind = "leaf"
    BY DEF InlineKids, IsLeaf
  <1>2. ASSUME NEW q \in DOMAIN t
        PROVE  /\ q \in Path /\ NodeOK(Externalize(t, S)[q])
               /\ Externalize(t, S)[q].kind = t[q].kind
    <2>1. q \in Path /\ NodeOK(t[q])
      BY DEF TreeOK
    <2>2. q \in S => /\ NodeOK([t[q] EXCEPT !.inl = FALSE])
                     /\ [t[q] EXCEPT !.inl = FALSE].kind = t[q].kind
      BY <1>1, <2>1, LeafEdits
    <2>3. Externalize(t, S)[q] = IF q \in S THEN [t[q] EXCEPT !.inl = FALSE] ELSE t[q]
      BY DEF Externalize
    <2> QED
      BY <2>1, <2>2, <2>3
  <1>3. DOMAIN Externalize(t, S) = DOMAIN t
    BY DEF Externalize
  <1> QED
    BY <1>2, <1>3 DEF TreeOK

-----------------------------------------------------------------------------
(* The trees that the actions build.                                       *)

LEMMA OneByte ==
  ASSUME NEW s \in Path, NEW i \in 1 .. Len(s)
  PROVE  <<s[i]>> \in Path /\ Len(<<s[i]>>) = 1
  <1>1. s[i] \in Byte
    BY PathFacts
  <1> QED
    BY <1>1 DEF Path

LEMMA ForkOK ==
  ASSUME NEW p \in Path, NEW common \in Path, NEW r \in Path, NEW v \in Values,
         NEW c \in 0 .. Len(r), NEW oldEdges \in SUBSET Path, \A e \in oldEdges : Len(e) = 1,
         NEW oldTerm \in Values \cup {NoVal}
  PROVE  LET u == ApplyPrefix(p, common, ForkRouter(r, v, c, oldEdges, oldTerm))
         IN  TreeOK(u) /\ p \in DOMAIN u
  <1> DEFINE edges == oldEdges \cup IF c < Len(r) THEN {<<r[c + 1]>>} ELSE {}
             tm    == IF c = Len(r) THEN v ELSE oldTerm
  <1>1. c < Len(r) => <<r[c + 1]>> \in Path /\ Len(<<r[c + 1]>>) = 1
    <2>1. c < Len(r) => c + 1 \in 1 .. Len(r)
      BY PathFacts
    <2> QED
      BY <2>1, OneByte
  <1>2. edges \in SUBSET Path /\ (\A e \in edges : Len(e) = 1) /\ tm \in Values \cup {NoVal}
    BY <1>1
  <1>3. ForkRouter(r, v, c, oldEdges, oldTerm) = Router("setlist", <<>>, edges, tm)
    BY DEF ForkRouter
  <1> HIDE DEF edges, tm
  <1> QED
    BY <1>2, <1>3, ApplyPrefixOK

LEMMA ForkLeafOK ==
  ASSUME NEW p \in Path, NEW r \in Path, NEW v \in Values, NEW c \in 0 .. Len(r)
  PROVE  TreeOK(ForkLeaf(p, r, v, c))
  <1>1. CASE c < Len(r)
    <2>1. c + 1 \in 0 .. Len(r)
      BY <1>1, PathFacts
    <2>2. Front(r, c + 1) \in Path /\ Back(r, c + 1) \in Path
      BY <2>1, FrontFacts, BackFacts
    <2>3. p \o Front(r, c + 1) \in Path /\ NodeOK(Leaf(Back(r, c + 1), v))
      BY <2>2, ConcatFacts, LeafOK
    <2> QED
      BY <1>1, <2>3 DEF ForkLeaf, TreeOK
  <1>2. CASE ~(c < Len(r))
    BY <1>2 DEF ForkLeaf, TreeOK
  <1> QED
    BY <1>1, <1>2

\* An edge of a router is replaced, added or taken away.
LEMMA EdgesOK ==
  ASSUME NEW t, TreeOK(t), NEW p \in DOMAIN t, t[p].kind \in RouterKinds,
         NEW E \in SUBSET Path, \A e \in E : Len(e) = StemLen(t[p].kind)
  PROVE  /\ NodeOK([t[p] EXCEPT !.edges = E])
         /\ [t[p] EXCEPT !.edges = E].kind = t[p].kind
  <1>1. NodeOK(t[p])
    BY DEF TreeOK
  <1>2. /\ t[p] \in RouterNode /\ t[p].pfx \in Path
        /\ t[p].term \in Values \cup {NoVal}
        /\ t[p].kind = "pfxd" => t[p].pfx # <<>>
        /\ t[p].kind \notin {"setlist", "pfxd"} => t[p].pfx = <<>>
    BY <1>1, NodeFields
  <1>3. [t[p] EXCEPT !.edges = E] = Router(t[p].kind, t[p].pfx, E, t[p].term)
    BY <1>2, RouterIs
  <1> QED
    BY <1>2, <1>3, RouterOK

LEMMA LinkOK ==
  ASSUME NEW t, TreeOK(t), NEW p \in DOMAIN t, t[p].kind \in RouterKinds, req.val \in Values,
         NEW e \in Path, Len(e) = StemLen(t[p].kind), NEW suf \in Path
  PROVE  /\ TreeOK(Link(t, p, e, suf))
         /\ DOMAIN t \subseteq DOMAIN Link(t, p, e, suf)
  <1> DEFINE E == t[p].edges \cup {e}
             u == [t EXCEPT ![p] = [t[p] EXCEPT !.edges = E]]
  <1>1. NodeOK(t[p]) /\ p \in Path
    BY DEF TreeOK
  <1>2. t[p].edges \subseteq Path /\ \A f \in t[p].edges : Len(f) = StemLen(t[p].kind)
    BY <1>1, NodeFields
  <1>3. E \in SUBSET Path /\ \A f \in E : Len(f) = StemLen(t[p].kind)
    BY <1>2
  <1>4. NodeOK([t[p] EXCEPT !.edges = E])
    <2> HIDE DEF E
    <2> QED
      BY <1>3, EdgesOK
  <1>5. TreeOK(u) /\ DOMAIN u = DOMAIN t
    BY <1>4, ExceptOK
  <1> DEFINE q == At(t, p) \o e
             x == Leaf(suf, req.val)
  <1>6. q \in Path
    <2>1. t[p].kind # "leaf"
      BY DEF RouterKinds, CnodeKinds
    <2> QED
      BY <2>1, AtOK, ConcatFacts
  <1>7. Link(t, p, e, suf) = Upd(u, q, x)
    BY DEF Link
  <1>8. NodeOK(x)
    BY LeafOK
  <1> HIDE DEF u, q, x
  <1>9. TreeOK(Upd(u, q, x)) /\ DOMAIN Upd(u, q, x) = DOMAIN u \cup {q}
    BY <1>5, <1>6, <1>8, UpdOK
  <1> QED
    BY <1>5, <1>7, <1>9

LEMMA SplitLeafOK ==
  ASSUME TreeOK(tree), slot \in DOMAIN tree, nd.kind = "leaf", R \in Path,
         req.val \in Values, NEW fits
  PROVE  /\ TreeOK(SplitLeafTree(fits))
         /\ DOMAIN tree \subseteq DOMAIN SplitLeafTree(fits)
  <1> DEFINE S        == nd.suf
             c        == Lcp(S, R)
             common   == Front(R, c)
             oldEdges == IF c < Len(S) THEN {<<S[c + 1]>>} ELSE {}
             oldTerm  == IF c = Len(S) THEN nd.val ELSE NoVal
             r        == ForkRouter(R, req.val, c, oldEdges, oldTerm)
             u1       == ApplyPrefix(slot, common, r)
             u2       == ForkLeaf(slot, R, req.val, c)
             u3       == ForkLeaf(slot, S, nd.val, c)
             t0       == Drop(tree, {slot})
             t1       == Over(t0, u1)
             t2       == Over(t1, u2)
             t3       == Over(t2, u3)
  <1>1. slot \in Path /\ S \in Path /\ nd.val \in Values
    BY NodeFields DEF TreeOK, nd
  <1>2. c \in 0 .. Len(S) /\ c \in 0 .. Len(R)
    BY <1>1, LcpFacts, PathFacts
  <1>3. common \in Path
    BY <1>2, FrontFacts
  <1>4. oldEdges \in SUBSET Path /\ (\A e \in oldEdges : Len(e) = 1)
        /\ oldTerm \in Values \cup {NoVal}
    <2>1. c < Len(S) => c + 1 \in 1 .. Len(S)
      BY <1>1, <1>2, PathFacts
    <2>2. c < Len(S) => <<S[c + 1]>> \in Path /\ Len(<<S[c + 1]>>) = 1
      BY <1>1, <2>1, OneByte
    <2> QED
      BY <1>1, <2>2
  <1>5. TreeOK(u1) /\ slot \in DOMAIN u1
    <2> HIDE DEF c, common, oldEdges, oldTerm
    <2> QED
      BY <1>1, <1>2, <1>3, <1>4, ForkOK
  <1>6. TreeOK(u2) /\ TreeOK(u3)
    <2> HIDE DEF c, S
    <2> QED
      BY <1>1, <1>2, ForkLeafOK
  <1>7. TreeOK(t0) /\ DOMAIN t0 = DOMAIN tree \ {slot}
    BY DropOK
  <1>8. TreeOK(t1) /\ DOMAIN t1 = DOMAIN t0 \cup DOMAIN u1
    <2> HIDE DEF t0, u1
    <2> QED
      BY <1>5, <1>7, OverOK
  <1>9. TreeOK(t2) /\ DOMAIN t2 = DOMAIN t1 \cup DOMAIN u2
    <2> HIDE DEF t1, u2
    <2> QED
      BY <1>6, <1>8, OverOK
  <1>10. TreeOK(t3) /\ DOMAIN t3 = DOMAIN t2 \cup DOMAIN u3
    <2> HIDE DEF t2, u3
    <2> QED
      BY <1>6, <1>9, OverOK
  <1>11. SplitLeafTree(fits) = InlineCompact(t3, ForkSlot(slot, common), fits)
    BY DEF SplitLeafTree
  <1>12. DOMAIN tree \subseteq DOMAIN t3
    BY <1>5, <1>7, <1>8, <1>9, <1>10
  <1> HIDE DEF t3, common
  <1> QED
    BY <1>10, <1>11, <1>12, InlineCompactOK

LEMMA SplitPrefixOK ==
  ASSUME TreeOK(tree), slot \in DOMAIN tree, nd.kind # "leaf", R \in Path,
         req.val \in Values, ~StartsWith(R, nd.pfx), NEW fits
  PROVE  TreeOK(SplitPrefixTree(fits))
  <1> DEFINE c      == Lcp(nd.pfx, R)
             common == Front(nd.pfx, c)
             rest   == Back(nd.pfx, c + 1)
             q      == slot \o Front(nd.pfx, c + 1)
             old    == Drop(tree, {slot})
             kept   == CASE nd.kind = "pn"      -> MakePrefix(old, q, rest)
                         [] nd.kind = "setlist" -> Upd(old, q, [nd EXCEPT !.pfx = rest])
                         [] nd.kind = "pfxd"    ->
                              Upd(old, q, [nd EXCEPT !.kind = IF rest = <<>> THEN "full" ELSE "pfxd",
                                                     !.pfx = rest])
             r      == ForkRouter(R, req.val, c, {<<nd.pfx[c + 1]>>}, NoVal)
             u1     == ApplyPrefix(slot, common, r)
             u2     == ForkLeaf(slot, R, req.val, c)
             t1     == Over(kept, u1)
             t2     == Over(t1, u2)
  <1>1. slot \in Path /\ nd.pfx \in Path /\ NodeOK(nd)
    BY NodeFields DEF TreeOK, nd
  <1>2. c \in 0 .. Len(nd.pfx) /\ c \in 0 .. Len(R) /\ c + 1 \in 1 .. Len(nd.pfx)
    BY <1>1, LcpFacts, PathFacts
  <1>3. common \in Path /\ rest \in Path /\ q \in Path
    <2>1. c + 1 \in 0 .. Len(nd.pfx)
      BY <1>2
    <2>2. Front(nd.pfx, c + 1) \in Path
      BY <1>1, <2>1, FrontFacts
    <2> QED
      BY <1>1, <1>2, <2>1, <2>2, FrontFacts, BackFacts, ConcatFacts
  <1>4. <<nd.pfx[c + 1]>> \in Path /\ Len(<<nd.pfx[c + 1]>>) = 1
    BY <1>1, <1>2, OneByte
  <1>5. TreeOK(u1)
    <2> DEFINE E == {<<nd.pfx[c + 1]>>}
    <2>1. E \in SUBSET Path /\ \A e \in E : Len(e) = 1
      BY <1>4
    <2> HIDE DEF c, common, E
    <2>2. TreeOK(ApplyPrefix(slot, common, ForkRouter(R, req.val, c, E, NoVal)))
      BY <1>1, <1>2, <1>3, <2>1, ForkOK
    <2> QED
      BY <2>2 DEF E
  <1>6. TreeOK(u2)
    <2> HIDE DEF c
    <2> QED
      BY <1>1, <1>2, ForkLeafOK
  <1>7. TreeOK(old)
    BY DropOK
  <1>8. nd.kind \in {"pn", "setlist", "pfxd"}
    <2>1. nd.pfx # <<>>
      BY <1>1, StartsWithEmpty
    <2> QED
      BY <1>1, <2>1, NodeFields
  <1>9. TreeOK(kept)
    <2>1. CASE nd.kind = "pn"
      <3>1. TreeOK(MakePrefix(old, q, rest))
        <4> HIDE DEF old, q, rest
        <4> QED
          BY <1>3, <1>7, MakePrefixOK
      <3> QED
        BY <2>1, <3>1
    <2>2. CASE nd.kind = "setlist"
      <3>1. nd.kind \in RouterKinds
        BY <2>2 DEF RouterKinds
      <3>2. /\ nd \in RouterNode /\ nd.edges \in SUBSET Path
            /\ nd.term \in Values \cup {NoVal} /\ \A e \in nd.edges : Len(e) = 1
        BY <1>1, <2>2, <3>1, NodeFields DEF StemLen
      <3>3. [nd EXCEPT !.pfx = rest] = Router("setlist", rest, nd.edges, nd.term)
        <4> HIDE DEF c, common, rest, q, old, kept, r, u1, u2, t1, t2
        <4>1. [nd EXCEPT !.pfx = rest] = Router(nd.kind, rest, nd.edges, nd.term)
          BY <3>2, RouterIs
        <4> QED
          BY <2>2, <4>1
      <3>4. NodeOK(Router("setlist", rest, nd.edges, nd.term))
        BY <1>3, <2>2, <3>1, <3>2, RouterOK DEF StemLen
      <3>5. TreeOK(Upd(old, q, [nd EXCEPT !.pfx = rest]))
        <4> HIDE DEF old, q, rest
        <4> QED
          BY <1>3, <1>7, <3>3, <3>4, UpdOK
      <3> QED
        BY <2>2, <3>5
    <2>3. CASE nd.kind = "pfxd"
      <3> DEFINE kind == IF rest = <<>> THEN "full" ELSE "pfxd"
      <3>1. nd.kind \in RouterKinds /\ kind \in RouterKinds
        BY <2>3 DEF RouterKinds
      <3>2. /\ nd \in RouterNode /\ nd.edges \in SUBSET Path
            /\ nd.term \in Values \cup {NoVal} /\ \A e \in nd.edges : Len(e) = 1
        BY <1>1, <2>3, <3>1, NodeFields DEF StemLen
      <3>3. kind = "pfxd" => rest # <<>>
        OBVIOUS
      <3>4. kind \notin {"setlist", "pfxd", "u16"} => rest = <<>>
        OBVIOUS
      <3>5. kind \in {"full", "pfxd"}
        OBVIOUS
      <3> HIDE DEF c, common, rest, q, old, kept, r, u1, u2, t1, t2, kind
      <3>6. [nd EXCEPT !.kind = kind, !.pfx = rest] = Router(kind, rest, nd.edges, nd.term)
        BY <3>2, RouterIs
      <3>7. NodeOK(Router(kind, rest, nd.edges, nd.term))
        BY <1>3, <3>1, <3>2, <3>3, <3>4, <3>5, RouterOK DEF StemLen
      <3>8. TreeOK(Upd(old, q, [nd EXCEPT !.kind = kind, !.pfx = rest]))
        <4> DEFINE x == Router(kind, rest, nd.edges, nd.term)
        <4>1. NodeOK(x) /\ q \in Path /\ TreeOK(old)
          BY <1>3, <1>7, <3>7
        <4> HIDE DEF x
        <4>2. TreeOK(Upd(old, q, x))
          BY <4>1, UpdOK
        <4> QED
          BY <3>6, <4>2 DEF x
      <3> QED
        BY <2>3, <3>8 DEF kept, kind
    <2> QED
      BY <1>8, <2>1, <2>2, <2>3
  <1>10. TreeOK(t1)
    <2> HIDE DEF kept, u1
    <2> QED
      BY <1>5, <1>9, OverOK
  <1>11. TreeOK(t2)
    <2> HIDE DEF t1, u2
    <2> QED
      BY <1>6, <1>10, OverOK
  <1>12. SplitPrefixTree(fits) = InlineCompact(t2, ForkSlot(slot, common), fits)
    BY DEF SplitPrefixTree
  <1> HIDE DEF t2, common
  <1> QED
    BY <1>11, <1>12, InlineCompactOK

LEMMA RestrideOK ==
  ASSUME TreeOK(tree), slot \in DOMAIN tree, nd.kind = "u16"
  PROVE  /\ TreeOK(RestrideTree)
         /\ DOMAIN tree \subseteq DOMAIN RestrideTree
  <1> DEFINE his   == {Front(e, 1) : e \in nd.edges}
             los(q) == {Back(e, 1) : e \in {x \in nd.edges : slot \o Front(x, 1) = q}}
             group == [q \in {slot \o h : h \in his} |-> Router("setlist", <<>>, los(q), NoVal)]
             top   == Router("setlist", <<>>, his, nd.term)
             t     == Upd(tree, slot, top)
  <1>1. /\ slot \in Path /\ nd.edges \subseteq Path /\ nd.term \in Values \cup {NoVal}
        /\ \A e \in nd.edges : Len(e) = 2
    BY NodeFields DEF TreeOK, nd, RouterKinds, StemLen
  <1>2. ASSUME NEW e \in nd.edges
        PROVE  /\ Front(e, 1) \in Path /\ Len(Front(e, 1)) = 1
               /\ Back(e, 1) \in Path /\ Len(Back(e, 1)) = 1
    <2>1. e \in Path /\ Len(e) = 2
      BY <1>1
    <2>2. 1 \in 0 .. Len(e) /\ Len(e) - 1 = 1
      BY <2>1
    <2> QED
      BY <2>1, <2>2, FrontFacts, BackFacts
  <1>3. "setlist" \in RouterKinds
    BY DEF RouterKinds
  <1>4. his \in SUBSET Path /\ \A h \in his : Len(h) = 1
    BY <1>2
  <1>5. NodeOK(top)
    <2> HIDE DEF his
    <2> QED
      BY <1>1, <1>3, <1>4, EmptyPath, RouterOK DEF StemLen
  <1>6. \A q : NodeOK(Router("setlist", <<>>, los(q), NoVal))
    <2>1. \A q : los(q) \in SUBSET Path /\ \A e \in los(q) : Len(e) = 1
      BY <1>2
    <2> HIDE DEF los
    <2> QED
      BY <1>3, <2>1, EmptyPath, RouterOK DEF StemLen
  <1>7. TreeOK(group)
    <2>1. \A h \in his : slot \o h \in Path
      BY <1>1, <1>4, ConcatFacts
    <2> HIDE DEF los, his
    <2> QED
      BY <1>6, <2>1 DEF TreeOK
  <1>8. TreeOK(t) /\ DOMAIN t = DOMAIN tree \cup {slot}
    <2> HIDE DEF top
    <2> QED
      BY <1>1, <1>5, UpdOK
  <1>9. RestrideTree = Over(t, group)
    BY DEF RestrideTree
  <1> HIDE DEF t, group
  <1> QED
    BY <1>7, <1>8, <1>9, OverOK

LEMMA FuseOK ==
  ASSUME NEW t, TreeOK(t), NEW p \in DOMAIN t, Fusable(t, p)
  PROVE  TreeOK(FuseTree(t, p))
  <1>1. /\ p \in Path /\ t[p].kind = "setlist" /\ t[p].pfx = <<>>
        /\ t[p].edges \subseteq Path /\ t[p].term \in Values \cup {NoVal}
        /\ \A e \in t[p].edges : Len(e) = 1
    BY NodeFields DEF TreeOK, Fusable, RouterKinds, StemLen
  <1>2. ASSUME NEW e \in t[p].edges
        PROVE  /\ p \o e \in DOMAIN t
               /\ t[p \o e].edges \subseteq Path
               /\ \A f \in t[p \o e].edges : Len(f) = 1
    <2>1. At(t, p) = p
      BY <1>1, ConcatEmpty DEF At
    <2>2. p \o e \in Children(t, p)
      BY <1>1, <2>1 DEF Children, IsLeaf, IsPn, IsRouter, RouterKinds
    <2>3. p \o e \in DOMAIN t /\ t[p \o e].kind \in RouterKinds \ {"u16"}
      BY <2>2 DEF Fusable, Absorbable
    <2> QED
      BY <2>3, NodeFields DEF TreeOK, StemLen
  <1> DEFINE G == Grandedges(t, p)
  <1>3. G \in SUBSET Path /\ \A g \in G : Len(g) = 2
    <2>1. ASSUME NEW e \in t[p].edges, NEW f \in t[p \o e].edges
          PROVE  e \o f \in Path /\ Len(e \o f) = 2
      <3>1. e \in Path /\ f \in Path /\ Len(e) = 1 /\ Len(f) = 1
        BY <1>1, <1>2
      <3>2. e \o f \in Path /\ Len(e \o f) = Len(e) + Len(f)
        BY <3>1, ConcatFacts
      <3> QED
        BY <3>1, <3>2
    <2>2. ASSUME NEW g \in G
          PROVE  \E e \in t[p].edges : \E f \in t[p \o e].edges : g = e \o f
      BY DEF Grandedges
    <2> QED
      BY <2>1, <2>2
  <1>4. NodeOK(Router("u16", <<>>, G, t[p].term))
    <2> HIDE DEF G
    <2> QED
      BY <1>1, <1>3, EmptyPath, RouterOK DEF StemLen, RouterKinds
  <1>5. TreeOK(Drop(t, Children(t, p)))
    BY DropOK
  <1> QED
    BY <1>1, <1>4, <1>5, UpdOK DEF FuseTree

LEMMA CollapseOK ==
  ASSUME NEW t, TreeOK(t), NEW p \in DOMAIN t, t[p].kind \in RouterKinds, t[p].edges # {}
  PROVE  TreeOK(CollapseTree(t, p))
  <1> DEFINE e   == CHOOSE x \in t[p].edges : TRUE
             c   == At(t, p) \o e
             pfx == t[p].pfx \o e
  <1>1. p \in Path /\ t[p].pfx \in Path /\ e \in Path
    <2>1. e \in t[p].edges
      OBVIOUS
    <2> QED
      BY <2>1, NodeFields DEF TreeOK
  <1>2. pfx \in Path
    BY <1>1, ConcatFacts
  <1> DEFINE absorbed == [t[c] EXCEPT !.pfx = pfx \o @]
  <1>3. CASE c \in DOMAIN t /\ t[c].kind = "setlist" /\ Len(t[c].pfx) + Len(pfx) <= PrefixCap
    <2>1. /\ t[c] \in RouterNode /\ t[c].pfx \in Path /\ t[c].edges \in SUBSET Path
          /\ t[c].term \in Values \cup {NoVal} /\ \A f \in t[c].edges : Len(f) = 1
      BY <1>3, NodeFields DEF TreeOK, RouterKinds, StemLen
    <2>2. pfx \o t[c].pfx \in Path
      <3> HIDE DEF pfx, c
      <3> QED
        BY <1>2, <2>1, ConcatFacts
    <2>3. absorbed = Router("setlist", pfx \o t[c].pfx, t[c].edges, t[c].term)
      <3> DEFINE z == pfx \o t[c].pfx
      <3>1. absorbed = [t[c] EXCEPT !.pfx = z]
        OBVIOUS
      <3> HIDE DEF z
      <3>2. [t[c] EXCEPT !.pfx = z] = Router(t[c].kind, z, t[c].edges, t[c].term)
        BY <2>1, RouterIs
      <3> QED
        BY <1>3, <3>1, <3>2 DEF z
    <2>4. NodeOK(absorbed)
      <3>1. NodeOK(Router("setlist", pfx \o t[c].pfx, t[c].edges, t[c].term))
        <4> HIDE DEF pfx, c
        <4> QED
          BY <2>1, <2>2, RouterOK DEF StemLen, RouterKinds
      <3> QED
        BY <2>3, <3>1
    <2>5. CollapseTree(t, p) = Upd(Drop(t, {c}), p, absorbed)
      BY <1>3 DEF CollapseTree
    <2>6. TreeOK(Drop(t, {c}))
      BY DropOK
    <2>7. TreeOK(Upd(Drop(t, {c}), p, absorbed))
      <3> HIDE DEF absorbed, c
      <3> QED
        BY <1>1, <2>4, <2>6, UpdOK
    <2> QED
      BY <2>5, <2>7
  <1>4. CASE ~(c \in DOMAIN t /\ t[c].kind = "setlist" /\ Len(t[c].pfx) + Len(pfx) <= PrefixCap)
    <2>1. CollapseTree(t, p) = MakePrefix(t, p, pfx)
      BY <1>4 DEF CollapseTree
    <2> HIDE DEF pfx
    <2> QED
      BY <1>1, <1>2, <2>1, MakePrefixOK
  <1> QED
    BY <1>3, <1>4

-----------------------------------------------------------------------------
(* The inductive invariant: every node is of its format, the variables have *)
(* their types, and what a running call holds on to is still there.         *)

Results == {"pending", "true", "false", "throw"} \cup Values

LocalsOK ==
  /\ count \in Int
  /\ pc \in PCs
  /\ req \in [op : Ops, key : Keys, val : Values]
  /\ ret \in Results
  /\ slot \in Path /\ pslot \in Path \cup {NoSlot} /\ gnode \in Path
  /\ lvl \in [0 .. RmLvn - 1 -> Path] /\ n \in Nat /\ j \in Nat

IInv == TreeOK(tree) /\ LocalsOK /\ PutLive /\ PathLive

LEMMA IInvImplies == IInv => TypeOK /\ PointersLive
  BY DEF IInv, TypeOK, LocalsOK, Results, PointersLive, TreeOK, NodeOK

LEMMA StateFacts ==
  ASSUME IInv
  PROVE  /\ TreeOK(tree) /\ LocalsOK /\ PutLive /\ PathLive
         /\ req.key \in Path /\ req.val \in Values /\ req.op \in Ops
         /\ slot \in Path /\ gnode \in Path /\ ret \in Results
         /\ count \in Int /\ n \in Nat /\ j \in Nat
         /\ lvl \in [0 .. RmLvn - 1 -> Path]
  BY KeysAssumption DEF IInv, LocalsOK

LEMMA EmptyTreeOK == TreeOK([q \in {} |-> Pn(<<>>)])
  BY DEF TreeOK

LEMMA EmptyRingOK == EmptyRing \in [0 .. RmLvn - 1 -> Path]
  BY EmptyPath DEF EmptyRing

LEMMA InitOK == Init => IInv
  <1> SUFFICES ASSUME Init PROVE IInv
    OBVIOUS
  <1>1. TreeOK(tree)
    BY EmptyTreeOK DEF Init
  <1>2. LocalsOK
    BY EmptyPath, EmptyRingOK DEF Init, LocalsOK, PCs, Results, Ops
  <1>3. PutLive /\ PathLive
    BY DEF Init, PutLive, PathLive
  <1> QED
    BY <1>1, <1>2, <1>3 DEF IInv

\* A call that returns leaves nothing behind but the tree.
LEMMA FinishOK ==
  ASSUME LocalsOK, NEW r \in Results, TreeOK(tree'), count' \in Int, Finish(r)
  PROVE  IInv'
  <1>1. LocalsOK'
    BY EmptyPath, EmptyRingOK DEF Finish, LocalsOK, PCs, Results
  <1>2. PutLive' /\ PathLive'
    BY DEF Finish, PutLive, PathLive
  <1> QED
    BY <1>1, <1>2 DEF IInv

LEMMA ThrowOK ==
  ASSUME IInv, Throw
  PROVE  IInv'
  <1>1. TreeOK(tree') /\ count' \in Int /\ Finish("throw")
    BY StateFacts DEF Throw
  <1> QED
    BY <1>1, StateFacts, FinishOK DEF Results

\* insert_ looks at the same slot again.
LEMMA PutAgainOK ==
  ASSUME IInv, Putting, TreeOK(tree'), pslot # NoSlot => pslot \in DOMAIN tree',
         UNCHANGED <<count, pc, req, ret, slot, pslot, gnode, lvl, n, j>>
  PROVE  IInv'
  <1>1. LocalsOK'
    BY StateFacts DEF LocalsOK
  <1>2. PutLive' /\ PathLive'
    BY StateFacts DEF PutLive, PathLive, Putting
  <1> QED
    BY <1>1, <1>2 DEF IInv

LEMMA CallOK ==
  ASSUME IInv, NEW op \in Ops, NEW k \in Keys, NEW v \in Values, Call(op, k, v)
  PROVE  IInv'
  <1>1. LocalsOK'
    <2>1. pc' \in PCs /\ req' \in [op : Ops, key : Keys, val : Values] /\ ret' \in Results
      BY DEF Call, Entry, Ops, PCs, Results
    <2> QED
      BY <2>1, StateFacts, EmptyPath DEF Call, LocalsOK
  <1>2. pc' \in {"put", "get", "rem", "clear"} /\ pslot' = NoSlot /\ lvl' = EmptyRing
    BY StateFacts DEF Call, Entry, Ops, PutLive, PathLive
  <1>3. PutLive'
    <2>1. StartsWith(req'.key, slot')
      BY KeysAssumption, StartsWithEmpty DEF Call
    <2> QED
      BY <1>2, <2>1 DEF PutLive
  <1>4. PathLive'
    <2>1. n' = 1 /\ slot' = <<>>
      BY DEF Call
    <2>2. Window' \subseteq {0}
      BY <2>1 DEF Window
    <2>3. PathAt(n - 1)' = <<>>
      <3>1. 0 % RmLvn = 0 /\ 0 \in 0 .. RmLvn - 1
        BY CapAssumption
      <3>2. (n - 1)' = 0
        BY <2>1
      <3> QED
        BY <1>2, <3>1, <3>2 DEF PathAt, EmptyRing
    <2>4. pc' = "rem" => PathAt(n - 1)' = slot'
      BY <2>1, <2>3
    <2>5. \A a, b \in Window' : ~(a < b)
      BY <2>2
    <2>6. \A i \in Window' : ~(i <= n' - 2)
      BY <2>1, <2>2
    <2> QED
      BY <1>2, <2>1, <2>4, <2>5, <2>6 DEF PathLive
  <1> QED
    BY <1>1, <1>3, <1>4, StateFacts DEF IInv, Call

-----------------------------------------------------------------------------
(* insert_.                                                                *)

\* What the loop of insert_ knows of its slot and its key.
LEMMA PutFacts ==
  ASSUME IInv, Putting
  PROVE  /\ StartsWith(req.key, slot)
         /\ R \in Path /\ Len(slot) <= Len(req.key)
         /\ pslot # NoSlot => pslot \in DOMAIN tree /\ pslot \in Path /\ Len(pslot) < Len(slot)
         /\ n >= 1
  <1>1. /\ StartsWith(req.key, slot) /\ n >= 1
        /\ pslot # NoSlot => pslot \in DOMAIN tree /\ Len(pslot) < Len(slot)
    BY StateFacts DEF PutLive, PathLive, Putting
  <1>2. Len(slot) <= Len(req.key)
    BY <1>1 DEF StartsWith
  <1>3. R \in Path
    BY <1>2, StateFacts, RestFacts DEF R
  <1> QED
    BY <1>1, <1>2, <1>3, StateFacts DEF TreeOK

\* ... and of the router at the slot when the key goes past its prefix.
LEMMA PastFacts ==
  ASSUME IInv, StartsWith(req.key, slot), slot \in DOMAIN tree, PastPrefix
  PROVE  /\ here \in Path /\ StartsWith(req.key, here) /\ nd.pfx \in Path
         /\ here = slot \o nd.pfx
         /\ Len(here) = Len(slot) + Len(nd.pfx)
         /\ ~KeyEnds =>
              /\ Edge \in Path /\ Len(Edge) >= 1 /\ (nd.kind # "u16" => Len(Edge) = 1)
              /\ here \o Edge \in Path /\ StartsWith(req.key, here \o Edge)
              /\ Len(here \o Edge) > Len(slot)
              /\ Rest(req.key, here \o Edge) \in Path
  <1>1. /\ slot \in Path /\ nd.pfx \in Path /\ here \in Path
        /\ Len(here) = Len(slot) + Len(nd.pfx) /\ here = slot \o nd.pfx
    BY StateFacts, AtOK DEF PastPrefix, nd, here, At
  <1>2. StartsWith(req.key, here)
    BY <1>1, StateFacts, PassPrefix DEF PastPrefix, R
  <1>3. ASSUME ~KeyEnds
        PROVE  /\ Edge \in Path /\ Len(Edge) >= 1 /\ (nd.kind # "u16" => Len(Edge) = 1)
               /\ here \o Edge \in Path /\ StartsWith(req.key, here \o Edge)
               /\ Len(here \o Edge) > Len(slot)
               /\ Rest(req.key, here \o Edge) \in Path
    <2>1. Len(here) \in Nat /\ Len(req.key) \in Nat /\ Len(here) < Len(req.key)
      BY <1>1, <1>2, <1>3, StateFacts, PathFacts, Longer DEF KeyEnds
    <2> DEFINE m == IF nd.kind = "u16" THEN Min2(Len(here) + 2, Len(req.key)) ELSE Len(here) + 1
    <2>2. /\ m \in Len(here) .. Len(req.key) /\ m - Len(here) >= 1
          /\ nd.kind # "u16" => m - Len(here) = 1
      BY <2>1 DEF Min2
    <2>3. Edge = SubSeq(req.key, Len(here) + 1, m)
      BY DEF Edge
    <2> HIDE DEF m
    <2>4. Edge \in Path /\ Len(Edge) = m - Len(here) /\ StartsWith(req.key, here \o Edge)
      BY <1>1, <1>2, <2>2, <2>3, StateFacts, PassEdge
    <2>5. here \o Edge \in Path /\ Len(here \o Edge) = Len(here) + Len(Edge)
      BY <1>1, <2>4, ConcatFacts
    <2>6. Len(here \o Edge) <= Len(req.key)
      BY <2>4 DEF StartsWith
    <2>7. Rest(req.key, here \o Edge) \in Path
      BY <2>5, <2>6, StateFacts, RestFacts
    <2>8. Len(slot) \in Nat /\ Len(nd.pfx) \in Nat
      BY <1>1, PathFacts
    <2> QED
      BY <1>1, <2>1, <2>2, <2>4, <2>5, <2>7, <2>8
  <1> QED
    BY <1>1, <1>2, <1>3

LEMMA PutNullOK ==
  ASSUME IInv, PutNull
  PROVE  IInv'
  <1>1. CASE Throw
    BY <1>1, ThrowOK
  <1>2. CASE tree' = Upd(tree, slot, Leaf(R, req.val)) /\ count' = count + 1 /\ Finish("true")
    <2>1. NodeOK(Leaf(R, req.val))
      BY StateFacts, PutFacts, LeafOK DEF PutNull
    <2>2. TreeOK(Upd(tree, slot, Leaf(R, req.val)))
      BY <2>1, StateFacts, UpdOK
    <2> QED
      BY <1>2, <2>2, StateFacts, FinishOK DEF Results
  <1> QED
    BY <1>1, <1>2 DEF PutNull

LEMMA PutSameLeafOK ==
  ASSUME IInv, PutSameLeaf
  PROVE  IInv'
  <1> DEFINE x == [tree[slot] EXCEPT !.val = req.val]
  <1>1. NodeOK(x)
    BY StateFacts, LeafEdits DEF PutSameLeaf, TreeOK, nd
  <1>2. TreeOK([tree EXCEPT ![slot] = x])
    <2> HIDE DEF x
    <2> QED
      BY <1>1, StateFacts, ExceptOK DEF PutSameLeaf
  <1>3. [tree EXCEPT ![slot].val = req.val] = [tree EXCEPT ![slot] = x]
    OBVIOUS
  <1>4. TreeOK(tree') /\ count' = count /\ Finish("false")
    BY <1>2, <1>3, StateFacts DEF PutSameLeaf
  <1> QED
    BY <1>4, StateFacts, FinishOK DEF Results

LEMMA PutSplitLeafOK ==
  ASSUME IInv, PutSplitLeaf
  PROVE  IInv'
  <1>1. CASE Throw
    BY <1>1, ThrowOK
  <1>2. ASSUME NEW fits \in BOOLEAN, tree' = SplitLeafTree(fits),
               IF WideStems /\ pslot # NoSlot
               THEN /\ pc' = "fuse" /\ ret' = "true"
                    /\ UNCHANGED <<count, req, slot, pslot, gnode, lvl, n, j>>
               ELSE Finish("true") /\ count' = count + 1
        PROVE  IInv'
    <2>1. TreeOK(tree') /\ DOMAIN tree \subseteq DOMAIN tree'
      BY <1>2, StateFacts, PutFacts, SplitLeafOK DEF PutSplitLeaf
    <2>2. CASE ~(WideStems /\ pslot # NoSlot)
      <3>1. Finish("true") /\ count' \in Int
        BY <1>2, <2>2, StateFacts
      <3> QED
        BY <2>1, <3>1, StateFacts, FinishOK DEF Results
    <2>3. CASE WideStems /\ pslot # NoSlot
      <3>1. pc' = "fuse" /\ ret' = "true" /\ UNCHANGED <<count, req, slot, pslot, gnode, lvl, n, j>>
        BY <1>2, <2>3
      <3>2. LocalsOK'
        BY <3>1, StateFacts DEF LocalsOK, PCs, Results
      <3>3. PutLive'
        BY <2>1, <2>3, <3>1, PutFacts DEF PutLive, PutSplitLeaf
      <3>4. PathLive'
        BY <3>1, PutFacts DEF PathLive, PutSplitLeaf
      <3> QED
        BY <2>1, <3>2, <3>3, <3>4 DEF IInv
    <2> QED
      BY <2>2, <2>3
  <1> QED
    BY <1>1, <1>2 DEF PutSplitLeaf

LEMMA PutLazyFuseOK ==
  ASSUME IInv, PutLazyFuse
  PROVE  IInv'
  <1>1. nd.pfx \in Path /\ here = slot \o nd.pfx /\ Len(here) = Len(slot) + Len(nd.pfx)
    BY StateFacts, AtOK DEF PutLazyFuse, nd, here, At
  <1>2. /\ TreeOK(MakePrefix(tree, slot, nd.pfx))
        /\ DOMAIN tree \ {here} \subseteq DOMAIN MakePrefix(tree, slot, nd.pfx)
    BY <1>1, StateFacts, MakePrefixOK
  <1>3. pslot # NoSlot => pslot \in DOMAIN tree \ {here}
    BY <1>1, StateFacts, PutFacts, PathFacts DEF PutLazyFuse
  <1> QED
    BY <1>2, <1>3, PutAgainOK DEF PutLazyFuse

LEMMA PutSplitPrefixOK ==
  ASSUME IInv, PutSplitPrefix
  PROVE  IInv'
  <1>1. CASE Throw
    BY <1>1, ThrowOK
  <1>2. ASSUME NEW fits \in BOOLEAN, tree' = SplitPrefixTree(fits), count' = count + 1, Finish("true")
        PROVE  IInv'
    <2>1. TreeOK(tree')
      BY <1>2, StateFacts, PutFacts, SplitPrefixOK DEF PutSplitPrefix
    <2> QED
      BY <1>2, <2>1, StateFacts, FinishOK DEF Results
  <1> QED
    BY <1>1, <1>2 DEF PutSplitPrefix

\* A router's term is set or cleared.
LEMMA TermOK ==
  ASSUME NEW t, TreeOK(t), NEW p \in DOMAIN t, t[p].kind \in RouterKinds,
         NEW tm \in Values \cup {NoVal}
  PROVE  /\ TreeOK([t EXCEPT ![p].term = tm])
         /\ [t EXCEPT ![p].term = tm][p].kind = t[p].kind
         /\ \A q \in DOMAIN t \ {p} : [t EXCEPT ![p].term = tm][q] = t[q]
  <1> DEFINE x == [t[p] EXCEPT !.term = tm]
  <1>1. NodeOK(t[p])
    BY DEF TreeOK
  <1>2. /\ t[p] \in RouterNode /\ t[p].pfx \in Path /\ t[p].edges \in SUBSET Path
        /\ t[p].kind = "pfxd" => t[p].pfx # <<>>
        /\ t[p].kind \notin {"setlist", "pfxd"} => t[p].pfx = <<>>
        /\ \A e \in t[p].edges : Len(e) = StemLen(t[p].kind)
    BY <1>1, NodeFields
  <1>3. x = Router(t[p].kind, t[p].pfx, t[p].edges, tm)
    BY <1>2, RouterIs
  <1>4. NodeOK(x) /\ x.kind = t[p].kind
    BY <1>2, <1>3, RouterOK
  <1>5. [t EXCEPT ![p].term = tm] = [t EXCEPT ![p] = x]
    OBVIOUS
  <1> HIDE DEF x
  <1>6. TreeOK([t EXCEPT ![p] = x])
    BY <1>4, ExceptOK
  <1> QED
    BY <1>4, <1>5, <1>6

LEMMA PutTermOK ==
  ASSUME IInv, PutTerm
  PROVE  IInv'
  <1>1. CASE Throw
    BY <1>1, ThrowOK
  <1>2. TreeOK([tree EXCEPT ![slot].term = req.val])
    BY StateFacts, TermOK DEF PutTerm, nd
  <1>3. CASE tree' = [tree EXCEPT ![slot].term = req.val] /\ count' = count + 1 /\ Finish("true")
    <2>1. TreeOK(tree') /\ count' \in Int /\ Finish("true")
      BY <1>2, <1>3, StateFacts
    <2> QED
      BY <2>1, StateFacts, FinishOK DEF Results
  <1>4. CASE /\ tree' = IF req.op = "insert" THEN [tree EXCEPT ![slot].term = req.val] ELSE tree
             /\ Finish("false") /\ count' = count
    <2>1. TreeOK(tree') /\ count' \in Int /\ Finish("false")
      BY <1>2, <1>4, StateFacts
    <2> QED
      BY <2>1, StateFacts, FinishOK DEF Results
  <1> QED
    BY <1>1, <1>3, <1>4 DEF PutTerm

\* A step down, of any operation, goes along the key.
LEMMA PassFacts ==
  ASSUME IInv, StartsWith(req.key, slot), Passes
  PROVE  /\ slot \in DOMAIN tree /\ nd.kind # "leaf"
         /\ NextSlot \in Path /\ StartsWith(req.key, NextSlot) /\ Len(slot) < Len(NextSlot)
  <1>1. slot \in DOMAIN tree /\ PastPrefix /\ nd.kind # "leaf"
    BY DEF Passes, PastPrefix
  <1>2. nd.kind \in {"pn"} \cup RouterKinds /\ (nd.kind = "pn" => nd.pfx # <<>>)
    BY <1>1, StateFacts, NodeFields DEF TreeOK, nd
  <1>3. CASE nd.kind = "pn"
    <2>1. nd.pfx \in Path /\ here \in Path /\ StartsWith(req.key, here)
          /\ Len(here) = Len(slot) + Len(nd.pfx)
      BY <1>1, PastFacts
    <2>2. Len(nd.pfx) > 0 /\ Len(nd.pfx) \in Nat /\ Len(slot) \in Nat
      BY <1>2, <1>3, <2>1, StateFacts, PathFacts
    <2> QED
      BY <1>1, <1>3, <2>1, <2>2 DEF NextSlot
  <1>4. CASE nd.kind # "pn"
    <2>1. ~KeyEnds
      BY <1>2, <1>4 DEF Passes
    <2>2. /\ here \o Edge \in Path /\ StartsWith(req.key, here \o Edge)
          /\ Len(here \o Edge) > Len(slot)
      BY <1>1, <2>1, PastFacts
    <2>3. Len(here \o Edge) \in Nat /\ Len(slot) \in Nat
      BY <2>2, StateFacts, PathFacts
    <2> QED
      BY <1>1, <1>4, <2>2, <2>3 DEF NextSlot
  <1> QED
    BY <1>3, <1>4

LEMMA PutDescendOK ==
  ASSUME IInv, PutDescend
  PROVE  IInv'
  <1> DEFINE S == {NextSlot} \cap InlineKids(tree, slot)
  <1>1. CASE Throw
    BY <1>1, ThrowOK
  <1>2. CASE /\ slot' = NextSlot /\ tree' = Externalize(tree, S) /\ pslot' = Parent
             /\ UNCHANGED <<count, pc, req, ret, gnode, lvl, n, j>>
    <2>1. StartsWith(req.key, slot) /\ Passes /\ n >= 1 /\ pc = "put"
      BY PutFacts DEF PutDescend, Passes, Putting
    <2>2. /\ slot \in DOMAIN tree
          /\ NextSlot \in Path /\ StartsWith(req.key, NextSlot) /\ Len(slot) < Len(NextSlot)
      BY <2>1, PassFacts
    <2>3. TreeOK(tree') /\ DOMAIN tree' = DOMAIN tree
      <3>1. S \in SUBSET InlineKids(tree, slot)
        OBVIOUS
      <3> HIDE DEF S
      <3> QED
        BY <1>2, <3>1, StateFacts, ExternalizeOK
    <2>4. pslot' \in {slot, NoSlot}
      BY <1>2 DEF Parent
    <2>5. LocalsOK'
      BY <1>2, <2>2, <2>4, StateFacts DEF LocalsOK
    <2>6. PutLive'
      BY <1>2, <2>1, <2>2, <2>3, <2>4 DEF PutLive
    <2>7. PathLive'
      BY <1>2, <2>1 DEF PathLive
    <2> QED
      BY <2>3, <2>5, <2>6, <2>7 DEF IInv
  <1> QED
    BY <1>1, <1>2 DEF PutDescend, NextSlot

LEMMA PutExternalizeAllOK ==
  ASSUME IInv, PutExternalizeAll
  PROVE  IInv'
  <1>1. ASSUME NEW S \in SUBSET InlineKids(tree, slot), tree' = Externalize(tree, S)
        PROVE  TreeOK(tree') /\ DOMAIN tree' = DOMAIN tree
    BY <1>1, StateFacts, ExternalizeOK
  <1>2. CASE /\ tree' = Externalize(tree, InlineKids(tree, slot))
             /\ UNCHANGED <<count, pc, req, ret, slot, pslot, gnode, lvl, n, j>>
    BY <1>1, <1>2, PutFacts, PutAgainOK DEF PutExternalizeAll
  <1>3. ASSUME NEW c \in InlineKids(tree, slot), Finish("throw"), count' = count,
               tree' = Externalize(tree, {d \in InlineKids(tree, slot) : d[Len(d)] < c[Len(c)]})
        PROVE  IInv'
    BY <1>1, <1>3, StateFacts, FinishOK DEF Results
  <1> QED
    BY <1>2, <1>3 DEF PutExternalizeAll

\* What NoChild says of the new edge.
LEMMA NoChildFacts ==
  ASSUME IInv, Putting, NoChild
  PROVE  /\ slot \in DOMAIN tree /\ tree[slot].kind \in RouterKinds
         /\ Edge \in Path /\ Len(Edge) >= 1 /\ (nd.kind # "u16" => Len(Edge) = 1)
         /\ Rest(req.key, here \o Edge) \in Path
         /\ StartsWith(req.key, here) /\ req.key # here
  <1>1. StartsWith(req.key, slot) /\ slot \in DOMAIN tree /\ PastPrefix /\ ~KeyEnds
    BY PutFacts DEF NoChild
  <1> QED
    BY <1>1, PastFacts DEF NoChild, nd, KeyEnds

LEMMA PutAddOK ==
  ASSUME IInv, PutAdd
  PROVE  IInv'
  <1> DEFINE suf == Rest(req.key, here \o Edge)
  <1>1. CASE Throw
    BY <1>1, ThrowOK
  <1>2. /\ slot \in DOMAIN tree /\ tree[slot].kind \in RouterKinds /\ tree[slot].kind # "u16"
        /\ Edge \in Path /\ Len(Edge) = StemLen(tree[slot].kind) /\ suf \in Path
        /\ StartsWith(req.key, here) /\ req.key # here
    BY NoChildFacts DEF PutAdd, nd, StemLen
  <1>3. CASE tree' = Link(tree, slot, Edge, suf) /\ count' = count + 1 /\ Finish("true")
    <2>1. TreeOK(Link(tree, slot, Edge, suf))
      BY <1>2, StateFacts, LinkOK
    <2> QED
      BY <1>3, <2>1, StateFacts, FinishOK DEF Results
  <1>4. CASE /\ pc' = "grow" /\ gnode' = slot
             /\ UNCHANGED <<tree, count, req, ret, slot, pslot, lvl, n, j>>
    <2>1. LocalsOK'
      BY <1>4, StateFacts DEF LocalsOK, PCs
    <2>2. PutLive'
      BY <1>2, <1>4, PutFacts DEF PutLive, PutAdd, here
    <2>3. PathLive'
      BY <1>4, PutFacts DEF PathLive, PutAdd
    <2> QED
      BY <1>4, <2>1, <2>2, <2>3, StateFacts DEF IInv
  <1> QED
    BY <1>1, <1>3, <1>4 DEF PutAdd

LEMMA PutAddStemOK ==
  ASSUME IInv, PutAddStem
  PROVE  IInv'
  <1> DEFINE suf == Rest(req.key, here \o Edge)
  <1>1. CASE Throw
    BY <1>1, ThrowOK
  <1>2. CASE tree' = Link(tree, slot, Edge, suf) /\ count' = count + 1 /\ Finish("true")
    <2>1. /\ slot \in DOMAIN tree /\ tree[slot].kind \in RouterKinds
          /\ Edge \in Path /\ Len(Edge) = StemLen(tree[slot].kind) /\ suf \in Path
      BY NoChildFacts DEF PutAddStem, nd, StemLen
    <2>2. TreeOK(Link(tree, slot, Edge, suf))
      BY <2>1, StateFacts, LinkOK
    <2> QED
      BY <1>2, <2>2, StateFacts, FinishOK DEF Results
  <1> QED
    BY <1>1, <1>2 DEF PutAddStem

LEMMA PutRestrideOK ==
  ASSUME IInv, PutRestride
  PROVE  IInv'
  <1>1. CASE Throw
    BY <1>1, ThrowOK
  <1>2. CASE /\ tree' = RestrideTree
             /\ UNCHANGED <<count, pc, req, ret, slot, pslot, gnode, lvl, n, j>>
    <2>1. TreeOK(tree') /\ DOMAIN tree \subseteq DOMAIN tree'
      BY <1>2, StateFacts, RestrideOK DEF PutRestride, NoChild
    <2> QED
      BY <1>2, <2>1, PutFacts, PutAgainOK DEF PutRestride
  <1> QED
    BY <1>1, <1>2 DEF PutRestride

-----------------------------------------------------------------------------
(* grow_router_ and try_fuse_parent.                                       *)

LEMMA GrowFacts ==
  ASSUME IInv, pc = "grow"
  PROVE  /\ gnode \in DOMAIN tree /\ gnode \in Path /\ NodeOK(gnd)
         /\ gnd.kind \in RouterKinds \ {"u16"}
         /\ gnd \in RouterNode /\ gnd.pfx \in Path /\ gnd.edges \in SUBSET Path
         /\ gnd.term \in Values \cup {NoVal} /\ \A e \in gnd.edges : Len(e) = 1
         /\ At(tree, gnode) \in Path
         /\ StartsWith(req.key, slot)
         /\ StartsWith(req.key, At(tree, gnode)) /\ req.key # At(tree, gnode)
         /\ gnode # slot => slot \in DOMAIN tree /\ IsPn(tree, slot)
         /\ n >= 1
  <1>1. /\ gnode \in DOMAIN tree /\ gnd.kind \in RouterKinds \ {"u16"}
        /\ StartsWith(req.key, slot)
        /\ StartsWith(req.key, At(tree, gnode)) /\ req.key # At(tree, gnode)
        /\ gnode # slot => slot \in DOMAIN tree /\ IsPn(tree, slot)
        /\ n >= 1
    BY StateFacts DEF PutLive, PathLive, gnd
  <1>2. NodeOK(gnd) /\ gnd.kind # "leaf"
    BY <1>1, StateFacts DEF TreeOK, gnd, RouterKinds, CnodeKinds
  <1>3. /\ gnd \in RouterNode /\ gnd.pfx \in Path /\ gnd.edges \in SUBSET Path
        /\ gnd.term \in Values \cup {NoVal} /\ \A e \in gnd.edges : Len(e) = 1
    BY <1>1, <1>2, NodeFields DEF StemLen
  <1>4. At(tree, gnode) \in Path
    BY <1>1, <1>2, StateFacts, AtOK DEF gnd
  <1> QED
    BY <1>1, <1>2, <1>3, <1>4, StateFacts

\* The loop of grow_router_ goes on.
LEMMA GrowAgainOK ==
  ASSUME IInv, pc = "grow", TreeOK(tree'), gnode' \in DOMAIN tree',
         tree'[gnode'].kind \in RouterKinds \ {"u16"},
         At(tree', gnode') = At(tree, gnode),
         gnode' # slot => slot \in DOMAIN tree' /\ IsPn(tree', slot),
         UNCHANGED <<count, pc, req, ret, slot, pslot, lvl, n, j>>
  PROVE  IInv'
  <1>1. LocalsOK'
    BY StateFacts DEF LocalsOK, TreeOK
  <1>2. PutLive'
    BY StateFacts, GrowFacts DEF PutLive
  <1>3. PathLive'
    BY StateFacts DEF PathLive
  <1> QED
    BY <1>1, <1>2, <1>3 DEF IInv

LEMMA GrowLiftOK ==
  ASSUME IInv, GrowLift
  PROVE  IInv'
  <1> DEFINE b  == At(tree, gnode)
             x  == [gnd EXCEPT !.pfx = <<>>]
             u  == [q \in {gnode, b} |-> IF q = gnode THEN Pn(gnd.pfx) ELSE x]
  <1>1. CASE Throw
    BY <1>1, ThrowOK
  <1>2. CASE /\ tree' = Over(tree, u) /\ gnode' = b
             /\ UNCHANGED <<count, pc, req, ret, slot, pslot, lvl, n, j>>
    <2>1. gnd.kind = "setlist" /\ gnd.pfx # <<>> /\ pc = "grow"
      BY DEF GrowLift
    <2>2. b \in Path /\ gnode \in Path /\ b # gnode
      <3>1. Len(b) = Len(gnode) + Len(gnd.pfx)
        BY <2>1, StateFacts, GrowFacts, AtOK DEF gnd
      <3>2. Len(gnd.pfx) > 0 /\ Len(gnode) \in Nat /\ Len(gnd.pfx) \in Nat
        BY <2>1, GrowFacts, PathFacts
      <3> QED
        BY <2>1, <3>1, <3>2, GrowFacts
    <2>3. NodeOK(x) /\ x.kind = "setlist" /\ x.pfx = <<>>
      <3>1. x = Router("setlist", <<>>, gnd.edges, gnd.term)
        <4>1. gnd \in RouterNode
          BY <2>1, GrowFacts
        <4>2. [gnd EXCEPT !.pfx = <<>>] = Router(gnd.kind, <<>>, gnd.edges, gnd.term)
          BY <4>1, RouterIs
        <4> QED
          BY <2>1, <4>2
      <3>2. NodeOK(Router("setlist", <<>>, gnd.edges, gnd.term))
        BY <2>1, GrowFacts, EmptyPath, RouterOK DEF StemLen
      <3> QED
        BY <3>1, <3>2 DEF Router
    <2>4. NodeOK(Pn(gnd.pfx)) /\ Pn(gnd.pfx).kind = "pn"
      BY <2>1, GrowFacts, PnOK
    <2> HIDE DEF x, b
    <2>5. TreeOK(u) /\ u[b] = x /\ u[gnode] = Pn(gnd.pfx)
      BY <2>2, <2>3, <2>4 DEF TreeOK
    <2>6. /\ TreeOK(tree') /\ DOMAIN tree' = DOMAIN tree \cup {gnode, b}
          /\ tree'[b] = x /\ tree'[gnode] = Pn(gnd.pfx)
          /\ \A q \in DOMAIN tree \ {gnode, b} : tree'[q] = tree[q]
      <3> HIDE DEF u
      <3>1. DOMAIN u = {gnode, b}
        BY DEF u
      <3>2. /\ TreeOK(Over(tree, u)) /\ DOMAIN Over(tree, u) = DOMAIN tree \cup DOMAIN u
            /\ \A q \in DOMAIN u : Over(tree, u)[q] = u[q]
            /\ \A q \in DOMAIN tree \ DOMAIN u : Over(tree, u)[q] = tree[q]
        BY <2>5, StateFacts, OverOK
      <3> QED
        BY <1>2, <2>5, <3>1, <3>2
    <2>7. At(tree', gnode') = At(tree, gnode)
      BY <1>2, <2>2, <2>3, <2>6, ConcatEmpty DEF At, b
    <2>8. gnode' # slot => slot \in DOMAIN tree' /\ IsPn(tree', slot)
      BY <1>2, <2>1, <2>4, <2>6, GrowFacts DEF IsPn
    <2>9. tree'[gnode'].kind \in RouterKinds \ {"u16"} /\ gnode' \in DOMAIN tree'
      BY <1>2, <2>3, <2>6 DEF RouterKinds
    <2> QED
      BY <1>2, <2>1, <2>6, <2>7, <2>8, <2>9, GrowAgainOK
  <1> QED
    BY <1>1, <1>2 DEF GrowLift

LEMMA KindOK ==
  ASSUME NEW t, TreeOK(t), NEW p \in DOMAIN t, t[p].kind \in RouterKinds \ {"u16"},
         NEW k \in RouterKinds \ {"u16"},
         k = "pfxd" => t[p].pfx # <<>>,
         k \notin {"setlist", "pfxd"} => t[p].pfx = <<>>
  PROVE  LET u == [t EXCEPT ![p].kind = k]
         IN  /\ TreeOK(u) /\ DOMAIN u = DOMAIN t
             /\ u[p].kind = k /\ u[p].pfx = t[p].pfx
             /\ \A q \in DOMAIN t \ {p} : u[q] = t[q]
  <1> DEFINE x == [t[p] EXCEPT !.kind = k]
  <1>1. NodeOK(t[p])
    BY DEF TreeOK
  <1>2. /\ t[p] \in RouterNode /\ t[p].pfx \in Path /\ t[p].edges \in SUBSET Path
        /\ t[p].term \in Values \cup {NoVal} /\ \A e \in t[p].edges : Len(e) = 1
    BY <1>1, NodeFields DEF StemLen
  <1>3. x = Router(k, t[p].pfx, t[p].edges, t[p].term)
    BY <1>2, RouterIs
  <1>4. NodeOK(Router(k, t[p].pfx, t[p].edges, t[p].term))
    BY <1>2, RouterOK DEF StemLen
  <1>5. NodeOK(x) /\ x.kind = k /\ x.pfx = t[p].pfx
    BY <1>3, <1>4 DEF Router
  <1>6. [t EXCEPT ![p].kind = k] = [t EXCEPT ![p] = x]
    OBVIOUS
  <1> HIDE DEF x
  <1>7. TreeOK([t EXCEPT ![p] = x])
    BY <1>5, ExceptOK
  <1> QED
    BY <1>5, <1>6, <1>7

LEMMA GrowWidenOK ==
  ASSUME IInv, GrowWiden
  PROVE  IInv'
  <1> DEFINE u == [tree EXCEPT ![gnode].kind = WidenTo(@)]
  <1>1. CASE Throw
    BY <1>1, ThrowOK
  <1>2. CASE tree' = u /\ UNCHANGED <<count, pc, req, ret, slot, pslot, gnode, lvl, n, j>>
    <2>1. gnode \in DOMAIN tree /\ NodeOK(gnd) /\ gnd.kind \in RouterKinds \ {"u16"}
      BY GrowFacts DEF GrowWiden
    <2>2. gnd.kind \in {"setlist", "c2", "c4", "c8"}
      BY <2>1 DEF GrowWiden, Fits, RouterKinds, CnodeKinds
    <2>3. gnd.pfx = <<>>
      BY <2>1, <2>2, NodeFields DEF GrowWiden
    <2> DEFINE k == WidenTo(gnd.kind)
    <2>4. k \in RouterKinds \ {"u16"} /\ k # "pfxd"
      BY <2>2 DEF WidenTo, RouterKinds, CnodeKinds
    <2>5. u = [tree EXCEPT ![gnode].kind = k]
      BY DEF gnd
    <2> HIDE DEF k, u
    <2>6. /\ TreeOK(u) /\ DOMAIN u = DOMAIN tree
          /\ u[gnode].kind = k /\ u[gnode].pfx = tree[gnode].pfx
          /\ \A q \in DOMAIN tree \ {gnode} : u[q] = tree[q]
      BY <2>1, <2>3, <2>4, <2>5, StateFacts, KindOK DEF gnd
    <2>7. At(tree', gnode') = At(tree, gnode)
      BY <1>2, <2>6 DEF At
    <2>8. gnode' # slot => slot \in DOMAIN tree' /\ IsPn(tree', slot)
      BY <1>2, <2>6, GrowFacts DEF IsPn, GrowWiden
    <2> QED
      BY <1>2, <2>1, <2>4, <2>6, <2>7, <2>8, GrowAgainOK DEF GrowWiden
  <1> QED
    BY <1>1, <1>2 DEF GrowWiden

\* The byte a growing router is to get.
LEMMA GrowEdgeOK ==
  ASSUME IInv, pc = "grow"
  PROVE  /\ GEdge \in Path /\ Len(GEdge) = 1
         /\ Rest(req.key, At(tree, gnode) \o GEdge) \in Path
  <1> DEFINE b == At(tree, gnode)
  <1>1. b \in Path /\ StartsWith(req.key, b) /\ req.key # b
    BY GrowFacts
  <1>2. Len(b) \in Nat /\ Len(req.key) \in Nat /\ Len(b) < Len(req.key)
    BY <1>1, StateFacts, PathFacts, Longer
  <1> DEFINE m == Len(b) + 1
  <1>3. m \in Len(b) .. Len(req.key) /\ m - Len(b) = 1 /\ GEdge = SubSeq(req.key, Len(b) + 1, m)
    BY <1>2 DEF GEdge
  <1> HIDE DEF m, b
  <1>4. GEdge \in Path /\ Len(GEdge) = m - Len(b) /\ StartsWith(req.key, b \o GEdge)
    BY <1>1, <1>3, StateFacts, PassEdge
  <1>5. b \o GEdge \in Path /\ Len(b \o GEdge) <= Len(req.key)
    BY <1>1, <1>4, ConcatFacts DEF StartsWith
  <1>6. Rest(req.key, b \o GEdge) \in Path
    BY <1>5, StateFacts, RestFacts
  <1> QED
    BY <1>3, <1>4, <1>6 DEF b

LEMMA GrowLinkOK ==
  ASSUME IInv, GrowLink
  PROVE  IInv'
  <1> DEFINE b   == At(tree, gnode)
             suf == Rest(req.key, b \o GEdge)
             t   == Link(tree, gnode, GEdge, suf)
  <1>1. /\ gnode \in DOMAIN tree /\ gnd.kind \in RouterKinds \ {"u16"}
        /\ b \in Path /\ StartsWith(req.key, b) /\ req.key # b
        /\ gnode # slot => slot \in DOMAIN tree /\ IsPn(tree, slot)
    BY GrowFacts DEF GrowLink
  <1>2. GEdge \in Path /\ Len(GEdge) = 1 /\ suf \in Path
    BY GrowEdgeOK DEF GrowLink
  <1>3. TreeOK(t)
    <2>1. Len(GEdge) = StemLen(tree[gnode].kind) /\ tree[gnode].kind \in RouterKinds
      BY <1>1, <1>2 DEF StemLen, gnd
    <2> HIDE DEF suf
    <2> QED
      BY <1>1, <1>2, <2>1, StateFacts, LinkOK
  <1>4. gnode # slot => TreeOK(MakePrefix(t, slot, tree[slot].pfx))
    <2>1. gnode # slot => tree[slot].pfx \in Path
      BY <1>1, StateFacts, NodeFields DEF TreeOK, IsPn
    <2> HIDE DEF t
    <2> QED
      BY <1>3, <2>1, StateFacts, MakePrefixOK
  <1>5. TreeOK(tree')
    BY <1>3, <1>4 DEF GrowLink
  <1>6. count' \in Int /\ Finish("true")
    BY StateFacts DEF GrowLink
  <1> QED
    BY <1>5, <1>6, StateFacts, FinishOK DEF Results

LEMMA FuseParentOK ==
  ASSUME IInv, FuseParent
  PROVE  IInv'
  <1>1. pslot \in DOMAIN tree
    BY StateFacts DEF FuseParent, PutLive
  <1>2. Fusable(tree, pslot) => TreeOK(FuseTree(tree, pslot))
    BY <1>1, StateFacts, FuseOK
  <1>3. TreeOK(tree') /\ count' \in Int /\ Finish(ret)
    BY <1>2, StateFacts DEF FuseParent
  <1> QED
    BY <1>3, StateFacts, FinishOK

-----------------------------------------------------------------------------
(* find, update and clear.                                                 *)

LEMMA GetDescendOK ==
  ASSUME IInv, GetDescend
  PROVE  IInv'
  <1>1. pc = "get" /\ StartsWith(req.key, slot) /\ n >= 1 /\ pslot = NoSlot /\ Passes
    BY StateFacts DEF GetDescend, Getting, PutLive, PathLive
  <1>2. NextSlot \in Path /\ StartsWith(req.key, NextSlot)
    BY <1>1, PassFacts
  <1>3. LocalsOK'
    BY <1>2, StateFacts DEF LocalsOK, GetDescend
  <1>4. PutLive' /\ PathLive'
    BY <1>1, <1>2 DEF PutLive, PathLive, GetDescend
  <1> QED
    BY <1>3, <1>4, StateFacts DEF IInv, GetDescend

LEMMA GetMissOK ==
  ASSUME IInv, GetMiss
  PROVE  IInv'
  BY StateFacts, FinishOK DEF GetMiss, Results

LEMMA GetHitOK ==
  ASSUME IInv, GetHit
  PROVE  IInv'
  <1>1. slot \in DOMAIN tree /\ NodeOK(nd)
        /\ (nd.kind = "leaf" \/ (nd.kind \in RouterKinds /\ nd.term # NoVal))
    BY StateFacts DEF GetHit, Holds, TreeOK, nd
  <1>2. CASE req.op = "find"
    <2> DEFINE r == IF nd.kind = "leaf" THEN nd.val ELSE nd.term
    <2>1. r \in Results
      BY <1>1, NodeFields DEF Results
    <2>2. TreeOK(tree') /\ count' \in Int /\ Finish(r)
      BY <1>2, StateFacts DEF GetHit
    <2> HIDE DEF r
    <2> QED
      BY <2>1, <2>2, StateFacts, FinishOK
  <1>3. CASE req.op # "find"
    <2> DEFINE x == [tree[slot] EXCEPT !.val = req.val]
    <2>1. nd.kind = "leaf" => TreeOK([tree EXCEPT ![slot].val = req.val])
      <3>1. nd.kind = "leaf" => NodeOK(x)
        BY <1>1, StateFacts, LeafEdits DEF nd
      <3>2. [tree EXCEPT ![slot].val = req.val] = [tree EXCEPT ![slot] = x]
        OBVIOUS
      <3> HIDE DEF x
      <3> QED
        BY <1>1, <3>1, <3>2, StateFacts, ExceptOK
    <2>2. nd.kind \in RouterKinds => TreeOK([tree EXCEPT ![slot].term = req.val])
      BY <1>1, StateFacts, TermOK DEF nd
    <2>3. TreeOK(tree') /\ count' \in Int /\ Finish("true")
      BY <1>1, <1>3, <2>1, <2>2, StateFacts DEF GetHit
    <2> QED
      BY <2>3, StateFacts, FinishOK DEF Results
  <1> QED
    BY <1>2, <1>3

LEMMA ClearOK ==
  ASSUME IInv, Clear
  PROVE  IInv'
  BY EmptyTreeOK, StateFacts, FinishOK DEF Clear, Results

-----------------------------------------------------------------------------
(* remove_bytes_: the ring of slots.                                       *)

LEMMA ModRange ==
  ASSUME NEW i \in Nat
  PROVE  i % RmLvn \in 0 .. RmLvn - 1
  BY CapAssumption

LEMMA DivMod ==
  ASSUME NEW i \in Nat
  PROVE  i = (RmLvn * (i \div RmLvn)) + (i % RmLvn) /\ i \div RmLvn \in Nat
  BY CapAssumption

LEMMA ModDiffers ==
  ASSUME NEW a \in Nat, NEW b \in Nat, a < b, b - a < RmLvn
  PROVE  a % RmLvn # b % RmLvn
  <1> SUFFICES ASSUME a % RmLvn = b % RmLvn
               PROVE  FALSE
    OBVIOUS
  <1> DEFINE qa == a \div RmLvn
             qb == b \div RmLvn
             r  == a % RmLvn
             M  == RmLvn
  <1>1. M \in Nat \ {0, 1}
    BY CapAssumption
  <1>2. a = (M * qa) + r /\ b = (M * qb) + r /\ qa \in Nat /\ qb \in Nat /\ r \in Nat
    BY DivMod, ModRange
  <1> HIDE DEF qa, qb, r, M
  <1>3. b - a = M * (qb - qa)
    BY <1>1, <1>2
  <1>4. qb - qa >= 1
    BY <1>1, <1>2, <1>3
  <1>5. M * (qb - qa) = (M * ((qb - qa) - 1)) + M /\ M * ((qb - qa) - 1) >= 0
    BY <1>1, <1>2, <1>4
  <1> QED
    BY <1>1, <1>2, <1>3, <1>5 DEF M

Level(i) == PathAt(i) \in DOMAIN tree /\ ~IsLeaf(tree, PathAt(i))

LEMMA RingFacts ==
  ASSUME IInv, pc \in {"rem", "unlink", "shrink"}
  PROVE  /\ n \in Nat /\ n >= 1 /\ Window \subseteq Nat /\ n - 1 \in Window
         /\ \A i \in Window : i < n /\ PathAt(i) \in Path /\ Len(PathAt(i)) \in Nat
         /\ \A a, b \in Window : a < b => Len(PathAt(a)) < Len(PathAt(b))
         /\ pslot = NoSlot
  <1>1. n \in Nat /\ n >= 1
    BY StateFacts DEF PathLive, Window
  <1>2. n - 1 \in Window
    BY <1>1, CapAssumption DEF Window
  <1>3. ASSUME NEW i \in Window
        PROVE  i \in Nat /\ i < n /\ PathAt(i) \in Path /\ Len(PathAt(i)) \in Nat
    <2>1. i \in Nat /\ i < n
      BY <1>1 DEF Window
    <2>2. PathAt(i) \in Path
      BY <2>1, ModRange, StateFacts DEF PathAt
    <2> QED
      BY <2>1, <2>2, PathFacts
  <1>4. /\ \A a, b \in Window : a < b => Len(PathAt(a)) < Len(PathAt(b))
        /\ pslot = NoSlot
    BY StateFacts DEF PathLive, PutLive
  <1> QED
    BY <1>1, <1>2, <1>3, <1>4

LEMMA RemFacts ==
  ASSUME IInv, Removing
  PROVE  /\ StartsWith(req.key, slot) /\ slot \in Path
         /\ PathAt(n - 1) = slot
         /\ \A i \in Window : i <= n - 2 => Level(i)
  BY StateFacts DEF PutLive, PathLive, Removing, Level

\* The router or prefix node that an unwind is at.
LEMMA LevelFacts ==
  ASSUME IInv, pc \in {"unlink", "shrink"}
  PROVE  /\ j \in Window /\ lp = PathAt(j) /\ lp \in DOMAIN tree /\ lp \in Path
         /\ NodeOK(lnd) /\ lnd.kind \in {"pn"} \cup RouterKinds
         /\ \A i \in Window : i <= j => Level(i)
         /\ pc = "shrink" => lnd.kind \in RouterKinds
  <1>1. /\ j \in Window /\ lp = PathAt(j)
        /\ \A i \in Window : i <= j => Level(i)
        /\ pc = "shrink" => lnd.kind \in RouterKinds
    BY StateFacts DEF PathLive, lp, PathAt, Level, IsRouter, lnd
  <1>2. Level(j)
    <2>1. j \in Nat /\ j <= j
      BY StateFacts
    <2> QED
      BY <1>1, <2>1
  <1>3. lp \in DOMAIN tree /\ lnd.kind # "leaf"
    BY <1>1, <1>2 DEF Level, IsLeaf, lnd
  <1>4. NodeOK(lnd) /\ lp \in Path
    BY <1>3, StateFacts DEF TreeOK, lnd
  <1> QED
    BY <1>1, <1>3, <1>4, NodeFields

\* The node of level i is freed: those above it stand.
LEMMA FreedOK ==
  ASSUME IInv, pc \in {"rem", "unlink", "shrink"}, NEW i \in Window,
         \A k \in Window : k < i => Level(k),
         tree' = Drop(tree, {PathAt(i)}), count' \in Int, Freed(i)
  PROVE  IInv'
  <1>1. TreeOK(tree') /\ DOMAIN tree' = DOMAIN tree \ {PathAt(i)}
        /\ \A q \in DOMAIN tree \ {PathAt(i)} : tree'[q] = tree[q]
    BY StateFacts, DropOK
  <1>2. CASE i = 0 \/ n - i >= RmLvn
    <2>1. Finish("true")
      BY <1>2 DEF Freed
    <2> QED
      BY <1>1, <2>1, StateFacts, FinishOK DEF Results
  <1>3. CASE ~(i = 0 \/ n - i >= RmLvn)
    <2>1. /\ pc' = "unlink" /\ ret' = "true" /\ j' = i - 1
          /\ UNCHANGED <<req, slot, pslot, gnode, lvl, n>>
      BY <1>3 DEF Freed
    <2>2. Window' = Window /\ \A k : PathAt(k)' = PathAt(k)
      BY <2>1 DEF Window, PathAt
    <2>3. i \in Nat /\ i < n /\ i - 1 \in Window
      BY <1>3, RingFacts, CapAssumption DEF Window
    <2>4. LocalsOK'
      BY <1>3, <2>1, <2>3, StateFacts DEF LocalsOK, PCs, Results
    <2>5. PutLive'
      BY <2>1, RingFacts DEF PutLive
    <2>6. ASSUME NEW k \in Window, k <= i - 1
          PROVE  PathAt(k) \in DOMAIN tree' /\ ~IsLeaf(tree', PathAt(k))
      <3>1. k \in Nat /\ k < i /\ Len(PathAt(k)) < Len(PathAt(i)) /\ Len(PathAt(i)) \in Nat
        BY <2>3, <2>6, RingFacts
      <3>2. PathAt(k) \in DOMAIN tree /\ ~IsLeaf(tree, PathAt(k)) /\ PathAt(k) # PathAt(i)
        BY <3>1 DEF Level
      <3> QED
        BY <1>1, <3>2 DEF IsLeaf
    <2>7. j' \in Window' /\ j' + 1 \in Window'
      BY <2>1, <2>2, <2>3
    <2>8. PathLive'
      BY <2>1, <2>2, <2>6, <2>7, RingFacts DEF PathLive
    <2> QED
      BY <1>1, <2>4, <2>5, <2>8 DEF IInv
  <1> QED
    BY <1>2, <1>3

\* The unwind turns to the router it ended the descent at.
LEMMA ToShrinkOK ==
  ASSUME IInv, Removing, ToShrink, TreeOK(tree'), count' \in Int,
         slot \in DOMAIN tree', IsRouter(tree', slot),
         \A p \in DOMAIN tree : ~IsLeaf(tree, p) /\ Len(p) < Len(slot)
                                  => p \in DOMAIN tree' /\ ~IsLeaf(tree', p)
  PROVE  IInv'
  <1>1. /\ pc' = "shrink" /\ ret' = "true" /\ j' = n - 1
        /\ UNCHANGED <<req, slot, pslot, gnode, lvl, n>>
    BY DEF ToShrink
  <1>2. pc = "rem"
    BY DEF Removing
  <1>3. Window' = Window /\ \A k : PathAt(k)' = PathAt(k)
    BY <1>1 DEF Window, PathAt
  <1>4. LocalsOK'
    BY <1>1, <1>2, RingFacts, StateFacts DEF LocalsOK, PCs, Results
  <1>5. PutLive'
    BY <1>1, <1>2, RingFacts DEF PutLive
  <1>6. ~IsLeaf(tree', slot)
    BY DEF IsRouter, IsLeaf, RouterKinds, CnodeKinds
  <1>7. ASSUME NEW k \in Window
        PROVE  PathAt(k) \in DOMAIN tree' /\ ~IsLeaf(tree', PathAt(k))
    <2>1. n - 1 \in Window /\ k \in Nat /\ k < n /\ n \in Nat /\ PathAt(n - 1) = slot
      BY <1>2, RingFacts, RemFacts
    <2>2. CASE k = n - 1
      BY <1>6, <2>1, <2>2
    <2>3. CASE k # n - 1
      <3>1. k < n - 1 /\ k <= n - 2
        BY <2>1, <2>3
      <3>2. Level(k) /\ Len(PathAt(k)) < Len(slot)
        BY <1>2, <2>1, <3>1, RingFacts, RemFacts
      <3> QED
        BY <3>2 DEF Level
    <2> QED
      BY <2>2, <2>3
  <1>8. j' \in Window' /\ IsRouter(tree', lp')
    <2>1. lp' = PathAt(n - 1)
      BY <1>1 DEF lp, PathAt
    <2> QED
      BY <1>1, <1>2, <1>3, <2>1, RingFacts, RemFacts
  <1>9. PathLive'
    BY <1>1, <1>2, <1>3, <1>7, <1>8, RingFacts DEF PathLive
  <1> QED
    BY <1>4, <1>5, <1>9 DEF IInv

\* rm_shrink_ looks at the router of level j, once more or after an unlink.
LEMMA ShrinkAgainOK ==
  ASSUME IInv, pc \in {"unlink", "shrink"}, pc' = "shrink",
         TreeOK(tree'), DOMAIN tree' = DOMAIN tree, IsRouter(tree', lp),
         \A p \in DOMAIN tree : ~IsLeaf(tree, p) => ~IsLeaf(tree', p),
         UNCHANGED <<count, req, ret, slot, pslot, gnode, lvl, n, j>>
  PROVE  IInv'
  <1>1. Window' = Window /\ (\A k : PathAt(k)' = PathAt(k)) /\ lp' = lp
    BY DEF Window, PathAt, lp
  <1>2. LocalsOK'
    BY StateFacts DEF LocalsOK, PCs
  <1>3. PutLive'
    BY RingFacts DEF PutLive
  <1>4. \A i \in Window : i <= j => PathAt(i) \in DOMAIN tree' /\ ~IsLeaf(tree', PathAt(i))
    BY LevelFacts DEF Level
  <1>5. PathLive'
    BY <1>1, <1>4, LevelFacts, RingFacts DEF PathLive
  <1> QED
    BY <1>2, <1>3, <1>5 DEF IInv

-----------------------------------------------------------------------------
(* remove_bytes_, rm_unwind_ and rm_shrink_.                               *)

LEMMA RemDescendOK ==
  ASSUME IInv, RemDescend
  PROVE  IInv'
  <1>1. pc = "rem" /\ Removing /\ Passes
    BY DEF RemDescend, Removing
  <1>2. /\ slot \in DOMAIN tree /\ nd.kind # "leaf" /\ slot \in Path
        /\ NextSlot \in Path /\ StartsWith(req.key, NextSlot) /\ Len(slot) < Len(NextSlot)
    BY <1>1, RemFacts, PassFacts
  <1>3. /\ slot' = NextSlot /\ n' = n + 1 /\ lvl' = [lvl EXCEPT ![n % RmLvn] = NextSlot]
        /\ UNCHANGED <<tree, count, pc, req, ret, pslot, gnode, j>>
    BY DEF RemDescend
  <1>4. n \in Nat /\ n >= 1 /\ n - 1 \in Window
    BY <1>1, RingFacts
  <1>5. n % RmLvn \in 0 .. RmLvn - 1
    BY <1>4, ModRange
  <1>6. LocalsOK'
    BY <1>2, <1>3, <1>4, <1>5, StateFacts DEF LocalsOK
  <1>7. PutLive'
    BY <1>1, <1>2, <1>3, RingFacts DEF PutLive
  <1>8. lvl'[n % RmLvn] = NextSlot
    BY <1>3, <1>5, StateFacts
  <1>9. ASSUME NEW i \in Window', i # n
        PROVE  i \in Window /\ i < n /\ lvl'[i % RmLvn] = PathAt(i)
    <2>1. i \in Nat /\ i < n /\ n - i < RmLvn
      BY <1>3, <1>4, <1>9, CapAssumption DEF Window
    <2>2. i \in Window
      BY <1>4, <2>1, CapAssumption DEF Window
    <2>3. i % RmLvn # n % RmLvn /\ i % RmLvn \in 0 .. RmLvn - 1
      BY <1>4, <2>1, ModDiffers, ModRange
    <2> QED
      BY <1>3, <2>1, <2>2, <2>3, StateFacts DEF PathAt
  <1>10. \A i \in Window' : i \in Nat /\ i <= n
    BY <1>3, <1>4 DEF Window
  <1>11. ASSUME NEW a \in Window', NEW b \in Window', a < b
         PROVE  Len(lvl'[a % RmLvn]) < Len(lvl'[b % RmLvn])
    <2>1. a # n /\ a < n /\ a \in Window /\ lvl'[a % RmLvn] = PathAt(a)
      BY <1>4, <1>9, <1>10, <1>11
    <2>2. CASE b = n
      <3>1. a = n - 1 \/ a < n - 1
        BY <1>4, <1>10, <2>1
      <3>2. Len(PathAt(a)) <= Len(slot)
        <4>1. PathAt(n - 1) = slot /\ Len(slot) \in Nat /\ Len(PathAt(a)) \in Nat
          BY <1>1, <1>2, <2>1, PathFacts, RemFacts, RingFacts
        <4>2. a < n - 1 => Len(PathAt(a)) < Len(PathAt(n - 1))
          BY <1>1, <1>4, <2>1, RingFacts
        <4> QED
          BY <3>1, <4>1, <4>2
      <3>3. Len(slot) \in Nat /\ Len(NextSlot) \in Nat /\ Len(PathAt(a)) \in Nat
        BY <1>1, <1>2, <2>1, PathFacts, RingFacts
      <3> QED
        BY <1>2, <1>8, <2>1, <2>2, <3>2, <3>3
    <2>3. CASE b # n
      <3>1. b \in Window /\ lvl'[b % RmLvn] = PathAt(b)
        BY <1>9, <2>3
      <3> QED
        BY <1>1, <1>11, <2>1, <3>1, RingFacts
    <2> QED
      BY <2>2, <2>3
  <1>12. ASSUME NEW i \in Window', i <= n - 1
         PROVE  lvl'[i % RmLvn] \in DOMAIN tree /\ ~IsLeaf(tree, lvl'[i % RmLvn])
    <2>1. i # n /\ i \in Window /\ lvl'[i % RmLvn] = PathAt(i)
      BY <1>4, <1>9, <1>10, <1>12
    <2>2. i = n - 1 => PathAt(i) = slot
      BY <1>1, RemFacts
    <2>3. i # n - 1 => Level(i)
      <3>1. i # n - 1 => i <= n - 2
        BY <1>4, <1>10, <1>12
      <3> QED
        BY <1>1, <2>1, <3>1, RemFacts
    <2> QED
      BY <1>2, <2>1, <2>2, <2>3 DEF Level, IsLeaf, nd
  <1>13. PathLive'
    <2>1. (n - 1)' = n /\ n' - 2 = n - 1 /\ n' >= 1
      BY <1>3, <1>4
    <2>2. PathAt(n - 1)' = slot'
      BY <1>3, <1>8, <2>1 DEF PathAt
    <2>3. \A a, b \in Window' : a < b => Len(PathAt(a)') < Len(PathAt(b)')
      BY <1>11 DEF PathAt
    <2>4. \A i \in Window' : i <= n' - 2 => PathAt(i)' \in DOMAIN tree' /\ ~IsLeaf(tree', PathAt(i)')
      BY <1>3, <1>12, <2>1 DEF PathAt
    <2> QED
      BY <1>1, <1>3, <2>1, <2>2, <2>3, <2>4 DEF PathLive
  <1> QED
    BY <1>3, <1>6, <1>7, <1>13, StateFacts DEF IInv

LEMMA RemMissOK ==
  ASSUME IInv, RemMiss
  PROVE  IInv'
  BY StateFacts, FinishOK DEF RemMiss, Results

LEMMA RemLeafOK ==
  ASSUME IInv, RemLeaf
  PROVE  IInv'
  <1>1. pc = "rem" /\ Removing
    BY DEF RemLeaf, Removing
  <1>2. n \in Nat /\ n - 1 \in Window /\ PathAt(n - 1) = slot
    BY <1>1, RingFacts, RemFacts
  <1>3. \A k \in Window : k < n - 1 => Level(k)
    <2>1. \A k \in Window : k \in Nat /\ (k < n - 1 => k <= n - 2)
      BY <1>1, <1>2, RingFacts
    <2> QED
      BY <1>1, <2>1, RemFacts
  <1>4. tree' = Drop(tree, {PathAt(n - 1)}) /\ count' \in Int /\ Freed(n - 1)
    <2>1. tree' = Drop(tree, {slot}) /\ count' = count - 1 /\ Freed(n - 1)
      BY DEF RemLeaf
    <2>2. count' \in Int
      BY <2>1, StateFacts
    <2> QED
      BY <1>2, <2>1, <2>2
  <1> QED
    BY <1>1, <1>2, <1>3, <1>4, FreedOK

LEMMA RemTermOK ==
  ASSUME IInv, RemTerm
  PROVE  IInv'
  <1>1. slot \in DOMAIN tree /\ tree[slot].kind \in RouterKinds /\ Removing /\ ToShrink
    BY DEF RemTerm, Holds, nd
  <1>2. /\ TreeOK(tree') /\ DOMAIN tree' = DOMAIN tree
        /\ tree'[slot].kind = tree[slot].kind
        /\ \A q \in DOMAIN tree \ {slot} : tree'[q] = tree[q]
    <2> DEFINE u == [tree EXCEPT ![slot].term = NoVal]
    <2>1. /\ TreeOK(u) /\ DOMAIN u = DOMAIN tree /\ u[slot].kind = tree[slot].kind
          /\ \A q \in DOMAIN tree \ {slot} : u[q] = tree[q]
      BY <1>1, StateFacts, TermOK
    <2>2. tree' = u
      BY DEF RemTerm
    <2> HIDE DEF u
    <2> QED
      BY <2>1, <2>2
  <1>3. IsRouter(tree', slot) /\ slot \in DOMAIN tree'
    BY <1>1, <1>2 DEF IsRouter
  <1>4. \A p \in DOMAIN tree : ~IsLeaf(tree, p) => p \in DOMAIN tree' /\ ~IsLeaf(tree', p)
    BY <1>2 DEF IsLeaf
  <1>5. count' \in Int
    BY StateFacts DEF RemTerm
  <1> QED
    BY <1>1, <1>2, <1>3, <1>4, <1>5, ToShrinkOK

\* An edge is taken away from the router at p.
LEMMA CutOK ==
  ASSUME NEW t, TreeOK(t), NEW p \in DOMAIN t, t[p].kind \in RouterKinds, NEW e
  PROVE  LET u == [t EXCEPT ![p].edges = @ \ {e}]
         IN  /\ TreeOK(u) /\ DOMAIN u = DOMAIN t
             /\ u[p].kind = t[p].kind
             /\ \A q \in DOMAIN t \ {p} : u[q] = t[q]
  <1> DEFINE E == t[p].edges \ {e}
             x == [t[p] EXCEPT !.edges = E]
  <1>1. E \in SUBSET Path /\ \A f \in E : Len(f) = StemLen(t[p].kind)
    BY NodeFields DEF TreeOK
  <1>2. NodeOK(x) /\ x.kind = t[p].kind
    <2> HIDE DEF E
    <2> QED
      BY <1>1, EdgesOK
  <1>3. [t EXCEPT ![p].edges = @ \ {e}] = [t EXCEPT ![p] = x]
    OBVIOUS
  <1> HIDE DEF x
  <1>4. TreeOK([t EXCEPT ![p] = x])
    BY <1>2, ExceptOK
  <1> QED
    BY <1>2, <1>3, <1>4

LEMMA RemInlineOK ==
  ASSUME IInv, RemInline
  PROVE  IInv'
  <1> DEFINE t == Drop(tree, {NextSlot})
             u == [t EXCEPT ![slot].edges = @ \ {Edge}]
  <1>1. pc = "rem" /\ Removing /\ Passes /\ ToShrink /\ NextSlot \in InlineKids(tree, slot)
    BY DEF RemInline, Removing
  <1>2. /\ slot \in DOMAIN tree /\ tree[slot].kind \in RouterKinds
        /\ Len(slot) \in Nat /\ Len(NextSlot) \in Nat /\ Len(slot) < Len(NextSlot)
    <2>1. slot \in DOMAIN tree /\ NextSlot \in Path /\ Len(slot) < Len(NextSlot)
      BY <1>1, RemFacts, PassFacts
    <2>2. tree[slot].kind = "setlist"
      BY <1>1 DEF InlineKids
    <2> QED
      BY <2>1, <2>2, StateFacts, PathFacts DEF RouterKinds
  <1>3. /\ TreeOK(t) /\ DOMAIN t = DOMAIN tree \ {NextSlot}
        /\ \A q \in DOMAIN t : t[q] = tree[q]
    BY StateFacts, DropOK
  <1>4. slot \in DOMAIN t /\ t[slot].kind \in RouterKinds
    <2>1. slot # NextSlot
      BY <1>2
    <2> HIDE DEF t
    <2> QED
      BY <1>2, <1>3, <2>1
  <1>5. /\ TreeOK(u) /\ DOMAIN u = DOMAIN t /\ u[slot].kind = t[slot].kind
        /\ \A q \in DOMAIN t \ {slot} : u[q] = t[q]
    <2> HIDE DEF t
    <2> QED
      BY <1>3, <1>4, CutOK
  <1>6. tree' = u /\ count' \in Int
    BY StateFacts DEF RemInline
  <1> HIDE DEF u
  <1>7. IsRouter(tree', slot) /\ slot \in DOMAIN tree' /\ TreeOK(tree')
    BY <1>4, <1>5, <1>6 DEF IsRouter
  <1>8. ASSUME NEW p \in DOMAIN tree, ~IsLeaf(tree, p), Len(p) < Len(slot)
        PROVE  p \in DOMAIN tree' /\ ~IsLeaf(tree', p)
    <2>1. p # NextSlot /\ p # slot
      <3>1. Len(p) \in Nat
        BY StateFacts, PathFacts DEF TreeOK
      <3> QED
        BY <1>2, <1>8, <3>1
    <2> QED
      BY <1>3, <1>5, <1>6, <1>8, <2>1 DEF IsLeaf
  <1> QED
    BY <1>1, <1>6, <1>7, <1>8, ToShrinkOK

LEMMA UnlinkPnOK ==
  ASSUME IInv, UnlinkPn
  PROVE  IInv'
  <1>1. pc = "unlink" /\ Freed(j)
    BY DEF UnlinkPn
  <1>2. j \in Window /\ lp = PathAt(j) /\ \A k \in Window : k < j => Level(k)
    <2>1. \A k \in Window : k \in Nat /\ (k < j => k <= j)
      BY <1>1, RingFacts, StateFacts
    <2> QED
      BY <1>1, <2>1, LevelFacts
  <1>3. tree' = Drop(tree, {PathAt(j)})
    BY <1>2 DEF UnlinkPn
  <1>4. count' \in Int
    BY StateFacts DEF UnlinkPn
  <1> QED
    BY <1>1, <1>2, <1>3, <1>4, FreedOK

LEMMA ShrinkEmptyOK ==
  ASSUME IInv, ShrinkEmpty
  PROVE  IInv'
  <1>1. pc = "shrink" /\ Freed(j)
    BY DEF ShrinkEmpty, Shrinking
  <1>2. j \in Window /\ lp = PathAt(j) /\ \A k \in Window : k < j => Level(k)
    <2>1. \A k \in Window : k \in Nat /\ (k < j => k <= j)
      BY <1>1, RingFacts, StateFacts
    <2> QED
      BY <1>1, <2>1, LevelFacts
  <1>3. tree' = Drop(tree, {PathAt(j)})
    BY <1>2 DEF ShrinkEmpty
  <1>4. count' \in Int
    BY StateFacts DEF ShrinkEmpty
  <1> QED
    BY <1>1, <1>2, <1>3, <1>4, FreedOK

LEMMA UnlinkEdgeOK ==
  ASSUME IInv, UnlinkEdge
  PROVE  IInv'
  <1>1. lp \in DOMAIN tree /\ tree[lp].kind \in RouterKinds
    BY LevelFacts DEF UnlinkEdge, lnd
  <1> DEFINE e == Rest(lvl[(j + 1) % RmLvn], At(tree, lp))
             u == [tree EXCEPT ![lp].edges = @ \ {e}]
  <1>2. tree' = u /\ pc = "unlink" /\ pc' = "shrink"
        /\ UNCHANGED <<count, req, ret, slot, pslot, gnode, lvl, n, j>>
    BY DEF UnlinkEdge
  <1>3. /\ TreeOK(u) /\ DOMAIN u = DOMAIN tree /\ u[lp].kind = tree[lp].kind
        /\ \A q \in DOMAIN tree \ {lp} : u[q] = tree[q]
    <2> HIDE DEF e
    <2> QED
      BY <1>1, StateFacts, CutOK
  <1> HIDE DEF u
  <1>4. IsRouter(tree', lp) /\ \A p \in DOMAIN tree : ~IsLeaf(tree, p) => ~IsLeaf(tree', p)
    BY <1>1, <1>2, <1>3 DEF IsRouter, IsLeaf
  <1> QED
    BY <1>2, <1>3, <1>4, ShrinkAgainOK

\* rm_shrink_ ends with a well-formed tree.
LEMMA SurvivesOK ==
  ASSUME IInv, Survives, TreeOK(tree')
  PROVE  IInv'
  BY StateFacts, FinishOK DEF Survives

LEMMA ShrinkFacts ==
  ASSUME IInv, Shrinking
  PROVE  /\ pc = "shrink" /\ lp \in DOMAIN tree /\ lp \in Path
         /\ lnd.kind \in RouterKinds /\ lnd \in RouterNode
         /\ lnd.pfx \in Path /\ lnd.term \in Values \cup {NoVal}
         /\ At(tree, lp) \in Path
  <1>1. pc = "shrink" /\ lp \in DOMAIN tree /\ lp \in Path
        /\ lnd.kind \in RouterKinds /\ NodeOK(lnd)
    BY LevelFacts DEF Shrinking
  <1>2. lnd.kind # "leaf"
    BY <1>1 DEF RouterKinds, CnodeKinds
  <1> QED
    BY <1>1, <1>2, StateFacts, NodeFields, AtOK DEF lnd

LEMMA ShrinkToTermOK ==
  ASSUME IInv, ShrinkToTerm
  PROVE  IInv'
  <1> DEFINE value == Leaf(<<>>, lnd.term)
             b     == At(tree, lp)
             u     == [q \in {lp, b} |-> IF q = lp THEN Pn(lnd.pfx) ELSE value]
  <1>1. Shrinking /\ Survives /\ lnd.term \in Values
    BY ShrinkFacts DEF ShrinkToTerm
  <1>2. NodeOK(value)
    BY <1>1, EmptyPath, LeafOK
  <1>3. TreeOK(Upd(tree, lp, value))
    <2> HIDE DEF value
    <2> QED
      BY <1>1, <1>2, StateFacts, ShrinkFacts, UpdOK
  <1>4. lnd.pfx # <<>> => TreeOK(Over(tree, u))
    <2>1. lnd.pfx # <<>> => NodeOK(Pn(lnd.pfx))
      BY <1>1, ShrinkFacts, PnOK
    <2>2. lp \in Path /\ b \in Path
      BY <1>1, ShrinkFacts
    <2> HIDE DEF value, b
    <2>3. lnd.pfx # <<>> => TreeOK(u)
      BY <1>2, <2>1, <2>2 DEF TreeOK
    <2> HIDE DEF u
    <2> QED
      BY <2>3, StateFacts, OverOK
  <1>5. TreeOK(tree')
    <2>1. tree' = Upd(tree, lp, value) \/ (lnd.pfx # <<>> /\ tree' = Over(tree, u)) \/ tree' = tree
      BY DEF ShrinkToTerm
    <2> QED
      BY <1>3, <1>4, <2>1, StateFacts
  <1> QED
    BY <1>1, <1>5, SurvivesOK

LEMMA ShrinkLoneOK ==
  ASSUME IInv, ShrinkLone
  PROVE  IInv'
  <1>1. Shrinking /\ Survives /\ tree' \in {tree, CollapseTree(tree, lp)}
    BY DEF ShrinkLone
  <1>2. lnd.edges # {}
    BY FS_EmptySet DEF ShrinkLone, Deg
  <1>3. TreeOK(CollapseTree(tree, lp))
    BY <1>1, <1>2, StateFacts, ShrinkFacts, CollapseOK DEF lnd
  <1>4. TreeOK(tree')
    BY <1>1, <1>3, StateFacts
  <1> QED
    BY <1>1, <1>4, SurvivesOK

LEMMA ShrinkDewidenOK ==
  ASSUME IInv, ShrinkDewiden
  PROVE  IInv'
  <1> DEFINE u == [tree EXCEPT ![lp].kind = "setlist"]
  <1>1. pc = "shrink" /\ Shrinking /\ lp \in DOMAIN tree
        /\ tree[lp].kind \in RouterKinds \ {"u16"}
    <2>1. tree[lp].kind \in {"full", "pfxd"} \cup CnodeKinds
      BY DEF ShrinkDewiden, Dewidens, lnd
    <2> QED
      BY <2>1, ShrinkFacts DEF ShrinkDewiden, RouterKinds, CnodeKinds
  <1>2. CASE tree' = tree /\ Survives
    BY <1>2, StateFacts, SurvivesOK
  <1>3. CASE tree' = u /\ UNCHANGED <<count, pc, req, ret, slot, pslot, gnode, lvl, n, j>>
    <2>1. /\ TreeOK(u) /\ DOMAIN u = DOMAIN tree /\ u[lp].kind = "setlist"
          /\ \A q \in DOMAIN tree \ {lp} : u[q] = tree[q]
      BY <1>1, StateFacts, KindOK DEF RouterKinds
    <2> HIDE DEF u
    <2>2. IsRouter(tree', lp) /\ \A p \in DOMAIN tree : ~IsLeaf(tree, p) => ~IsLeaf(tree', p)
      BY <1>3, <2>1 DEF IsRouter, IsLeaf, RouterKinds
    <2> QED
      BY <1>1, <1>3, <2>1, <2>2, ShrinkAgainOK
  <1> QED
    BY <1>2, <1>3 DEF ShrinkDewiden

LEMMA ShrinkStandsOK ==
  ASSUME IInv, ShrinkStands
  PROVE  IInv'
  BY StateFacts, SurvivesOK DEF ShrinkStands

-----------------------------------------------------------------------------
(* Every step.                                                             *)

LEMMA StutterOK ==
  ASSUME IInv, UNCHANGED vars
  PROVE  IInv'
  <1>1. LocalsOK' /\ PutLive'
    BY StateFacts DEF vars, LocalsOK, PutLive
  <1>2. PathLive'
    BY StateFacts DEF vars, PathLive, Window, PathAt, lp
  <1> QED
    BY <1>1, <1>2, StateFacts DEF vars, IInv

LEMMA PutStepOK ==
  ASSUME IInv, Put
  PROVE  IInv'
  BY PutNullOK, PutSameLeafOK, PutSplitLeafOK, PutLazyFuseOK, PutSplitPrefixOK, PutTermOK,
     PutDescendOK, PutExternalizeAllOK, PutAddOK, PutAddStemOK, PutRestrideOK,
     GrowLiftOK, GrowWidenOK, GrowLinkOK, FuseParentOK
  DEF Put

LEMMA RemStepOK ==
  ASSUME IInv, Rem
  PROVE  IInv'
  BY RemDescendOK, RemMissOK, RemLeafOK, RemTermOK, RemInlineOK, UnlinkPnOK, UnlinkEdgeOK,
     ShrinkEmptyOK, ShrinkToTermOK, ShrinkLoneOK, ShrinkDewidenOK, ShrinkStandsOK
  DEF Rem

LEMMA StepOK ==
  ASSUME IInv, Next
  PROVE  IInv'
  BY PutStepOK, GetDescendOK, GetMissOK, GetHitOK, RemStepOK, ClearOK, CallOK
  DEF Next, Step, Get

\* In every state that insert_, remove_bytes_ and the lookups reach, whatever
\* the keys, the capacities, the mode and the allocations that fail, every
\* variable has its type and every node is of its format.
THEOREM TypeCorrect == Spec => []TypeOK
  <1>1. Init => IInv
    BY InitOK
  <1>2. IInv /\ [Next]_vars => IInv'
    BY StepOK, StutterOK
  <1>3. IInv => TypeOK
    BY IInvImplies
  <1> QED
    BY <1>1, <1>2, <1>3, PTL DEF Spec

\* The slots and levels a running call holds on to (slot, pslot, gnode and the
\* remove window) never go stale: no split, fusion, widening, unlink or
\* collapse leaves one of them on a node that is gone or of another kind.
THEOREM PointersStayLive == Spec => []PointersLive
  <1>1. Init => IInv
    BY InitOK
  <1>2. IInv /\ [Next]_vars => IInv'
    BY StepOK, StutterOK
  <1>3. IInv => PointersLive
    BY IInvImplies
  <1> QED
    BY <1>1, <1>2, <1>3, PTL DEF Spec

-----------------------------------------------------------------------------
(***************************************************************************)
(* The shape of a radix tree, and the moves that keep it a trie.           *)
(*                                                                         *)
(* A shape maps the slot of every node to the slots its edges lead to; it  *)
(* says nothing of keys, values and formats.  What insert_, grow_router_,  *)
(* try_fuse_parent and rm_shrink_ do to the tree is, for its shape, one of *)
(* six moves or a few of them in a row.                                    *)
(***************************************************************************)

-----------------------------------------------------------------------------
(* Prefixes.                                                               *)

LEMMA StartsRefl ==
  ASSUME NEW s \in Path
  PROVE  StartsWith(s, s)
  BY StartsWithIff, PathFacts

LEMMA StartsTrans ==
  ASSUME NEW a \in Path, NEW b \in Path, NEW c \in Path, StartsWith(a, b), StartsWith(b, c)
  PROVE  StartsWith(a, c)
  <1>1. Len(a) \in Nat /\ Len(b) \in Nat /\ Len(c) \in Nat
    BY PathFacts
  <1>2. Len(b) <= Len(a) /\ \A i \in 1 .. Len(b) : a[i] = b[i]
    BY StartsWithIff
  <1>3. Len(c) <= Len(b) /\ \A i \in 1 .. Len(c) : b[i] = c[i]
    BY StartsWithIff
  <1>4. Len(c) <= Len(a) /\ \A i \in 1 .. Len(c) : a[i] = c[i]
    BY <1>1, <1>2, <1>3
  <1> QED
    BY <1>4, StartsWithIff

\* Two prefixes of one path are prefixes of each other.
LEMMA StartsEither ==
  ASSUME NEW q \in Path, NEW a \in Path, NEW b \in Path, StartsWith(q, a), StartsWith(q, b)
  PROVE  /\ Len(a) <= Len(b) => StartsWith(b, a)
         /\ StartsWith(b, a) \/ StartsWith(a, b)
  <1>1. Len(a) \in Nat /\ Len(b) \in Nat /\ Len(q) \in Nat
    BY PathFacts
  <1>2. Len(a) <= Len(q) /\ \A i \in 1 .. Len(a) : q[i] = a[i]
    BY StartsWithIff
  <1>3. Len(b) <= Len(q) /\ \A i \in 1 .. Len(b) : q[i] = b[i]
    BY StartsWithIff
  <1>4. Len(a) <= Len(b) => StartsWith(b, a)
    <2>1. ASSUME Len(a) <= Len(b)
          PROVE  \A i \in 1 .. Len(a) : b[i] = a[i]
      BY <1>1, <1>2, <1>3, <2>1
    <2> QED
      BY <2>1, StartsWithIff
  <1>5. Len(b) <= Len(a) => StartsWith(a, b)
    <2>1. ASSUME Len(b) <= Len(a)
          PROVE  \A i \in 1 .. Len(b) : a[i] = b[i]
      BY <1>1, <1>2, <1>3, <2>1
    <2> QED
      BY <2>1, StartsWithIff
  <1> QED
    BY <1>1, <1>4, <1>5

LEMMA StartsLen ==
  ASSUME NEW a \in Path, NEW b \in Path, StartsWith(a, b)
  PROVE  /\ Len(a) \in Nat /\ Len(b) \in Nat /\ Len(b) <= Len(a)
         /\ a # b => Len(b) < Len(a)
         /\ Len(a) = Len(b) => a = b
  <1>1. Len(a) \in Nat /\ Len(b) \in Nat /\ Len(b) <= Len(a)
    BY PathFacts, StartsWithIff
  <1>2. a # b => Len(b) < Len(a)
    BY Longer
  <1> QED
    BY <1>1, <1>2

LEMMA StartsSame ==
  ASSUME NEW a \in Path, NEW b \in Path, StartsWith(a, b), StartsWith(b, a)
  PROVE  a = b
  BY StartsLen

LEMMA StartsEmpty ==
  ASSUME NEW a \in Path, StartsWith(<<>>, a)
  PROVE  a = <<>>
  <1>1. StartsWith(a, <<>>)
    BY StartsWithEmpty
  <1> QED
    BY <1>1, EmptyPath, StartsSame

\* What is appended.
LEMMA StartsConcat ==
  ASSUME NEW s \in Path, NEW x \in Path
  PROVE  /\ s \o x \in Path /\ StartsWith(s \o x, s)
         /\ Len(s \o x) = Len(s) + Len(x)
         /\ x # <<>> => s \o x # s
  <1>1. Len(s) \in Nat /\ Len(x) \in Nat /\ (x # <<>> => Len(x) > 0)
    BY PathFacts
  <1>2. /\ s \o x \in Path /\ Len(s \o x) = Len(s) + Len(x)
        /\ \A i \in 1 .. Len(s) + Len(x) :
             (s \o x)[i] = IF i <= Len(s) THEN s[i] ELSE x[i - Len(s)]
    BY ConcatFacts
  <1>3. Len(s) <= Len(s \o x) /\ \A i \in 1 .. Len(s) : (s \o x)[i] = s[i]
    BY <1>1, <1>2
  <1>4. StartsWith(s \o x, s)
    BY <1>2, <1>3, StartsWithIff
  <1>5. x # <<>> => s \o x # s
    BY <1>1, <1>2
  <1> QED
    BY <1>2, <1>4, <1>5

-----------------------------------------------------------------------------
(* Shapes.                                                                 *)

\* K can be the slots below a node at p: all of them longer, by as much.
KidsOK(p, K) ==
  /\ K \subseteq Path
  /\ \A c \in K : StartsWith(c, p) /\ c # p
  /\ \A c, d \in K : Len(c) = Len(d)

ShapeOK(g) == DOMAIN g \subseteq Path /\ \A p \in DOMAIN g : KidsOK(p, g[p])

\* The slots below a node are those below one of its children.
Trie(g) ==
  \A p, q \in DOMAIN g : p # q /\ StartsWith(q, p) => \E c \in g[p] : StartsWith(q, c)

\* A node may stand at s: the root, or where an edge leads.
Hung(g, s) == s = <<>> \/ \E p \in DOMAIN g : s \in g[p]

Good(g) == ShapeOK(g) /\ Trie(g) /\ \A q \in DOMAIN g : Hung(g, q)

LEMMA KidFacts ==
  ASSUME NEW g, ShapeOK(g), NEW p \in DOMAIN g, NEW c \in g[p]
  PROVE  /\ p \in Path /\ c \in Path /\ StartsWith(c, p) /\ c # p
         /\ Len(p) \in Nat /\ Len(c) \in Nat /\ Len(p) < Len(c)
         /\ \A d \in g[p] : d \in Path /\ Len(d) = Len(c)
  <1>1. /\ p \in Path /\ c \in Path /\ StartsWith(c, p) /\ c # p
        /\ \A d \in g[p] : d \in Path /\ Len(d) = Len(c)
    BY DEF ShapeOK, KidsOK
  <1> QED
    BY <1>1, StartsLen

\* A path goes through one child of a node at most.
LEMMA OneKid ==
  ASSUME NEW g, ShapeOK(g), NEW p \in DOMAIN g, NEW c \in g[p], NEW d \in g[p],
         NEW q \in Path, StartsWith(q, c), StartsWith(q, d)
  PROVE  c = d
  <1>1. c \in Path /\ d \in Path /\ Len(c) = Len(d) /\ Len(c) \in Nat
    BY KidFacts
  <1>2. StartsWith(d, c)
    BY <1>1, StartsEither
  <1> QED
    BY <1>1, <1>2, StartsLen

\* A slot where a node may stand is below a child of every node above it.
LEMMA HungUnder ==
  ASSUME NEW g, ShapeOK(g), Trie(g), NEW s \in Path, Hung(g, s),
         NEW p \in DOMAIN g, StartsWith(s, p), p # s
  PROVE  \E c \in g[p] : StartsWith(s, c)
  <1>1. p \in Path
    BY DEF ShapeOK
  <1>2. s # <<>>
    BY <1>1, StartsEmpty
  <1>3. PICK r \in DOMAIN g : s \in g[r]
    BY <1>2 DEF Hung
  <1>4. r \in Path /\ StartsWith(s, r) /\ s # r
    BY <1>3, KidFacts
  <1>5. CASE r = p
    BY <1>3, <1>5, StartsRefl
  <1>6. CASE r # p /\ StartsWith(r, p)
    <2>1. PICK c \in g[p] : StartsWith(r, c)
      BY <1>6 DEF Trie
    <2>2. c \in Path
      BY KidFacts
    <2> QED
      BY <1>4, <2>1, <2>2, StartsTrans
  <1>7. CASE r # p /\ StartsWith(p, r)
    <2>1. PICK c \in g[r] : StartsWith(p, c)
      BY <1>7 DEF Trie
    <2>2. c \in Path
      BY KidFacts
    <2>3. StartsWith(s, c)
      BY <1>1, <2>1, <2>2, StartsTrans
    <2>4. c = s
      BY <1>3, <2>3, OneKid, StartsRefl
    <2> QED
      BY <1>1, <2>1, <2>4, StartsSame
  <1>8. StartsWith(r, p) \/ StartsWith(p, r)
    BY <1>1, <1>4, StartsEither
  <1> QED
    BY <1>5, <1>6, <1>7, <1>8

\* Where a node may stand and none does, there is none below either.
LEMMA NothingBelow ==
  ASSUME NEW g, Good(g), NEW s \in Path, Hung(g, s), s \notin DOMAIN g
  PROVE  \A q \in DOMAIN g : ~StartsWith(q, s)
  <1> SUFFICES ASSUME NEW q0 \in DOMAIN g, StartsWith(q0, s)
               PROVE  FALSE
    OBVIOUS
  <1> DEFINE Bad == {m \in Nat : \E q \in DOMAIN g : StartsWith(q, s) /\ Len(q) = m}
  <1>1. ShapeOK(g) /\ Trie(g) /\ DOMAIN g \subseteq Path /\ \A q \in DOMAIN g : Hung(g, q)
    BY DEF Good, ShapeOK
  <1>2. \E m \in Bad : \A b \in Bad : ~(<<b, m>> \in {ss \in Nat \X Nat : ss[1] < ss[2]})
    <2>1. Bad \subseteq Nat /\ Len(q0) \in Bad
      BY <1>1, PathFacts
    <2>2. IsWellFoundedOn({ss \in Nat \X Nat : ss[1] < ss[2]}, Nat)
      BY NatLessThanWellFounded DEF OpToRel
    <2> HIDE DEF Bad
    <2> QED
      BY <2>1, <2>2, WFMin
  <1>3. PICK m \in Bad : \A b \in Bad : ~(b < m)
    BY <1>2
  <1>4. PICK q \in DOMAIN g : StartsWith(q, s) /\ Len(q) = m
    BY <1>3
  <1>5. q \in Path /\ q # s
    BY <1>1
  <1>6. q # <<>>
    BY <1>4, <1>5, StartsEmpty
  <1>7. PICK p \in DOMAIN g : q \in g[p]
    BY <1>1, <1>6 DEF Hung
  <1>8. p \in Path /\ StartsWith(q, p) /\ Len(p) < Len(q) /\ Len(p) \in Nat /\ p # q
    BY <1>1, <1>7, KidFacts
  <1>9. ~StartsWith(p, s)
    BY <1>3, <1>4, <1>8
  <1>10. StartsWith(s, p) /\ p # s
    BY <1>4, <1>5, <1>8, <1>9, StartsEither
  <1>11. PICK c \in g[p] : StartsWith(s, c)
    BY <1>1, <1>10, HungUnder
  <1>12. c \in Path
    BY <1>1, KidFacts
  <1>13. c = q
    BY <1>1, <1>4, <1>5, <1>7, <1>11, <1>12, OneKid, StartsTrans, StartsRefl
  <1> QED
    BY <1>4, <1>5, <1>11, <1>13, StartsSame

-----------------------------------------------------------------------------
(* Rebuilding the part of a tree below one slot.                           *)

Same(g, h, q) ==
  /\ q \in DOMAIN g <=> q \in DOMAIN h
  /\ q \in DOMAIN g => h[q] = g[q]

\* h is g but for the nodes below s, where it has new nodes, all in B, and what
\* g has below each slot of F.
Rebuilt(g, h, s, B, F) ==
  /\ s \in Path /\ Hung(g, s) /\ B \subseteq Path /\ F \subseteq Path
  /\ \A q \in Path : ~StartsWith(q, s) => Same(g, h, q)
  /\ \A f \in F : Hung(g, f) /\ \A q \in Path : StartsWith(q, f) => Same(g, h, q)
  /\ \A q \in DOMAIN h : StartsWith(q, s) => q \in B \/ \E f \in F : StartsWith(q, f)
  /\ \A p \in B \cap DOMAIN h, x \in B \cup F :
       x # p /\ StartsWith(x, p) => \E c \in h[p] : StartsWith(x, c)
  /\ \A x \in (B \cup F) \cap DOMAIN h : x # s => Hung(h, x)

LEMMA Splice ==
  ASSUME NEW g, Good(g), NEW h, ShapeOK(h), NEW s, NEW B, NEW F, Rebuilt(g, h, s, B, F)
  PROVE  Good(h)
  <1>1. /\ ShapeOK(g) /\ Trie(g) /\ DOMAIN g \subseteq Path /\ \A q \in DOMAIN g : Hung(g, q)
        /\ DOMAIN h \subseteq Path
    BY DEF Good, ShapeOK
  <1> s \in Path /\ Hung(g, s) /\ B \in SUBSET Path /\ F \in SUBSET Path
    BY DEF Rebuilt
  <1> USE DEF Rebuilt
  <1>2. ASSUME NEW p \in DOMAIN h, NEW f \in F, StartsWith(p, f),
               NEW q \in DOMAIN h, StartsWith(q, p), p # q
        PROVE  \E c \in h[p] : StartsWith(q, c)
    <2>1. StartsWith(q, f)
      BY <1>1, <1>2, StartsTrans
    <2>2. p \in DOMAIN g /\ q \in DOMAIN g /\ h[p] = g[p]
      BY <1>1, <1>2, <2>1 DEF Same
    <2> QED
      BY <1>1, <1>2, <2>2 DEF Trie
  <1>3. ASSUME NEW p \in DOMAIN h, ~StartsWith(p, s),
               NEW q \in DOMAIN h, StartsWith(q, p), p # q
        PROVE  \E c \in h[p] : StartsWith(q, c)
    <2>1. p \in DOMAIN g /\ h[p] = g[p]
      BY <1>1, <1>3 DEF Same
    <2>2. CASE ~StartsWith(q, s)
      <3>1. q \in DOMAIN g
        BY <1>1, <2>2 DEF Same
      <3> QED
        BY <1>1, <1>3, <2>1, <3>1 DEF Trie
    <2>3. CASE StartsWith(q, s)
      <3>1. StartsWith(s, p) /\ p # s
        BY <1>1, <1>3, <2>3, StartsEither, StartsRefl
      <3>2. PICK c \in g[p] : StartsWith(s, c)
        BY <1>1, <2>1, <3>1, HungUnder
      <3>3. c \in Path
        BY <1>1, <2>1, KidFacts
      <3> QED
        BY <1>1, <2>1, <2>3, <3>2, <3>3, StartsTrans
    <2> QED
      BY <2>2, <2>3
  <1>4. ASSUME NEW p \in DOMAIN h, StartsWith(p, s), ~(\E f \in F : StartsWith(p, f)),
               NEW q \in DOMAIN h, StartsWith(q, p), p # q
        PROVE  \E c \in h[p] : StartsWith(q, c)
    <2>1. p \in B
      BY <1>4
    <2>2. StartsWith(q, s)
      BY <1>1, <1>4, StartsTrans
    <2>3. CASE q \in B
      BY <1>4, <2>1, <2>3
    <2>4. CASE \E f \in F : StartsWith(q, f)
      <3>1. PICK f \in F : StartsWith(q, f)
        BY <2>4
      <3>2. f \in Path
        OBVIOUS
      <3>3. StartsWith(f, p) /\ f # p
        BY <1>1, <1>4, <3>1, <3>2, StartsEither, StartsRefl
      <3>4. PICK c \in h[p] : StartsWith(f, c)
        BY <2>1, <3>3
      <3>5. c \in Path
        BY KidFacts
      <3> QED
        BY <1>1, <3>1, <3>2, <3>4, <3>5, StartsTrans
    <2> QED
      BY <1>4, <2>2, <2>3, <2>4
  <1>5. Trie(h)
    BY <1>2, <1>3, <1>4 DEF Trie
  <1>6. ASSUME NEW q \in DOMAIN h, ~StartsWith(q, s)
        PROVE  Hung(h, q)
    <2>1. q \in DOMAIN g
      BY <1>1, <1>6 DEF Same
    <2>2. CASE q = <<>>
      BY <2>2 DEF Hung
    <2>3. CASE q # <<>>
      <3>1. PICK p \in DOMAIN g : q \in g[p]
        BY <1>1, <2>1, <2>3 DEF Hung
      <3>2. p \in Path /\ StartsWith(q, p)
        BY <1>1, <3>1, KidFacts
      <3>3. ~StartsWith(p, s)
        BY <1>1, <1>6, <3>2, StartsTrans
      <3>4. p \in DOMAIN h /\ h[p] = g[p]
        BY <3>1, <3>2, <3>3 DEF Same
      <3> QED
        BY <3>1, <3>4 DEF Hung
    <2> QED
      BY <2>2, <2>3
  <1>7. Hung(h, s)
    <2>1. CASE s = <<>>
      BY <2>1 DEF Hung
    <2>2. CASE s # <<>>
      <3>1. PICK p \in DOMAIN g : s \in g[p]
        BY <2>2 DEF Hung
      <3>2. p \in Path /\ StartsWith(s, p) /\ s # p
        BY <1>1, <3>1, KidFacts
      <3>3. ~StartsWith(p, s)
        BY <3>2, StartsSame
      <3>4. p \in DOMAIN h /\ h[p] = g[p]
        BY <3>1, <3>2, <3>3 DEF Same
      <3> QED
        BY <3>1, <3>4 DEF Hung
    <2> QED
      BY <2>1, <2>2
  <1>8. ASSUME NEW q \in DOMAIN h, NEW f \in F, StartsWith(q, f), q # f, q # <<>>
        PROVE  Hung(h, q)
    <2>1. q \in Path /\ f \in Path /\ q \in DOMAIN g
      BY <1>1, <1>8 DEF Same
    <2>2. PICK p \in DOMAIN g : q \in g[p]
      BY <1>1, <1>8, <2>1 DEF Hung
    <2>3. p \in Path /\ StartsWith(q, p)
      BY <1>1, <2>2, KidFacts
    <2>4. StartsWith(p, f)
      <3> SUFFICES ASSUME ~StartsWith(p, f)
                   PROVE  FALSE
        OBVIOUS
      <3>1. StartsWith(f, p) /\ p # f
        BY <1>8, <2>1, <2>3, StartsEither, StartsRefl
      <3>2. PICK c \in g[p] : StartsWith(f, c)
        BY <1>1, <2>1, <2>2, <3>1, HungUnder
      <3>3. c \in Path
        BY <1>1, <2>2, KidFacts
      <3>4. StartsWith(q, c)
        BY <1>8, <2>1, <3>2, <3>3, StartsTrans
      <3>5. c = q
        BY <1>1, <2>1, <2>2, <3>2, <3>4, OneKid, StartsRefl
      <3> QED
        BY <1>8, <2>1, <3>2, <3>5, StartsSame
    <2>5. p \in DOMAIN h /\ h[p] = g[p]
      BY <2>2, <2>3, <2>4 DEF Same
    <2> QED
      BY <2>2, <2>5 DEF Hung
  <1>9. \A q \in DOMAIN h : Hung(h, q)
    <2> SUFFICES ASSUME NEW q \in DOMAIN h
                 PROVE  Hung(h, q)
      OBVIOUS
    <2>1. CASE q = s
      BY <1>7, <2>1
    <2>2. CASE ~StartsWith(q, s)
      BY <1>6, <2>2
    <2>3. CASE q \in B /\ q # s
      BY <2>3
    <2>4. CASE q # s /\ \E f \in F : StartsWith(q, f)
      <3>1. PICK f \in F : StartsWith(q, f)
        BY <2>4
      <3>2. CASE q = f
        BY <2>4, <3>2
      <3>3. CASE q # f /\ q # <<>>
        BY <1>8, <3>1, <3>3
      <3>4. CASE q = <<>>
        BY <3>4 DEF Hung
      <3> QED
        BY <3>2, <3>3, <3>4
    <2> QED
      BY <2>1, <2>2, <2>3, <2>4
  <1> QED
    BY <1>5, <1>9 DEF Good

-----------------------------------------------------------------------------
(* The six moves.                                                          *)

\* A node gets edges to slots that hold nothing.
LEMMA MoreEdges ==
  ASSUME NEW g, Good(g), NEW h, ShapeOK(h), DOMAIN h = DOMAIN g,
         \A q \in DOMAIN g : g[q] \subseteq h[q]
  PROVE  Good(h)
  BY DEF Good, Trie, Hung

\* A new node takes a free place.
LEMMA HangNode ==
  ASSUME NEW g, Good(g), NEW h, ShapeOK(h), NEW s \in Path, Hung(g, s), s \notin DOMAIN g,
         DOMAIN h = DOMAIN g \cup {s}, \A q \in DOMAIN g : h[q] = g[q]
  PROVE  Good(h)
  <1> DEFINE F == {}
  <1>1. \A q \in DOMAIN g : ~StartsWith(q, s)
    BY NothingBelow
  <1>2. \A q \in Path : ~StartsWith(q, s) => Same(g, h, q)
    BY StartsRefl DEF Same
  <1>3. \A q \in DOMAIN h : StartsWith(q, s) => q \in {s} \/ \E f \in F : StartsWith(q, f)
    BY <1>1
  <1>4. {s} \in SUBSET Path /\ F \in SUBSET Path
    OBVIOUS
  <1>5. \A f \in F : Hung(g, f) /\ \A q \in Path : StartsWith(q, f) => Same(g, h, q)
    OBVIOUS
  <1>6. \A p \in {s} \cap DOMAIN h, x \in {s} \cup F :
            x # p /\ StartsWith(x, p) => \E c \in h[p] : StartsWith(x, c)
    OBVIOUS
  <1>7. \A x \in ({s} \cup F) \cap DOMAIN h : x # s => Hung(h, x)
    OBVIOUS
  <1> HIDE DEF F
  <1>8. Rebuilt(g, h, s, {s}, F)
    BY <1>2, <1>3, <1>4, <1>5, <1>6, <1>7 DEF Rebuilt
  <1> QED
    BY <1>8, Splice

\* The edge to a place with nothing below it goes.
LEMMA CutEdge ==
  ASSUME NEW g, Good(g), NEW h, NEW p \in DOMAIN g, NEW c \in g[p],
         \A q \in DOMAIN g : ~StartsWith(q, c),
         DOMAIN h = DOMAIN g, h[p] = g[p] \ {c}, \A q \in DOMAIN g \ {p} : h[q] = g[q]
  PROVE  Good(h)
  <1>1. ShapeOK(h)
    BY DEF Good, ShapeOK, KidsOK
  <1>2. ShapeOK(g) /\ Trie(g) /\ DOMAIN g \subseteq Path
    BY DEF Good, ShapeOK
  <1>3. Trie(h)
    <2> SUFFICES ASSUME NEW r \in DOMAIN g, NEW q \in DOMAIN g, r # q, StartsWith(q, r)
                 PROVE  \E d \in h[r] : StartsWith(q, d)
      BY DEF Trie
    <2>1. PICK d \in g[r] : StartsWith(q, d)
      BY <1>2 DEF Trie
    <2>2. d # c
      BY <2>1
    <2> QED
      BY <2>1, <2>2
  <1>4. \A q \in DOMAIN h : Hung(h, q)
    <2> SUFFICES ASSUME NEW q \in DOMAIN g
                 PROVE  Hung(h, q)
      OBVIOUS
    <2>1. Hung(g, q) /\ q # c
      BY <1>2, StartsRefl DEF Good
    <2> QED
      BY <2>1 DEF Hung
  <1> QED
    BY <1>1, <1>3, <1>4 DEF Good

\* A node with nothing below it goes; its place is free.
LEMMA PruneNode ==
  ASSUME NEW g, Good(g), NEW h, NEW p \in DOMAIN g,
         \A c \in g[p], q \in DOMAIN g : ~StartsWith(q, c),
         DOMAIN h = DOMAIN g \ {p}, \A q \in DOMAIN h : h[q] = g[q]
  PROVE  Good(h) /\ \A q \in DOMAIN h : ~StartsWith(q, p)
  <1>1. ShapeOK(g) /\ Trie(g) /\ DOMAIN g \subseteq Path /\ ShapeOK(h) /\ Trie(h)
    BY DEF Good, ShapeOK, Trie
  <1>2. \A q \in DOMAIN h : ~StartsWith(q, p)
    BY <1>1 DEF Trie
  <1>3. ASSUME NEW q \in DOMAIN h
        PROVE  Hung(h, q)
    <2>1. Hung(g, q) /\ q \notin g[p]
      BY <1>1, <1>3, StartsRefl DEF Good
    <2> QED
      BY <2>1 DEF Hung
  <1> QED
    BY <1>1, <1>2, <1>3 DEF Good

\* The node at s is cut in two: its edges go to new nodes below it, one for
\* each of the slots H on their way.
Interposed(g, h, s, H) ==
  /\ s \in DOMAIN g /\ KidsOK(s, H)
  /\ \A f \in g[s] : \E c \in H : StartsWith(f, c) /\ f # c
  /\ DOMAIN h = DOMAIN g \cup H /\ h[s] = H
  /\ \A c \in H : \A f : f \in h[c] <=> f \in g[s] /\ StartsWith(f, c) /\ f # c
  /\ \A q \in DOMAIN g \ ({s} \cup H) : h[q] = g[q]

LEMMA Interpose ==
  ASSUME NEW g, Good(g), NEW h, NEW s, NEW H, Interposed(g, h, s, H)
  PROVE  Good(h) /\ H \cap DOMAIN g = {}
  <1> DEFINE B == {s} \cup H
             F == g[s]
  <1> USE DEF Interposed
  <1>1. /\ ShapeOK(g) /\ Trie(g) /\ DOMAIN g \subseteq Path
        /\ s \in Path /\ Hung(g, s)
    BY DEF Good, ShapeOK
  <1>2. \A c \in H : c \in Path /\ StartsWith(c, s) /\ c # s /\ \A d \in H : Len(d) = Len(c)
    BY DEF KidsOK
  <1>3. \A f \in F : f \in Path /\ StartsWith(f, s) /\ f # s /\ \A e \in F : Len(e) = Len(f)
    BY <1>1, KidFacts
  \* No slot of H is below one of F.
  <1>4. ASSUME NEW c \in H, NEW f \in F, StartsWith(c, f)
        PROVE  FALSE
    <2>1. PICK d \in H : StartsWith(f, d) /\ f # d
      OBVIOUS
    <2>2. StartsWith(c, d) /\ d \in Path /\ Len(c) = Len(d)
      BY <1>2, <1>3, <1>4, <2>1, StartsTrans
    <2>3. c = d
      BY <1>2, <2>2, StartsLen
    <2> QED
      BY <1>2, <1>3, <1>4, <2>1, <2>3, StartsSame
  <1>5. H \cap DOMAIN g = {}
    <2> SUFFICES ASSUME NEW c \in H, c \in DOMAIN g
                 PROVE  FALSE
      OBVIOUS
    <2>1. \E f \in g[s] : StartsWith(c, f)
      BY <1>1, <1>2 DEF Trie
    <2> QED
      BY <1>4, <2>1
  <1>6. ShapeOK(h)
    <2>1. KidsOK(s, h[s])
      OBVIOUS
    <2>2. ASSUME NEW c \in H
          PROVE  KidsOK(c, h[c])
      BY <1>3, <2>2 DEF KidsOK
    <2>3. ASSUME NEW q \in DOMAIN g \ ({s} \cup H)
          PROVE  KidsOK(q, h[q])
      BY <1>1, <2>3 DEF ShapeOK
    <2> QED
      BY <1>1, <1>2, <2>1, <2>2, <2>3 DEF ShapeOK
  <1>7. B \in SUBSET Path /\ F \in SUBSET Path
    BY <1>1, <1>2, <1>3
  <1>8. \A q \in Path : ~StartsWith(q, s) => Same(g, h, q)
    BY <1>1, <1>2, StartsRefl DEF Same
  <1>9. ASSUME NEW f \in F
        PROVE  Hung(g, f) /\ \A q \in Path : StartsWith(q, f) => Same(g, h, q)
    <2>1. Hung(g, f)
      BY DEF Hung
    <2>2. ASSUME NEW q \in Path, StartsWith(q, f)
          PROVE  Same(g, h, q)
      <3>1. q # s
        BY <1>1, <1>3, <2>2, StartsSame
      <3>2. q \notin H
        BY <1>4, <2>2
      <3> QED
        BY <3>1, <3>2 DEF Same
    <2> QED
      BY <2>1, <2>2
  <1>10. ASSUME NEW q \in DOMAIN h, StartsWith(q, s)
         PROVE  q \in B \/ \E f \in F : StartsWith(q, f)
    BY <1>1, <1>10 DEF Trie
  <1>11. ASSUME NEW p \in B \cap DOMAIN h, NEW x \in B \cup F, x # p, StartsWith(x, p)
         PROVE  \E c \in h[p] : StartsWith(x, c)
    <2>1. CASE p = s
      BY <1>2, <1>11, <2>1, StartsRefl
    <2>2. CASE p \in H /\ x \in F
      <3>1. x \in h[p] /\ StartsWith(x, x)
        BY <1>3, <1>11, <2>2, StartsRefl
      <3> QED
        BY <3>1
    <2>3. CASE p \in H /\ x \in H
      BY <1>2, <1>11, <2>3, StartsLen
    <2>4. CASE p \in H /\ x = s
      BY <1>1, <1>2, <1>11, <2>4, StartsSame
    <2> QED
      BY <2>1, <2>2, <2>3, <2>4
  <1>12. ASSUME NEW x \in (B \cup F) \cap DOMAIN h, x # s
         PROVE  Hung(h, x)
    <2>1. CASE x \in H
      BY <2>1 DEF Hung
    <2>2. CASE x \in F
      <3>1. PICK c \in H : StartsWith(x, c) /\ x # c
        BY <2>2
      <3>2. x \in h[c] /\ c \in DOMAIN h
        BY <2>2, <3>1
      <3> QED
        BY <3>2 DEF Hung
    <2> QED
      BY <1>12, <2>1, <2>2
  <1> HIDE DEF B, F
  <1>14. Rebuilt(g, h, s, B, F)
    BY <1>1, <1>7, <1>8, <1>9, <1>10, <1>11, <1>12 DEF Rebuilt
  <1>13. Good(h)
    BY <1>14, <1>6, Splice
  <1> QED
    BY <1>5, <1>13

\* The node at s swallows the nodes its edges lead to, all of them there.
LEMMA Contract ==
  ASSUME NEW g, Good(g), NEW h, ShapeOK(h), NEW s \in DOMAIN g, g[s] \subseteq DOMAIN g,
         DOMAIN h = DOMAIN g \ g[s],
         \A x : x \in h[s] <=> \E c \in g[s] : x \in g[c],
         \A q \in DOMAIN h \ {s} : h[q] = g[q]
  PROVE  Good(h)
  <1> DEFINE F == h[s]
  <1>1. /\ ShapeOK(g) /\ Trie(g) /\ DOMAIN g \subseteq Path
        /\ s \in Path /\ Hung(g, s)
    BY DEF Good, ShapeOK
  <1>2. s \in DOMAIN h
    BY <1>1, KidFacts
  <1>3. \A c \in g[s] : c \in Path /\ StartsWith(c, s) /\ c # s /\ \A d \in g[s] : Len(d) = Len(c)
    BY <1>1, KidFacts
  <1>4. \A f \in F : /\ f \in Path /\ StartsWith(f, s) /\ f # s
                     /\ \E c \in g[s] : f \in g[c] /\ StartsWith(f, c) /\ f # c
    <2> SUFFICES ASSUME NEW f \in F
                 PROVE  /\ f \in Path /\ StartsWith(f, s) /\ f # s
                        /\ \E c \in g[s] : f \in g[c] /\ StartsWith(f, c) /\ f # c
      OBVIOUS
    <2>1. PICK c \in g[s] : f \in g[c]
      OBVIOUS
    <2>2. StartsWith(f, c) /\ f # c
      BY <1>1, <2>1, KidFacts
    <2>3. f \in Path /\ StartsWith(f, s) /\ f # s
      BY <1>2, KidFacts
    <2> QED
      BY <2>1, <2>2, <2>3
  <1>5. ASSUME NEW f \in F
        PROVE  Hung(g, f) /\ \A q \in Path : StartsWith(q, f) => Same(g, h, q)
    <2>1. PICK c \in g[s] : f \in g[c] /\ StartsWith(f, c) /\ f # c
      BY <1>4
    <2>2. Hung(g, f)
      BY <2>1 DEF Hung
    <2>3. ASSUME NEW q \in Path, StartsWith(q, f)
          PROVE  Same(g, h, q)
      <3>1. q # s
        BY <1>1, <1>4, <2>3, StartsSame
      <3>2. ASSUME q \in g[s]
            PROVE  FALSE
        <4>1. StartsWith(q, c) /\ c \in Path /\ f \in Path /\ Len(q) = Len(c)
          BY <1>3, <1>4, <2>1, <2>3, <3>2, StartsTrans
        <4>2. q = c
          BY <4>1, StartsLen
        <4> QED
          BY <2>1, <2>3, <4>1, <4>2, StartsSame
      <3> QED
        BY <3>1, <3>2 DEF Same
    <2> QED
      BY <2>2, <2>3
  <1>6. \A q \in Path : ~StartsWith(q, s) => Same(g, h, q)
    BY <1>1, <1>3, StartsRefl DEF Same
  <1>7. ASSUME NEW q \in DOMAIN h, StartsWith(q, s), q # s
        PROVE  \E f \in F : StartsWith(q, f)
    <2>1. PICK c \in g[s] : StartsWith(q, c)
      BY <1>1, <1>7 DEF Trie
    <2>2. PICK f \in g[c] : StartsWith(q, f)
      BY <1>1, <1>7, <2>1 DEF Trie
    <2> QED
      BY <2>2
  <1>8. {s} \in SUBSET Path /\ F \in SUBSET Path
    BY <1>1, <1>4
  <1>9. ASSUME NEW p \in {s} \cap DOMAIN h, NEW x \in {s} \cup F, x # p, StartsWith(x, p)
        PROVE  \E c \in h[p] : StartsWith(x, c)
    <2>1. p = s /\ x \in h[p] /\ x \in Path
      BY <1>4, <1>9
    <2> QED
      BY <2>1, StartsRefl
  <1>10. ASSUME NEW x \in ({s} \cup F) \cap DOMAIN h, x # s
         PROVE  Hung(h, x)
    BY <1>2, <1>10 DEF Hung
  <1>11. \A q \in DOMAIN h : StartsWith(q, s) => q \in {s} \/ \E f \in F : StartsWith(q, f)
    BY <1>7
  <1> HIDE DEF F
  <1>12. Rebuilt(g, h, s, {s}, F)
    BY <1>1, <1>5, <1>6, <1>8, <1>9, <1>10, <1>11 DEF Rebuilt
  <1> QED
    BY <1>12, Splice

-----------------------------------------------------------------------------
(***************************************************************************)
(* Every operation of ArtTree keeps the tree a trie.                       *)
(***************************************************************************)

-----------------------------------------------------------------------------
(* Byte sequences.                                                         *)

LEMMA ConcatAssoc ==
  ASSUME NEW a \in Path, NEW b \in Path, NEW c \in Path
  PROVE  a \o (b \o c) = (a \o b) \o c
  BY ConcatAssociative DEF Path

LEMMA ConcatCancel ==
  ASSUME NEW s \in Path, NEW x \in Path, NEW y \in Path, s \o x = s \o y
  PROVE  x = y
  <1>1. Len(s) \in Nat /\ Len(x) \in Nat /\ Len(y) \in Nat
    BY PathFacts
  <1>2. /\ Len(s \o x) = Len(s) + Len(x)
        /\ \A i \in 1 .. Len(s) + Len(x) :
             (s \o x)[i] = IF i <= Len(s) THEN s[i] ELSE x[i - Len(s)]
    BY ConcatFacts
  <1>3. /\ Len(s \o y) = Len(s) + Len(y)
        /\ \A i \in 1 .. Len(s) + Len(y) :
             (s \o y)[i] = IF i <= Len(s) THEN s[i] ELSE y[i - Len(s)]
    BY ConcatFacts
  <1>4. Len(x) = Len(y)
    BY <1>1, <1>2, <1>3
  <1>5. ASSUME NEW i \in 1 .. Len(x)
        PROVE  x[i] = y[i]
    <2>1. /\ Len(s) + i \in 1 .. Len(s) + Len(x) /\ Len(s) + i \in 1 .. Len(s) + Len(y)
          /\ ~(Len(s) + i <= Len(s)) /\ (Len(s) + i) - Len(s) = i
      BY <1>1, <1>4
    <2>2. (s \o x)[Len(s) + i] = x[i] /\ (s \o y)[Len(s) + i] = y[i]
      BY <1>2, <1>3, <2>1
    <2> QED
      BY <2>2
  <1> QED
    BY <1>4, <1>5, SamePath

\* A path in two parts, and a byte more of it.
LEMMA FrontBack ==
  ASSUME NEW s \in Path, NEW c \in 0 .. Len(s)
  PROVE  s = Front(s, c) \o Back(s, c)
  <1>1. Len(s) \in Nat /\ s \in Seq(Byte)
    BY PathFacts DEF Path
  <1>2. 1 \in 1 .. Len(s) + 1 /\ c \in 1 - 1 .. Len(s) /\ Len(s) \in c .. Len(s)
    BY <1>1
  <1>3. SubSeq(s, 1, c) \o SubSeq(s, c + 1, Len(s)) = SubSeq(s, 1, Len(s))
    BY <1>1, <1>2, ConcatAdjacentSubSeq
  <1>4. SubSeq(s, 1, Len(s)) = s
    <2>1. Len(s) \in 0 .. Len(s)
      BY <1>1
    <2>2. /\ Front(s, Len(s)) \in Path /\ Len(Front(s, Len(s))) = Len(s)
          /\ \A i \in 1 .. Len(s) : Front(s, Len(s))[i] = s[i]
      BY <2>1, FrontFacts
    <2> QED
      BY <2>2, SamePath DEF Front
  <1> QED
    BY <1>3, <1>4 DEF Front, Back

LEMMA FrontNext ==
  ASSUME NEW s \in Path, NEW c \in 0 .. Len(s), c < Len(s)
  PROVE  /\ c + 1 \in 1 .. Len(s) /\ c + 1 \in 0 .. Len(s)
         /\ <<s[c + 1]>> \in Path /\ Len(<<s[c + 1]>>) = 1
         /\ Front(s, c) \in Path /\ Front(s, c + 1) \in Path
         /\ Front(s, c + 1) = Front(s, c) \o <<s[c + 1]>>
  <1>1. Len(s) \in Nat /\ s \in Seq(Byte)
    BY PathFacts DEF Path
  <1>2. c + 1 \in 1 .. Len(s) /\ c + 1 \in 0 .. Len(s)
    BY <1>1
  <1>3. <<s[c + 1]>> \in Path /\ Len(<<s[c + 1]>>) = 1
    BY <1>2, OneByte
  <1>4. Front(s, c) \in Path /\ Front(s, c + 1) \in Path
    BY <1>2, FrontFacts
  <1>5. 1 \in 1 .. Len(s) + 1 /\ c \in 1 - 1 .. Len(s) /\ c + 1 \in c .. Len(s)
    BY <1>1, <1>2
  <1>6. SubSeq(s, 1, c) \o SubSeq(s, c + 1, c + 1) = SubSeq(s, 1, c + 1)
    BY <1>1, <1>5, ConcatAdjacentSubSeq
  <1>7. SubSeq(s, c + 1, c + 1) = <<s[c + 1]>>
    <2>1. c + 1 \in 1 .. Len(s) + 1 /\ c + 1 \in (c + 1) - 1 .. Len(s)
      BY <1>1, <1>2
    <2> DEFINE m == c + 1
    <2> HIDE DEF m
    <2>2. m \in 1 .. Len(s) + 1 /\ m \in m - 1 .. Len(s) /\ m \in Nat
      BY <1>2, <2>1 DEF m
    <2>3. /\ SubSeq(s, m, m) \in Path
          /\ Len(SubSeq(s, m, m)) = m - m + 1
          /\ \A i \in 1 .. m - m + 1 : SubSeq(s, m, m)[i] = s[m + i - 1]
      BY <2>2, SliceFacts
    <2>4. Len(SubSeq(s, m, m)) = 1 /\ SubSeq(s, m, m)[1] = s[m]
      BY <2>2, <2>3
    <2>5. <<s[m]>> \in Path /\ Len(<<s[m]>>) = 1 /\ <<s[m]>>[1] = s[m]
      BY <1>3 DEF m
    <2>6. \A i \in 1 .. 1 : SubSeq(s, m, m)[i] = <<s[m]>>[i]
      <3>1. \A i \in 1 .. 1 : i = 1
        OBVIOUS
      <3> QED
        BY <2>4, <2>5, <3>1, Zenon
    <2>7. SubSeq(s, m, m) = <<s[m]>>
      BY <2>3, <2>4, <2>5, <2>6, SamePath
    <2> QED
      BY <2>7 DEF m
  <1> QED
    BY <1>2, <1>3, <1>4, <1>6, <1>7 DEF Front

LEMMA RestJoin ==
  ASSUME NEW k \in Path, NEW p \in Path, StartsWith(k, p)
  PROVE  Rest(k, p) \in Path /\ p \o Rest(k, p) = k
  <1>1. Len(p) \in Nat /\ Len(k) \in Nat /\ Len(p) <= Len(k)
    BY PathFacts, StartsWithIff
  <1> DEFINE x == Rest(k, p)
  <1>2. x \in Path /\ Len(x) = Len(k) - Len(p)
    BY <1>1, RestFacts
  <1>3. StartsWith(k, p \o x)
    BY <1>2, PassPrefix, StartsRefl
  <1> HIDE DEF x
  <1>4. p \o x \in Path /\ Len(p \o x) = Len(p) + Len(x)
    BY <1>2, StartsConcat
  <1>5. Len(p \o x) = Len(k)
    BY <1>1, <1>2, <1>4
  <1>6. p \o x = k
    BY <1>3, <1>4, <1>5, StartsLen
  <1> QED
    BY <1>2, <1>6 DEF x

-----------------------------------------------------------------------------
(* The shape of a tree.                                                    *)

\* The slots that a node x at slot p leads to.
KidsOf(p, x) ==
  CASE x.kind = "leaf"         -> {}
    [] x.kind = "pn"           -> {p \o x.pfx}
    [] x.kind \in RouterKinds  -> {(p \o x.pfx) \o e : e \in x.edges}

Kids(t) == [p \in DOMAIN t |-> KidsOf(p, t[p])]

LEMMA KidsOfIs ==
  ASSUME NEW p, NEW x
  PROVE  /\ x.kind = "leaf" => KidsOf(p, x) = {}
         /\ x.kind = "pn" => KidsOf(p, x) = {p \o x.pfx}
         /\ x.kind \in RouterKinds => KidsOf(p, x) = {(p \o x.pfx) \o e : e \in x.edges}
  <1>1. "leaf" \notin RouterKinds /\ "pn" \notin RouterKinds
    BY DEF RouterKinds, CnodeKinds
  <1> QED
    BY <1>1 DEF KidsOf

LEMMA ChildrenAre ==
  ASSUME NEW t, NEW p
  PROVE  Children(t, p) = KidsOf(p, t[p])
  BY DEF Children, KidsOf, IsLeaf, IsPn, IsRouter, At

LEMMA KidsIs ==
  ASSUME NEW t
  PROVE  DOMAIN Kids(t) = DOMAIN t /\ \A p \in DOMAIN t : Kids(t)[p] = KidsOf(p, t[p])
  BY DEF Kids

\* Edges of one length lead to slots of one length.
LEMMA EdgeKidsOK ==
  ASSUME NEW p \in Path, NEW x \in Path, NEW E \in SUBSET Path, NEW m \in Nat \ {0},
         \A e \in E : Len(e) = m
  PROVE  KidsOK(p, {(p \o x) \o e : e \in E})
  <1>1. p \o x \in Path /\ StartsWith(p \o x, p)
    BY StartsConcat
  <1> DEFINE a == p \o x
  <1> HIDE DEF a
  <1>2. a \in Path /\ StartsWith(a, p) /\ Len(a) \in Nat /\ Len(p) \in Nat
    BY <1>1, PathFacts DEF a
  <1>3. ASSUME NEW e \in E
        PROVE  a \o e \in Path /\ StartsWith(a \o e, p) /\ a \o e # p /\ Len(a \o e) = Len(a) + m
    <2>1. e # <<>> /\ e \in Path /\ Len(e) = m
      BY EmptyPath
    <2>2. a \o e \in Path /\ StartsWith(a \o e, a) /\ Len(a \o e) = Len(a) + m /\ a \o e # a
      BY <1>2, <2>1, StartsConcat
    <2>3. StartsWith(a \o e, p)
      BY <1>2, <2>2, StartsTrans
    <2>4. a \o e # p
      BY <1>2, <2>2, StartsLen
    <2> QED
      BY <2>2, <2>3, <2>4
  <1>4. KidsOK(p, {a \o e : e \in E})
    BY <1>3 DEF KidsOK
  <1> QED
    BY <1>4 DEF a

LEMMA NodeKidsOK ==
  ASSUME NEW p \in Path, NEW x, NodeOK(x)
  PROVE  KidsOK(p, KidsOf(p, x))
  <1>1. CASE x.kind = "leaf"
    BY <1>1, KidsOfIs DEF KidsOK
  <1>2. CASE x.kind = "pn"
    <2>1. x.pfx \in Path /\ x.pfx # <<>>
      BY <1>2, NodeFields
    <2>2. p \o x.pfx \in Path /\ StartsWith(p \o x.pfx, p) /\ p \o x.pfx # p
      BY <2>1, StartsConcat
    <2>3. KidsOf(p, x) = {p \o x.pfx}
      BY <1>2, KidsOfIs
    <2> QED
      BY <2>2, <2>3 DEF KidsOK
  <1>3. CASE x.kind \in RouterKinds
    <2>1. x.pfx \in Path /\ x.edges \in SUBSET Path /\ \A e \in x.edges : Len(e) = StemLen(x.kind)
      BY <1>3, NodeFields
    <2>2. StemLen(x.kind) \in Nat \ {0}
      BY DEF StemLen
    <2>3. KidsOf(p, x) = {(p \o x.pfx) \o e : e \in x.edges}
      BY <1>3, KidsOfIs
    <2> QED
      BY <2>1, <2>2, <2>3, EdgeKidsOK
  <1> QED
    BY <1>1, <1>2, <1>3, NodeFields

LEMMA KidsShapeOK ==
  ASSUME NEW t, TreeOK(t)
  PROVE  ShapeOK(Kids(t))
  BY NodeKidsOK, KidsIs DEF TreeOK, ShapeOK

LEMMA UpdIs ==
  ASSUME NEW g, NEW p, NEW x
  PROVE  /\ DOMAIN Upd(g, p, x) = DOMAIN g \cup {p}
         /\ Upd(g, p, x)[p] = x
         /\ \A q \in DOMAIN g : q # p => Upd(g, p, x)[q] = g[q]
  BY DEF Upd

LEMMA OverIs ==
  ASSUME NEW g, NEW u
  PROVE  /\ DOMAIN Over(g, u) = DOMAIN g \cup DOMAIN u
         /\ \A q \in DOMAIN u : Over(g, u)[q] = u[q]
         /\ \A q \in DOMAIN g \ DOMAIN u : Over(g, u)[q] = g[q]
  BY DEF Over

-----------------------------------------------------------------------------
(* The trees that the actions build.                                       *)

\* A slot that an edge is to lead to is free before the edge is there.
LEMMA FreeKid ==
  ASSUME NEW g, Good(g), NEW p \in DOMAIN g, NEW K, KidsOK(p, K), g[p] \subseteq K,
         NEW c \in K, c \notin g[p]
  PROVE  c \notin DOMAIN g
  <1> SUFFICES ASSUME c \in DOMAIN g
               PROVE  FALSE
    OBVIOUS
  <1>1. Trie(g) /\ c \in Path /\ StartsWith(c, p) /\ c # p
    BY DEF Good, KidsOK
  <1>2. PICK d \in g[p] : StartsWith(c, d)
    BY <1>1 DEF Trie
  <1>3. d \in Path /\ Len(d) = Len(c)
    BY <1>2 DEF KidsOK
  <1>4. c = d
    BY <1>1, <1>2, <1>3, StartsLen
  <1> QED
    BY <1>2, <1>4

\* Trees with the same edges have the same shape.
LEMMA SameShape ==
  ASSUME NEW t, Good(Kids(t)), NEW u, DOMAIN u = DOMAIN t,
         \A q \in DOMAIN t : KidsOf(q, u[q]) = KidsOf(q, t[q])
  PROVE  Kids(u) = Kids(t) /\ Good(Kids(u))
  <1>1. Kids(u) = Kids(t)
    BY DEF Kids
  <1> QED
    BY <1>1

LEMMA HangShape ==
  ASSUME NEW t, TreeOK(t), Good(Kids(t)), NEW s \in Path, Hung(Kids(t), s), s \notin DOMAIN t,
         NEW x, NodeOK(x)
  PROVE  TreeOK(Upd(t, s, x)) /\ Good(Kids(Upd(t, s, x)))
  <1>1. TreeOK(Upd(t, s, x)) /\ ShapeOK(Kids(Upd(t, s, x)))
    BY UpdOK, KidsShapeOK
  <1> DEFINE g == Kids(t)
             h == Kids(Upd(t, s, x))
  <1>2. DOMAIN g = DOMAIN t
    BY KidsIs
  <1>3. DOMAIN h = DOMAIN g \cup {s} /\ \A q \in DOMAIN g : h[q] = g[q]
    <2> DEFINE u == Upd(t, s, x)
    <2>1. DOMAIN u = DOMAIN t \cup {s} /\ \A q \in DOMAIN t : u[q] = t[q]
      BY UpdIs
    <2> HIDE DEF u
    <2>2. DOMAIN Kids(u) = DOMAIN u /\ \A q \in DOMAIN u : Kids(u)[q] = KidsOf(q, u[q])
      BY KidsIs
    <2>3. \A q \in DOMAIN t : Kids(t)[q] = KidsOf(q, t[q])
      BY KidsIs
    <2> QED
      BY <1>2, <2>1, <2>2, <2>3 DEF u
  <1> HIDE DEF g, h
  <1>4. Good(h)
    BY <1>1, <1>2, <1>3, HangNode DEF g, h
  <1> QED
    BY <1>1, <1>4 DEF h

LEMMA LinkShape ==
  ASSUME NEW t, TreeOK(t), Good(Kids(t)), NEW p \in DOMAIN t, t[p].kind \in RouterKinds,
         req.val \in Values,
         NEW e \in Path, Len(e) = StemLen(t[p].kind), e \notin t[p].edges, NEW suf \in Path
  PROVE  Good(Kids(Link(t, p, e, suf))) /\ At(t, p) \o e \notin DOMAIN t
  <1> DEFINE E == t[p].edges \cup {e}
             u == [t EXCEPT ![p] = [t[p] EXCEPT !.edges = E]]
             a == p \o t[p].pfx
             s == a \o e
             K == {a \o f : f \in E}
  <1>1. NodeOK(t[p]) /\ p \in Path
    BY DEF TreeOK
  <1>2. /\ t[p].edges \subseteq Path /\ \A f \in t[p].edges : Len(f) = StemLen(t[p].kind)
        /\ t[p].pfx \in Path /\ t[p] \in RouterNode
    BY <1>1, NodeFields
  <1>3. E \in SUBSET Path /\ \A f \in E : Len(f) = StemLen(t[p].kind)
    BY <1>2
  <1>4. NodeOK([t[p] EXCEPT !.edges = E])
    <2> HIDE DEF E
    <2> QED
      BY <1>3, EdgesOK
  <1>5. TreeOK(u) /\ DOMAIN u = DOMAIN t
    BY <1>4, ExceptOK
  <1>6. KidsOf(p, t[p]) = {a \o f : f \in t[p].edges}
    BY KidsOfIs
  <1>7. KidsOf(p, u[p]) = K
    <2>1. [t[p] EXCEPT !.edges = E] = Router(t[p].kind, t[p].pfx, E, t[p].term)
      BY <1>2, RouterIs
    <2>2. u[p] = Router(t[p].kind, t[p].pfx, E, t[p].term)
      BY <2>1
    <2>3. u[p].kind = t[p].kind /\ u[p].pfx = t[p].pfx /\ u[p].edges = E
      BY <2>2 DEF Router
    <2> HIDE DEF u, E
    <2>4. KidsOf(p, u[p]) = {(p \o u[p].pfx) \o f : f \in u[p].edges}
      BY <2>3, KidsOfIs
    <2> QED
      BY <2>3, <2>4
  <1>8. \A q \in DOMAIN t : q # p => KidsOf(q, u[q]) = KidsOf(q, t[q])
    OBVIOUS
  <1>9. a \in Path /\ s \in Path
    BY <1>1, <1>2, ConcatFacts
  <1>10. s \in K /\ s \notin KidsOf(p, t[p])
    <2>1. ASSUME NEW f \in t[p].edges, s = a \o f
          PROVE  FALSE
      <3>1. f \in Path
        BY <1>2
      <3>2. e = f
        BY <1>9, <2>1, <3>1, ConcatCancel
      <3> QED
        BY <3>2
    <2> QED
      BY <1>6, <2>1
  <1>11. KidsOK(p, K)
    <2>1. StemLen(t[p].kind) \in Nat \ {0}
      BY DEF StemLen
    <2> HIDE DEF E
    <2> QED
      BY <1>1, <1>2, <1>3, <2>1, EdgeKidsOK
  <1>12. KidsOf(p, t[p]) \subseteq K
    BY <1>6
  <1> HIDE DEF u, s, K
  <1>13. s \notin DOMAIN t
    <2>1. p \in DOMAIN Kids(t) /\ Kids(t)[p] = KidsOf(p, t[p]) /\ DOMAIN Kids(t) = DOMAIN t
      BY KidsIs
    <2> QED
      BY <1>10, <1>11, <1>12, <2>1, FreeKid
  <1>14. Good(Kids(u)) /\ Hung(Kids(u), s)
    <2>1. DOMAIN Kids(u) = DOMAIN Kids(t) /\ ShapeOK(Kids(u))
      BY <1>5, KidsIs, KidsShapeOK
    <2>2. \A q \in DOMAIN Kids(t) : Kids(t)[q] \subseteq Kids(u)[q]
      <3> SUFFICES ASSUME NEW q \in DOMAIN t
                   PROVE  KidsOf(q, t[q]) \subseteq KidsOf(q, u[q])
        BY <1>5, KidsIs
      <3> QED
        BY <1>7, <1>8, <1>12
    <2>3. Good(Kids(u))
      BY <2>1, <2>2, MoreEdges
    <2>4. p \in DOMAIN Kids(u) /\ s \in Kids(u)[p]
      BY <1>5, <1>7, <1>10, KidsIs
    <2> QED
      BY <2>3, <2>4 DEF Hung
  <1>15. NodeOK(Leaf(suf, req.val))
    BY LeafOK
  <1>16. Link(t, p, e, suf) = Upd(u, s, Leaf(suf, req.val))
    BY DEF Link, At, u, s
  <1>17. Good(Kids(Link(t, p, e, suf)))
    BY <1>5, <1>9, <1>13, <1>14, <1>15, <1>16, HangShape
  <1> QED
    BY <1>13, <1>17 DEF At, s

\* A node can be put at s.
Free(t, s) == Hung(Kids(t), s) /\ s \notin DOMAIN t

\* u is t with one leaf more, if any, and that at s.
WithLeaf(t, u, some, s) ==
  /\ TreeOK(u) /\ Good(Kids(u)) /\ DOMAIN t \subseteq DOMAIN u
  /\ \A q \in DOMAIN u : q \in DOMAIN t \/ (some /\ q = s)
  /\ \A q \in DOMAIN t : Kids(u)[q] = Kids(t)[q]

\* The leaf of the new key at a place that is free.
LEMMA ForkLeafShape ==
  ASSUME NEW t, TreeOK(t), Good(Kids(t)), NEW p \in Path, NEW r \in Path, NEW v \in Values,
         NEW c \in 0 .. Len(r),
         c < Len(r) => Free(t, p \o Front(r, c + 1))
  PROVE  WithLeaf(t, Over(t, ForkLeaf(p, r, v, c)), c < Len(r), p \o Front(r, c + 1))
  <1> DEFINE f == ForkLeaf(p, r, v, c)
             u == Over(t, f)
             s == p \o Front(r, c + 1)
  <1>1. TreeOK(f)
    BY ForkLeafOK
  <1>2. DOMAIN f = IF c < Len(r) THEN {s} ELSE {}
    BY DEF ForkLeaf
  <1>3. c < Len(r) => s \in Path
    <2>1. ASSUME c < Len(r)
          PROVE  Front(r, c + 1) \in Path
      BY <2>1, FrontNext
    <2> QED
      BY <2>1, ConcatFacts
  <1> HIDE DEF f, s
  <1>4. /\ TreeOK(u) /\ DOMAIN u = DOMAIN t \cup DOMAIN f
        /\ \A q \in DOMAIN t \ DOMAIN f : u[q] = t[q]
    BY <1>1, OverOK
  <1> HIDE DEF u
  <1>5. DOMAIN t \cap DOMAIN f = {}
    BY <1>2 DEF s, Free
  <1>6. /\ DOMAIN Kids(u) = DOMAIN Kids(t) \cup DOMAIN f /\ ShapeOK(Kids(u))
        /\ \A q \in DOMAIN Kids(t) : Kids(u)[q] = Kids(t)[q]
    <2>1. DOMAIN Kids(u) = DOMAIN u /\ \A q \in DOMAIN u : Kids(u)[q] = KidsOf(q, u[q])
      BY KidsIs
    <2>2. DOMAIN Kids(t) = DOMAIN t /\ \A q \in DOMAIN t : Kids(t)[q] = KidsOf(q, t[q])
      BY KidsIs
    <2>3. ShapeOK(Kids(u))
      BY <1>4, KidsShapeOK
    <2> QED
      BY <1>4, <1>5, <2>1, <2>2, <2>3
  <1>7. Good(Kids(u))
    <2>1. CASE c < Len(r)
      <3>1. Hung(Kids(t), s) /\ s \notin DOMAIN Kids(t)
        BY <2>1, KidsIs DEF s, Free
      <3>2. DOMAIN f = {s}
        BY <1>2, <2>1
      <3> QED
        BY <1>3, <1>6, <2>1, <3>1, <3>2, HangNode
    <2>2. CASE ~(c < Len(r))
      <3>1. DOMAIN Kids(u) = DOMAIN Kids(t)
        BY <1>2, <1>6, <2>2
      <3> QED
        BY <1>6, <3>1, MoreEdges
    <2> QED
      BY <2>1, <2>2
  <1>8. \A q \in DOMAIN t : Kids(u)[q] = Kids(t)[q]
    BY <1>6, KidsIs
  <1>9. WithLeaf(t, u, c < Len(r), s)
    BY <1>2, <1>4, <1>7, <1>8 DEF WithLeaf
  <1> QED
    BY <1>9 DEF u, f, s

\* u has a router whose edges E leave from a, those that are not in K to
\* places that are free.
Forked(u, a, E, K) ==
  /\ TreeOK(u) /\ Good(Kids(u))
  /\ \A e \in E : Hung(Kids(u), a \o e) /\ (a \o e \notin K => a \o e \notin DOMAIN u)

\* A fork: a router takes the place p, its shared bytes in its own prefix or in
\* a prefix node above it.
LEMMA ForkShape ==
  ASSUME NEW t, TreeOK(t), NEW p \in Path, p \notin DOMAIN t,
         NEW K, Good(Upd(Kids(t), p, K)),
         NEW common \in Path, NEW E \in SUBSET Path, \A e \in E : Len(e) = 1,
         NEW tm \in Values \cup {NoVal},
         \A k \in K : \E e \in E : k = (p \o common) \o e
  PROVE  Forked(Over(t, ApplyPrefix(p, common, Router("setlist", <<>>, E, tm))),
                p \o common, E, K)
  <1> DEFINE r == Router("setlist", <<>>, E, tm)
             f == ApplyPrefix(p, common, r)
             u == Over(t, f)
             a == p \o common
             L == {a \o e : e \in E}
             g0 == Upd(Kids(t), p, K)
             g == Upd(Kids(t), p, L)
             h == Kids(u)
  <1>1. TreeOK(f)
    BY ApplyPrefixOK
  <1>2. /\ TreeOK(u) /\ DOMAIN u = DOMAIN t \cup DOMAIN f
        /\ \A q \in DOMAIN f : u[q] = f[q]
        /\ \A q \in DOMAIN t \ DOMAIN f : u[q] = t[q]
    <2> HIDE DEF f
    <2>1. TreeOK(u)
      BY <1>1, OverOK
    <2> QED
      BY <2>1 DEF Over
  <1>3. /\ a \in Path /\ StartsWith(a, p) /\ (common # <<>> => a # p)
        /\ p \o common = a
    BY StartsConcat
  <1>4. \A e \in E : /\ a \o e \in Path /\ StartsWith(a \o e, a) /\ a \o e # a
                     /\ a \o e \in L
    <2> SUFFICES ASSUME NEW e \in E
                 PROVE  /\ a \o e \in Path /\ StartsWith(a \o e, a) /\ a \o e # a
                        /\ a \o e \in L
      OBVIOUS
    <2>1. e \in Path /\ Len(e) = 1
      OBVIOUS
    <2>2. e # <<>>
      BY <2>1, EmptyPath
    <2> HIDE DEF a
    <2> QED
      BY <1>3, <2>1, <2>2, StartsConcat
  <1>5. KidsOK(p, L)
    <2>1. 1 \in Nat \ {0}
      OBVIOUS
    <2> QED
      BY <2>1, EdgeKidsOK
  <1>6. /\ DOMAIN Kids(t) = DOMAIN t /\ \A q \in DOMAIN t : Kids(t)[q] = KidsOf(q, t[q])
        /\ ShapeOK(Kids(t))
    BY KidsIs, KidsShapeOK
  <1>7. /\ DOMAIN g0 = DOMAIN t \cup {p} /\ g0[p] = K
        /\ \A q \in DOMAIN t : g0[q] = Kids(t)[q]
    BY <1>6 DEF Upd
  <1>8. /\ DOMAIN g = DOMAIN t \cup {p} /\ g[p] = L
        /\ \A q \in DOMAIN t : g[q] = Kids(t)[q]
    <2> HIDE DEF L
    <2> QED
      BY <1>6 DEF Upd
  <1> HIDE DEF r, f, u, a, g0, g, h
  <1>9. \A k \in L : k \notin K => k \notin DOMAIN g0
    <2>1. Good(g0) /\ p \in DOMAIN g0 /\ g0[p] \subseteq L
      BY <1>3, <1>7 DEF g0, a
    <2> QED
      BY <1>5, <1>7, <2>1, FreeKid
  <1>10. Good(g)
    <2>1. Good(g0) /\ DOMAIN g = DOMAIN g0
      BY <1>7, <1>8 DEF g0
    <2>2. ShapeOK(g)
      BY <1>5, <1>6, <1>8 DEF ShapeOK
    <2>3. \A q \in DOMAIN g0 : g0[q] \subseteq g[q]
      BY <1>7, <1>8 DEF a
    <2> QED
      BY <2>1, <2>2, <2>3, MoreEdges
  <1>11. DOMAIN h = DOMAIN u /\ \A q \in DOMAIN u : h[q] = KidsOf(q, u[q])
    BY KidsIs DEF h
  <1>12. "setlist" \in RouterKinds
    BY DEF RouterKinds
  <1>13. CASE Len(common) <= PrefixCap
    <2> DEFINE x == Router("setlist", common, E, tm)
    <2>1. f = [q \in {p} |-> x]
      BY <1>13 DEF f, ApplyPrefix, Router, r
    <2>2. DOMAIN u = DOMAIN t \cup {p} /\ u[p] = x /\ \A q \in DOMAIN t : u[q] = t[q]
      BY <1>2, <2>1
    <2>3. KidsOf(p, x) = L
      <3>1. x.kind = "setlist" /\ x.pfx = common /\ x.edges = E
        BY DEF Router
      <3> HIDE DEF x
      <3>2. KidsOf(p, x) = {(p \o x.pfx) \o e : e \in x.edges}
        BY <1>12, <3>1, KidsOfIs
      <3> QED
        BY <3>1, <3>2 DEF a
    <2> HIDE DEF x
    <2>4. DOMAIN h = DOMAIN g /\ h[p] = L /\ \A q \in DOMAIN g : h[q] = g[q]
      BY <1>6, <1>8, <1>11, <2>2, <2>3
    <2>5. ShapeOK(h)
      BY <1>2, KidsShapeOK DEF h
    <2>6. Good(h)
      BY <1>10, <2>4, <2>5, MoreEdges
    <2>7. \A k \in L : Hung(h, k) /\ (k \notin K => k \notin DOMAIN u)
      BY <1>7, <1>8, <1>9, <2>2, <2>4 DEF Hung
    <2> QED
      BY <1>2, <1>4, <2>6, <2>7 DEF h, u, f, r, a, Forked
  <1>14. CASE ~(Len(common) <= PrefixCap)
    <2>1. common # <<>>
      BY <1>14, EmptyPath, CapAssumption
    <2>2. f = [q \in {p, a} |-> IF q = p THEN Pn(common) ELSE r]
      BY <1>14 DEF f, ApplyPrefix, a
    <2>3. /\ DOMAIN u = (DOMAIN t \cup {p}) \cup {a} /\ u[p] = Pn(common) /\ u[a] = r
          /\ \A q \in DOMAIN t \ {a} : u[q] = t[q]
      BY <1>2, <1>3, <2>1, <2>2
    <2>4. KidsOf(p, Pn(common)) = {a}
      <3>1. Pn(common).kind = "pn" /\ Pn(common).pfx = common
        BY DEF Pn
      <3> QED
        BY <3>1, KidsOfIs DEF a
    <2>5. KidsOf(a, r) = L
      <3>1. r.kind = "setlist" /\ r.pfx = <<>> /\ r.edges = E
        BY DEF Router, r
      <3>2. KidsOf(a, r) = {(a \o r.pfx) \o e : e \in r.edges}
        BY <1>12, <3>1, KidsOfIs
      <3>3. a \o <<>> = a
        BY <1>3, ConcatEmpty
      <3> QED
        BY <3>1, <3>2, <3>3
    <2>6. /\ DOMAIN h = DOMAIN g \cup {a} /\ h[p] = {a} /\ h[a] = L
          /\ \A q \in DOMAIN g \ ({p} \cup {a}) : h[q] = g[q]
      BY <1>6, <1>8, <1>11, <2>3, <2>4, <2>5
    <2>7. KidsOK(p, {a})
      BY <1>3, <2>1 DEF KidsOK
    <2>8. \A k \in g[p] : \E c \in {a} : StartsWith(k, c) /\ k # c
      BY <1>4, <1>8
    <2>9. \A c \in {a} : \A k : k \in h[c] <=> k \in g[p] /\ StartsWith(k, c) /\ k # c
      <3>1. \A k \in L : StartsWith(k, a) /\ k # a
        BY <1>4
      <3> HIDE DEF L
      <3> QED
        BY <1>8, <2>6, <3>1
    <2>10. p \in DOMAIN g
      BY <1>8
    <2>11. Good(h)
      <3> HIDE DEF g, h
      <3>1. Interposed(g, h, p, {a})
        BY <2>6, <2>7, <2>8, <2>9, <2>10 DEF Interposed
      <3> QED
        BY <1>10, <3>1, Interpose
    <2>12. \A k \in L : Hung(h, k) /\ (k \notin K => k \notin DOMAIN u)
      <3>1. \A k \in L : k # a
        BY <1>4
      <3> HIDE DEF L
      <3>2. \A k \in L : Hung(h, k)
        BY <2>6 DEF Hung
      <3> QED
        BY <1>7, <1>9, <2>3, <3>1, <3>2
    <2> QED
      BY <1>2, <1>4, <2>11, <2>12 DEF h, u, f, r, a, Forked
  <1> QED
    BY <1>13, <1>14

LEMMA CompactShape ==
  ASSUME NEW t, Good(Kids(t)), NEW p, NEW fits
  PROVE  Good(Kids(InlineCompact(t, p, fits))) /\ Kids(InlineCompact(t, p, fits)) = Kids(t)
  <1>1. CASE InlineChildren /\ fits
    <2> DEFINE u == [q \in DOMAIN t |-> IF q \in Children(t, p) /\ IsValuePtr(t[q])
                                        THEN [t[q] EXCEPT !.inl = TRUE] ELSE t[q]]
    <2>1. InlineCompact(t, p, fits) = u
      BY <1>1 DEF InlineCompact
    <2>2. ASSUME NEW q \in DOMAIN t
          PROVE  KidsOf(q, u[q]) = KidsOf(q, t[q])
      <3>1. CASE u[q] = t[q]
        BY <3>1
      <3>2. CASE IsValuePtr(t[q]) /\ u[q] = [t[q] EXCEPT !.inl = TRUE]
        <4>1. t[q].kind = "leaf" /\ [t[q] EXCEPT !.inl = TRUE].kind = t[q].kind
          BY <3>2 DEF IsValuePtr
        <4> HIDE DEF u
        <4> QED
          BY <3>2, <4>1, KidsOfIs
      <3> QED
        BY <3>1, <3>2
    <2>3. DOMAIN u = DOMAIN t
      OBVIOUS
    <2> HIDE DEF u
    <2> QED
      BY <2>1, <2>2, <2>3, SameShape
  <1>2. CASE ~(InlineChildren /\ fits)
    BY <1>2 DEF InlineCompact
  <1> QED
    BY <1>1, <1>2

\* The slot of what goes on with s below a fork after c bytes of it.
LEMMA ForkEdge ==
  ASSUME NEW p \in Path, NEW s \in Path, NEW c \in 0 .. Len(s), c < Len(s)
  PROVE  /\ p \o Front(s, c + 1) = (p \o Front(s, c)) \o <<s[c + 1]>>
         /\ p \o Front(s, c + 1) \in Path /\ p \o Front(s, c) \in Path
         /\ <<s[c + 1]>> \in Path /\ Len(<<s[c + 1]>>) = 1
  <1>1. /\ <<s[c + 1]>> \in Path /\ Len(<<s[c + 1]>>) = 1
        /\ Front(s, c) \in Path /\ Front(s, c + 1) \in Path
        /\ Front(s, c + 1) = Front(s, c) \o <<s[c + 1]>>
    BY FrontNext
  <1> DEFINE a == Front(s, c)
             b == <<s[c + 1]>>
  <1> HIDE DEF a, b
  <1>2. p \o (a \o b) = (p \o a) \o b
    BY <1>1, ConcatAssoc DEF a, b
  <1>3. p \o a \in Path /\ p \o Front(s, c + 1) \in Path
    BY <1>1, ConcatFacts DEF a
  <1> QED
    BY <1>1, <1>2, <1>3 DEF a, b

LEMMA HungStays ==
  ASSUME NEW t, NEW u, DOMAIN t \subseteq DOMAIN u,
         \A q \in DOMAIN t : Kids(t)[q] \subseteq Kids(u)[q],
         NEW s, Hung(Kids(t), s)
  PROVE  Hung(Kids(u), s)
  BY KidsIs DEF Hung

LEMMA SplitLeafShape ==
  ASSUME TreeOK(tree), Good(Kids(tree)), slot \in DOMAIN tree, nd.kind = "leaf", R \in Path,
         req.val \in Values, NEW fits
  PROVE  Good(Kids(SplitLeafTree(fits)))
  <1> DEFINE S        == nd.suf
             c        == Lcp(S, R)
             common   == Front(R, c)
             oldEdges == IF c < Len(S) THEN {<<S[c + 1]>>} ELSE {}
             oldTerm  == IF c = Len(S) THEN nd.val ELSE NoVal
             r        == ForkRouter(R, req.val, c, oldEdges, oldTerm)
             E        == oldEdges \cup IF c < Len(R) THEN {<<R[c + 1]>>} ELSE {}
             tm       == IF c = Len(R) THEN req.val ELSE oldTerm
             u1       == ApplyPrefix(slot, common, r)
             u2       == ForkLeaf(slot, R, req.val, c)
             u3       == ForkLeaf(slot, S, nd.val, c)
             t0       == Drop(tree, {slot})
             t1       == Over(t0, u1)
             t2       == Over(t1, u2)
             t3       == Over(t2, u3)
             a        == slot \o common
             g0       == Upd(Kids(t0), slot, {})
  <1>1. slot \in Path /\ S \in Path /\ nd.val \in Values
    BY NodeFields DEF TreeOK, nd
  <1>2. c \in 0 .. Len(S) /\ c \in 0 .. Len(R)
    BY <1>1, LcpFacts, PathFacts
  <1>3. /\ Front(S, c) = common
        /\ c < Len(S) /\ c < Len(R) => S[c + 1] # R[c + 1]
    BY <1>1, LcpFacts
  <1>4. common \in Path /\ a \in Path
    BY <1>1, <1>2, FrontFacts, ConcatFacts
  <1>5. c < Len(S) =>
          /\ slot \o Front(S, c + 1) = a \o <<S[c + 1]>>
          /\ <<S[c + 1]>> \in Path /\ Len(<<S[c + 1]>>) = 1
    <2> HIDE DEF c, S
    <2>1. ASSUME c < Len(S)
          PROVE  /\ slot \o Front(S, c + 1) = (slot \o Front(S, c)) \o <<S[c + 1]>>
                 /\ <<S[c + 1]>> \in Path /\ Len(<<S[c + 1]>>) = 1
      BY <1>1, <1>2, <2>1, ForkEdge
    <2> QED
      BY <1>3, <2>1
  <1>6. c < Len(R) =>
          /\ slot \o Front(R, c + 1) = a \o <<R[c + 1]>>
          /\ <<R[c + 1]>> \in Path /\ Len(<<R[c + 1]>>) = 1
    <2> HIDE DEF c
    <2> QED
      BY <1>1, <1>2, ForkEdge
  <1>7. E \in SUBSET Path /\ (\A e \in E : Len(e) = 1) /\ tm \in Values \cup {NoVal}
    <2> HIDE DEF c, S
    <2> QED
      BY <1>1, <1>5, <1>6
  <1>8. r = Router("setlist", <<>>, E, tm)
    BY DEF ForkRouter
  <1>9. TreeOK(t0) /\ DOMAIN t0 = DOMAIN tree \ {slot} /\ \A q \in DOMAIN t0 : t0[q] = tree[q]
    BY DropOK
  <1>10. Good(g0)
    <2> DEFINE g == Kids(tree)
    <2>1. DOMAIN g = DOMAIN tree /\ \A q \in DOMAIN tree : g[q] = KidsOf(q, tree[q])
      BY KidsIs
    <2>2. g[slot] = {}
      <3>1. KidsOf(slot, tree[slot]) = {}
        BY KidsOfIs DEF nd
      <3> QED
        BY <2>1, <3>1
    <2> HIDE DEF g, t0
    <2>3. DOMAIN Kids(t0) = DOMAIN t0 /\ \A q \in DOMAIN t0 : Kids(t0)[q] = KidsOf(q, t0[q])
      BY KidsIs
    <2>4. DOMAIN g0 = DOMAIN t0 \cup {slot} /\ g0[slot] = {}
          /\ \A q \in DOMAIN t0 : q # slot => g0[q] = KidsOf(q, t0[q])
      BY <2>3 DEF Upd
    <2> HIDE DEF g0
    <2>5. DOMAIN g0 = DOMAIN g /\ \A q \in DOMAIN g : g0[q] = g[q]
      BY <1>9, <2>1, <2>2, <2>4
    <2>6. Good(g) /\ ShapeOK(g0)
      BY <2>5, KidsShapeOK DEF g, ShapeOK
    <2> QED
      BY <2>5, <2>6, MoreEdges
  <1> HIDE DEF c, S, common, r, E, tm, t0, u1, u2, u3
  <1>11. /\ TreeOK(t1) /\ Good(Kids(t1))
         /\ \A e \in E : Hung(Kids(t1), a \o e) /\ a \o e \notin DOMAIN t1
    <2>1. slot \notin DOMAIN t0 /\ \A k \in {} : \E e \in E : k = (slot \o common) \o e
      BY <1>9
    <2>2. Forked(Over(t0, ApplyPrefix(slot, common, Router("setlist", <<>>, E, tm))),
                 slot \o common, E, {})
      BY <1>1, <1>4, <1>7, <1>9, <1>10, <2>1, ForkShape
    <2>3. Forked(t1, a, E, {})
      BY <1>8, <2>2 DEF u1
    <2> HIDE DEF a, t1
    <2> QED
      BY <2>3 DEF Forked
  <1> HIDE DEF a, t1
  <1>12. WithLeaf(t1, t2, c < Len(R), slot \o Front(R, c + 1))
    <2>1. c < Len(R) => Free(t1, slot \o Front(R, c + 1))
      BY <1>6, <1>11 DEF E, Free
    <2> QED
      BY <1>1, <1>2, <1>11, <2>1, ForkLeafShape DEF u2
  <1> HIDE DEF t2
  <1>13. WithLeaf(t2, t3, c < Len(S), slot \o Front(S, c + 1))
    <2>1. ASSUME c < Len(S)
          PROVE  Free(t2, a \o <<S[c + 1]>>)
      <3>1. <<S[c + 1]>> \in E
        BY <2>1 DEF E
      <3>2. Hung(Kids(t1), a \o <<S[c + 1]>>) /\ a \o <<S[c + 1]>> \notin DOMAIN t1
        BY <1>11, <3>1
      <3>3. Hung(Kids(t2), a \o <<S[c + 1]>>)
        BY <1>12, <3>2, HungStays DEF WithLeaf
      <3>4. c < Len(R) => a \o <<S[c + 1]>> # a \o <<R[c + 1]>>
        <4> SUFFICES ASSUME c < Len(R), a \o <<S[c + 1]>> = a \o <<R[c + 1]>>
                     PROVE  FALSE
          OBVIOUS
        <4>1. <<S[c + 1]>> = <<R[c + 1]>>
          BY <1>4, <1>5, <1>6, <2>1, ConcatCancel
        <4> QED
          BY <1>3, <2>1, <4>1
      <3> QED
        BY <1>6, <1>12, <3>2, <3>3, <3>4 DEF WithLeaf, Free
    <2>2. c < Len(S) => Free(t2, slot \o Front(S, c + 1))
      BY <1>5, <2>1
    <2>3. TreeOK(t2) /\ Good(Kids(t2))
      BY <1>12 DEF WithLeaf
    <2> QED
      BY <1>1, <1>2, <2>2, <2>3, ForkLeafShape DEF u3
  <1>14. SplitLeafTree(fits) = InlineCompact(t3, ForkSlot(slot, common), fits)
    BY DEF SplitLeafTree, t2, t1, t0, u1, u2, u3, r, common, c, S
  <1> HIDE DEF t3
  <1> QED
    BY <1>13, <1>14, CompactShape DEF WithLeaf

\* Routers that stand at one place after their prefixes and have the same edges.
Alike(p, x, q, y) ==
  /\ x.kind \in RouterKinds /\ y.kind \in RouterKinds
  /\ p \o x.pfx = q \o y.pfx /\ x.edges = y.edges

LEMMA SameEdges ==
  ASSUME NEW p, NEW x, NEW q, NEW y, Alike(p, x, q, y)
  PROVE  KidsOf(p, x) = KidsOf(q, y)
  <1>1. KidsOf(p, x) = {(p \o x.pfx) \o e : e \in x.edges}
    BY KidsOfIs DEF Alike
  <1>2. KidsOf(q, y) = {(q \o y.pfx) \o e : e \in y.edges}
    BY KidsOfIs DEF Alike
  <1> QED
    BY <1>1, <1>2 DEF Alike

\* The node_full that make_prefix moves its prefix into.
LEMMA FusedNode ==
  ASSUME NEW t, TreeOK(t), NEW c \in DOMAIN t, t[c].kind \in {"full", "pfxd"},
         NEW pfx \in Path, pfx # <<>>
  PROVE  LET x == [t[c] EXCEPT !.kind = "pfxd", !.pfx = pfx \o t[c].pfx]
         IN  /\ NodeOK(x) /\ x.kind \in RouterKinds /\ x.edges = t[c].edges
             /\ x.pfx = pfx \o t[c].pfx /\ t[c].pfx \in Path /\ t[c].kind \in RouterKinds
  <1>1. NodeOK(t[c]) /\ t[c].kind \in RouterKinds /\ "pfxd" \in RouterKinds
    BY DEF TreeOK, RouterKinds
  <1>2. /\ t[c] \in RouterNode /\ t[c].pfx \in Path
        /\ t[c].edges \in SUBSET Path /\ t[c].term \in Values \cup {NoVal}
        /\ \A e \in t[c].edges : Len(e) = 1
    BY <1>1, NodeFields DEF StemLen
  <1> DEFINE y == pfx \o t[c].pfx
             x == [t[c] EXCEPT !.kind = "pfxd", !.pfx = y]
  <1>3. y \in Path /\ y # <<>>
    BY <1>2, ConcatNonEmpty
  <1> HIDE DEF y
  <1>4. x = Router("pfxd", y, t[c].edges, t[c].term)
    BY <1>2, RouterIs
  <1>5. NodeOK(Router("pfxd", y, t[c].edges, t[c].term))
    BY <1>1, <1>2, <1>3, RouterOK DEF StemLen
  <1>6. x.kind = "pfxd" /\ x.edges = t[c].edges /\ x.pfx = y
    BY <1>4 DEF Router
  <1>7. NodeOK(x)
    BY <1>4, <1>5
  <1> HIDE DEF x
  <1>8. NodeOK(x) /\ x.kind \in RouterKinds /\ x.edges = t[c].edges /\ x.pfx = y
    BY <1>1, <1>6, <1>7
  <1> QED
    BY <1>1, <1>2, <1>8 DEF x, y

\* make_prefix at a slot that has one edge, and the prefix on it.
LEMMA MakePrefixShape ==
  ASSUME NEW t, TreeOK(t), Good(Kids(t)), NEW p \in DOMAIN t, NEW pfx \in Path, pfx # <<>>,
         KidsOf(p, t[p]) = {p \o pfx}
  PROVE  TreeOK(MakePrefix(t, p, pfx)) /\ Good(Kids(MakePrefix(t, p, pfx)))
  <1> DEFINE c == p \o pfx
             u == MakePrefix(t, p, pfx)
  <1>1. p \in Path /\ c \in Path /\ c # p
    BY StartsConcat DEF TreeOK
  <1>2. TreeOK(u) /\ ShapeOK(Kids(u))
    BY <1>1, MakePrefixOK, KidsShapeOK
  <1>3. CASE FusesInto(t, c, pfx)
    <2> DEFINE x == [t[c] EXCEPT !.kind = "pfxd", !.pfx = pfx \o t[c].pfx]
               g == Kids(t)
               h == Kids(u)
    <2>1. c \in DOMAIN t /\ t[c].kind \in {"full", "pfxd"}
      BY <1>3 DEF FusesInto
    <2>2. /\ NodeOK(x) /\ x.kind \in RouterKinds /\ x.edges = t[c].edges
          /\ x.pfx = pfx \o t[c].pfx /\ t[c].pfx \in Path /\ t[c].kind \in RouterKinds
      <3> HIDE DEF c
      <3> QED
        BY <2>1, FusedNode
    <2>3. u = Upd(Drop(t, {c}), p, x)
      BY <1>3 DEF MakePrefix
    <2> HIDE DEF x, u, c
    <2>4. /\ DOMAIN u = DOMAIN t \ {c} /\ u[p] = x
          /\ \A q \in DOMAIN t \ {c} : q # p => u[q] = t[q]
      BY <1>1, <2>3 DEF Upd, Drop
    <2>5. KidsOf(p, x) = KidsOf(c, t[c])
      <3>1. p \o (pfx \o t[c].pfx) = (p \o pfx) \o t[c].pfx
        BY <1>1, <2>2, ConcatAssoc
      <3>2. p \o x.pfx = c \o t[c].pfx
        BY <2>2, <3>1 DEF c
      <3>3. Alike(p, x, c, t[c])
        BY <2>2, <3>2 DEF Alike
      <3> QED
        BY <3>3, SameEdges
    <2>6. DOMAIN g = DOMAIN t /\ \A q \in DOMAIN t : g[q] = KidsOf(q, t[q])
      BY KidsIs
    <2>7. DOMAIN h = DOMAIN u /\ \A q \in DOMAIN u : h[q] = KidsOf(q, u[q])
      BY KidsIs
    <2>8. g[p] = {c}
      BY <2>6 DEF c
    <2>9. Good(g) /\ ShapeOK(h)
      BY <1>2
    <2> HIDE DEF g, h
    <2>10. DOMAIN h = DOMAIN g \ g[p] /\ g[p] \subseteq DOMAIN g /\ p \in DOMAIN g
      BY <2>1, <2>4, <2>6, <2>7, <2>8
    <2>11. h[p] = g[c]
      BY <1>1, <2>1, <2>4, <2>5, <2>6, <2>7
    <2>12. \A x0 : x0 \in h[p] <=> \E d \in g[p] : x0 \in g[d]
      BY <2>8, <2>11
    <2>13. \A q \in DOMAIN h \ {p} : h[q] = g[q]
      BY <2>4, <2>6, <2>7
    <2>14. Good(h)
      BY <2>9, <2>10, <2>12, <2>13, Contract
    <2> QED
      BY <1>2, <2>14 DEF h, u
  <1>4. CASE ~FusesInto(t, c, pfx)
    <2>1. u = Upd(t, p, Pn(pfx))
      BY <1>4 DEF MakePrefix
    <2>2. DOMAIN u = DOMAIN t /\ u[p] = Pn(pfx) /\ \A q \in DOMAIN t : q # p => u[q] = t[q]
      BY <2>1 DEF Upd
    <2>3. KidsOf(p, Pn(pfx)) = {p \o pfx}
      <3>1. Pn(pfx).kind = "pn" /\ Pn(pfx).pfx = pfx
        BY DEF Pn
      <3> QED
        BY <3>1, KidsOfIs
    <2> HIDE DEF u
    <2>4. \A q \in DOMAIN t : KidsOf(q, u[q]) = KidsOf(q, t[q])
      BY <2>2, <2>3
    <2>5. Good(Kids(u))
      BY <2>2, <2>4, SameShape
    <2> QED
      BY <1>2, <2>5 DEF u
  <1> QED
    BY <1>3, <1>4

\* The tree t without the node at p has all that was below p below q, and
\* nothing at p: it waits for a node at p that leads to q.
Waits(t, p, q) == TreeOK(t) /\ p \notin DOMAIN t /\ Good(Upd(Kids(t), p, {q}))

\* The node at p moves down to q, with a prefix as much shorter.
LEMMA MovedShape ==
  ASSUME NEW t, TreeOK(t), Good(Kids(t)), NEW p \in DOMAIN t,
         NEW q \in Path, StartsWith(q, p), q # p,
         NEW x, NodeOK(x), KidsOf(q, x) = KidsOf(p, t[p]),
         \A f \in KidsOf(p, t[p]) : StartsWith(f, q) /\ f # q
  PROVE  Waits(Upd(Drop(t, {p}), q, x), p, q)
  <1> DEFINE u == Upd(Drop(t, {p}), q, x)
             g == Kids(t)
             h == Upd(Kids(u), p, {q})
  <1>1. TreeOK(Drop(t, {p}))
    BY DropOK
  <1>2. TreeOK(u)
    BY <1>1, UpdOK
  <1>3. /\ DOMAIN u = (DOMAIN t \ {p}) \cup {q} /\ u[q] = x
        /\ \A r \in DOMAIN t \ {p} : r # q => u[r] = t[r]
    BY DEF Upd, Drop
  <1> HIDE DEF u
  <1>4. p \notin DOMAIN u
    BY <1>3
  <1>5. DOMAIN g = DOMAIN t /\ (\A r \in DOMAIN t : g[r] = KidsOf(r, t[r])) /\ Good(g)
    BY KidsIs
  <1>6. DOMAIN Kids(u) = DOMAIN u /\ \A r \in DOMAIN u : Kids(u)[r] = KidsOf(r, u[r])
    BY KidsIs
  <1>7. /\ DOMAIN h = DOMAIN u \cup {p} /\ h[p] = {q}
        /\ \A r \in DOMAIN u : h[r] = KidsOf(r, u[r])
    BY <1>4, <1>6 DEF Upd
  <1> HIDE DEF g, h
  <1>8. KidsOK(p, {q}) /\ p \in DOMAIN g
    BY <1>5 DEF KidsOK
  <1>9. DOMAIN h = DOMAIN g \cup {q}
    BY <1>3, <1>5, <1>7
  <1>10. h[q] = g[p]
    BY <1>3, <1>5, <1>7
  <1>11. \A f \in g[p] : StartsWith(f, q) /\ f # q
    BY <1>5
  <1>12. \A c \in {q} : \A f : f \in h[c] <=> f \in g[p] /\ StartsWith(f, c) /\ f # c
    BY <1>10, <1>11
  <1>13. \A r \in DOMAIN g \ ({p} \cup {q}) : h[r] = g[r]
    BY <1>3, <1>5, <1>7
  <1>14. \A f \in g[p] : \E c \in {q} : StartsWith(f, c) /\ f # c
    BY <1>11
  <1>15. Good(h)
    <2>1. Interposed(g, h, p, {q})
      BY <1>7, <1>8, <1>9, <1>12, <1>13, <1>14 DEF Interposed
    <2> QED
      BY <1>5, <2>1, Interpose
  <1> QED
    BY <1>2, <1>4, <1>15 DEF Waits, h, u

\* A prefix node whose first bytes q has taken: make_prefix hangs what is left
\* of its prefix at q.
LEMMA KeptPnShape ==
  ASSUME NEW t, TreeOK(t), Good(Kids(t)), NEW p \in DOMAIN t, t[p].kind = "pn",
         NEW q \in Path, StartsWith(q, p), q # p, NEW rest \in Path, q \o rest = At(t, p)
  PROVE  Waits(MakePrefix(Drop(t, {p}), q, rest), p, q)
  <1> DEFINE old  == Drop(t, {p})
             c    == q \o rest
             kept == MakePrefix(old, q, rest)
             pfx  == t[p].pfx
  <1>1. /\ p \in Path /\ pfx \in Path /\ pfx # <<>> /\ c = p \o pfx /\ KidsOf(p, t[p]) = {c}
        /\ c \in Path
    <2>1. p \in Path /\ pfx \in Path /\ pfx # <<>>
      BY NodeFields DEF TreeOK
    <2>2. KidsOf(p, t[p]) = {p \o pfx}
      BY KidsOfIs
    <2> QED
      BY <2>1, <2>2, ConcatFacts DEF At
  <1>2. TreeOK(old) /\ DOMAIN old = DOMAIN t \ {p} /\ \A r \in DOMAIN old : old[r] = t[r]
    <2>1. TreeOK(Drop(t, {p}))
      BY DropOK
    <2>2. /\ DOMAIN Drop(t, {p}) = DOMAIN t \ {p}
          /\ \A r \in DOMAIN t \ {p} : Drop(t, {p})[r] = t[r]
      BY DEF Drop
    <2> QED
      BY <2>1, <2>2
  <1>3. CASE rest = <<>>
    <2>1. kept = old /\ c = q
      BY <1>3, ConcatEmpty DEF MakePrefix
    <2> DEFINE g == Kids(t)
               h == Upd(Kids(old), p, {q})
    <2> HIDE DEF old, c, kept
    <2>2. DOMAIN g = DOMAIN t /\ (\A r \in DOMAIN t : g[r] = KidsOf(r, t[r])) /\ Good(g)
      BY KidsIs
    <2>3. DOMAIN Kids(old) = DOMAIN old /\ \A r \in DOMAIN old : Kids(old)[r] = KidsOf(r, old[r])
      BY KidsIs
    <2>4. /\ DOMAIN h = DOMAIN old \cup {p} /\ h[p] = {q}
          /\ \A r \in DOMAIN old : h[r] = KidsOf(r, old[r])
      BY <1>2, <2>3 DEF Upd
    <2> HIDE DEF g, h
    <2>5. DOMAIN h = DOMAIN g /\ \A r \in DOMAIN g : h[r] = g[r]
      BY <1>1, <1>2, <2>1, <2>2, <2>4
    <2>6. ShapeOK(h)
      BY <2>2, <2>5 DEF Good, ShapeOK
    <2>7. Good(h)
      BY <2>2, <2>5, <2>6, MoreEdges
    <2> QED
      BY <1>2, <2>1, <2>7 DEF Waits, h, kept, old
  <1>4. CASE rest # <<>> /\ ~FusesInto(old, c, rest)
    <2>1. kept = Upd(old, q, Pn(rest))
      BY <1>4 DEF MakePrefix
    <2>2. NodeOK(Pn(rest)) /\ KidsOf(q, Pn(rest)) = {c}
      <3>1. NodeOK(Pn(rest)) /\ Pn(rest).kind = "pn"
        BY <1>4, PnOK
      <3>2. Pn(rest).pfx = rest
        BY DEF Pn
      <3> QED
        BY <3>1, <3>2, KidsOfIs
    <2>3. \A f \in KidsOf(p, t[p]) : StartsWith(f, q) /\ f # q
      BY <1>1, <1>4, StartsConcat
    <2>4. Waits(Upd(Drop(t, {p}), q, Pn(rest)), p, q)
      BY <1>1, <2>2, <2>3, MovedShape
    <2> QED
      BY <2>1, <2>4
  <1>5. CASE rest # <<>> /\ FusesInto(old, c, rest)
    <2> DEFINE x == [old[c] EXCEPT !.kind = "pfxd", !.pfx = rest \o old[c].pfx]
               y == [t[c] EXCEPT !.kind = "pfxd", !.pfx = pfx \o t[c].pfx]
               u == Upd(Drop(t, {c}), p, y)
    <2>1. c \in DOMAIN old /\ old[c].kind \in {"full", "pfxd"}
      BY <1>5 DEF FusesInto
    <2>2. c \in DOMAIN t /\ c # p /\ old[c] = t[c]
      BY <1>2, <2>1
    <2>3. kept = Upd(Drop(old, {c}), q, x)
      BY <1>5 DEF MakePrefix
    <2>4. /\ NodeOK(x) /\ x.kind \in RouterKinds /\ x.edges = t[c].edges
          /\ x.pfx = rest \o t[c].pfx /\ t[c].pfx \in Path /\ t[c].kind \in RouterKinds
      <3> HIDE DEF c, old
      <3>1. t[c].kind \in {"full", "pfxd"} /\ rest # <<>>
        BY <1>5, <2>1, <2>2
      <3>2. LET z == [t[c] EXCEPT !.kind = "pfxd", !.pfx = rest \o t[c].pfx]
            IN  /\ NodeOK(z) /\ z.kind \in RouterKinds /\ z.edges = t[c].edges
                /\ z.pfx = rest \o t[c].pfx /\ t[c].pfx \in Path /\ t[c].kind \in RouterKinds
        BY <2>2, <3>1, FusedNode
      <3> QED
        BY <2>2, <3>2
    <2>5. /\ NodeOK(y) /\ y.kind \in RouterKinds /\ y.edges = t[c].edges
          /\ y.pfx = pfx \o t[c].pfx
      <3> HIDE DEF c, old, pfx
      <3>1. t[c].kind \in {"full", "pfxd"} /\ pfx # <<>> /\ pfx \in Path
        BY <1>1, <2>1, <2>2
      <3>2. LET z == [t[c] EXCEPT !.kind = "pfxd", !.pfx = pfx \o t[c].pfx]
            IN  /\ NodeOK(z) /\ z.kind \in RouterKinds /\ z.edges = t[c].edges
                /\ z.pfx = pfx \o t[c].pfx /\ t[c].pfx \in Path /\ t[c].kind \in RouterKinds
        BY <2>2, <3>1, FusedNode
      <3> QED
        BY <3>2
    <2> HIDE DEF x, y, u, kept, old, c
    <2>6. /\ DOMAIN u = DOMAIN t \ {c} /\ u[p] = y
          /\ \A r \in DOMAIN t \ {c} : r # p => u[r] = t[r]
      BY <2>2 DEF u, Upd, Drop
    <2>7. TreeOK(u)
      BY <1>1, <2>5, <2>6 DEF TreeOK
    <2>8. q \o x.pfx = c \o t[c].pfx /\ p \o y.pfx = c \o t[c].pfx
      <3>1. q \o (rest \o t[c].pfx) = (q \o rest) \o t[c].pfx
        BY <2>4, ConcatAssoc
      <3>2. p \o (pfx \o t[c].pfx) = (p \o pfx) \o t[c].pfx
        <4> DEFINE z == t[c].pfx
        <4>1. p \in Path /\ pfx \in Path /\ z \in Path
          BY <1>1, <2>4
        <4> HIDE DEF pfx, z
        <4>2. p \o (pfx \o z) = (p \o pfx) \o z
          BY <4>1, ConcatAssoc
        <4> QED
          BY <4>2 DEF z
      <3> QED
        BY <1>1, <2>4, <2>5, <3>1, <3>2 DEF c
    <2>9. KidsOf(q, x) = KidsOf(c, t[c]) /\ KidsOf(p, y) = KidsOf(c, t[c])
      <3>1. Alike(q, x, c, t[c]) /\ Alike(p, y, c, t[c])
        BY <2>4, <2>5, <2>8 DEF Alike
      <3> QED
        BY <3>1, SameEdges
    <2> DEFINE g == Kids(t)
               h == Kids(u)
    <2>10. DOMAIN g = DOMAIN t /\ (\A r \in DOMAIN t : g[r] = KidsOf(r, t[r])) /\ Good(g)
      BY KidsIs
    <2>11. DOMAIN h = DOMAIN u /\ \A r \in DOMAIN u : h[r] = KidsOf(r, u[r])
      BY KidsIs
    <2>12. ShapeOK(h)
      BY <2>7, KidsShapeOK
    <2> HIDE DEF g, h
    <2>13. g[p] = {c} /\ h[p] = g[c] /\ p \in DOMAIN g /\ g[p] \subseteq DOMAIN g
      BY <1>1, <2>2, <2>6, <2>9, <2>10, <2>11
    <2>14. DOMAIN h = DOMAIN g \ g[p] /\ \A r \in DOMAIN h \ {p} : h[r] = g[r]
      BY <2>6, <2>10, <2>11, <2>13
    <2>15. \A z : z \in h[p] <=> \E d \in g[p] : z \in g[d]
      BY <2>13
    <2>16. Good(h)
      BY <2>10, <2>12, <2>13, <2>14, <2>15, Contract
    <2>17. KidsOf(q, x) = KidsOf(p, u[p]) /\ p \in DOMAIN u
      BY <2>2, <2>6, <2>9
    <2>18. \A f \in KidsOf(p, u[p]) : StartsWith(f, q) /\ f # q
      <3> SUFFICES ASSUME NEW f \in g[c]
                   PROVE  StartsWith(f, q) /\ f # q
        BY <2>2, <2>6, <2>9, <2>10
      <3>1. f \in Path /\ StartsWith(f, c)
        BY <2>2, <2>10, KidFacts DEF Good
      <3>2. StartsWith(c, q) /\ c # q
        BY <1>5, StartsConcat DEF c
      <3>3. StartsWith(f, q)
        BY <1>1, <3>1, <3>2, StartsTrans
      <3> QED
        BY <1>1, <3>1, <3>2, <3>3, StartsSame
    <2>19. Waits(Upd(Drop(u, {p}), q, x), p, q)
      BY <2>4, <2>7, <2>16, <2>17, <2>18, MovedShape DEF h
    <2>20. Drop(u, {p}) = Drop(old, {c})
      <3>1. DOMAIN u \ {p} = DOMAIN old \ {c}
        BY <1>2, <2>6
      <3>2. \A r \in DOMAIN old \ {c} : u[r] = old[r]
        BY <1>2, <2>6
      <3> QED
        BY <3>1, <3>2 DEF Drop
    <2> QED
      BY <2>3, <2>19, <2>20 DEF kept, old
  <1> QED
    BY <1>3, <1>4, <1>5

LEMMA SplitPrefixShape ==
  ASSUME TreeOK(tree), Good(Kids(tree)), slot \in DOMAIN tree, nd.kind # "leaf", R \in Path,
         req.val \in Values, ~StartsWith(R, nd.pfx), NEW fits
  PROVE  Good(Kids(SplitPrefixTree(fits)))
  <1> DEFINE pfx    == nd.pfx
             c      == Lcp(pfx, R)
             common == Front(pfx, c)
             rest   == Back(pfx, c + 1)
             q      == slot \o Front(pfx, c + 1)
             old    == Drop(tree, {slot})
             kind   == IF rest = <<>> THEN "full" ELSE "pfxd"
             kept   == CASE nd.kind = "pn"      -> MakePrefix(old, q, rest)
                         [] nd.kind = "setlist" -> Upd(old, q, [nd EXCEPT !.pfx = rest])
                         [] nd.kind = "pfxd"    -> Upd(old, q, [nd EXCEPT !.kind = kind, !.pfx = rest])
             r      == ForkRouter(R, req.val, c, {<<pfx[c + 1]>>}, NoVal)
             E      == {<<pfx[c + 1]>>} \cup IF c < Len(R) THEN {<<R[c + 1]>>} ELSE {}
             tm     == IF c = Len(R) THEN req.val ELSE NoVal
             u1     == ApplyPrefix(slot, common, r)
             u2     == ForkLeaf(slot, R, req.val, c)
             t1     == Over(kept, u1)
             t2     == Over(t1, u2)
             a      == slot \o common
  <1>1. slot \in Path /\ pfx \in Path /\ NodeOK(nd) /\ nd = tree[slot]
    BY NodeFields DEF TreeOK, nd
  <1>2. c \in 0 .. Len(pfx) /\ c \in 0 .. Len(R) /\ c < Len(pfx)
    BY <1>1, LcpFacts, PathFacts
  <1>3. common = Front(R, c) /\ (c < Len(R) => pfx[c + 1] # R[c + 1])
    BY <1>1, <1>2, LcpFacts
  <1>4. nd.kind \in {"pn", "setlist", "pfxd"}
    <2>1. pfx # <<>>
      BY <1>1, StartsWithEmpty
    <2> QED
      BY <1>1, <2>1, NodeFields
  <1> HIDE DEF c, pfx
  <1>5. /\ q = a \o <<pfx[c + 1]>> /\ q \in Path /\ a \in Path /\ common \in Path
        /\ <<pfx[c + 1]>> \in Path /\ Len(<<pfx[c + 1]>>) = 1
    BY <1>1, <1>2, ForkEdge, FrontFacts
  <1>6. c < Len(R) =>
          /\ slot \o Front(R, c + 1) = a \o <<R[c + 1]>>
          /\ <<R[c + 1]>> \in Path /\ Len(<<R[c + 1]>>) = 1
    <2>1. c < Len(R) =>
            /\ slot \o Front(R, c + 1) = (slot \o Front(R, c)) \o <<R[c + 1]>>
            /\ <<R[c + 1]>> \in Path /\ Len(<<R[c + 1]>>) = 1
      BY <1>1, <1>2, ForkEdge
    <2> QED
      BY <1>3, <2>1
  <1>7. E \in SUBSET Path /\ (\A e \in E : Len(e) = 1) /\ tm \in Values \cup {NoVal}
    BY <1>5, <1>6
  <1>8. r = Router("setlist", <<>>, E, tm)
    BY DEF ForkRouter
  <1>9. /\ rest \in Path /\ q \o rest = slot \o pfx
        /\ StartsWith(q, slot) /\ q # slot /\ slot \o pfx \in Path
        /\ StartsWith(slot \o pfx, q)
    <2> DEFINE f == Front(pfx, c + 1)
    <2>1. c + 1 \in 0 .. Len(pfx) /\ c + 1 # 0
      BY <1>1, <1>2, PathFacts
    <2>2. f \in Path /\ Len(f) = c + 1 /\ rest \in Path /\ pfx = f \o rest
      BY <1>1, <2>1, FrontFacts, BackFacts, FrontBack
    <2>3. f # <<>>
      BY <2>1, <2>2, EmptyPath
    <2> HIDE DEF f, rest
    <2>4. slot \o (f \o rest) = (slot \o f) \o rest
      BY <1>1, <2>2, ConcatAssoc
    <2>5. slot \o f \in Path /\ StartsWith(slot \o f, slot) /\ slot \o f # slot
      BY <1>1, <2>2, <2>3, StartsConcat
    <2>6. (slot \o f) \o rest \in Path /\ StartsWith((slot \o f) \o rest, slot \o f)
      BY <2>2, <2>5, StartsConcat
    <2> QED
      BY <2>2, <2>4, <2>5, <2>6 DEF f
  <1> HIDE DEF rest, q
  <1>10. \A x : x.kind \in RouterKinds /\ x.pfx = rest /\ x.edges = nd.edges /\ nd.kind \in RouterKinds
                  => KidsOf(q, x) = KidsOf(slot, tree[slot])
    <2> SUFFICES ASSUME NEW x, x.kind \in RouterKinds, x.pfx = rest, x.edges = nd.edges,
                        nd.kind \in RouterKinds
                 PROVE  KidsOf(q, x) = KidsOf(slot, nd)
      BY <1>1
    <2>1. Alike(q, x, slot, nd)
      BY <1>9 DEF Alike, pfx
    <2> QED
      BY <2>1, SameEdges
  <1>11. nd.kind \in RouterKinds => \A f \in KidsOf(slot, tree[slot]) : StartsWith(f, q) /\ f # q
    <2> SUFFICES ASSUME nd.kind \in RouterKinds, NEW f \in KidsOf(slot, nd)
                 PROVE  StartsWith(f, q) /\ f # q
      BY <1>1
    <2>0. PICK e \in nd.edges : f = (slot \o pfx) \o e
      <3>1. KidsOf(slot, nd) = {(slot \o nd.pfx) \o e : e \in nd.edges}
        BY KidsOfIs
      <3> QED
        BY <3>1 DEF pfx
    <2>1. e \in Path /\ e # <<>>
      <3>1. e \in Path /\ Len(e) = StemLen(nd.kind)
        BY <1>1, NodeFields
      <3>2. StemLen(nd.kind) # 0
        BY DEF StemLen
      <3>3. e # <<>>
        BY <3>1, <3>2, EmptyPath
      <3> QED
        BY <3>1, <3>3
    <2> DEFINE b == slot \o pfx
    <2>2. b \in Path /\ StartsWith(b, q)
      BY <1>9
    <2> HIDE DEF b
    <2>3. b \o e \in Path /\ StartsWith(b \o e, b) /\ b \o e # b
      BY <2>1, <2>2, StartsConcat
    <2>4. StartsWith(b \o e, q)
      BY <1>5, <2>2, <2>3, StartsTrans
    <2>5. b \o e # q
      BY <1>5, <2>2, <2>3, StartsSame
    <2> QED
      BY <2>0, <2>4, <2>5 DEF b
  <1>12. Waits(kept, slot, q)
    <2>1. CASE nd.kind = "pn"
      <3>1. q \o rest = At(tree, slot)
        BY <1>1, <1>9 DEF At, pfx
      <3>2. Waits(MakePrefix(Drop(tree, {slot}), q, rest), slot, q)
        BY <1>1, <1>5, <1>9, <2>1, <3>1, KeptPnShape
      <3> QED
        BY <2>1, <3>2
    <2>2. CASE nd.kind \in RouterKinds
      <3> DEFINE k == IF nd.kind = "setlist" THEN "setlist" ELSE kind
                 x == Router(k, rest, nd.edges, nd.term)
      <3>1. /\ nd \in RouterNode /\ nd.edges \in SUBSET Path
            /\ nd.term \in Values \cup {NoVal} /\ \A e \in nd.edges : Len(e) = 1
        BY <1>1, <1>4, <2>2, NodeFields DEF StemLen
      <3>2. k \in RouterKinds /\ k # "u16" /\ (k = "pfxd" => rest # <<>>)
            /\ (k \notin {"setlist", "pfxd"} => rest = <<>>)
        BY DEF RouterKinds
      <3>3. NodeOK(x) /\ x.kind = k
        <4> HIDE DEF k
        <4> QED
          BY <1>9, <3>1, <3>2, RouterOK DEF StemLen
      <3>4. x.pfx = rest /\ x.edges = nd.edges
        BY DEF Router
      <3>5. kept = Upd(Drop(tree, {slot}), q, x)
        <4>1. [nd EXCEPT !.pfx = rest] = Router(nd.kind, rest, nd.edges, nd.term)
          BY <3>1, RouterIs
        <4>2. [nd EXCEPT !.kind = kind, !.pfx = rest] = Router(kind, rest, nd.edges, nd.term)
          BY <3>1, RouterIs
        <4>3. nd.kind # "pn"
          BY <2>2 DEF RouterKinds, CnodeKinds
        <4>4. CASE nd.kind = "setlist"
          BY <4>1, <4>4
        <4>5. CASE nd.kind = "pfxd"
          BY <4>2, <4>5
        <4> QED
          BY <1>4, <4>3, <4>4, <4>5
      <3> HIDE DEF x, kept
      <3>6. KidsOf(q, x) = KidsOf(slot, tree[slot])
        BY <1>10, <2>2, <3>2, <3>3, <3>4
      <3>7. Waits(Upd(Drop(tree, {slot}), q, x), slot, q)
        BY <1>1, <1>5, <1>9, <1>11, <2>2, <3>3, <3>6, MovedShape
      <3> QED
        BY <3>5, <3>7
    <2> QED
      BY <1>4, <2>1, <2>2 DEF RouterKinds
  <1> HIDE DEF kept
  <1>13. Forked(t1, a, E, {q})
    <2>1. TreeOK(kept) /\ slot \notin DOMAIN kept /\ Good(Upd(Kids(kept), slot, {q}))
      BY <1>12 DEF Waits
    <2>2. \A k \in {q} : \E e \in E : k = (slot \o common) \o e
      BY <1>5
    <2> HIDE DEF E, tm, common
    <2>3. Forked(Over(kept, ApplyPrefix(slot, common, Router("setlist", <<>>, E, tm))),
                 slot \o common, E, {q})
      BY <1>1, <1>5, <1>7, <2>1, <2>2, ForkShape
    <2> QED
      BY <1>8, <2>3
  <1> HIDE DEF t1
  <1>14. WithLeaf(t1, t2, c < Len(R), slot \o Front(R, c + 1))
    <2>1. ASSUME c < Len(R)
          PROVE  Free(t1, slot \o Front(R, c + 1))
      <3>1. a \o <<R[c + 1]>> # q
        <4> SUFFICES ASSUME a \o <<R[c + 1]>> = a \o <<pfx[c + 1]>>
                     PROVE  FALSE
          BY <1>5
        <4>1. <<R[c + 1]>> = <<pfx[c + 1]>>
          BY <1>5, <1>6, <2>1, ConcatCancel
        <4> QED
          BY <1>3, <2>1, <4>1
      <3>2. <<R[c + 1]>> \in E
        BY <2>1
      <3> HIDE DEF E
      <3> QED
        BY <1>6, <1>13, <2>1, <3>1, <3>2 DEF Forked, Free
    <2>2. TreeOK(t1) /\ Good(Kids(t1))
      BY <1>13 DEF Forked
    <2> QED
      BY <1>1, <1>2, <2>1, <2>2, ForkLeafShape
  <1>15. SplitPrefixTree(fits) = InlineCompact(t2, ForkSlot(slot, common), fits)
    BY DEF SplitPrefixTree, t1, kept, rest, q, c, pfx
  <1> HIDE DEF t2, common
  <1> QED
    BY <1>14, <1>15, CompactShape DEF WithLeaf

\* A node between p and its children: what p leads to is what c leads to now.
Lifted(t, u, p, c) ==
  /\ TreeOK(u) /\ DOMAIN u = DOMAIN t \cup {c}
  /\ c \in Path /\ StartsWith(c, p) /\ c # p
  /\ KidsOf(p, u[p]) = {c} /\ KidsOf(c, u[c]) = KidsOf(p, t[p])
  /\ \A f \in KidsOf(p, t[p]) : StartsWith(f, c) /\ f # c
  /\ \A q \in DOMAIN t \ {p, c} : u[q] = t[q]

LEMMA LiftShape ==
  ASSUME NEW t, TreeOK(t), Good(Kids(t)), NEW p \in DOMAIN t, NEW u, NEW c, Lifted(t, u, p, c)
  PROVE  Good(Kids(u)) /\ c \notin DOMAIN t
  <1> DEFINE g == Kids(t)
             h == Kids(u)
             H == {c}
  <1> USE DEF Lifted
  <1>1. /\ DOMAIN g = DOMAIN t /\ (\A q \in DOMAIN t : g[q] = KidsOf(q, t[q]))
        /\ DOMAIN h = DOMAIN u /\ (\A q \in DOMAIN u : h[q] = KidsOf(q, u[q])) /\ Good(g)
    BY KidsIs
  <1>2. KidsOK(p, H)
    BY DEF KidsOK
  <1> HIDE DEF g, h
  <1>3. \A f \in g[p] : \E d \in H : StartsWith(f, d) /\ f # d
    BY <1>1
  <1>4. DOMAIN h = DOMAIN g \cup H /\ h[p] = H /\ p \in DOMAIN g
    BY <1>1
  <1>5. \A d \in H : \A f : f \in h[d] <=> f \in g[p] /\ StartsWith(f, d) /\ f # d
    <2>1. h[c] = g[p]
      BY <1>1
    <2>2. \A f : f \in g[p] => StartsWith(f, c) /\ f # c
      BY <1>1
    <2> QED
      BY <2>1, <2>2
  <1>6. \A q \in DOMAIN g \ ({p} \cup H) : h[q] = g[q]
    BY <1>1
  <1> HIDE DEF H
  <1>7. Good(h) /\ H \cap DOMAIN g = {}
    <2>1. Interposed(g, h, p, H)
      BY <1>2, <1>3, <1>4, <1>5, <1>6 DEF Interposed
    <2> QED
      BY <1>1, <2>1, Interpose
  <1> QED
    BY <1>1, <1>7 DEF h, H

\* The edges of a router below its own place.
LEMMA BelowHere ==
  ASSUME NEW p \in Path, NEW x, NodeOK(x), x.kind \in RouterKinds, NEW f \in KidsOf(p, x)
  PROVE  f \in Path /\ StartsWith(f, p \o x.pfx) /\ f # p \o x.pfx
  <1>1. x.pfx \in Path /\ x.edges \subseteq Path /\ \A e \in x.edges : Len(e) = StemLen(x.kind)
    BY NodeFields
  <1>2. PICK e \in x.edges : f = (p \o x.pfx) \o e
    BY KidsOfIs
  <1>3. e \in Path /\ Len(e) = StemLen(x.kind)
    BY <1>1
  <1>4. StemLen(x.kind) # 0
    BY DEF StemLen
  <1>5. e # <<>>
    BY <1>3, <1>4, EmptyPath
  <1>6. p \o x.pfx \in Path
    BY <1>1, ConcatFacts
  <1> QED
    BY <1>2, <1>3, <1>5, <1>6, StartsConcat

\* A router loses an edge that leads nowhere.
LEMMA CutShape ==
  ASSUME NEW t, TreeOK(t), Good(Kids(t)), NEW p \in DOMAIN t, t[p].kind \in RouterKinds,
         NEW e \in t[p].edges, NEW c, c = At(t, p) \o e,
         \A q \in DOMAIN t : ~StartsWith(q, c)
  PROVE  Good(Kids([t EXCEPT ![p].edges = @ \ {e}]))
  <1> DEFINE u == [t EXCEPT ![p].edges = @ \ {e}]
             g == Kids(t)
             h == Kids(u)
             a == At(t, p)
  <1>1. NodeOK(t[p]) /\ p \in Path
    BY DEF TreeOK
  <1>2. t[p].pfx \in Path /\ t[p].edges \subseteq Path /\ t[p] \in RouterNode
    BY <1>1, NodeFields
  <1>3. a \in Path /\ a = p \o t[p].pfx
    BY <1>1, <1>2, ConcatFacts DEF At
  <1>4. DOMAIN u = DOMAIN t /\ (\A q \in DOMAIN t \ {p} : u[q] = t[q])
        /\ u[p] = [t[p] EXCEPT !.edges = t[p].edges \ {e}]
    OBVIOUS
  <1>5. u[p].kind = t[p].kind /\ u[p].pfx = t[p].pfx /\ u[p].edges = t[p].edges \ {e}
    <2>1. u[p] = Router(t[p].kind, t[p].pfx, t[p].edges \ {e}, t[p].term)
      BY <1>2, <1>4, RouterIs
    <2> QED
      BY <2>1 DEF Router
  <1> HIDE DEF u
  <1>6. KidsOf(p, t[p]) = {a \o x : x \in t[p].edges}
    <2>1. KidsOf(p, t[p]) = {(p \o t[p].pfx) \o x : x \in t[p].edges}
      BY KidsOfIs
    <2> QED
      BY <1>3, <2>1
  <1>7. KidsOf(p, u[p]) = {a \o x : x \in t[p].edges \ {e}}
    <2>1. KidsOf(p, u[p]) = {(p \o u[p].pfx) \o x : x \in u[p].edges}
      BY <1>5, KidsOfIs
    <2> QED
      BY <1>3, <1>5, <2>1
  <1>8. /\ DOMAIN g = DOMAIN t /\ (\A q \in DOMAIN t : g[q] = KidsOf(q, t[q]))
        /\ DOMAIN h = DOMAIN u /\ (\A q \in DOMAIN u : h[q] = KidsOf(q, u[q])) /\ Good(g)
    BY KidsIs
  <1> HIDE DEF g, h, a
  <1>9. \A x \in t[p].edges : a \o x = a \o e => x = e
    BY <1>2, <1>3, ConcatCancel
  <1>10. h[p] = g[p] \ {c} /\ c \in g[p]
    <2>1. h[p] = {a \o x : x \in t[p].edges \ {e}} /\ g[p] = {a \o x : x \in t[p].edges}
      BY <1>4, <1>6, <1>7, <1>8
    <2>2. c = a \o e
      BY DEF a
    <2> QED
      BY <1>9, <2>1, <2>2
  <1>11. DOMAIN h = DOMAIN g /\ (\A q \in DOMAIN g \ {p} : h[q] = g[q]) /\ p \in DOMAIN g
    BY <1>4, <1>8
  <1>12. \A q \in DOMAIN g : ~StartsWith(q, c)
    BY <1>8
  <1>13. Good(h)
    BY <1>8, <1>10, <1>11, <1>12, CutEdge
  <1> QED
    BY <1>13 DEF h, u

\* A node without descendants goes.
LEMMA PruneShape ==
  ASSUME NEW t, Good(Kids(t)), NEW p \in DOMAIN t,
         \A c \in KidsOf(p, t[p]), q \in DOMAIN t : ~StartsWith(q, c)
  PROVE  Good(Kids(Drop(t, {p}))) /\ \A q \in DOMAIN Drop(t, {p}) : ~StartsWith(q, p)
  <1> DEFINE u == Drop(t, {p})
             g == Kids(t)
             h == Kids(u)
  <1>1. /\ DOMAIN g = DOMAIN t /\ (\A q \in DOMAIN t : g[q] = KidsOf(q, t[q]))
        /\ DOMAIN h = DOMAIN u /\ (\A q \in DOMAIN u : h[q] = KidsOf(q, u[q])) /\ Good(g)
    BY KidsIs
  <1>2. DOMAIN u = DOMAIN t \ {p} /\ \A q \in DOMAIN u : u[q] = t[q]
    BY DEF Drop
  <1> HIDE DEF g, h, u
  <1>3. /\ DOMAIN h = DOMAIN g \ {p} /\ (\A q \in DOMAIN h : h[q] = g[q]) /\ p \in DOMAIN g
        /\ \A c \in g[p], q \in DOMAIN g : ~StartsWith(q, c)
    BY <1>1, <1>2
  <1>4. Good(h) /\ \A q \in DOMAIN h : ~StartsWith(q, p)
    BY <1>1, <1>3, PruneNode
  <1> QED
    BY <1>1, <1>4 DEF h, u

\* An edge of two bytes, byte by byte.
LEMMA StemHalves ==
  ASSUME NEW p \in Path, NEW e \in Path, Len(e) = 2
  PROVE  /\ Front(e, 1) \in Path /\ Len(Front(e, 1)) = 1
         /\ Back(e, 1) \in Path /\ Len(Back(e, 1)) = 1
         /\ p \o Front(e, 1) \in Path /\ p \o e \in Path
         /\ Len(p \o Front(e, 1)) = Len(p) + 1
         /\ p \o e = (p \o Front(e, 1)) \o Back(e, 1)
         /\ StartsWith(p \o e, p \o Front(e, 1)) /\ p \o e # p \o Front(e, 1)
  <1> DEFINE a == Front(e, 1)
             b == Back(e, 1)
  <1>1. 1 \in 0 .. Len(e)
    OBVIOUS
  <1>2. a \in Path /\ Len(a) = 1 /\ b \in Path /\ Len(b) = 1 /\ e = a \o b
    <2>1. a \in Path /\ Len(a) = 1
      BY <1>1, FrontFacts
    <2>2. b \in Path /\ Len(b) = Len(e) - 1
      BY <1>1, BackFacts
    <2>3. e = a \o b
      BY <1>1, FrontBack
    <2> QED
      BY <2>1, <2>2, <2>3
  <1> HIDE DEF a, b
  <1>3. p \o (a \o b) = (p \o a) \o b /\ p \o a \in Path /\ Len(p \o a) = Len(p) + 1
    <2>1. p \o (a \o b) = (p \o a) \o b
      BY <1>2, ConcatAssoc
    <2>2. p \o a \in Path /\ Len(p \o a) = Len(p) + Len(a)
      BY <1>2, ConcatFacts
    <2> QED
      BY <1>2, <2>1, <2>2
  <1>4. b # <<>>
    BY <1>2, EmptyPath
  <1> DEFINE c == p \o a
  <1>5. c \in Path /\ Len(c) = Len(p) + 1
    BY <1>3
  <1> HIDE DEF c
  <1>6. c \o b \in Path /\ StartsWith(c \o b, c) /\ c \o b # c
    BY <1>2, <1>4, <1>5, StartsConcat
  <1>7. p \o e = c \o b
    BY <1>2, <1>3 DEF c
  <1> QED
    BY <1>2, <1>5, <1>6, <1>7 DEF a, b, c

LEMMA RestrideShape ==
  ASSUME TreeOK(tree), Good(Kids(tree)), slot \in DOMAIN tree, nd.kind = "u16"
  PROVE  Good(Kids(RestrideTree))
  <1> DEFINE E      == nd.edges
             his    == {Front(e, 1) : e \in E}
             los(q) == {Back(e, 1) : e \in {x \in E : slot \o Front(x, 1) = q}}
             H      == {slot \o a : a \in his}
             group  == [q \in H |-> Router("setlist", <<>>, los(q), NoVal)]
             top    == Router("setlist", <<>>, his, nd.term)
             u      == RestrideTree
             g      == Kids(tree)
             h      == Kids(u)
  <1>1. slot \in Path /\ NodeOK(nd) /\ nd = tree[slot] /\ nd.kind \in RouterKinds
    BY DEF TreeOK, nd, RouterKinds
  <1>2. nd.pfx = <<>> /\ E \subseteq Path /\ \A e \in E : e \in Path /\ Len(e) = 2
    <2>1. nd.pfx = <<>> /\ E \subseteq Path /\ \A e \in E : Len(e) = StemLen("u16")
      BY <1>1, NodeFields
    <2> QED
      BY <2>1 DEF StemLen
  <1>3. \A e \in E :
          /\ Front(e, 1) \in Path /\ Len(Front(e, 1)) = 1
          /\ Back(e, 1) \in Path /\ Len(Back(e, 1)) = 1
          /\ slot \o Front(e, 1) \in Path /\ slot \o e \in Path
          /\ Len(slot \o Front(e, 1)) = Len(slot) + 1
          /\ slot \o e = (slot \o Front(e, 1)) \o Back(e, 1)
          /\ StartsWith(slot \o e, slot \o Front(e, 1)) /\ slot \o e # slot \o Front(e, 1)
    BY <1>1, <1>2, StemHalves
  <1>4. u = Over(Upd(tree, slot, top), group)
    BY DEF RestrideTree
  <1>5. TreeOK(u)
    BY RestrideOK
  <1>6. his \in SUBSET Path /\ \A a \in his : Len(a) = 1
    BY <1>3
  <1>7. KidsOK(slot, H)
    <2>1. \A a \in his : a \in Path /\ Len(a) = 1 /\ a # <<>>
      BY <1>6, EmptyPath
    <2> HIDE DEF his
    <2>2. \A a \in his : /\ slot \o a \in Path /\ StartsWith(slot \o a, slot)
                         /\ slot \o a # slot /\ Len(slot \o a) = Len(slot) + 1
      BY <1>1, <2>1, StartsConcat
    <2> QED
      BY <2>2 DEF KidsOK
  <1>8. KidsOf(slot, top) = H
    <2>1. top.kind = "setlist" /\ top.pfx = <<>> /\ top.edges = his /\ "setlist" \in RouterKinds
      BY DEF Router, RouterKinds
    <2> HIDE DEF top, his
    <2>2. KidsOf(slot, top) = {(slot \o <<>>) \o a : a \in his}
      BY <2>1, KidsOfIs
    <2> QED
      BY <1>1, <2>2, ConcatEmpty
  <1>9. \A c \in H : KidsOf(c, group[c]) = {c \o b : b \in los(c)}
    <2> SUFFICES ASSUME NEW c \in H
                 PROVE  KidsOf(c, group[c]) = {c \o b : b \in los(c)}
      OBVIOUS
    <2> DEFINE L == los(c)
    <2>1. group[c] = Router("setlist", <<>>, L, NoVal) /\ c \in Path
      BY <1>7 DEF KidsOK
    <2> HIDE DEF L, group
    <2>2. group[c].kind \in RouterKinds /\ group[c].pfx = <<>> /\ group[c].edges = L
      BY <2>1 DEF Router, RouterKinds
    <2>3. KidsOf(c, group[c]) = {(c \o <<>>) \o b : b \in L}
      BY <2>2, KidsOfIs
    <2>4. KidsOf(c, group[c]) = {c \o b : b \in L}
      BY <2>1, <2>3, ConcatEmpty
    <2> QED
      BY <2>4 DEF L
  <1>10. KidsOf(slot, tree[slot]) = {slot \o e : e \in E}
    <2>1. KidsOf(slot, nd) = {(slot \o nd.pfx) \o e : e \in E}
      BY <1>1, KidsOfIs
    <2>2. slot \o <<>> = slot
      BY <1>1, ConcatEmpty
    <2> QED
      BY <1>1, <1>2, <2>1, <2>2
  <1>11. /\ DOMAIN u = DOMAIN tree \cup H /\ u[slot] = top
         /\ (\A c \in H : u[c] = group[c])
         /\ \A q \in DOMAIN tree \ ({slot} \cup H) : u[q] = tree[q]
    <2>1. slot \notin H
      BY <1>7 DEF KidsOK
    <2>2. DOMAIN group = H
      OBVIOUS
    <2> HIDE DEF group, H, top, u
    <2> QED
      BY <1>4, <2>1, <2>2 DEF Over, Upd
  <1>12. ASSUME NEW c \in H, NEW f
         PROVE  f \in KidsOf(c, group[c]) <=>
                  f \in KidsOf(slot, tree[slot]) /\ StartsWith(f, c) /\ f # c
    <2>1. ASSUME f \in KidsOf(c, group[c])
          PROVE  f \in KidsOf(slot, tree[slot]) /\ StartsWith(f, c) /\ f # c
      <3>1. PICK b \in los(c) : f = c \o b
        BY <1>9, <2>1
      <3>2. PICK e \in E : slot \o Front(e, 1) = c /\ b = Back(e, 1)
        BY <3>1
      <3>3. f = slot \o e
        BY <1>3, <3>1, <3>2
      <3> QED
        BY <1>3, <1>10, <3>2, <3>3
    <2>2. ASSUME f \in KidsOf(slot, tree[slot]), StartsWith(f, c)
          PROVE  f \in KidsOf(c, group[c])
      <3>1. PICK e \in E : f = slot \o e
        BY <1>10, <2>2
      <3>2. PICK e0 \in E : c = slot \o Front(e0, 1)
        OBVIOUS
      <3> DEFINE d == slot \o Front(e, 1)
      <3>3. d \in Path /\ c \in Path /\ f \in Path /\ StartsWith(f, d)
        BY <1>3, <3>1, <3>2
      <3>4. Len(c) = Len(slot) + 1 /\ Len(d) = Len(slot) + 1 /\ Len(slot) \in Nat
        BY <1>1, <1>3, <3>2, PathFacts
      <3>5. c = d
        <4> HIDE DEF d
        <4>1. StartsWith(d, c)
          BY <2>2, <3>3, <3>4, StartsEither
        <4> QED
          BY <3>3, <3>4, <4>1, StartsLen
      <3>6. Back(e, 1) \in los(c)
        BY <3>5
      <3>7. f = c \o Back(e, 1)
        BY <1>3, <3>1, <3>5
      <3> QED
        BY <1>9, <3>6, <3>7
    <2> QED
      BY <2>1, <2>2
  <1>13. \A f \in KidsOf(slot, tree[slot]) : \E c \in H : StartsWith(f, c) /\ f # c
    <2> SUFFICES ASSUME NEW e \in E
                 PROVE  \E c \in H : StartsWith(slot \o e, c) /\ slot \o e # c
      BY <1>10
    <2>1. slot \o Front(e, 1) \in H
      OBVIOUS
    <2> HIDE DEF H
    <2> QED
      BY <1>3, <2>1
  <1>14. /\ DOMAIN g = DOMAIN tree /\ (\A q \in DOMAIN tree : g[q] = KidsOf(q, tree[q]))
         /\ DOMAIN h = DOMAIN u /\ (\A q \in DOMAIN u : h[q] = KidsOf(q, u[q])) /\ Good(g)
    BY KidsIs
  <1> HIDE DEF H, group, top, u, g, h
  <1>15. Interposed(g, h, slot, H)
    <2>1. h[slot] = H /\ \A c \in H : h[c] = KidsOf(c, group[c])
      BY <1>8, <1>11, <1>14
    <2>2. \A c \in H : \A f : f \in h[c] <=> f \in g[slot] /\ StartsWith(f, c) /\ f # c
      BY <1>12, <1>14, <2>1
    <2>3. \A f \in g[slot] : \E c \in H : StartsWith(f, c) /\ f # c
      BY <1>13, <1>14
    <2>4. DOMAIN h = DOMAIN g \cup H /\ \A q \in DOMAIN g \ ({slot} \cup H) : h[q] = g[q]
      BY <1>11, <1>14
    <2> QED
      BY <1>7, <1>14, <2>1, <2>2, <2>3, <2>4 DEF Interposed
  <1>16. Good(h)
    BY <1>14, <1>15, Interpose
  <1> QED
    BY <1>16 DEF h, u

\* A router has finitely many edges.
LEMMA EdgesFinite ==
  ASSUME NEW x, NodeOK(x), x.kind \in RouterKinds
  PROVE  IsFiniteSet(x.edges)
  <1> DEFINE E == x.edges
             f == [e \in E |-> <<e[1], e[Len(e)]>>]
             T == Byte \X Byte
  <1>1. \A e \in E : e \in Path /\ Len(e) = StemLen(x.kind)
    BY NodeFields
  <1>2. StemLen(x.kind) \in {1, 2}
    BY DEF StemLen
  <1>3. IsFiniteSet(T)
    <2>1. IsFiniteSet(Byte)
      BY FS_Interval, MaxByteAssumption DEF Byte
    <2> QED
      BY <2>1, FS_Product
  <1>4. ASSUME NEW e \in E
        PROVE  f[e] \in T
    <2>1. e \in Path /\ Len(e) \in Nat /\ 1 \in 1 .. Len(e) /\ Len(e) \in 1 .. Len(e)
      BY <1>1, <1>2
    <2>2. e[1] \in Byte /\ e[Len(e)] \in Byte
      BY <2>1, PathFacts
    <2> QED
      BY <2>2
  <1>5. ASSUME NEW d \in E, NEW e \in E, f[d] = f[e]
        PROVE  d = e
    <2>1. d \in Path /\ e \in Path /\ Len(d) = Len(e) /\ Len(d) \in {1, 2}
      BY <1>1, <1>2
    <2>2. d[1] = e[1] /\ d[Len(d)] = e[Len(e)]
      BY <1>5
    <2>3. \A i \in 1 .. Len(d) : d[i] = e[i]
      BY <2>1, <2>2
    <2> QED
      BY <2>1, <2>3, SamePath
  <1> HIDE DEF E, T
  <1>6. f \in Injection(E, T)
    BY <1>4, <1>5 DEF Injection, IsInjective
  <1> QED
    BY <1>3, <1>6, FS_Injection DEF E

\* A router without a prefix of its own.
LEMMA BareKids ==
  ASSUME NEW p \in Path, NEW x, x.kind \in RouterKinds, x.pfx = <<>>
  PROVE  KidsOf(p, x) = {p \o e : e \in x.edges}
  <1>1. KidsOf(p, x) = {(p \o <<>>) \o e : e \in x.edges}
    <2>1. KidsOf(p, x) = {(p \o x.pfx) \o e : e \in x.edges}
      BY KidsOfIs
    <2> QED
      BY <2>1
  <1> QED
    BY <1>1, ConcatEmpty

LEMMA FuseShape ==
  ASSUME NEW t, TreeOK(t), Good(Kids(t)), NEW p \in DOMAIN t, Fusable(t, p)
  PROVE  Good(Kids(FuseTree(t, p)))
  <1> DEFINE E == t[p].edges
             C == Children(t, p)
             G == Grandedges(t, p)
             x == Router("u16", <<>>, G, t[p].term)
             u == FuseTree(t, p)
             g == Kids(t)
             h == Kids(u)
  <1>1. p \in Path /\ NodeOK(t[p]) /\ t[p].kind = "setlist" /\ t[p].pfx = <<>>
        /\ t[p].kind \in RouterKinds
    BY DEF TreeOK, Fusable, RouterKinds
  <1>2. \A e \in E : e \in Path
    BY <1>1, NodeFields
  <1>3. C = {p \o e : e \in E} /\ KidsOf(p, t[p]) = C
    BY <1>1, BareKids, ChildrenAre
  <1>4. ASSUME NEW e \in E
        PROVE  /\ p \o e \in DOMAIN t /\ p \o e \in Path
               /\ t[p \o e].edges \subseteq Path
               /\ KidsOf(p \o e, t[p \o e]) = {(p \o e) \o f : f \in t[p \o e].edges}
    <2> DEFINE c == p \o e
    <2>1. Absorbable(t, c)
      BY <1>3 DEF Fusable
    <2> HIDE DEF c
    <2>2. /\ c \in DOMAIN t /\ t[c].kind \in RouterKinds
          /\ t[c].kind \in {"setlist", "pfxd"} => t[c].pfx = <<>>
      BY <2>1 DEF Absorbable
    <2>3. NodeOK(t[c]) /\ c \in Path
      BY <2>2 DEF TreeOK
    <2>4. t[c].pfx = <<>> /\ t[c].edges \subseteq Path
      BY <2>2, <2>3, NodeFields
    <2>5. KidsOf(c, t[c]) = {c \o f : f \in t[c].edges}
      BY <2>2, <2>3, <2>4, BareKids
    <2> QED
      BY <2>2, <2>3, <2>4, <2>5 DEF c
  <1>5. KidsOf(p, x) = {p \o y : y \in G}
    <2>1. x.kind \in RouterKinds /\ x.pfx = <<>> /\ x.edges = G
      BY DEF Router, RouterKinds
    <2> HIDE DEF x, G
    <2> QED
      BY <1>1, <2>1, BareKids
  <1>6. \A z : z \in KidsOf(p, x) <=> \E c \in C : z \in KidsOf(c, t[c])
    <2>1. ASSUME NEW e \in E, NEW f \in t[p \o e].edges
          PROVE  p \o (e \o f) = (p \o e) \o f
      <3>1. e \in Path /\ f \in Path
        BY <1>2, <1>4
      <3> QED
        BY <1>1, <3>1, ConcatAssoc
    <2>2. ASSUME NEW z, z \in KidsOf(p, x)
          PROVE  \E c \in C : z \in KidsOf(c, t[c])
      <3>1. PICK y \in G : z = p \o y
        BY <1>5, <2>2
      <3>2. PICK e \in E : \E f \in t[p \o e].edges : y = e \o f
        BY <3>1 DEF Grandedges
      <3>3. PICK f \in t[p \o e].edges : y = e \o f
        BY <3>2
      <3>4. z = (p \o e) \o f
        BY <2>1, <3>1, <3>3
      <3>5. z \in KidsOf(p \o e, t[p \o e])
        BY <1>4, <3>4
      <3> QED
        BY <1>3, <3>5
    <2>3. ASSUME NEW z, NEW c \in C, z \in KidsOf(c, t[c])
          PROVE  z \in KidsOf(p, x)
      <3>1. PICK e \in E : c = p \o e
        BY <1>3
      <3>2. PICK f \in t[p \o e].edges : z = (p \o e) \o f
        BY <1>4, <2>3, <3>1
      <3>3. e \o f \in G
        BY DEF Grandedges
      <3>4. z = p \o (e \o f)
        BY <2>1, <3>2
      <3> HIDE DEF G
      <3> QED
        BY <1>5, <3>3, <3>4
    <2> QED
      BY <2>2, <2>3
  <1>7. u = Upd(Drop(t, C), p, x)
    BY DEF FuseTree
  <1>8. TreeOK(u) /\ ShapeOK(h)
    BY FuseOK, KidsShapeOK
  <1>9. /\ DOMAIN g = DOMAIN t /\ (\A q \in DOMAIN t : g[q] = KidsOf(q, t[q]))
        /\ DOMAIN h = DOMAIN u /\ (\A q \in DOMAIN u : h[q] = KidsOf(q, u[q])) /\ Good(g)
    BY KidsIs
  <1>10. p \notin C /\ C \subseteq DOMAIN t
    <2>1. C \subseteq DOMAIN t
      BY <1>3, <1>4
    <2>2. g[p] = C
      BY <1>3, <1>9
    <2> QED
      BY <1>9, <2>1, <2>2, KidFacts DEF Good
  <1> HIDE DEF C, x, u, g, h
  <1>11. DOMAIN u = DOMAIN t \ C /\ u[p] = x /\ \A q \in DOMAIN u \ {p} : u[q] = t[q]
    BY <1>7, <1>10 DEF Upd, Drop
  <1>12. g[p] = C /\ p \in DOMAIN g /\ g[p] \subseteq DOMAIN g /\ DOMAIN h = DOMAIN g \ g[p]
    BY <1>3, <1>9, <1>10, <1>11
  <1>13. \A z : z \in h[p] <=> \E c \in g[p] : z \in g[c]
    <2>1. h[p] = KidsOf(p, x)
      BY <1>9, <1>10, <1>11
    <2>2. \A c \in C : g[c] = KidsOf(c, t[c])
      BY <1>9, <1>10
    <2> QED
      BY <1>6, <1>12, <2>1, <2>2
  <1>14. \A q \in DOMAIN h \ {p} : h[q] = g[q]
    BY <1>9, <1>11
  <1>15. Good(h)
    BY <1>8, <1>9, <1>12, <1>13, <1>14, Contract
  <1> QED
    BY <1>15 DEF h, u

\* A node takes its only child in.
LEMMA SwallowShape ==
  ASSUME NEW t, TreeOK(t), Good(Kids(t)), NEW p \in DOMAIN t, NEW c \in DOMAIN t,
         KidsOf(p, t[p]) = {c}, NEW x, NodeOK(x), KidsOf(p, x) = KidsOf(c, t[c])
  PROVE  Good(Kids(Upd(Drop(t, {c}), p, x)))
  <1> DEFINE u == Upd(Drop(t, {c}), p, x)
             g == Kids(t)
             h == Kids(u)
  <1>1. p \in Path
    BY DEF TreeOK
  <1>2. TreeOK(Drop(t, {c}))
    BY DropOK
  <1>3. TreeOK(u)
    BY <1>1, <1>2, UpdOK
  <1>4. ShapeOK(h)
    BY <1>3, KidsShapeOK
  <1>5. /\ DOMAIN g = DOMAIN t /\ (\A q \in DOMAIN t : g[q] = KidsOf(q, t[q]))
        /\ DOMAIN h = DOMAIN u /\ (\A q \in DOMAIN u : h[q] = KidsOf(q, u[q])) /\ Good(g)
    BY KidsIs
  <1>6. c # p
    <2>1. g[p] = {c}
      BY <1>5
    <2> QED
      BY <1>5, <2>1, KidFacts DEF Good
  <1>7. /\ DOMAIN u = DOMAIN t \ {c} /\ u[p] = x
        /\ \A q \in DOMAIN t \ {c} : q # p => u[q] = t[q]
    BY <1>6 DEF Upd, Drop
  <1> HIDE DEF g, h, u
  <1>8. /\ g[p] = {c} /\ p \in DOMAIN g /\ g[p] \subseteq DOMAIN g /\ DOMAIN h = DOMAIN g \ g[p]
        /\ h[p] = g[c] /\ \A q \in DOMAIN h \ {p} : h[q] = g[q]
    BY <1>5, <1>6, <1>7
  <1>9. \A z : z \in h[p] <=> \E d \in g[p] : z \in g[d]
    BY <1>8
  <1>10. Good(h)
    BY <1>4, <1>5, <1>8, <1>9, Contract
  <1> QED
    BY <1>10 DEF h, u

LEMMA CollapseShape ==
  ASSUME NEW t, TreeOK(t), Good(Kids(t)), NEW p \in DOMAIN t, t[p].kind \in RouterKinds,
         Cardinality(t[p].edges) = 1
  PROVE  Good(Kids(CollapseTree(t, p)))
  <1> DEFINE e   == CHOOSE x \in t[p].edges : TRUE
             c   == At(t, p) \o e
             pfx == t[p].pfx \o e
  <1>1. t[p].edges = {e}
    <2>1. IsFiniteSet(t[p].edges)
      BY EdgesFinite DEF TreeOK
    <2>2. \E x : t[p].edges = {x}
      BY <2>1, FS_Singleton
    <2> QED
      BY <2>2
  <1> HIDE DEF e
  <1>2. p \in Path /\ NodeOK(t[p]) /\ t[p].pfx \in Path /\ e \in Path /\ e # <<>>
    <2>1. p \in Path /\ NodeOK(t[p])
      BY DEF TreeOK
    <2>2. t[p].pfx \in Path /\ e \in Path /\ Len(e) = StemLen(t[p].kind)
      BY <1>1, <2>1, NodeFields
    <2>3. StemLen(t[p].kind) # 0
      BY DEF StemLen
    <2>4. e # <<>>
      BY <2>2, <2>3, EmptyPath
    <2> QED
      BY <2>1, <2>2, <2>4
  <1>3. c = p \o pfx /\ pfx \in Path /\ pfx # <<>> /\ KidsOf(p, t[p]) = {c}
    <2> DEFINE z == t[p].pfx
    <2>1. p \in Path /\ z \in Path /\ e \in Path /\ e # <<>>
      BY <1>2
    <2>2. KidsOf(p, t[p]) = {(p \o z) \o d : d \in t[p].edges}
      BY KidsOfIs
    <2> HIDE DEF z
    <2>3. p \o (z \o e) = (p \o z) \o e
      BY <2>1, ConcatAssoc
    <2>4. z \o e \in Path /\ z \o e # <<>>
      BY <2>1, ConcatNonEmpty
    <2>5. KidsOf(p, t[p]) = {(p \o z) \o e}
      BY <1>1, <2>2
    <2> QED
      BY <2>3, <2>4, <2>5 DEF At, z
  <1>4. CASE c \in DOMAIN t /\ t[c].kind = "setlist" /\ Len(t[c].pfx) + Len(pfx) <= PrefixCap
    <2> DEFINE x == [t[c] EXCEPT !.pfx = pfx \o t[c].pfx]
    <2>1. CollapseTree(t, p) = Upd(Drop(t, {c}), p, x)
      BY <1>4 DEF CollapseTree, c, pfx, e
    <2>2. NodeOK(t[c]) /\ t[c].kind = "setlist" /\ t[c].kind \in RouterKinds
      BY <1>4 DEF TreeOK, RouterKinds
    <2>3. /\ t[c] \in RouterNode /\ t[c].pfx \in Path
          /\ t[c].edges \in SUBSET Path /\ t[c].term \in Values \cup {NoVal}
          /\ \A d \in t[c].edges : Len(d) = StemLen("setlist")
      BY <2>2, NodeFields
    <2> DEFINE y == pfx \o t[c].pfx
    <2>4. y \in Path
      <3> HIDE DEF pfx, c
      <3> QED
        BY <1>3, <2>3, ConcatFacts
    <2>5. x = Router("setlist", y, t[c].edges, t[c].term)
      <3>1. x = Router(t[c].kind, y, t[c].edges, t[c].term)
        BY <2>3, RouterIs
      <3> QED
        BY <2>2, <3>1
    <2>6. NodeOK(Router("setlist", y, t[c].edges, t[c].term))
      <3> HIDE DEF y
      <3> QED
        BY <2>2, <2>3, <2>4, RouterOK
    <2>7. x.kind = "setlist" /\ x.pfx = y /\ x.edges = t[c].edges
      BY <2>5 DEF Router
    <2>8. NodeOK(x)
      BY <2>5, <2>6
    <2>9. p \o y = c \o t[c].pfx
      <3> DEFINE w == t[c].pfx
      <3>1. w \in Path
        BY <2>3
      <3> HIDE DEF w, pfx
      <3>2. p \o (pfx \o w) = (p \o pfx) \o w
        BY <1>2, <1>3, <3>1, ConcatAssoc
      <3> QED
        BY <1>3, <3>2 DEF w
    <2> HIDE DEF x, y, c
    <2>10. KidsOf(p, x) = KidsOf(c, t[c])
      <3>1. Alike(p, x, c, t[c])
        BY <2>2, <2>7, <2>9 DEF Alike
      <3> QED
        BY <3>1, SameEdges
    <2>11. Good(Kids(Upd(Drop(t, {c}), p, x)))
      BY <1>3, <1>4, <2>8, <2>10, SwallowShape
    <2> QED
      BY <2>1, <2>11
  <1>5. CASE ~(c \in DOMAIN t /\ t[c].kind = "setlist" /\ Len(t[c].pfx) + Len(pfx) <= PrefixCap)
    <2>1. CollapseTree(t, p) = MakePrefix(t, p, pfx)
      BY <1>5 DEF CollapseTree, c, pfx, e
    <2>2. KidsOf(p, t[p]) = {p \o pfx}
      BY <1>3
    <2> HIDE DEF c, pfx
    <2>3. Good(Kids(MakePrefix(t, p, pfx)))
      BY <1>3, <2>2, MakePrefixShape
    <2> QED
      BY <2>1, <2>3
  <1> QED
    BY <1>4, <1>5

\* Edits that leave the edges alone.
LEMMA OneNodeShape ==
  ASSUME NEW t, Good(Kids(t)), NEW p, NEW u, DOMAIN u = DOMAIN t,
         \A q \in DOMAIN t \ {p} : u[q] = t[q],
         p \in DOMAIN t => KidsOf(p, u[p]) = KidsOf(p, t[p])
  PROVE  Good(Kids(u)) /\ Kids(u) = Kids(t)
  <1>1. \A q \in DOMAIN t : KidsOf(q, u[q]) = KidsOf(q, t[q])
    OBVIOUS
  <1> QED
    BY <1>1, SameShape

LEMMA TermShape ==
  ASSUME NEW t, TreeOK(t), Good(Kids(t)), NEW p \in DOMAIN t, t[p].kind \in RouterKinds, NEW tm
  PROVE  Good(Kids([t EXCEPT ![p].term = tm]))
  <1> DEFINE u == [t EXCEPT ![p].term = tm]
  <1>1. t[p] \in RouterNode
    BY NodeFields DEF TreeOK
  <1>2. u[p] = Router(t[p].kind, t[p].pfx, t[p].edges, tm)
    BY <1>1, RouterIs
  <1>3. DOMAIN u = DOMAIN t /\ \A q \in DOMAIN t \ {p} : u[q] = t[q]
    OBVIOUS
  <1> HIDE DEF u
  <1>4. u[p].kind = t[p].kind /\ u[p].pfx = t[p].pfx /\ u[p].edges = t[p].edges
    BY <1>2 DEF Router
  <1>5. KidsOf(p, u[p]) = KidsOf(p, t[p])
    <2>1. Alike(p, u[p], p, t[p])
      BY <1>4 DEF Alike
    <2> QED
      BY <2>1, SameEdges
  <1>6. Good(Kids(u))
    BY <1>3, <1>5, OneNodeShape
  <1> QED
    BY <1>6 DEF u

LEMMA ValShape ==
  ASSUME NEW t, TreeOK(t), Good(Kids(t)), NEW p \in DOMAIN t, t[p].kind = "leaf", NEW v
  PROVE  Good(Kids([t EXCEPT ![p].val = v]))
  <1> DEFINE u == [t EXCEPT ![p].val = v]
  <1>1. NodeOK(t[p])
    BY DEF TreeOK
  <1>2. DOMAIN u = DOMAIN t /\ (\A q \in DOMAIN t \ {p} : u[q] = t[q])
        /\ u[p] = [t[p] EXCEPT !.val = v]
    OBVIOUS
  <1>3. u[p].kind = "leaf"
    BY <1>1, <1>2, LeafEdits
  <1> HIDE DEF u
  <1>4. KidsOf(p, u[p]) = KidsOf(p, t[p])
    BY <1>3, KidsOfIs
  <1>5. Good(Kids(u))
    BY <1>2, <1>4, OneNodeShape
  <1> QED
    BY <1>5 DEF u

LEMMA KindShape ==
  ASSUME NEW t, TreeOK(t), Good(Kids(t)), NEW p \in DOMAIN t, t[p].kind \in RouterKinds,
         NEW k \in RouterKinds
  PROVE  Good(Kids([t EXCEPT ![p].kind = k]))
  <1> DEFINE u == [t EXCEPT ![p].kind = k]
  <1>1. t[p] \in RouterNode
    BY NodeFields DEF TreeOK
  <1>2. u[p] = Router(k, t[p].pfx, t[p].edges, t[p].term)
    BY <1>1, RouterIs
  <1>3. DOMAIN u = DOMAIN t /\ \A q \in DOMAIN t \ {p} : u[q] = t[q]
    OBVIOUS
  <1> HIDE DEF u
  <1>4. u[p].kind = k /\ u[p].pfx = t[p].pfx /\ u[p].edges = t[p].edges
    BY <1>2 DEF Router
  <1>5. KidsOf(p, u[p]) = KidsOf(p, t[p])
    <2>1. Alike(p, u[p], p, t[p])
      BY <1>4 DEF Alike
    <2> QED
      BY <2>1, SameEdges
  <1>6. Good(Kids(u))
    BY <1>3, <1>5, OneNodeShape
  <1> QED
    BY <1>6 DEF u

LEMMA ExternalizeShape ==
  ASSUME NEW t, TreeOK(t), Good(Kids(t)), NEW p, NEW S \in SUBSET InlineKids(t, p)
  PROVE  Good(Kids(Externalize(t, S))) /\ Kids(Externalize(t, S)) = Kids(t)
  <1> DEFINE u == Externalize(t, S)
  <1>1. DOMAIN u = DOMAIN t
    BY DEF Externalize
  <1>2. ASSUME NEW q \in DOMAIN t
        PROVE  KidsOf(q, u[q]) = KidsOf(q, t[q])
    <2>1. CASE q \notin S
      BY <2>1 DEF Externalize
    <2>2. CASE q \in S
      <3>1. t[q].kind = "leaf" /\ NodeOK(t[q])
        BY <2>2 DEF InlineKids, IsLeaf, TreeOK
      <3>2. u[q].kind = t[q].kind
        BY ExternalizeOK
      <3> HIDE DEF u
      <3> QED
        BY <3>1, <3>2, KidsOfIs
    <2> QED
      BY <2>1, <2>2
  <1> HIDE DEF u
  <1>3. Good(Kids(u)) /\ Kids(u) = Kids(t)
    BY <1>1, <1>2, SameShape
  <1> QED
    BY <1>3 DEF u

-----------------------------------------------------------------------------
(* The inductive invariant: the edges make a trie, and what a running call *)
(* is about to do next fits it.                                            *)

\* The levels up to m, as far as the ring knows them, are a path of the tree.
Chained(m) == \A i \in Window : i < m => PathAt(i + 1) \in KidsOf(PathAt(i), tree[PathAt(i)])

Hanging ==
  /\ pc \in {"put", "get", "rem"} => Hung(Kids(tree), slot)
  /\ pc = "grow" =>
       /\ GEdge \notin gnd.edges
       /\ gnode # slot => At(tree, slot) = gnode /\ gnd.pfx = <<>>
  /\ pc = "rem" => Chained(n - 1)
  /\ pc = "unlink" => /\ Chained(j + 1)
                      /\ \A q \in DOMAIN tree : ~StartsWith(q, PathAt(j + 1))
  /\ pc = "shrink" => Chained(j)

Shape == Good(Kids(tree)) /\ Hanging

\* Nothing is about to happen to the tree.
LEMMA RestShape ==
  ASSUME pc' \in {"idle", "clear", "fuse"}, Good(Kids(tree'))
  PROVE  Shape'
  BY DEF Shape, Hanging

LEMMA FinishShape ==
  ASSUME NEW r, Finish(r), Good(Kids(tree'))
  PROVE  Shape'
  BY RestShape DEF Finish

LEMMA ThrowShape ==
  ASSUME Shape, Throw
  PROVE  Shape'
  BY FinishShape DEF Throw, Shape

LEMMA PutAgainShape ==
  ASSUME pc' = "put", slot' \in DOMAIN tree', Good(Kids(tree'))
  PROVE  Shape'
  <1>1. Hung(Kids(tree'), slot')
    BY KidsIs DEF Good
  <1> QED
    BY <1>1 DEF Shape, Hanging

LEMMA InitShape == Init => Shape
  <1> SUFFICES ASSUME Init PROVE Shape
    OBVIOUS
  <1>1. DOMAIN Kids(tree) = {}
    BY KidsIs DEF Init
  <1>2. Good(Kids(tree))
    BY <1>1 DEF Good, ShapeOK, Trie
  <1> QED
    BY <1>2 DEF Init, Shape, Hanging

LEMMA CallShape ==
  ASSUME IInv, Shape, NEW op \in Ops, NEW k \in Keys, NEW v \in Values, Call(op, k, v)
  PROVE  Shape'
  <1>1. tree' = tree /\ slot' = <<>> /\ n' = 1 /\ pc' \in {"put", "get", "rem", "clear"}
    BY DEF Call, Entry, Ops
  <1>2. Good(Kids(tree'))
    BY <1>1 DEF Shape
  <1>3. CASE pc' = "clear"
    BY <1>2, <1>3, RestShape
  <1>4. CASE pc' \in {"put", "get"}
    BY <1>1, <1>2, <1>4 DEF Shape, Hanging, Hung
  <1>5. CASE pc' = "rem"
    <2>1. \A i \in Window' : ~(i < (n - 1)')
      BY <1>1 DEF Window
    <2> QED
      BY <1>1, <1>2, <1>5, <2>1 DEF Shape, Hanging, Hung, Chained
  <1> QED
    BY <1>1, <1>3, <1>4, <1>5

-----------------------------------------------------------------------------
(* insert_.                                                                *)

LEMMA PutNullShape ==
  ASSUME IInv, Shape, PutNull
  PROVE  Shape'
  <1>1. CASE Throw
    BY <1>1, ThrowShape
  <1>2. CASE tree' = Upd(tree, slot, Leaf(R, req.val)) /\ Finish("true")
    <2>1. R \in Path /\ slot \in Path /\ slot \notin DOMAIN tree /\ Hung(Kids(tree), slot)
      BY StateFacts, PutFacts DEF PutNull, Putting, Shape, Hanging
    <2>2. NodeOK(Leaf(R, req.val))
      BY <2>1, StateFacts, LeafOK
    <2>3. Good(Kids(Upd(tree, slot, Leaf(R, req.val))))
      BY <2>1, <2>2, StateFacts, HangShape DEF Shape
    <2> QED
      BY <1>2, <2>3, FinishShape
  <1> QED
    BY <1>1, <1>2 DEF PutNull

LEMMA PutSameLeafShape ==
  ASSUME IInv, Shape, PutSameLeaf
  PROVE  Shape'
  <1>1. slot \in DOMAIN tree /\ tree[slot].kind = "leaf" /\ Finish("false")
    BY DEF PutSameLeaf, nd
  <1>2. Good(Kids([tree EXCEPT ![slot].val = req.val])) /\ Good(Kids(tree))
    BY <1>1, StateFacts, ValShape DEF Shape
  <1>3. tree' = [tree EXCEPT ![slot].val = req.val] \/ tree' = tree
    BY DEF PutSameLeaf
  <1>4. Good(Kids(tree'))
    BY <1>2, <1>3
  <1> QED
    BY <1>1, <1>4, FinishShape

LEMMA PutSplitLeafShape ==
  ASSUME IInv, Shape, PutSplitLeaf
  PROVE  Shape'
  <1>1. CASE Throw
    BY <1>1, ThrowShape
  <1>2. ASSUME NEW fits \in BOOLEAN, tree' = SplitLeafTree(fits),
               pc' = "fuse" \/ Finish("true")
        PROVE  Shape'
    <2>1. slot \in DOMAIN tree /\ nd.kind = "leaf" /\ R \in Path
      BY PutFacts DEF PutSplitLeaf
    <2>2. Good(Kids(tree'))
      BY <1>2, <2>1, StateFacts, SplitLeafShape DEF Shape
    <2> QED
      BY <1>2, <2>2, FinishShape, RestShape
  <1> QED
    BY <1>1, <1>2 DEF PutSplitLeaf

LEMMA PutLazyFuseShape ==
  ASSUME IInv, Shape, PutLazyFuse
  PROVE  Shape'
  <1> DEFINE pfx == tree[slot].pfx
  <1>1. /\ slot \in DOMAIN tree /\ tree[slot].kind = "pn" /\ pc' = "put" /\ slot' = slot
        /\ tree' = MakePrefix(tree, slot, pfx)
    BY DEF PutLazyFuse, Putting, nd
  <1>2. slot \in Path /\ pfx \in Path /\ pfx # <<>> /\ KidsOf(slot, tree[slot]) = {slot \o pfx}
    <2>1. NodeOK(tree[slot])
      BY <1>1, StateFacts DEF TreeOK
    <2> QED
      BY <1>1, <2>1, StateFacts, NodeFields, KidsOfIs
  <1> HIDE DEF pfx
  <1>3. Good(Kids(tree'))
    BY <1>1, <1>2, StateFacts, MakePrefixShape DEF Shape
  <1>4. slot' \in DOMAIN tree'
    BY <1>1, <1>2, StateFacts, MakePrefixOK
  <1> QED
    BY <1>1, <1>3, <1>4, PutAgainShape

LEMMA PutSplitPrefixShape ==
  ASSUME IInv, Shape, PutSplitPrefix
  PROVE  Shape'
  <1>1. CASE Throw
    BY <1>1, ThrowShape
  <1>2. ASSUME NEW fits \in BOOLEAN, tree' = SplitPrefixTree(fits), Finish("true")
        PROVE  Shape'
    <2>1. slot \in DOMAIN tree /\ nd.kind # "leaf" /\ R \in Path /\ ~StartsWith(R, nd.pfx)
      BY PutFacts DEF PutSplitPrefix
    <2>2. Good(Kids(tree'))
      BY <1>2, <2>1, StateFacts, SplitPrefixShape DEF Shape
    <2> QED
      BY <1>2, <2>2, FinishShape
  <1> QED
    BY <1>1, <1>2 DEF PutSplitPrefix

LEMMA PutTermShape ==
  ASSUME IInv, Shape, PutTerm
  PROVE  Shape'
  <1>1. CASE Throw
    BY <1>1, ThrowShape
  <1>2. CASE ~Throw
    <2>1. slot \in DOMAIN tree /\ tree[slot].kind \in RouterKinds
      BY DEF PutTerm, nd
    <2>2. Good(Kids([tree EXCEPT ![slot].term = req.val])) /\ Good(Kids(tree))
      BY <2>1, StateFacts, TermShape DEF Shape
    <2>3. (tree' = [tree EXCEPT ![slot].term = req.val] \/ tree' = tree)
          /\ (Finish("true") \/ Finish("false"))
      BY <1>2 DEF PutTerm
    <2>4. Good(Kids(tree'))
      BY <2>2, <2>3
    <2> QED
      BY <2>3, <2>4, FinishShape
  <1> QED
    BY <1>1, <1>2

\* The slot a lookup goes on to is a child.
LEMMA NextIsKid ==
  ASSUME IInv, Passes
  PROVE  slot \in DOMAIN tree /\ NextSlot \in KidsOf(slot, tree[slot])
  <1>1. slot \in DOMAIN tree /\ tree[slot].kind # "leaf"
    BY DEF Passes, PastPrefix, nd
  <1>2. tree[slot].kind \in {"pn"} \cup RouterKinds
    BY <1>1, StateFacts, NodeFields DEF TreeOK
  <1>3. CASE tree[slot].kind = "pn"
    <2>1. NextSlot = slot \o tree[slot].pfx
      BY <1>3 DEF NextSlot, nd, here, At
    <2> QED
      BY <1>1, <1>3, <2>1, KidsOfIs
  <1>4. CASE tree[slot].kind \in RouterKinds
    <2>1. tree[slot].kind # "pn"
      BY <1>4 DEF RouterKinds, CnodeKinds
    <2>2. NextSlot = (slot \o tree[slot].pfx) \o Edge /\ Edge \in tree[slot].edges
      BY <1>4, <2>1 DEF NextSlot, nd, here, At, Passes
    <2>3. KidsOf(slot, tree[slot]) = {(slot \o tree[slot].pfx) \o e : e \in tree[slot].edges}
      BY <1>4, KidsOfIs
    <2> QED
      BY <1>1, <2>2, <2>3
  <1> QED
    BY <1>2, <1>3, <1>4

LEMMA PutDescendShape ==
  ASSUME IInv, Shape, PutDescend
  PROVE  Shape'
  <1> DEFINE S == {NextSlot} \cap InlineKids(tree, slot)
  <1>1. CASE Throw
    BY <1>1, ThrowShape
  <1>2. CASE slot' = NextSlot /\ tree' = Externalize(tree, S) /\ pc' = "put"
    <2>1. Passes
      BY DEF PutDescend, Passes
    <2>2. S \in SUBSET InlineKids(tree, slot)
      OBVIOUS
    <2> HIDE DEF S
    <2>3. Good(Kids(tree')) /\ Kids(tree') = Kids(tree)
      BY <1>2, <2>2, StateFacts, ExternalizeShape DEF Shape
    <2>4. Hung(Kids(tree), NextSlot)
      BY <2>1, NextIsKid, KidsIs DEF Hung
    <2> QED
      BY <1>2, <2>3, <2>4 DEF Shape, Hanging
  <1> QED
    BY <1>1, <1>2 DEF PutDescend, NextSlot, Putting

LEMMA PutExternalizeAllShape ==
  ASSUME IInv, Shape, PutExternalizeAll
  PROVE  Shape'
  <1>1. ASSUME NEW S \in SUBSET InlineKids(tree, slot), tree' = Externalize(tree, S)
        PROVE  Good(Kids(tree')) /\ DOMAIN tree' = DOMAIN tree
    BY <1>1, StateFacts, ExternalizeShape, ExternalizeOK DEF Shape
  <1>2. CASE /\ tree' = Externalize(tree, InlineKids(tree, slot))
             /\ pc' = pc /\ slot' = slot
    <2>1. Good(Kids(tree')) /\ DOMAIN tree' = DOMAIN tree
      BY <1>1, <1>2
    <2>2. pc' = "put" /\ slot' \in DOMAIN tree'
      BY <1>2, <2>1 DEF PutExternalizeAll, Putting, NoChild
    <2> QED
      BY <2>1, <2>2, PutAgainShape
  <1>3. ASSUME NEW c \in InlineKids(tree, slot), Finish("throw"),
               tree' = Externalize(tree, {d \in InlineKids(tree, slot) : d[Len(d)] < c[Len(c)]})
        PROVE  Shape'
    <2>1. Good(Kids(tree'))
      BY <1>1, <1>3
    <2> QED
      BY <1>3, <2>1, FinishShape
  <1> QED
    BY <1>2, <1>3 DEF PutExternalizeAll

LEMMA PutAddShape ==
  ASSUME IInv, Shape, PutAdd
  PROVE  Shape'
  <1> DEFINE suf == Rest(req.key, here \o Edge)
  <1>1. CASE Throw
    BY <1>1, ThrowShape
  <1>2. /\ slot \in DOMAIN tree /\ tree[slot].kind \in RouterKinds /\ tree[slot].kind # "u16"
        /\ Edge \in Path /\ Len(Edge) = StemLen(tree[slot].kind) /\ suf \in Path
        /\ Edge \notin tree[slot].edges
    BY NoChildFacts DEF PutAdd, nd, StemLen, NoChild
  <1>3. CASE tree' = Link(tree, slot, Edge, suf) /\ Finish("true")
    <2> HIDE DEF suf
    <2>1. Good(Kids(Link(tree, slot, Edge, suf)))
      BY <1>2, StateFacts, LinkShape DEF Shape
    <2> QED
      BY <1>3, <2>1, FinishShape
  <1>4. CASE pc' = "grow" /\ gnode' = slot /\ UNCHANGED <<tree, req, slot>>
    <2>1. GEdge' = Edge
      BY <1>2, <1>4 DEF GEdge, Edge, here, nd
    <2>2. GEdge' \notin gnd'.edges
      BY <1>2, <1>4, <2>1 DEF gnd
    <2> QED
      BY <1>4, <2>2 DEF Shape, Hanging
  <1> QED
    BY <1>1, <1>3, <1>4 DEF PutAdd

LEMMA PutAddStemShape ==
  ASSUME IInv, Shape, PutAddStem
  PROVE  Shape'
  <1> DEFINE suf == Rest(req.key, here \o Edge)
  <1>1. CASE Throw
    BY <1>1, ThrowShape
  <1>2. CASE tree' = Link(tree, slot, Edge, suf) /\ Finish("true")
    <2>1. /\ slot \in DOMAIN tree /\ tree[slot].kind \in RouterKinds
          /\ Edge \in Path /\ Len(Edge) = StemLen(tree[slot].kind) /\ suf \in Path
          /\ Edge \notin tree[slot].edges
      BY NoChildFacts DEF PutAddStem, nd, StemLen, NoChild
    <2> HIDE DEF suf
    <2>2. Good(Kids(Link(tree, slot, Edge, suf)))
      BY <2>1, StateFacts, LinkShape DEF Shape
    <2> QED
      BY <1>2, <2>2, FinishShape
  <1> QED
    BY <1>1, <1>2 DEF PutAddStem

LEMMA PutRestrideShape ==
  ASSUME IInv, Shape, PutRestride
  PROVE  Shape'
  <1>1. CASE Throw
    BY <1>1, ThrowShape
  <1>2. CASE tree' = RestrideTree /\ pc' = pc /\ slot' = slot
    <2>1. slot \in DOMAIN tree /\ nd.kind = "u16" /\ pc = "put"
      BY DEF PutRestride, NoChild, Putting
    <2>2. Good(Kids(tree')) /\ slot' \in DOMAIN tree'
      BY <1>2, <2>1, StateFacts, RestrideShape, RestrideOK DEF Shape
    <2> QED
      BY <1>2, <2>1, <2>2, PutAgainShape
  <1> QED
    BY <1>1, <1>2 DEF PutRestride

-----------------------------------------------------------------------------
(* grow_router_ and try_fuse_parent.                                       *)

LEMMA GrowLiftShape ==
  ASSUME IInv, Shape, GrowLift
  PROVE  Shape'
  <1> DEFINE b == At(tree, gnode)
             x == [gnd EXCEPT !.pfx = <<>>]
             u == [q \in {gnode, b} |-> IF q = gnode THEN Pn(gnd.pfx) ELSE x]
  <1>1. CASE Throw
    BY <1>1, ThrowShape
  <1>2. CASE tree' = Over(tree, u) /\ gnode' = b /\ pc' = pc /\ UNCHANGED <<req, slot>>
    <2>1. gnd.kind = "setlist" /\ gnd.pfx # <<>> /\ pc = "grow" /\ gnd = tree[gnode]
      BY DEF GrowLift, gnd
    <2>2. /\ gnode \in Path /\ gnd.pfx \in Path /\ b = gnode \o gnd.pfx /\ gnd \in RouterNode
          /\ gnode \in DOMAIN tree /\ NodeOK(gnd) /\ gnd.kind \in RouterKinds
      BY <2>1, GrowFacts DEF At
    <2>3. b \in Path /\ StartsWith(b, gnode) /\ b # gnode
      BY <2>1, <2>2, StartsConcat
    <2>4. x.kind = "setlist" /\ x.pfx = <<>> /\ x.edges = gnd.edges
      <3>1. [gnd EXCEPT !.pfx = <<>>] = Router(gnd.kind, <<>>, gnd.edges, gnd.term)
        BY <2>2, RouterIs
      <3> QED
        BY <2>1, <3>1 DEF Router
    <2>5. Pn(gnd.pfx).kind = "pn" /\ Pn(gnd.pfx).pfx = gnd.pfx
      BY DEF Pn
    <2> HIDE DEF x
    <2>6. /\ DOMAIN tree' = DOMAIN tree \cup {b} /\ tree'[gnode] = Pn(gnd.pfx) /\ tree'[b] = x
          /\ \A q \in DOMAIN tree \ {gnode, b} : tree'[q] = tree[q]
      <3> HIDE DEF b
      <3> QED
        BY <1>2, <2>2, <2>3 DEF Over
    <2>7. TreeOK(tree')
      BY GrowLiftOK, StateFacts DEF IInv
    <2>8. KidsOf(gnode, tree'[gnode]) = {b}
      <3>1. KidsOf(gnode, Pn(gnd.pfx)) = {gnode \o Pn(gnd.pfx).pfx}
        BY <2>5, KidsOfIs
      <3> QED
        BY <2>2, <2>5, <2>6, <3>1
    <2>9. KidsOf(b, tree'[b]) = KidsOf(gnode, tree[gnode])
      <3>1. b \o x.pfx = gnode \o gnd.pfx
        BY <2>2, <2>3, <2>4, ConcatEmpty
      <3>2. Alike(b, x, gnode, gnd)
        BY <2>2, <2>4, <3>1 DEF Alike, RouterKinds
      <3> QED
        BY <2>1, <2>6, <3>2, SameEdges
    <2>10. \A f \in KidsOf(gnode, tree[gnode]) : StartsWith(f, b) /\ f # b
      BY <2>1, <2>2, BelowHere
    <2> HIDE DEF b
    <2>11. Lifted(tree, tree', gnode, b)
      BY <2>3, <2>6, <2>7, <2>8, <2>9, <2>10 DEF Lifted
    <2>12. Good(Kids(tree'))
      BY <2>2, <2>11, StateFacts, LiftShape DEF Shape
    <2>13. gnode = slot /\ GEdge \notin gnd.edges
      BY <2>1 DEF Shape, Hanging
    <2>14. At(tree', gnode') = b /\ At(tree', slot') = b /\ At(tree, gnode) = b
      <3>1. At(tree', b) = b
        BY <2>3, <2>4, <2>6, ConcatEmpty DEF At
      <3>2. At(tree', gnode) = b
        BY <2>2, <2>5, <2>6 DEF At
      <3> QED
        BY <1>2, <2>13, <3>1, <3>2 DEF b
    <2>15. GEdge' = GEdge /\ gnd' = x
      BY <1>2, <2>6, <2>14 DEF GEdge, gnd
    <2>16. Hanging'
      BY <1>2, <2>1, <2>4, <2>13, <2>14, <2>15 DEF Hanging
    <2> QED
      BY <2>12, <2>16 DEF Shape
  <1> QED
    BY <1>1, <1>2 DEF GrowLift

LEMMA GrowWidenShape ==
  ASSUME IInv, Shape, GrowWiden
  PROVE  Shape'
  <1> DEFINE u == [tree EXCEPT ![gnode].kind = WidenTo(@)]
  <1>1. CASE Throw
    BY <1>1, ThrowShape
  <1>2. CASE tree' = u /\ pc' = pc /\ UNCHANGED <<req, slot, gnode>>
    <2>1. /\ gnode \in DOMAIN tree /\ gnd.kind \in RouterKinds \ {"u16"} /\ gnd = tree[gnode]
          /\ gnd \in RouterNode /\ pc = "grow"
          /\ gnode # slot => slot \in DOMAIN tree
      BY GrowFacts DEF GrowWiden, gnd
    <2>2. gnd.kind \in {"setlist", "c2", "c4", "c8"}
      BY <2>1 DEF GrowWiden, Fits, RouterKinds, CnodeKinds
    <2> DEFINE k == WidenTo(gnd.kind)
    <2>3. k \in RouterKinds
      BY <2>2 DEF WidenTo, RouterKinds, CnodeKinds
    <2>4. u = [tree EXCEPT ![gnode].kind = k]
      BY DEF gnd
    <2> HIDE DEF k, u
    <2>5. Good(Kids([tree EXCEPT ![gnode].kind = k]))
      BY <2>1, <2>3, StateFacts, KindShape DEF Shape
    <2>6. Good(Kids(tree'))
      BY <1>2, <2>4, <2>5
    <2>7. /\ tree'[gnode] = Router(k, gnd.pfx, gnd.edges, gnd.term)
          /\ \A q \in DOMAIN tree \ {gnode} : tree'[q] = tree[q]
      BY <1>2, <2>1, <2>4, RouterIs
    <2>8. tree'[gnode].pfx = gnd.pfx /\ tree'[gnode].edges = gnd.edges
      BY <2>7 DEF Router
    <2>9. At(tree', gnode) = At(tree, gnode)
      BY <2>1, <2>8 DEF At
    <2>10. GEdge' = GEdge /\ gnd'.edges = gnd.edges /\ gnd'.pfx = gnd.pfx
      BY <1>2, <2>8, <2>9 DEF GEdge, gnd
    <2>11. gnode # slot => At(tree', slot) = At(tree, slot)
      BY <2>1, <2>7 DEF At
    <2>12. Hanging'
      BY <1>2, <2>1, <2>10, <2>11 DEF Shape, Hanging
    <2> QED
      BY <2>6, <2>12 DEF Shape
  <1> QED
    BY <1>1, <1>2 DEF GrowWiden

LEMMA FuseParentShape ==
  ASSUME IInv, Shape, FuseParent
  PROVE  Shape'
  <1>1. pslot \in DOMAIN tree
    BY StateFacts DEF FuseParent, PutLive
  <1>2. Fusable(tree, pslot) => Good(Kids(FuseTree(tree, pslot)))
    BY <1>1, StateFacts, FuseShape DEF Shape
  <1>3. Good(Kids(tree')) /\ Finish(ret)
    BY <1>2 DEF FuseParent, Shape
  <1> QED
    BY <1>3, FinishShape

-----------------------------------------------------------------------------
(* find, update and clear.                                                 *)

LEMMA GetDescendShape ==
  ASSUME IInv, Shape, GetDescend
  PROVE  Shape'
  <1>1. Passes /\ pc = "get" /\ slot' = NextSlot /\ UNCHANGED <<tree, pc>>
    BY DEF GetDescend, Getting
  <1>2. Hung(Kids(tree), NextSlot)
    BY <1>1, NextIsKid, KidsIs DEF Hung
  <1> QED
    BY <1>1, <1>2 DEF Shape, Hanging

LEMMA GetMissShape ==
  ASSUME IInv, Shape, GetMiss
  PROVE  Shape'
  BY FinishShape DEF GetMiss, Shape

LEMMA GetHitShape ==
  ASSUME IInv, Shape, GetHit
  PROVE  Shape'
  <1>1. slot \in DOMAIN tree /\ (tree[slot].kind = "leaf" \/ tree[slot].kind \in RouterKinds)
    BY DEF GetHit, Holds, nd
  <1>2. tree[slot].kind = "leaf" => Good(Kids([tree EXCEPT ![slot].val = req.val]))
    BY <1>1, StateFacts, ValShape DEF Shape
  <1>3. tree[slot].kind \in RouterKinds => Good(Kids([tree EXCEPT ![slot].term = req.val]))
    BY <1>1, StateFacts, TermShape DEF Shape
  <1>4. \/ tree' = tree
        \/ tree[slot].kind = "leaf" /\ tree' = [tree EXCEPT ![slot].val = req.val]
        \/ tree[slot].kind # "leaf" /\ tree' = [tree EXCEPT ![slot].term = req.val]
    BY DEF GetHit, nd
  <1>5. Good(Kids(tree'))
    BY <1>1, <1>2, <1>3, <1>4 DEF Shape
  <1>6. \E r : Finish(r)
    BY DEF GetHit
  <1> QED
    BY <1>5, <1>6, FinishShape

LEMMA ClearShape ==
  ASSUME Clear
  PROVE  Shape'
  <1>1. DOMAIN Kids(tree') = {}
    BY KidsIs DEF Clear
  <1>2. Good(Kids(tree'))
    BY <1>1 DEF Good, ShapeOK, Trie
  <1> QED
    BY <1>2, FinishShape DEF Clear

LEMMA GrowLinkShape ==
  ASSUME IInv, Shape, GrowLink
  PROVE  Shape'
  <1> DEFINE b   == At(tree, gnode)
             suf == Rest(req.key, b \o GEdge)
             t   == Link(tree, gnode, GEdge, suf)
             pfx == tree[slot].pfx
  <1>1. /\ gnode \in DOMAIN tree /\ gnd.kind \in RouterKinds \ {"u16"}
        /\ gnd = tree[gnode] /\ gnode \in Path
        /\ b \in Path /\ StartsWith(req.key, b) /\ req.key # b
        /\ gnode # slot => slot \in DOMAIN tree /\ IsPn(tree, slot)
    BY GrowFacts DEF GrowLink, gnd
  <1>2. GEdge \in Path /\ Len(GEdge) = 1 /\ suf \in Path
    BY GrowEdgeOK DEF GrowLink
  <1>3. TreeOK(t) /\ Good(Kids(t))
    <2>1. Len(GEdge) = StemLen(tree[gnode].kind) /\ tree[gnode].kind \in RouterKinds
      BY <1>1, <1>2 DEF StemLen
    <2>2. GEdge \notin tree[gnode].edges
      BY <1>1 DEF GrowLink, Shape, Hanging
    <2> HIDE DEF suf
    <2>3. TreeOK(t)
      BY <1>1, <1>2, <2>1, StateFacts, LinkOK
    <2>4. Good(Kids(t))
      BY <1>1, <1>2, <2>1, <2>2, StateFacts, LinkShape DEF Shape
    <2> QED
      BY <2>3, <2>4
  <1>4. gnode # slot => Good(Kids(MakePrefix(t, slot, pfx)))
    <2> SUFFICES ASSUME gnode # slot
                 PROVE  Good(Kids(MakePrefix(t, slot, pfx)))
      OBVIOUS
    <2>1. slot \in DOMAIN tree /\ tree[slot].kind = "pn" /\ slot \in Path /\ pfx \in Path /\ pfx # <<>>
      <3>1. slot \in DOMAIN tree /\ tree[slot].kind = "pn"
        BY <1>1 DEF IsPn
      <3>2. NodeOK(tree[slot]) /\ slot \in Path
        BY <3>1, StateFacts DEF TreeOK
      <3> QED
        BY <3>1, <3>2, NodeFields
    <2>2. At(tree, slot) = gnode /\ gnd.pfx = <<>>
      BY DEF GrowLink, Shape, Hanging
    <2>3. t[slot] = tree[slot] /\ slot \in DOMAIN t
      <3>1. Len(gnode) = Len(slot) + Len(pfx) /\ Len(slot) \in Nat /\ Len(pfx) \in Nat
        BY <2>1, <2>2, ConcatFacts, PathFacts DEF At
      <3> DEFINE c == b \o GEdge
      <3>2. Len(c) = Len(b) + 1 /\ Len(b) = Len(gnode) + Len(gnd.pfx)
        <4>1. b = gnode
          BY <1>1, <2>2, ConcatEmpty DEF At
        <4>2. Len(c) = Len(b) + 1
          <5>1. b \in Path /\ GEdge \in Path
            BY <1>1, <1>2
          <5>2. Len(b \o GEdge) = Len(b) + Len(GEdge)
            BY <5>1, ConcatFacts
          <5> QED
            BY <1>2, <5>2
        <4> QED
          BY <2>2, <4>1, <4>2, <3>1, EmptyPath
      <3>3. c # slot
        BY <2>2, <3>1, <3>2, EmptyPath
      <3> HIDE DEF c
      <3>4. t = Upd([tree EXCEPT ![gnode].edges = @ \cup {GEdge}], c, Leaf(suf, req.val))
        BY DEF Link, c
      <3> HIDE DEF t, suf
      <3> QED
        BY <2>1, <3>3, <3>4 DEF Upd
    <2>4. KidsOf(slot, t[slot]) = {slot \o pfx}
      <3>1. KidsOf(slot, tree[slot]) = {slot \o pfx}
        BY <2>1, KidsOfIs
      <3> QED
        BY <2>3, <3>1
    <2> HIDE DEF t, pfx
    <2> QED
      BY <1>3, <2>1, <2>3, <2>4, MakePrefixShape
  <1>5. Good(Kids(tree')) /\ Finish("true")
    BY <1>3, <1>4 DEF GrowLink
  <1> QED
    BY <1>5, FinishShape

-----------------------------------------------------------------------------
(* remove_bytes_, rm_unwind_ and rm_shrink_.                               *)

\* A level above another is another slot.
LEMMA LevelsDiffer ==
  ASSUME IInv, pc \in {"rem", "unlink", "shrink"}, NEW a \in Window, NEW b \in Window, a < b
  PROVE  PathAt(a) # PathAt(b)
  <1>1. Len(PathAt(a)) \in Nat /\ Len(PathAt(b)) \in Nat /\ Len(PathAt(a)) < Len(PathAt(b))
    BY RingFacts
  <1> QED
    BY <1>1

\* The node of level i is freed.
LEMMA FreedShape ==
  ASSUME IInv, pc \in {"rem", "unlink", "shrink"}, Good(Kids(tree)), NEW i \in Window,
         Chained(i), \A k \in Window : k < i => Level(k), PathAt(i) \in DOMAIN tree,
         \A c \in KidsOf(PathAt(i), tree[PathAt(i)]), q \in DOMAIN tree : ~StartsWith(q, c),
         tree' = Drop(tree, {PathAt(i)}), Freed(i)
  PROVE  Shape'
  <1>1. Good(Kids(tree')) /\ \A q \in DOMAIN tree' : ~StartsWith(q, PathAt(i))
    BY PruneShape
  <1>2. CASE i = 0 \/ n - i >= RmLvn
    BY <1>1, <1>2, FinishShape DEF Freed
  <1>3. CASE ~(i = 0 \/ n - i >= RmLvn)
    <2>1. pc' = "unlink" /\ j' = i - 1 /\ UNCHANGED <<lvl, n>>
      BY <1>3 DEF Freed
    <2>2. Window' = Window /\ \A k : PathAt(k)' = PathAt(k)
      BY <2>1 DEF Window, PathAt
    <2>3. i \in Nat /\ (j + 1)' = i
      <3>1. i \in Nat
        BY RingFacts
      <3> QED
        BY <2>1, <3>1
    <2>4. ASSUME NEW k \in Window, k < i
          PROVE  PathAt(k + 1) \in KidsOf(PathAt(k), tree'[PathAt(k)])
      <3>1. PathAt(k) # PathAt(i)
        BY <2>4, LevelsDiffer
      <3>2. tree'[PathAt(k)] = tree[PathAt(k)]
        BY <2>4, <3>1 DEF Level, Drop
      <3> QED
        BY <2>4, <3>2 DEF Chained
    <2>5. \A k \in Window' : k < j' + 1
              => lvl'[(k + 1) % RmLvn] \in KidsOf(lvl'[k % RmLvn], tree'[lvl'[k % RmLvn]])
      BY <2>1, <2>2, <2>3, <2>4 DEF PathAt
    <2>7. Chained(j + 1)'
      BY <2>5 DEF Chained, PathAt
    <2>6. PathAt(j + 1)' = PathAt(i)
      BY <2>1, <2>3 DEF PathAt
    <2> QED
      BY <1>1, <2>1, <2>6, <2>7 DEF Shape, Hanging
  <1> QED
    BY <1>2, <1>3

\* The unwind turns to the router it ended the descent at.
LEMMA ToShrinkShape ==
  ASSUME IInv, Shape, Removing, ToShrink, Good(Kids(tree')),
         \A q \in DOMAIN tree : Len(q) < Len(slot) => tree'[q] = tree[q]
  PROVE  Shape'
  <1>1. pc = "rem" /\ pc' = "shrink" /\ j' = n - 1 /\ UNCHANGED <<lvl, n>>
    BY DEF ToShrink, Removing
  <1>2. Window' = Window /\ \A k : PathAt(k)' = PathAt(k)
    BY <1>1 DEF Window, PathAt
  <1>3. n \in Nat /\ n - 1 \in Window /\ PathAt(n - 1) = slot
    BY <1>1, RingFacts, RemFacts
  <1>4. ASSUME NEW k \in Window, k < n - 1
        PROVE  PathAt(k + 1) \in KidsOf(PathAt(k), tree'[PathAt(k)])
    <2>1. k \in Nat /\ k <= n - 2
      BY <1>1, <1>3, <1>4, RingFacts
    <2>2. PathAt(k) \in DOMAIN tree /\ Len(PathAt(k)) < Len(slot)
      BY <1>1, <1>3, <1>4, <2>1, RemFacts, RingFacts DEF Level
    <2>3. Chained(n - 1)
      BY <1>1 DEF Shape, Hanging
    <2> QED
      BY <1>4, <2>2, <2>3 DEF Chained
  <1>5. Chained(j)'
    BY <1>1, <1>2, <1>4 DEF Chained, PathAt
  <1> QED
    BY <1>1, <1>5 DEF Shape, Hanging

\* rm_shrink_ looks at the router of level j, once more or after an unlink.
LEMMA ShrinkAgainShape ==
  ASSUME IInv, pc \in {"unlink", "shrink"}, pc' = "shrink", Good(Kids(tree')), Chained(j),
         \A q \in DOMAIN tree \ {lp} : tree'[q] = tree[q], UNCHANGED <<lvl, n, j>>
  PROVE  Shape'
  <1>1. Window' = Window /\ \A k : PathAt(k)' = PathAt(k)
    BY DEF Window, PathAt
  <1>2. ASSUME NEW k \in Window, k < j
        PROVE  PathAt(k + 1) \in KidsOf(PathAt(k), tree'[PathAt(k)])
    <2>1. j \in Window /\ lp = PathAt(j) /\ k \in Nat /\ j \in Nat
      BY LevelFacts, RingFacts
    <2>2. PathAt(k) # lp
      BY <1>2, <2>1, LevelsDiffer
    <2>3. Level(k)
      <3>1. k <= j
        BY <1>2, <2>1
      <3> QED
        BY <3>1, LevelFacts
    <2>4. tree'[PathAt(k)] = tree[PathAt(k)]
      BY <2>2, <2>3 DEF Level
    <2> QED
      BY <1>2, <2>4 DEF Chained
  <1>3. Chained(j)'
    BY <1>1, <1>2 DEF Chained, PathAt
  <1> QED
    BY <1>3 DEF Shape, Hanging

LEMMA RemDescendShape ==
  ASSUME IInv, Shape, RemDescend
  PROVE  Shape'
  <1>1. pc = "rem" /\ Removing /\ Passes
    BY DEF RemDescend, Removing
  <1>2. slot \in DOMAIN tree /\ NextSlot \in KidsOf(slot, tree[slot])
    BY <1>1, NextIsKid
  <1>3. /\ n' = n + 1 /\ lvl' = [lvl EXCEPT ![n % RmLvn] = NextSlot]
        /\ UNCHANGED <<tree, pc>>
    BY DEF RemDescend
  <1>4. n \in Nat /\ n >= 1 /\ n - 1 \in Window /\ (n - 1)' = n
    <2>1. n \in Nat /\ n >= 1 /\ n - 1 \in Window
      BY <1>1, RingFacts
    <2> QED
      BY <1>3, <2>1
  <1>5. lvl'[n % RmLvn] = NextSlot
    BY <1>3, <1>4, ModRange, StateFacts
  <1>6. ASSUME NEW i \in Nat, i < n, n - i < RmLvn
        PROVE  i \in Window /\ lvl'[i % RmLvn] = PathAt(i)
    <2>1. i \in Window
      BY <1>4, <1>6, CapAssumption DEF Window
    <2>2. i % RmLvn # n % RmLvn /\ i % RmLvn \in 0 .. RmLvn - 1
      BY <1>4, <1>6, ModDiffers, ModRange
    <2> QED
      BY <1>3, <2>1, <2>2, StateFacts DEF PathAt
  <1>7. ASSUME NEW i \in Window', i < n
        PROVE  lvl'[(i + 1) % RmLvn] \in KidsOf(lvl'[i % RmLvn], tree[lvl'[i % RmLvn]])
    <2>1. i \in Nat /\ n - i < RmLvn
      BY <1>3, <1>4, <1>7, CapAssumption DEF Window
    <2>2. i \in Window /\ lvl'[i % RmLvn] = PathAt(i)
      BY <1>6, <1>7, <2>1
    <2>3. CASE i = n - 1
      <3>1. i + 1 = n /\ PathAt(i) = slot
        BY <1>1, <1>4, <2>3, RemFacts
      <3> QED
        BY <1>2, <1>5, <2>2, <3>1
    <2>4. CASE i # n - 1
      <3>1. i + 1 \in Nat /\ i + 1 < n /\ n - (i + 1) < RmLvn /\ i < n - 1
        BY <1>4, <1>7, <2>1, <2>4, CapAssumption
      <3>2. lvl'[(i + 1) % RmLvn] = PathAt(i + 1)
        BY <1>6, <3>1
      <3>3. Chained(n - 1)
        BY <1>1 DEF Shape, Hanging
      <3> QED
        BY <2>2, <3>1, <3>2, <3>3 DEF Chained
    <2> QED
      BY <2>3, <2>4
  <1>8. Chained(n - 1)'
    BY <1>3, <1>4, <1>7 DEF Chained, PathAt
  <1>9. Hung(Kids(tree), NextSlot) /\ slot' = NextSlot
    BY <1>2, KidsIs DEF Hung, RemDescend
  <1> QED
    BY <1>1, <1>3, <1>8, <1>9 DEF Shape, Hanging

LEMMA RemMissShape ==
  ASSUME IInv, Shape, RemMiss
  PROVE  Shape'
  BY FinishShape DEF RemMiss, Shape

LEMMA RemLeafShape ==
  ASSUME IInv, Shape, RemLeaf
  PROVE  Shape'
  <1>1. pc = "rem" /\ Removing /\ slot \in DOMAIN tree /\ tree[slot].kind = "leaf"
    BY DEF RemLeaf, Removing, Holds, nd
  <1>2. n \in Nat /\ n - 1 \in Window /\ PathAt(n - 1) = slot
    BY <1>1, RingFacts, RemFacts
  <1>3. \A k \in Window : k < n - 1 => Level(k)
    <2>1. \A k \in Window : k \in Nat /\ (k < n - 1 => k <= n - 2)
      BY <1>1, <1>2, RingFacts
    <2> QED
      BY <1>1, <2>1, RemFacts
  <1>4. tree' = Drop(tree, {PathAt(n - 1)}) /\ Freed(n - 1)
    BY <1>2 DEF RemLeaf
  <1>5. KidsOf(PathAt(n - 1), tree[PathAt(n - 1)]) = {}
    BY <1>1, <1>2, KidsOfIs
  <1>6. Chained(n - 1) /\ Good(Kids(tree))
    BY <1>1 DEF Shape, Hanging
  <1> QED
    BY <1>1, <1>2, <1>3, <1>4, <1>5, <1>6, FreedShape

LEMMA RemTermShape ==
  ASSUME IInv, Shape, RemTerm
  PROVE  Shape'
  <1>1. /\ slot \in DOMAIN tree /\ tree[slot].kind \in RouterKinds /\ Removing /\ ToShrink
        /\ tree' = [tree EXCEPT ![slot].term = NoVal]
    BY DEF RemTerm, Holds, nd
  <1>2. Good(Kids(tree'))
    BY <1>1, StateFacts, TermShape DEF Shape
  <1>3. ASSUME NEW q \in DOMAIN tree, Len(q) < Len(slot)
        PROVE  tree'[q] = tree[q]
    <2>1. q # slot
      <3>1. Len(slot) \in Nat
        BY StateFacts, PathFacts
      <3> QED
        BY <1>3, <3>1
    <2> QED
      BY <1>1, <2>1
  <1> QED
    BY <1>1, <1>2, <1>3, ToShrinkShape

LEMMA RemInlineShape ==
  ASSUME IInv, Shape, RemInline
  PROVE  Shape'
  <1> DEFINE t == Drop(tree, {NextSlot})
             u == [t EXCEPT ![slot].edges = @ \ {Edge}]
  <1>1. /\ pc = "rem" /\ Removing /\ Passes /\ ToShrink /\ NextSlot \in InlineKids(tree, slot)
        /\ tree' = u
    BY DEF RemInline, Removing
  <1>2. /\ slot \in DOMAIN tree /\ tree[slot].kind = "setlist" /\ NextSlot \in DOMAIN tree
        /\ tree[NextSlot].kind = "leaf"
    BY <1>1 DEF InlineKids, IsLeaf, Passes
  <1>3. /\ Len(slot) \in Nat /\ Len(NextSlot) \in Nat /\ Len(slot) < Len(NextSlot)
    BY <1>1, RemFacts, PassFacts, PathFacts
  <1>4. NextSlot = At(tree, slot) \o Edge /\ Edge \in tree[slot].edges
    BY <1>1, <1>2 DEF NextSlot, nd, here, Passes, RouterKinds
  <1>5. TreeOK(t) /\ DOMAIN t = DOMAIN tree \ {NextSlot} /\ \A q \in DOMAIN t : t[q] = tree[q]
    BY StateFacts, DropOK
  <1>6. Good(Kids(t)) /\ \A q \in DOMAIN t : ~StartsWith(q, NextSlot)
    <2>1. KidsOf(NextSlot, tree[NextSlot]) = {}
      BY <1>2, KidsOfIs
    <2> QED
      BY <1>2, <2>1, PruneShape DEF Shape
  <1> HIDE DEF t
  <1>7. /\ slot \in DOMAIN t /\ t[slot].kind \in RouterKinds /\ Edge \in t[slot].edges
        /\ NextSlot = At(t, slot) \o Edge
    <2>1. slot # NextSlot
      BY <1>3
    <2>2. slot \in DOMAIN t /\ t[slot] = tree[slot]
      BY <1>2, <1>5, <2>1
    <2> QED
      BY <1>2, <1>4, <2>2 DEF At, RouterKinds
  <1>8. Good(Kids(u))
    BY <1>5, <1>6, <1>7, CutShape
  <1>9. ASSUME NEW q \in DOMAIN tree, Len(q) < Len(slot)
        PROVE  tree'[q] = tree[q]
    <2>1. q # slot /\ q # NextSlot
      <3>1. Len(q) \in Nat
        BY StateFacts, PathFacts DEF TreeOK
      <3> QED
        BY <1>3, <1>9, <3>1
    <2> QED
      BY <1>1, <1>5, <2>1
  <1> QED
    BY <1>1, <1>8, <1>9, ToShrinkShape

\* What an unwind knows of its level.
LEMMA UnwindFacts ==
  ASSUME IInv, Shape, pc \in {"unlink", "shrink"}
  PROVE  /\ j \in Window /\ lp = PathAt(j) /\ lp \in DOMAIN tree /\ lnd = tree[lp]
         /\ \A k \in Window : k < j => Level(k)
         /\ Chained(j) /\ Good(Kids(tree))
         /\ pc = "unlink" => PathAt(j + 1) \in KidsOf(lp, lnd)
  <1>1. j \in Window /\ lp = PathAt(j) /\ lp \in DOMAIN tree /\ lnd = tree[lp] /\ j \in Nat
    BY LevelFacts, StateFacts DEF lnd
  <1>2. \A k \in Window : k < j => Level(k)
    <2>1. \A k \in Window : k \in Nat /\ (k < j => k <= j)
      BY <1>1, RingFacts
    <2> QED
      BY <2>1, LevelFacts
  <1>3. CASE pc = "unlink"
    <2>1. Chained(j + 1) /\ Good(Kids(tree))
      BY <1>3 DEF Shape, Hanging
    <2>2. \A k \in Window : k < j => k < j + 1
      BY <1>1, RingFacts
    <2>3. j < j + 1
      BY <1>1
    <2> QED
      BY <1>1, <1>2, <1>3, <2>1, <2>2, <2>3 DEF Chained
  <1>4. CASE pc = "shrink"
    BY <1>1, <1>2, <1>4 DEF Shape, Hanging
  <1> QED
    BY <1>3, <1>4

LEMMA UnlinkPnShape ==
  ASSUME IInv, Shape, UnlinkPn
  PROVE  Shape'
  <1>1. pc = "unlink" /\ Freed(j) /\ lnd.kind = "pn" /\ tree' = Drop(tree, {lp})
    BY DEF UnlinkPn
  <1>2. \A q \in DOMAIN tree : ~StartsWith(q, PathAt(j + 1))
    BY <1>1 DEF Shape, Hanging
  <1>3. KidsOf(lp, lnd) = {PathAt(j + 1)}
    <2>1. PathAt(j + 1) \in KidsOf(lp, lnd)
      BY <1>1, UnwindFacts
    <2>2. KidsOf(lp, lnd) = {lp \o lnd.pfx}
      BY <1>1, KidsOfIs
    <2> QED
      BY <2>1, <2>2
  <1>4. \A c \in KidsOf(PathAt(j), tree[PathAt(j)]), q \in DOMAIN tree : ~StartsWith(q, c)
    BY <1>1, <1>2, <1>3, UnwindFacts
  <1>5. /\ j \in Window /\ PathAt(j) = lp /\ PathAt(j) \in DOMAIN tree /\ Chained(j)
        /\ Good(Kids(tree)) /\ \A k \in Window : k < j => Level(k)
    BY <1>1, UnwindFacts
  <1>6. tree' = Drop(tree, {PathAt(j)})
    BY <1>1, <1>5
  <1> QED
    BY <1>1, <1>4, <1>5, <1>6, FreedShape

LEMMA NoEdgesLeft ==
  ASSUME IInv, Shrinking, Deg = 0
  PROVE  KidsOf(lp, lnd) = {}
  <1>1. NodeOK(lnd) /\ lnd.kind \in RouterKinds
    BY LevelFacts DEF Shrinking
  <1>2. lnd.edges = {}
    <2>1. IsFiniteSet(lnd.edges)
      BY <1>1, EdgesFinite
    <2> QED
      BY <2>1, FS_EmptySet DEF Deg
  <1>3. KidsOf(lp, lnd) = {(lp \o lnd.pfx) \o e : e \in lnd.edges}
    BY <1>1, KidsOfIs
  <1> QED
    BY <1>2, <1>3

LEMMA ShrinkEmptyShape ==
  ASSUME IInv, Shape, ShrinkEmpty
  PROVE  Shape'
  <1>1. pc = "shrink" /\ Freed(j) /\ tree' = Drop(tree, {lp}) /\ Deg = 0 /\ Shrinking
    BY DEF ShrinkEmpty, Shrinking
  <1>2. KidsOf(lp, lnd) = {}
    BY <1>1, NoEdgesLeft
  <1>3. /\ j \in Window /\ PathAt(j) = lp /\ PathAt(j) \in DOMAIN tree /\ Chained(j)
        /\ Good(Kids(tree)) /\ (\A k \in Window : k < j => Level(k)) /\ lnd = tree[lp]
    BY <1>1, UnwindFacts
  <1>4. tree' = Drop(tree, {PathAt(j)}) /\ KidsOf(PathAt(j), tree[PathAt(j)]) = {}
    BY <1>1, <1>2, <1>3
  <1> QED
    BY <1>1, <1>3, <1>4, FreedShape

\* What is left of a path after its own front.
LEMMA RestConcat ==
  ASSUME NEW a \in Path, NEW e \in Path
  PROVE  Rest(a \o e, a) = e
  <1>1. Len(a) \in Nat /\ Len(e) \in Nat
    BY PathFacts
  <1>2. /\ a \o e \in Path /\ Len(a \o e) = Len(a) + Len(e)
        /\ \A i \in 1 .. Len(a) + Len(e) :
             (a \o e)[i] = IF i <= Len(a) THEN a[i] ELSE e[i - Len(a)]
    BY ConcatFacts
  <1> DEFINE s == a \o e
  <1> HIDE DEF s
  <1>3. s \in Path /\ Len(s) = Len(a) + Len(e) /\ Len(a) <= Len(s)
    BY <1>1, <1>2 DEF s
  <1>4. /\ Rest(s, a) \in Path /\ Len(Rest(s, a)) = Len(s) - Len(a)
        /\ \A i \in 1 .. Len(s) - Len(a) : Rest(s, a)[i] = s[Len(a) + i]
    BY <1>3, RestFacts
  <1>5. ASSUME NEW i \in 1 .. Len(e)
        PROVE  Rest(s, a)[i] = e[i]
    <2>1. i \in Nat /\ Len(a) + i \in 1 .. Len(a) + Len(e) /\ ~(Len(a) + i <= Len(a))
          /\ (Len(a) + i) - Len(a) = i /\ i \in 1 .. Len(s) - Len(a)
      BY <1>1, <1>3
    <2>2. s[Len(a) + i] = e[(Len(a) + i) - Len(a)]
      BY <1>2, <2>1 DEF s
    <2> QED
      BY <1>4, <2>1, <2>2
  <1>6. Len(Rest(s, a)) = Len(e)
    BY <1>1, <1>3, <1>4
  <1>7. Rest(s, a) = e
    BY <1>4, <1>5, <1>6, SamePath
  <1> QED
    BY <1>7 DEF s

LEMMA UnlinkEdgeShape ==
  ASSUME IInv, Shape, UnlinkEdge
  PROVE  Shape'
  <1> DEFINE c == PathAt(j + 1)
             a == At(tree, lp)
             e == Rest(c, a)
             u == [tree EXCEPT ![lp].edges = @ \ {e}]
  <1>1. /\ pc = "unlink" /\ pc' = "shrink" /\ tree' = u
        /\ UNCHANGED <<lvl, n, j>>
    BY DEF UnlinkEdge, PathAt
  <1>2. /\ lp \in DOMAIN tree /\ tree[lp].kind \in RouterKinds
        /\ lnd = tree[lp] /\ NodeOK(lnd) /\ lp \in Path /\ a \in Path
    <2>1. lp \in DOMAIN tree /\ lnd = tree[lp] /\ tree[lp].kind \in RouterKinds
      BY LevelFacts DEF UnlinkEdge, lnd
    <2>2. NodeOK(lnd) /\ lp \in Path
      BY <2>1, StateFacts DEF TreeOK
    <2>3. tree[lp].kind # "leaf"
      BY <2>1 DEF RouterKinds, CnodeKinds
    <2> QED
      BY <2>1, <2>2, <2>3, StateFacts, AtOK
  <1>3. c \in KidsOf(lp, lnd) /\ Chained(j) /\ Good(Kids(tree))
    BY <1>1, UnwindFacts
  <1>4. \A q \in DOMAIN tree : ~StartsWith(q, c)
    BY <1>1 DEF Shape, Hanging
  <1>5. KidsOf(lp, lnd) = {a \o x : x \in lnd.edges} /\ lnd.edges \subseteq Path
    <2>1. KidsOf(lp, lnd) = {(lp \o lnd.pfx) \o x : x \in lnd.edges}
      BY <1>2, KidsOfIs
    <2>2. a = lp \o lnd.pfx
      <3>1. tree[lp].kind # "leaf"
        BY <1>2 DEF RouterKinds, CnodeKinds
      <3> QED
        BY <1>2, <3>1 DEF At
    <2>3. lnd.edges \subseteq Path
      BY <1>2, NodeFields
    <2> QED
      BY <2>1, <2>2, <2>3
  <1> HIDE DEF a, c
  <1>6. PICK x \in lnd.edges : c = a \o x
    BY <1>3, <1>5
  <1>7. e = x /\ e \in tree[lp].edges /\ c = a \o e
    <2>1. x \in Path
      BY <1>5
    <2>2. Rest(a \o x, a) = x
      BY <1>2, <2>1, RestConcat
    <2> QED
      BY <1>2, <1>6, <2>2
  <1> HIDE DEF e
  <1>8. Good(Kids(u))
    BY <1>2, <1>3, <1>4, <1>7, StateFacts, CutShape DEF a
  <1>9. \A q \in DOMAIN tree \ {lp} : u[q] = tree[q]
    OBVIOUS
  <1> HIDE DEF u
  <1>10. Good(Kids(tree')) /\ \A q \in DOMAIN tree \ {lp} : tree'[q] = tree[q]
    BY <1>1, <1>8, <1>9
  <1> QED
    BY <1>1, <1>3, <1>10, ShrinkAgainShape

LEMMA SurvivesShape ==
  ASSUME Survives, Good(Kids(tree'))
  PROVE  Shape'
  BY FinishShape DEF Survives

LEMMA ShrinkToTermShape ==
  ASSUME IInv, Shape, ShrinkToTerm
  PROVE  Shape'
  <1> DEFINE value == Leaf(<<>>, lnd.term)
             b     == At(tree, lp)
             x     == [q \in {lp, b} |-> IF q = lp THEN Pn(lnd.pfx) ELSE value]
             u     == Over(tree, x)
             w     == Upd(tree, lp, value)
  <1>1. Shrinking /\ Survives /\ lnd.term \in Values /\ Deg = 0
    BY ShrinkFacts DEF ShrinkToTerm
  <1>2. NodeOK(value) /\ value.kind = "leaf"
    BY <1>1, EmptyPath, LeafOK DEF Leaf
  <1>3. /\ lp \in DOMAIN tree /\ lp \in Path /\ lnd = tree[lp] /\ lnd.pfx \in Path
        /\ lnd.kind \in RouterKinds
    BY <1>1, ShrinkFacts DEF lnd
  <1>4. KidsOf(lp, tree[lp]) = {} /\ Good(Kids(tree)) /\ TreeOK(tree)
    BY <1>1, <1>3, NoEdgesLeft, StateFacts DEF Shape
  <1>5. Good(Kids(w))
    <2> HIDE DEF value
    <2>1. KidsOf(lp, value) = {}
      BY <1>2, KidsOfIs
    <2>2. /\ DOMAIN w = DOMAIN tree /\ w[lp] = value
          /\ \A q \in DOMAIN tree \ {lp} : w[q] = tree[q]
      BY <1>3 DEF Upd
    <2>3. KidsOf(lp, w[lp]) = KidsOf(lp, tree[lp])
      BY <1>4, <2>1, <2>2
    <2> HIDE DEF w
    <2> QED
      BY <1>4, <2>2, <2>3, OneNodeShape
  <1>6. ASSUME lnd.pfx # <<>>
        PROVE  Good(Kids(u))
    <2>1. b = lp \o lnd.pfx /\ b \in Path /\ StartsWith(b, lp) /\ b # lp
      <3>1. tree[lp].kind # "leaf"
        BY <1>3 DEF RouterKinds, CnodeKinds
      <3>2. b = lp \o lnd.pfx
        BY <1>3, <3>1 DEF At
      <3> QED
        BY <1>3, <1>6, <3>2, StartsConcat
    <2>2. NodeOK(Pn(lnd.pfx)) /\ Pn(lnd.pfx).kind = "pn" /\ Pn(lnd.pfx).pfx = lnd.pfx
      BY <1>3, <1>6, PnOK DEF Pn
    <2> HIDE DEF value, b
    <2>3. TreeOK(x)
      BY <1>2, <1>3, <2>1, <2>2 DEF TreeOK
    <2>4. DOMAIN x = {lp, b} /\ x[lp] = Pn(lnd.pfx) /\ x[b] = value
      BY <2>1
    <2> HIDE DEF x
    <2>5. TreeOK(u)
      BY <1>4, <2>3, OverOK
    <2>6. /\ DOMAIN u = DOMAIN tree \cup {b} /\ u[lp] = Pn(lnd.pfx) /\ u[b] = value
          /\ \A q \in DOMAIN tree \ {lp, b} : u[q] = tree[q]
      BY <1>3, <2>4 DEF Over
    <2> HIDE DEF u
    <2>7. KidsOf(lp, u[lp]) = {b}
      <3>1. u[lp].kind = "pn" /\ u[lp].pfx = lnd.pfx
        BY <2>2, <2>6
      <3>2. KidsOf(lp, u[lp]) = {lp \o u[lp].pfx}
        BY <3>1, KidsOfIs
      <3> QED
        BY <2>1, <3>1, <3>2
    <2>8. KidsOf(b, u[b]) = {}
      BY <1>2, <2>6, KidsOfIs
    <2>9. Lifted(tree, u, lp, b)
      BY <1>4, <2>1, <2>5, <2>6, <2>7, <2>8 DEF Lifted
    <2> QED
      BY <1>3, <1>4, <2>9, LiftShape
  <1>7. tree' = w \/ (lnd.pfx # <<>> /\ tree' = u) \/ tree' = tree
    BY DEF ShrinkToTerm
  <1> HIDE DEF u, w
  <1>8. Good(Kids(tree'))
    BY <1>4, <1>5, <1>6, <1>7
  <1> QED
    BY <1>1, <1>8, SurvivesShape

LEMMA ShrinkLoneShape ==
  ASSUME IInv, Shape, ShrinkLone
  PROVE  Shape'
  <1>1. Shrinking /\ Survives /\ tree' \in {tree, CollapseTree(tree, lp)} /\ Deg = 1
    BY DEF ShrinkLone
  <1>2. /\ lp \in DOMAIN tree /\ tree[lp].kind \in RouterKinds
        /\ Cardinality(tree[lp].edges) = 1
    BY <1>1, ShrinkFacts DEF lnd, Deg
  <1>3. Good(Kids(CollapseTree(tree, lp))) /\ Good(Kids(tree))
    BY <1>2, StateFacts, CollapseShape DEF Shape
  <1>4. Good(Kids(tree'))
    BY <1>1, <1>3
  <1> QED
    BY <1>1, <1>4, SurvivesShape

LEMMA ShrinkDewidenShape ==
  ASSUME IInv, Shape, ShrinkDewiden
  PROVE  Shape'
  <1> DEFINE u == [tree EXCEPT ![lp].kind = "setlist"]
  <1>1. pc = "shrink" /\ lp \in DOMAIN tree /\ tree[lp].kind \in RouterKinds
        /\ Good(Kids(tree)) /\ TreeOK(tree) /\ Chained(j)
    BY ShrinkFacts, StateFacts, UnwindFacts DEF ShrinkDewiden, Shrinking, lnd
  <1>2. CASE tree' = tree /\ Survives
    BY <1>1, <1>2, SurvivesShape
  <1>3. CASE tree' = u /\ UNCHANGED <<count, pc, req, ret, slot, pslot, gnode, lvl, n, j>>
    <2>1. "setlist" \in RouterKinds
      BY DEF RouterKinds
    <2>2. Good(Kids(u))
      BY <1>1, <2>1, KindShape
    <2>3. \A q \in DOMAIN tree \ {lp} : u[q] = tree[q]
      OBVIOUS
    <2> HIDE DEF u
    <2>4. Good(Kids(tree')) /\ \A q \in DOMAIN tree \ {lp} : tree'[q] = tree[q]
      BY <1>3, <2>2, <2>3
    <2> QED
      BY <1>1, <1>3, <2>4, ShrinkAgainShape
  <1> QED
    BY <1>2, <1>3 DEF ShrinkDewiden

LEMMA ShrinkStandsShape ==
  ASSUME IInv, Shape, ShrinkStands
  PROVE  Shape'
  BY SurvivesShape DEF ShrinkStands, Shape

-----------------------------------------------------------------------------
(* Every step.                                                             *)

LEMMA StutterShape ==
  ASSUME Shape, UNCHANGED vars
  PROVE  Shape'
  BY DEF vars, Shape, Hanging, Chained, Window, PathAt, GEdge, gnd

LEMMA PutStepShape ==
  ASSUME IInv, Shape, Put
  PROVE  Shape'
  BY PutNullShape, PutSameLeafShape, PutSplitLeafShape, PutLazyFuseShape, PutSplitPrefixShape,
     PutTermShape, PutDescendShape, PutExternalizeAllShape, PutAddShape, PutAddStemShape,
     PutRestrideShape, GrowLiftShape, GrowWidenShape, GrowLinkShape, FuseParentShape
  DEF Put

LEMMA RemStepShape ==
  ASSUME IInv, Shape, Rem
  PROVE  Shape'
  BY RemDescendShape, RemMissShape, RemLeafShape, RemTermShape, RemInlineShape, UnlinkPnShape,
     UnlinkEdgeShape, ShrinkEmptyShape, ShrinkToTermShape, ShrinkLoneShape, ShrinkDewidenShape,
     ShrinkStandsShape
  DEF Rem

LEMMA StepShape ==
  ASSUME IInv, Shape, Next
  PROVE  Shape'
  BY PutStepShape, GetDescendShape, GetMissShape, GetHitShape, RemStepShape, ClearShape, CallShape
  DEF Next, Step, Get

-----------------------------------------------------------------------------
(* What a trie is good for.                                                *)

\* The key that a node holds, and where it lies from the node's children.
LEMMA KeyFacts ==
  ASSUME NEW t, TreeOK(t), NEW p \in Terminals(t)
  PROVE  /\ p \in DOMAIN t /\ p \in Path
         /\ KeyAt(t, p) \in Path /\ StartsWith(KeyAt(t, p), p)
         /\ \A f \in KidsOf(p, t[p]) :
              f \in Path /\ StartsWith(f, KeyAt(t, p)) /\ f # KeyAt(t, p)
  <1> DEFINE x == t[p]
             K == KeyAt(t, p)
  <1>1. p \in DOMAIN t /\ p \in Path /\ NodeOK(x)
    BY DEF Terminals, TreeOK
  <1>2. CASE x.kind = "leaf"
    <2>1. K = p \o x.suf /\ x.suf \in Path
      BY <1>1, <1>2, NodeFields DEF KeyAt, IsLeaf
    <2>2. KidsOf(p, x) = {}
      BY <1>2, KidsOfIs
    <2> HIDE DEF K
    <2>3. K \in Path /\ StartsWith(K, p)
      BY <1>1, <2>1, StartsConcat
    <2> QED
      BY <1>1, <2>2, <2>3 DEF K
  <1>3. CASE x.kind \in RouterKinds
    <2>1. x.kind # "leaf" /\ x.pfx \in Path
      BY <1>1, <1>3, NodeFields DEF RouterKinds, CnodeKinds
    <2>2. K = p \o x.pfx
      BY <2>1 DEF KeyAt, IsLeaf, At
    <2>3. p \o x.pfx \in Path /\ StartsWith(p \o x.pfx, p)
      BY <1>1, <2>1, StartsConcat
    <2>4. \A f \in KidsOf(p, x) : f \in Path /\ StartsWith(f, p \o x.pfx) /\ f # p \o x.pfx
      BY <1>1, <1>3, BelowHere
    <2> HIDE DEF K, x
    <2>5. K \in Path /\ StartsWith(K, p)
          /\ \A f \in KidsOf(p, x) : f \in Path /\ StartsWith(f, K) /\ f # K
      BY <2>2, <2>3, <2>4
    <2> QED
      BY <1>1, <2>5 DEF K, x
  <1> QED
    BY <1>2, <1>3 DEF Terminals, IsLeaf, IsRouter

\* A node below another one holds another key.
LEMMA KeysDiffer ==
  ASSUME TreeOK(tree), Good(Kids(tree)), NEW p \in Terminals(tree), NEW q \in Terminals(tree),
         p # q, StartsWith(q, p)
  PROVE  KeyAt(tree, p) # KeyAt(tree, q)
  <1> SUFFICES ASSUME KeyAt(tree, p) = KeyAt(tree, q)
               PROVE  FALSE
    OBVIOUS
  <1> DEFINE K == KeyAt(tree, p)
  <1>1. /\ p \in DOMAIN tree /\ q \in DOMAIN tree /\ q \in Path /\ K \in Path /\ StartsWith(K, q)
        /\ \A f \in KidsOf(p, tree[p]) : f \in Path /\ StartsWith(f, K) /\ f # K
    BY KeyFacts
  <1> HIDE DEF K
  <1>2. PICK f \in KidsOf(p, tree[p]) : StartsWith(q, f)
    <2>1. p \in DOMAIN Kids(tree) /\ q \in DOMAIN Kids(tree) /\ Kids(tree)[p] = KidsOf(p, tree[p])
      BY <1>1, KidsIs
    <2> QED
      BY <2>1 DEF Good, Trie
  <1>3. f \in Path /\ StartsWith(f, K) /\ f # K
    BY <1>1
  <1>4. StartsWith(K, f)
    BY <1>1, <1>2, <1>3, StartsTrans
  <1> QED
    BY <1>1, <1>3, <1>4, StartsSame

LEMMA ShapeUnique ==
  ASSUME IInv, Shape
  PROVE  UniqueKeys
  <1> SUFFICES ASSUME NEW p \in Terminals(tree), NEW q \in Terminals(tree),
                      KeyAt(tree, p) = KeyAt(tree, q), p # q
               PROVE  FALSE
    BY DEF UniqueKeys
  <1>1. TreeOK(tree) /\ Good(Kids(tree))
    BY StateFacts DEF Shape
  <1>2. /\ p \in Path /\ q \in Path /\ KeyAt(tree, p) \in Path
        /\ StartsWith(KeyAt(tree, p), p) /\ StartsWith(KeyAt(tree, p), q)
    BY <1>1, KeyFacts
  <1>3. StartsWith(q, p) \/ StartsWith(p, q)
    BY <1>2, StartsEither
  <1> QED
    BY <1>1, <1>3, KeysDiffer

\* A slot with two parents: one of them stands below the other, on a way that
\* leaves it by another edge.
LEMMA OneParent ==
  ASSUME NEW g, Good(g), NEW p \in DOMAIN g, NEW r \in DOMAIN g, NEW q, q \in g[p], q \in g[r]
  PROVE  p = r
  <1> DEFINE Below(a, b) == a # b /\ StartsWith(b, a)
  <1>1. ShapeOK(g) /\ Trie(g)
    BY DEF Good
  <1>2. ASSUME NEW a \in DOMAIN g, NEW b \in DOMAIN g, q \in g[a], q \in g[b], Below(a, b)
        PROVE  FALSE
    <2>1. PICK c \in g[a] : StartsWith(b, c)
      BY <1>1, <1>2 DEF Trie
    <2>2. /\ q \in Path /\ b \in Path /\ c \in Path /\ Len(c) = Len(q) /\ Len(b) < Len(q)
          /\ Len(b) \in Nat /\ Len(q) \in Nat
      BY <1>1, <1>2, KidFacts
    <2>3. Len(c) <= Len(b)
      BY <2>1, <2>2, StartsLen
    <2> QED
      BY <2>2, <2>3
  <1>3. /\ p \in Path /\ r \in Path /\ q \in Path /\ StartsWith(q, p) /\ StartsWith(q, r)
    BY <1>1, KidFacts
  <1>4. StartsWith(r, p) \/ StartsWith(p, r)
    BY <1>3, StartsEither
  <1> QED
    BY <1>2, <1>4

LEMMA ShapeOnlyOneParent ==
  ASSUME Shape
  PROVE  OnlyOneParent
  <1> SUFFICES ASSUME NEW q \in DOMAIN tree, q # <<>>
               PROVE  Cardinality({p \in DOMAIN tree : q \in Children(tree, p)}) = 1
    BY DEF OnlyOneParent
  <1> DEFINE P == {p \in DOMAIN tree : q \in Children(tree, p)}
             g == Kids(tree)
  <1>1. DOMAIN g = DOMAIN tree /\ (\A p \in DOMAIN tree : g[p] = KidsOf(p, tree[p])) /\ Good(g)
    BY KidsIs DEF Shape
  <1> HIDE DEF g
  <1>2. \A p \in DOMAIN tree : p \in P <=> q \in g[p]
    BY <1>1, ChildrenAre
  <1>3. PICK p \in DOMAIN g : q \in g[p]
    BY <1>1 DEF Good, Hung
  <1>4. \A r \in P : r = p
    BY <1>1, <1>2, <1>3, OneParent
  <1>5. P = {p}
    BY <1>1, <1>2, <1>3, <1>4
  <1> HIDE DEF P
  <1>6. Cardinality({p}) = 1
    BY FS_Singleton
  <1> QED
    BY <1>5, <1>6 DEF P

-----------------------------------------------------------------------------

LEMMA ShapeHolds == Spec => [](IInv /\ Shape)
  <1>1. Init => IInv /\ Shape
    BY InitOK, InitShape
  <1>2. IInv /\ Shape /\ [Next]_vars => IInv' /\ Shape'
    BY StepOK, StutterOK, StepShape, StutterShape
  <1> QED
    BY <1>1, <1>2, PTL DEF Spec

\* Whatever the keys, the capacities and the allocations that fail, and also
\* between the steps of a running call, no two nodes hold the same key: what
\* insert_, grow_router_, try_fuse_parent and rm_shrink_ split, lift, re-stride,
\* fuse and collapse never copies a value.
THEOREM KeysStayUnique == Spec => []UniqueKeys
  <1>1. IInv /\ Shape => UniqueKeys
    BY ShapeUnique
  <1> QED
    BY <1>1, ShapeHolds, PTL

\* Every node but the root is linked from exactly one other node, in every state
\* between two iterations: no rebuild links a node twice or leaves one of the
\* tree's nodes out of it.
THEOREM EveryNodeHasOneParent == Spec => []OnlyOneParent
  <1>1. Shape => OnlyOneParent
    BY ShapeOnlyOneParent
  <1> QED
    BY <1>1, ShapeHolds, PTL

=============================================================================
