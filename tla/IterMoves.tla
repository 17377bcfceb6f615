------------------------------ MODULE IterMoves ------------------------------
(***************************************************************************)
(* What the steps of Iterators keep, in a tree as the map's calls leave    *)
(* it: for every loop, what its iterator has yet to visit or has left      *)
(* behind, the frames it stands on, and the bytes in its key buffer.       *)
(***************************************************************************)
EXTENDS Iterators, ArtTreeProofs

-----------------------------------------------------------------------------
(* The order of the keys.                                                  *)

\* a comes before b, and they part after c bytes.
Parting(a, b, c) ==
  /\ c \in Nat /\ c <= Len(a) /\ c < Len(b)
  /\ \A i \in 1 .. c : a[i] = b[i]
  /\ c < Len(a) => a[c + 1] < b[c + 1]

LEMMA LessIs ==
  ASSUME NEW a \in Path, NEW b \in Path
  PROVE  Ord!Less(a, b) <=> \E c \in Nat : Parting(a, b, c)
  <1>1. Len(a) \in Nat /\ Len(b) \in Nat
    BY PathFacts
  <1>2. ASSUME NEW c \in Nat, c <= Len(a), c <= Len(b)
        PROVE  SubSeq(a, 1, c) = SubSeq(b, 1, c) <=> \A i \in 1 .. c : a[i] = b[i]
    <2>1. c \in 0 .. Len(a) /\ c \in 0 .. Len(b)
      BY <1>1, <1>2
    <2>2. /\ Front(a, c) \in Path /\ Len(Front(a, c)) = c
          /\ \A i \in 1 .. c : Front(a, c)[i] = a[i]
      BY <2>1, FrontFacts
    <2>3. /\ Front(b, c) \in Path /\ Len(Front(b, c)) = c
          /\ \A i \in 1 .. c : Front(b, c)[i] = b[i]
      BY <2>1, FrontFacts
    <2>4. Front(a, c) = Front(b, c) <=> \A i \in 1 .. c : a[i] = b[i]
      BY <2>2, <2>3, SamePath
    <2> QED
      BY <2>4 DEF Front
  <1>3. ASSUME Ord!Less(a, b)
        PROVE  \E c \in Nat : Parting(a, b, c)
    <2>1. PICK c \in 0 .. Len(a) :
            /\ c <= Len(b) /\ SubSeq(a, 1, c) = SubSeq(b, 1, c)
            /\ IF c = Len(a) THEN c < Len(b) ELSE c < Len(b) /\ a[c + 1] < b[c + 1]
      BY <1>3 DEF Ord!Less
    <2>2. c \in Nat /\ c <= Len(a) /\ c < Len(b) /\ (c < Len(a) => a[c + 1] < b[c + 1])
      BY <1>1, <2>1
    <2>3. \A i \in 1 .. c : a[i] = b[i]
      BY <1>2, <2>1, <2>2
    <2> QED
      BY <2>2, <2>3 DEF Parting
  <1>4. ASSUME NEW c \in Nat, Parting(a, b, c)
        PROVE  Ord!Less(a, b)
    <2>1. c \in 0 .. Len(a) /\ c <= Len(b)
      BY <1>1, <1>4 DEF Parting
    <2>2. SubSeq(a, 1, c) = SubSeq(b, 1, c)
      BY <1>2, <1>4, <2>1 DEF Parting
    <2>3. IF c = Len(a) THEN c < Len(b) ELSE c < Len(b) /\ a[c + 1] < b[c + 1]
      BY <1>1, <1>4, <2>1 DEF Parting
    <2> QED
      BY <2>1, <2>2, <2>3 DEF Ord!Less
  <1> QED
    BY <1>3, <1>4

LEMMA LessNever ==
  ASSUME NEW a \in Path
  PROVE  ~Ord!Less(a, a)
  <1> SUFFICES ASSUME Ord!Less(a, a)
               PROVE  FALSE
    OBVIOUS
  <1>1. PICK c \in Nat : Parting(a, a, c)
    BY LessIs
  <1>2. c < Len(a) /\ a[c + 1] < a[c + 1] /\ c + 1 \in 1 .. Len(a)
    BY <1>1, PathFacts DEF Parting
  <1>3. a[c + 1] \in Int
    BY <1>2, PathFacts, MaxByteAssumption DEF Byte
  <1> QED
    BY <1>2, <1>3

LEMMA LessOneWay ==
  ASSUME NEW a \in Path, NEW b \in Path, Ord!Less(a, b), Ord!Less(b, a)
  PROVE  FALSE
  <1>1. Len(a) \in Nat /\ Len(b) \in Nat
    BY PathFacts
  <1>2. PICK c \in Nat : Parting(a, b, c)
    BY LessIs
  <1>3. PICK d \in Nat : Parting(b, a, d)
    BY LessIs
  <1>4. CASE c < d
    <2>1. c < Len(a) /\ a[c + 1] < b[c + 1] /\ c + 1 \in 1 .. d /\ c + 1 \in 1 .. Len(a)
      BY <1>1, <1>2, <1>3, <1>4 DEF Parting
    <2>2. a[c + 1] = b[c + 1] /\ a[c + 1] \in Int
      BY <1>3, <2>1, PathFacts, MaxByteAssumption DEF Parting, Byte
    <2> QED
      BY <2>1, <2>2
  <1>5. CASE d < c
    <2>1. d < Len(b) /\ b[d + 1] < a[d + 1] /\ d + 1 \in 1 .. c /\ d + 1 \in 1 .. Len(b)
      BY <1>1, <1>2, <1>3, <1>5 DEF Parting
    <2>2. a[d + 1] = b[d + 1] /\ b[d + 1] \in Int
      BY <1>2, <2>1, PathFacts, MaxByteAssumption DEF Parting, Byte
    <2> QED
      BY <2>1, <2>2
  <1>6. CASE c = d
    <2>1. /\ c + 1 \in 1 .. Len(a) /\ c + 1 \in 1 .. Len(b)
          /\ a[c + 1] < b[c + 1] /\ b[c + 1] < a[c + 1]
      BY <1>1, <1>2, <1>3, <1>6 DEF Parting
    <2>2. a[c + 1] \in Int /\ b[c + 1] \in Int
      BY <2>1, PathFacts, MaxByteAssumption DEF Byte
    <2> QED
      BY <2>1, <2>2
  <1> QED
    BY <1>4, <1>5, <1>6

LEMMA LessTotal ==
  ASSUME NEW a \in Path, NEW b \in Path, a # b
  PROVE  Ord!Less(a, b) \/ Ord!Less(b, a)
  <1> DEFINE c == Lcp(a, b)
  <1>1. Len(a) \in Nat /\ Len(b) \in Nat
    BY PathFacts
  <1>2. /\ c \in 0 .. Len(a) /\ c <= Len(b) /\ Front(a, c) = Front(b, c)
        /\ ~(c = Len(a) /\ c = Len(b))
        /\ c < Len(a) /\ c < Len(b) => a[c + 1] # b[c + 1]
    BY LcpFacts
  <1> HIDE DEF c
  <1>3. c \in Nat /\ c <= Len(a) /\ c <= Len(b) /\ c \in 0 .. Len(b)
    BY <1>1, <1>2
  <1>4. \A i \in 1 .. c : a[i] = b[i]
    <2>1. \A i \in 1 .. c : Front(a, c)[i] = a[i]
      BY <1>2, FrontFacts
    <2>2. \A i \in 1 .. c : Front(b, c)[i] = b[i]
      BY <1>3, FrontFacts
    <2> QED
      BY <1>2, <2>1, <2>2
  <1>5. CASE c = Len(a)
    <2>1. Parting(a, b, c)
      BY <1>1, <1>2, <1>3, <1>4, <1>5 DEF Parting
    <2> QED
      BY <1>3, <2>1, LessIs
  <1>6. CASE c = Len(b)
    <2>1. Parting(b, a, c)
      BY <1>1, <1>2, <1>3, <1>4, <1>6 DEF Parting
    <2> QED
      BY <1>3, <2>1, LessIs
  <1>7. CASE c < Len(a) /\ c < Len(b)
    <2>1. c + 1 \in 1 .. Len(a) /\ c + 1 \in 1 .. Len(b)
      BY <1>1, <1>3, <1>7
    <2>2. a[c + 1] \in Int /\ b[c + 1] \in Int
      BY <2>1, PathFacts, MaxByteAssumption DEF Byte
    <2>3. CASE a[c + 1] < b[c + 1]
      <3>1. Parting(a, b, c)
        BY <1>3, <1>4, <1>7, <2>3 DEF Parting
      <3> QED
        BY <1>3, <3>1, LessIs
    <2>4. CASE b[c + 1] < a[c + 1]
      <3>1. Parting(b, a, c)
        BY <1>3, <1>4, <1>7, <2>4 DEF Parting
      <3> QED
        BY <1>3, <3>1, LessIs
    <2> QED
      BY <1>2, <1>7, <2>2, <2>3, <2>4
  <1> QED
    BY <1>1, <1>3, <1>5, <1>6, <1>7

LEMMA LessTrans ==
  ASSUME NEW a \in Path, NEW b \in Path, NEW d \in Path, Ord!Less(a, b), Ord!Less(b, d)
  PROVE  Ord!Less(a, d)
  <1>1. Len(a) \in Nat /\ Len(b) \in Nat /\ Len(d) \in Nat
    BY PathFacts
  <1>2. PICK c \in Nat : Parting(a, b, c)
    BY LessIs
  <1>3. PICK m \in Nat : Parting(b, d, m)
    BY LessIs
  <1>4. CASE c < m
    <2>1. c + 1 \in 1 .. m /\ c <= Len(a) /\ c < Len(d) /\ b[c + 1] = d[c + 1]
      BY <1>1, <1>2, <1>3, <1>4 DEF Parting
    <2>2. \A i \in 1 .. c : a[i] = d[i]
      BY <1>1, <1>2, <1>3, <1>4 DEF Parting
    <2>3. c < Len(a) => a[c + 1] < d[c + 1]
      BY <1>2, <2>1 DEF Parting
    <2>4. Parting(a, d, c)
      BY <2>1, <2>2, <2>3 DEF Parting
    <2> QED
      BY <2>4, LessIs
  <1>5. CASE m < c
    <2>1. /\ m + 1 \in 1 .. c /\ m < Len(a) /\ m < Len(d) /\ a[m + 1] = b[m + 1]
          /\ b[m + 1] < d[m + 1]
      BY <1>1, <1>2, <1>3, <1>5 DEF Parting
    <2>2. \A i \in 1 .. m : a[i] = d[i]
      BY <1>1, <1>2, <1>3, <1>5 DEF Parting
    <2>3. Parting(a, d, m)
      BY <1>1, <2>1, <2>2 DEF Parting
    <2> QED
      BY <2>3, LessIs
  <1>6. CASE m = c
    <2>1. /\ c <= Len(a) /\ c < Len(b) /\ c < Len(d) /\ b[c + 1] < d[c + 1]
          /\ (c < Len(a) => a[c + 1] < b[c + 1])
      BY <1>1, <1>2, <1>3, <1>6 DEF Parting
    <2>2. \A i \in 1 .. c : a[i] = d[i]
      BY <1>2, <1>3, <1>6 DEF Parting
    <2>3. b[c + 1] \in Int /\ d[c + 1] \in Int /\ (c < Len(a) => a[c + 1] \in Int)
      <3>1. c + 1 \in 1 .. Len(b) /\ c + 1 \in 1 .. Len(d) /\ (c < Len(a) => c + 1 \in 1 .. Len(a))
        BY <1>1, <2>1
      <3> QED
        BY <3>1, PathFacts, MaxByteAssumption DEF Byte
    <2>4. Parting(a, d, c)
      BY <2>1, <2>2, <2>3 DEF Parting
    <2> QED
      BY <2>4, LessIs
  <1> QED
    BY <1>4, <1>5, <1>6

\* A prefix comes first.
LEMMA PrefixLess ==
  ASSUME NEW a \in Path, NEW b \in Path, StartsWith(b, a), a # b
  PROVE  Ord!Less(a, b)
  <1>1. Len(a) \in Nat /\ Len(a) < Len(b) /\ \A i \in 1 .. Len(a) : a[i] = b[i]
    BY StartsLen, StartsWithIff
  <1>2. Parting(a, b, Len(a))
    BY <1>1 DEF Parting
  <1> QED
    BY <1>1, <1>2, LessIs

\* What comes before v comes before all that starts with v.
LEMMA LessBelow ==
  ASSUME NEW u \in Path, NEW v \in Path, NEW x \in Path, Ord!Less(u, v), StartsWith(x, v)
  PROVE  Ord!Less(u, x)
  <1>1. Len(u) \in Nat /\ Len(v) \in Nat /\ Len(x) \in Nat /\ Len(v) <= Len(x)
        /\ \A i \in 1 .. Len(v) : x[i] = v[i]
    BY PathFacts, StartsWithIff
  <1>2. PICK c \in Nat : Parting(u, v, c)
    BY LessIs
  <1>3. c + 1 \in 1 .. Len(v) /\ x[c + 1] = v[c + 1]
    BY <1>1, <1>2 DEF Parting
  <1>4. \A i \in 1 .. c : u[i] = x[i]
    BY <1>1, <1>2 DEF Parting
  <1>5. Parting(u, x, c)
    BY <1>1, <1>2, <1>3, <1>4 DEF Parting
  <1> QED
    BY <1>5, LessIs

\* What comes before u and is no prefix of it has only such extensions.
LEMMA BelowLess ==
  ASSUME NEW u \in Path, NEW v \in Path, NEW x \in Path,
         Ord!Less(v, u), ~StartsWith(u, v), StartsWith(x, v)
  PROVE  Ord!Less(x, u)
  <1>1. Len(u) \in Nat /\ Len(v) \in Nat /\ Len(x) \in Nat /\ Len(v) <= Len(x)
        /\ \A i \in 1 .. Len(v) : x[i] = v[i]
    BY PathFacts, StartsWithIff
  <1>2. PICK c \in Nat : Parting(v, u, c)
    BY LessIs
  <1>3. c < Len(v)
    <2>1. c <= Len(v) /\ c < Len(u) /\ \A i \in 1 .. c : v[i] = u[i]
      BY <1>2 DEF Parting
    <2>2. c # Len(v)
      <3>1. ASSUME c = Len(v)
            PROVE  Len(v) <= Len(u) /\ \A i \in 1 .. Len(v) : u[i] = v[i]
        BY <1>1, <2>1, <3>1
      <3> QED
        BY <3>1, StartsWithIff
    <2> QED
      BY <1>1, <2>1, <2>2
  <1>4. c + 1 \in 1 .. Len(v) /\ x[c + 1] = v[c + 1] /\ v[c + 1] < u[c + 1]
    BY <1>1, <1>2, <1>3 DEF Parting
  <1>5. \A i \in 1 .. c : x[i] = u[i]
    BY <1>1, <1>2, <1>3 DEF Parting
  <1>6. Parting(x, u, c)
    BY <1>1, <1>2, <1>3, <1>4, <1>5 DEF Parting
  <1> QED
    BY <1>6, LessIs

\* Two paths of one length: the order of what starts with them is theirs.
LEMMA SidesLess ==
  ASSUME NEW u \in Path, NEW v \in Path, Len(u) = Len(v), Ord!Less(u, v),
         NEW a \in Path, NEW b \in Path, StartsWith(a, u), StartsWith(b, v)
  PROVE  Ord!Less(a, b)
  <1>1. Ord!Less(u, b)
    BY LessBelow
  <1>2. ~StartsWith(b, u)
    <2> SUFFICES ASSUME StartsWith(b, u)
                 PROVE  FALSE
      OBVIOUS
    <2>1. Len(u) \in Nat /\ Len(v) \in Nat
      BY PathFacts
    <2>2. StartsWith(v, u)
      BY <2>1, StartsEither
    <2>3. u = v
      BY <2>2, StartsLen
    <2> QED
      BY <2>3, LessNever
  <1> QED
    BY <1>1, <1>2, BelowLess

LEMMA ConcatLess ==
  ASSUME NEW p \in Path, NEW e \in Path, NEW f \in Path, Ord!Less(e, f)
  PROVE  Ord!Less(p \o e, p \o f)
  <1>1. Len(p) \in Nat /\ Len(e) \in Nat /\ Len(f) \in Nat
    BY PathFacts
  <1>2. /\ p \o e \in Path /\ Len(p \o e) = Len(p) + Len(e)
        /\ \A i \in 1 .. Len(p) + Len(e) :
             (p \o e)[i] = IF i <= Len(p) THEN p[i] ELSE e[i - Len(p)]
    BY ConcatFacts
  <1>3. /\ p \o f \in Path /\ Len(p \o f) = Len(p) + Len(f)
        /\ \A i \in 1 .. Len(p) + Len(f) :
             (p \o f)[i] = IF i <= Len(p) THEN p[i] ELSE f[i - Len(p)]
    BY ConcatFacts
  <1> DEFINE a == p \o e
             b == p \o f
  <1>4. PICK c \in Nat : Parting(e, f, c)
    BY LessIs
  <1> DEFINE m == Len(p) + c
  <1>5. m \in Nat /\ m <= Len(a) /\ m < Len(b)
    BY <1>1, <1>2, <1>3, <1>4 DEF Parting
  <1>6. ASSUME NEW i \in 1 .. m
        PROVE  a[i] = b[i]
    <2>1. i \in 1 .. Len(p) + Len(e) /\ i \in 1 .. Len(p) + Len(f)
      BY <1>1, <1>4 DEF Parting
    <2>2. CASE i <= Len(p)
      BY <1>2, <1>3, <2>1, <2>2
    <2>3. CASE ~(i <= Len(p))
      <3>1. i - Len(p) \in 1 .. c
        BY <1>1, <2>3
      <3>2. e[i - Len(p)] = f[i - Len(p)]
        BY <1>4, <3>1 DEF Parting
      <3> QED
        BY <1>2, <1>3, <2>1, <2>3, <3>2
    <2> QED
      BY <2>2, <2>3
  <1>7. ASSUME m < Len(a)
        PROVE  a[m + 1] < b[m + 1]
    <2>1. /\ m + 1 \in 1 .. Len(p) + Len(e) /\ m + 1 \in 1 .. Len(p) + Len(f)
          /\ ~(m + 1 <= Len(p)) /\ (m + 1) - Len(p) = c + 1 /\ c < Len(e)
      BY <1>1, <1>2, <1>4, <1>7 DEF Parting
    <2>2. e[c + 1] < f[c + 1]
      BY <1>4, <2>1 DEF Parting
    <2>3. a[m + 1] = e[c + 1]
      BY <1>2, <2>1
    <2>4. b[m + 1] = f[c + 1]
      BY <1>3, <2>1
    <2> QED
      BY <2>2, <2>3, <2>4
  <1> HIDE DEF m, a, b
  <1>8. Parting(a, b, m)
    BY <1>5, <1>6, <1>7 DEF Parting
  <1>9. a \in Path /\ b \in Path
    BY <1>2, <1>3 DEF a, b
  <1>10. Ord!Less(a, b)
    BY <1>5, <1>8, <1>9, LessIs
  <1> QED
    BY <1>10 DEF a, b

-----------------------------------------------------------------------------
(* First and last elements.                                                *)

LEMMA Smallest ==
  ASSUME NEW S, S \subseteq Nat, S # {}
  PROVE  \E m \in S : \A k \in S : m <= k
  <1>1. IsWellFoundedOn({ss \in Nat \X Nat : ss[1] < ss[2]}, Nat)
    BY NatLessThanWellFounded DEF OpToRel
  <1>2. PICK m \in S : \A k \in S : ~(<<k, m>> \in {ss \in Nat \X Nat : ss[1] < ss[2]})
    BY <1>1, WFMin
  <1>3. ASSUME NEW k \in S
        PROVE  m <= k
    <2>1. k \in Nat /\ m \in Nat
      OBVIOUS
    <2>2. CASE k < m
      <3>1. <<k, m>> \in {ss \in Nat \X Nat : ss[1] < ss[2]}
        BY <2>1, <2>2
      <3> QED
        BY <1>2, <3>1
    <2> QED
      BY <2>1, <2>2
  <1> QED
    BY <1>3

LEMMA Largest ==
  ASSUME NEW S, S \subseteq Nat, S # {}, NEW b \in Nat, \A k \in S : k <= b
  PROVE  \E m \in S : \A k \in S : k <= m
  <1> DEFINE U == {b - k : k \in S}
  <1>1. U \subseteq Nat /\ U # {}
    <2>1. ASSUME NEW k \in S
          PROVE  b - k \in Nat
      <3>1. k \in Nat /\ k <= b
        OBVIOUS
      <3> QED
        BY <3>1
    <2> QED
      BY <2>1
  <1>2. \A k \in S : b - k \in U
    OBVIOUS
  <1>3. PICK u \in U : \A v \in U : u <= v
    BY <1>1, Smallest
  <1>4. PICK m \in S : u = b - m
    BY <1>3
  <1> HIDE DEF U
  <1>5. ASSUME NEW k \in S
        PROVE  k <= m
    <2>1. b - m <= b - k
      BY <1>2, <1>3, <1>4
    <2> QED
      BY <2>1
  <1> QED
    BY <1>5

LEMMA FirstIs ==
  ASSUME NEW S, S \subseteq Path, NEW a \in S, \A b \in S \ {a} : Ord!Less(a, b)
  PROVE  Ord!FirstOf(S) = a
  <1> DEFINE P(d) == \A b \in S \ {d} : Ord!Less(d, b)
  <1>1. ASSUME NEW d \in S, P(d)
        PROVE  d = a
    <2> SUFFICES ASSUME d # a
                 PROVE  FALSE
      OBVIOUS
    <2>1. Ord!Less(d, a) /\ Ord!Less(a, d) /\ d \in Path /\ a \in Path
      BY <1>1
    <2> QED
      BY <2>1, LessOneWay
  <1>2. (CHOOSE d \in S : P(d)) = a
    BY <1>1
  <1> QED
    BY <1>2 DEF Ord!FirstOf

LEMMA LastIs ==
  ASSUME NEW S, S \subseteq Path, NEW a \in S, \A b \in S \ {a} : Ord!Less(b, a)
  PROVE  Ord!LastOf(S) = a
  <1> DEFINE P(d) == \A b \in S \ {d} : Ord!Less(b, d)
  <1>1. ASSUME NEW d \in S, P(d)
        PROVE  d = a
    <2> SUFFICES ASSUME d # a
                 PROVE  FALSE
      OBVIOUS
    <2>1. Ord!Less(d, a) /\ Ord!Less(a, d) /\ d \in Path /\ a \in Path
      BY <1>1
    <2> QED
      BY <2>1, LessOneWay
  <1>2. (CHOOSE d \in S : P(d)) = a
    BY <1>1
  <1> QED
    BY <1>2 DEF Ord!LastOf

-----------------------------------------------------------------------------
(* The tree between two calls.                                             *)

\* A trie of well-formed nodes whose edges all lead to nodes, and with a
\* terminal or an edge in every router.
Trunk ==
  /\ TreeOK(tree) /\ Good(Kids(tree))
  /\ \A p \in DOMAIN tree : KidsOf(p, tree[p]) \subseteq DOMAIN tree
  /\ \A p \in DOMAIN tree : IsRouter(tree, p) => tree[p].edges # {} \/ tree[p].term # NoVal

LEMMA KindIs ==
  ASSUME Trunk, NEW p \in DOMAIN tree
  PROVE  /\ p \in Path /\ NodeOK(tree[p])
         /\ IsLeaf(tree, p) \/ IsPn(tree, p) \/ IsRouter(tree, p)
         /\ ~(IsLeaf(tree, p) /\ IsPn(tree, p))
         /\ ~(IsLeaf(tree, p) /\ IsRouter(tree, p))
         /\ ~(IsPn(tree, p) /\ IsRouter(tree, p))
  <1>1. p \in Path /\ NodeOK(tree[p])
    BY DEF Trunk, TreeOK
  <1>2. tree[p].kind \in {"leaf", "pn"} \cup RouterKinds
    BY <1>1, NodeFields
  <1> QED
    BY <1>1, <1>2 DEF IsLeaf, IsPn, IsRouter, RouterKinds, CnodeKinds

\* Where a node that is no leaf stands, and the nodes it leads to.
LEMMA NodeIs ==
  ASSUME Trunk, NEW p \in DOMAIN tree, ~IsLeaf(tree, p)
  PROVE  /\ p \in Path /\ tree[p].pfx \in Path /\ At(tree, p) \in Path
         /\ StartsWith(At(tree, p), p)
         /\ Len(At(tree, p)) = Len(p) + Len(tree[p].pfx)
         /\ IsPn(tree, p) => /\ At(tree, p) \in DOMAIN tree
                             /\ KidsOf(p, tree[p]) = {At(tree, p)} /\ At(tree, p) # p
                             /\ Len(p) < Len(At(tree, p))
         /\ IsRouter(tree, p) => KidsOf(p, tree[p]) = {ChildOf(p, e) : e \in tree[p].edges}
  <1>1. p \in Path /\ NodeOK(tree[p]) /\ KidsOf(p, tree[p]) \subseteq DOMAIN tree
    BY KindIs DEF Trunk
  <1>2. /\ tree[p].pfx \in Path /\ At(tree, p) \in Path
        /\ Len(At(tree, p)) = Len(p) + Len(tree[p].pfx)
    BY AtOK DEF Trunk, IsLeaf
  <1>3. StartsWith(At(tree, p), p)
    BY <1>1, <1>2, StartsConcat DEF At
  <1>4. ASSUME IsPn(tree, p)
        PROVE  /\ At(tree, p) \in DOMAIN tree /\ At(tree, p) # p
               /\ KidsOf(p, tree[p]) = {At(tree, p)} /\ Len(p) < Len(At(tree, p))
    <2>1. tree[p].pfx # <<>>
      BY <1>1, <1>4, NodeFields DEF IsPn
    <2>2. KidsOf(p, tree[p]) = {At(tree, p)}
      BY <1>4, KidsOfIs DEF IsPn, At
    <2>3. At(tree, p) # p
      BY <1>1, <1>2, <2>1, StartsConcat DEF At
    <2> QED
      BY <1>1, <1>2, <1>3, <2>2, <2>3, StartsLen
  <1>5. IsRouter(tree, p) => KidsOf(p, tree[p]) = {ChildOf(p, e) : e \in tree[p].edges}
    BY KidsOfIs DEF IsRouter, At, ChildOf
  <1> QED
    BY <1>1, <1>2, <1>3, <1>4, <1>5

LEMMA RouterHas ==
  ASSUME Trunk, NEW p \in DOMAIN tree, IsRouter(tree, p)
  PROVE  /\ ~IsLeaf(tree, p) /\ ~IsPn(tree, p)
         /\ tree[p].edges \subseteq Path /\ tree[p].term \in Values \cup {NoVal}
         /\ \A e \in tree[p].edges : Len(e) = StemLen(tree[p].kind)
         /\ tree[p].kind = "u16" => tree[p].pfx = <<>>
         /\ tree[p].edges # {} \/ tree[p].term # NoVal
  <1>1. NodeOK(tree[p]) /\ ~IsLeaf(tree, p) /\ ~IsPn(tree, p)
    BY KindIs
  <1>2. tree[p].kind \in RouterKinds
    BY DEF IsRouter
  <1> QED
    BY <1>1, <1>2, NodeFields DEF Trunk

LEMMA EdgeIs ==
  ASSUME Trunk, NEW p \in DOMAIN tree, IsRouter(tree, p), NEW e \in tree[p].edges
  PROVE  /\ ChildOf(p, e) \in DOMAIN tree /\ ChildOf(p, e) \in Path
         /\ ChildOf(p, e) \in KidsOf(p, tree[p])
         /\ StartsWith(ChildOf(p, e), At(tree, p)) /\ StartsWith(ChildOf(p, e), p)
         /\ ChildOf(p, e) # At(tree, p) /\ ChildOf(p, e) # p
         /\ Len(ChildOf(p, e)) = Len(At(tree, p)) + Len(e)
         /\ Len(At(tree, p)) < Len(ChildOf(p, e)) /\ Len(p) < Len(ChildOf(p, e))
  <1>1. /\ ~IsLeaf(tree, p) /\ e \in Path /\ Len(e) = StemLen(tree[p].kind)
    BY RouterHas
  <1>2. /\ p \in Path /\ At(tree, p) \in Path /\ StartsWith(At(tree, p), p)
        /\ KidsOf(p, tree[p]) = {ChildOf(p, f) : f \in tree[p].edges}
    BY <1>1, NodeIs
  <1>3. e # <<>> /\ Len(e) \in Nat \ {0}
    <2>1. Len(e) = 1 \/ Len(e) = 2
      BY <1>1 DEF StemLen
    <2>2. Len(e) # 0 /\ Len(e) \in Nat \ {0}
      BY <2>1
    <2>3. e # <<>>
      BY <2>2, EmptyPath
    <2> QED
      BY <2>2, <2>3
  <1>4. /\ ChildOf(p, e) \in Path /\ StartsWith(ChildOf(p, e), At(tree, p))
        /\ ChildOf(p, e) # At(tree, p) /\ Len(ChildOf(p, e)) = Len(At(tree, p)) + Len(e)
    BY <1>1, <1>2, <1>3, StartsConcat DEF ChildOf
  <1>5. StartsWith(ChildOf(p, e), p)
    BY <1>2, <1>4, StartsTrans
  <1>6. Len(p) <= Len(At(tree, p)) /\ Len(At(tree, p)) < Len(ChildOf(p, e)) /\ Len(p) \in Nat
        /\ Len(At(tree, p)) \in Nat /\ Len(ChildOf(p, e)) \in Nat
    BY <1>2, <1>4, StartsLen
  <1>7. ChildOf(p, e) # p /\ Len(p) < Len(ChildOf(p, e))
    BY <1>6
  <1>8. ChildOf(p, e) \in KidsOf(p, tree[p]) /\ ChildOf(p, e) \in DOMAIN tree
    BY <1>2 DEF Trunk
  <1> QED
    BY <1>4, <1>5, <1>6, <1>7, <1>8

\* What is below a node is below one of its children, and below one only.
LEMMA BelowNode ==
  ASSUME Trunk, NEW p \in DOMAIN tree, NEW x \in DOMAIN tree, StartsWith(x, p), x # p
  PROVE  /\ ~IsLeaf(tree, p)
         /\ IsPn(tree, p) => StartsWith(x, At(tree, p))
         /\ IsRouter(tree, p) => \E e \in tree[p].edges : StartsWith(x, ChildOf(p, e))
  <1>1. DOMAIN Kids(tree) = DOMAIN tree /\ Kids(tree)[p] = KidsOf(p, tree[p])
    BY KidsIs
  <1>2. PICK c \in KidsOf(p, tree[p]) : StartsWith(x, c)
    BY <1>1 DEF Trunk, Good, Trie
  <1>3. ~IsLeaf(tree, p)
    BY <1>2, KidsOfIs DEF IsLeaf
  <1>4. /\ IsPn(tree, p) => KidsOf(p, tree[p]) = {At(tree, p)}
        /\ IsRouter(tree, p) => KidsOf(p, tree[p]) = {ChildOf(p, e) : e \in tree[p].edges}
    BY <1>3, NodeIs
  <1> QED
    BY <1>2, <1>3, <1>4

LEMMA OneEdge ==
  ASSUME Trunk, NEW p \in DOMAIN tree, IsRouter(tree, p), NEW e \in tree[p].edges,
         NEW f \in tree[p].edges, NEW x \in Path,
         StartsWith(x, ChildOf(p, e)), StartsWith(x, ChildOf(p, f))
  PROVE  e = f
  <1>1. DOMAIN Kids(tree) = DOMAIN tree /\ Kids(tree)[p] = KidsOf(p, tree[p])
    BY KidsIs
  <1>2. ChildOf(p, e) \in KidsOf(p, tree[p]) /\ ChildOf(p, f) \in KidsOf(p, tree[p])
    BY EdgeIs
  <1>3. ChildOf(p, e) = ChildOf(p, f)
    BY <1>1, <1>2, OneKid DEF Trunk, Good
  <1>4. e \in Path /\ f \in Path /\ ~IsLeaf(tree, p)
    BY RouterHas
  <1>5. At(tree, p) \in Path
    BY <1>4, NodeIs
  <1> QED
    BY <1>3, <1>4, <1>5, ConcatCancel DEF ChildOf

LEMMA RootIsThere ==
  ASSUME Trunk, NEW q \in DOMAIN tree
  PROVE  <<>> \in DOMAIN tree
  <1> SUFFICES ASSUME <<>> \notin DOMAIN tree
               PROVE  FALSE
    OBVIOUS
  <1>1. DOMAIN Kids(tree) = DOMAIN tree /\ Good(Kids(tree)) /\ Hung(Kids(tree), <<>>)
    BY KidsIs DEF Trunk, Hung
  <1>2. ~StartsWith(q, <<>>)
    BY <1>1, EmptyPath, NothingBelow
  <1> QED
    BY <1>2, KindIs, StartsWithEmpty

-----------------------------------------------------------------------------
(* The order of the edges of a router.                                     *)

LEMMA ByteLess ==
  ASSUME NEW e \in Path, NEW f \in Path, Len(e) = 1, Len(f) >= 1
  PROVE  /\ e[1] < f[1] => Ord!Less(e, f)
         /\ f[1] < e[1] => ~Ord!Less(e, f)
         /\ Len(f) = 1 => (Ord!Less(e, f) <=> e[1] < f[1])
         /\ e[1] = f[1] /\ Len(f) > 1 => Ord!Less(e, f)
         /\ e[1] \in Byte /\ f[1] \in Byte
  <1>1. e[1] \in Byte /\ f[1] \in Byte /\ e[1] \in Int /\ f[1] \in Int /\ Len(f) \in Nat
    BY PathFacts, MaxByteAssumption DEF Byte
  <1>2. ASSUME e[1] < f[1]
        PROVE  Parting(e, f, 0)
    BY <1>1, <1>2 DEF Parting
  <1>3. ASSUME e[1] = f[1], Len(f) > 1
        PROVE  Parting(e, f, 1)
    BY <1>1, <1>3 DEF Parting
  <1>4. ASSUME NEW c \in Nat, Parting(e, f, c)
        PROVE  e[1] < f[1] \/ (e[1] = f[1] /\ Len(f) > 1)
    <2>1. CASE c = 0
      BY <1>1, <1>4, <2>1 DEF Parting
    <2>2. CASE c # 0
      <3>1. c = 1 /\ 1 \in 1 .. c /\ 1 < Len(f)
        BY <1>1, <1>4, <2>2 DEF Parting
      <3> QED
        BY <1>4, <3>1 DEF Parting
    <2> QED
      BY <2>1, <2>2
  <1>5. e[1] < f[1] => Ord!Less(e, f)
    BY <1>2, LessIs
  <1>6. e[1] = f[1] /\ Len(f) > 1 => Ord!Less(e, f)
    BY <1>3, LessIs
  <1>7. Ord!Less(e, f) => e[1] < f[1] \/ (e[1] = f[1] /\ Len(f) > 1)
    BY <1>4, LessIs
  <1>8. /\ ~(e[1] < f[1] /\ f[1] < e[1]) /\ ~(e[1] = f[1] /\ f[1] < e[1])
        /\ Len(f) = 1 => ~(Len(f) > 1)
    <2> DEFINE x == e[1]
               y == f[1]
               z == Len(f)
    <2>1. x \in Int /\ y \in Int /\ z \in Nat
      BY <1>1
    <2> HIDE DEF x, y, z
    <2>2. ~(x < y /\ y < x) /\ ~(x = y /\ y < x) /\ (z = 1 => ~(z > 1))
      BY <2>1
    <2> QED
      BY <2>2 DEF x, y, z
  <1>9. f[1] < e[1] => ~Ord!Less(e, f)
    BY <1>7, <1>8, Zenon
  <1>10. Len(f) = 1 => (Ord!Less(e, f) <=> e[1] < f[1])
    BY <1>5, <1>7, <1>8, Zenon
  <1> QED
    BY <1>1, <1>5, <1>6, <1>9, <1>10, Zenon

\* The elements of E before f.
Before(E, f) == {g \in E : Ord!Less(g, f)}

LEMMA BeforeFinite ==
  ASSUME NEW E, IsFiniteSet(E), NEW f
  PROVE  IsFiniteSet(Before(E, f)) /\ Cardinality(Before(E, f)) \in Nat
  <1>1. Before(E, f) \subseteq E
    BY DEF Before
  <1>2. IsFiniteSet(Before(E, f))
    BY <1>1, FS_Subset
  <1> QED
    BY <1>2, FS_CardinalityType

LEMMA CountBefore ==
  ASSUME NEW E, E \subseteq Path, IsFiniteSet(E), NEW e \in E, NEW q \in Path
  PROVE  /\ Ord!Less(e, q) => Cardinality(Before(E, e)) < Cardinality(Before(E, q))
         /\ ~Ord!Less(e, q) => Cardinality(Before(E, q)) <= Cardinality(Before(E, e))
  <1>1. /\ IsFiniteSet(Before(E, e)) /\ Cardinality(Before(E, e)) \in Nat
        /\ IsFiniteSet(Before(E, q)) /\ Cardinality(Before(E, q)) \in Nat
    BY BeforeFinite
  <1>2. ASSUME Ord!Less(e, q)
        PROVE  Cardinality(Before(E, e)) < Cardinality(Before(E, q))
    <2>1. e \in Before(E, q) /\ e \notin Before(E, e)
      BY <1>2, LessNever DEF Before
    <2>2. Before(E, e) \subseteq Before(E, q)
      <3>1. \A g \in E : Ord!Less(g, e) => Ord!Less(g, q)
        BY <1>2, LessTrans
      <3> QED
        BY <3>1 DEF Before
    <2>3. Before(E, e) # Before(E, q)
      BY <2>1
    <2> QED
      BY <1>1, <2>2, <2>3, FS_Subset
  <1>3. ASSUME ~Ord!Less(e, q)
        PROVE  Cardinality(Before(E, q)) <= Cardinality(Before(E, e))
    <2>1. Before(E, q) \subseteq Before(E, e)
      <3>1. ASSUME NEW g \in E, Ord!Less(g, q)
            PROVE  Ord!Less(g, e)
        <4>1. g \in Path /\ e \in Path
          OBVIOUS
        <4>2. e = q \/ Ord!Less(q, e)
          BY <1>3, <4>1, LessTotal
        <4> QED
          BY <3>1, <4>1, <4>2, LessTrans
      <3> QED
        BY <3>1 DEF Before
    <2> QED
      BY <1>1, <2>1, FS_Subset
  <1> QED
    BY <1>2, <1>3

LEMMA TakenIs ==
  ASSUME Trunk, NEW p \in DOMAIN tree, IsRouter(tree, p), NEW e \in tree[p].edges
  PROVE  /\ tree[p].kind = "u16" => Taken(p, e) = Cardinality(Before(tree[p].edges, e)) + 1
         /\ tree[p].kind # "u16" => Taken(p, e) = e[1] + 1 /\ Len(e) = 1
         /\ Taken(p, e) \in Nat \ {0}
         /\ tree[p].kind # "u16" => Taken(p, e) <= MaxByte + 1
         /\ IsFiniteSet(tree[p].edges) /\ tree[p].edges \subseteq Path
  <1>1. /\ tree[p].edges \subseteq Path /\ Len(e) = StemLen(tree[p].kind) /\ NodeOK(tree[p])
        /\ tree[p].kind \in RouterKinds
    BY RouterHas, KindIs DEF IsRouter
  <1>2. IsFiniteSet(tree[p].edges)
    BY <1>1, EdgesFinite
  <1>3. ASSUME tree[p].kind = "u16"
        PROVE  /\ Taken(p, e) = Cardinality(Before(tree[p].edges, e)) + 1
               /\ Taken(p, e) \in Nat \ {0}
    <2>1. Taken(p, e) = Cardinality(Before(tree[p].edges, e)) + 1
      BY <1>3 DEF Taken, Before, EdgeLess
    <2>2. Cardinality(Before(tree[p].edges, e)) \in Nat
      BY <1>2, BeforeFinite
    <2> QED
      BY <2>1, <2>2
  <1>4. ASSUME tree[p].kind # "u16"
        PROVE  /\ Taken(p, e) = e[1] + 1 /\ Len(e) = 1
               /\ Taken(p, e) \in Nat \ {0} /\ Taken(p, e) <= MaxByte + 1
    <2>1. Taken(p, e) = e[1] + 1 /\ Len(e) = 1
      BY <1>1, <1>4 DEF Taken, StemLen
    <2>2. 1 \in 1 .. Len(e) /\ e \in Path
      BY <1>1, <2>1
    <2>3. e[1] \in Nat /\ e[1] <= MaxByte
      BY <2>2, PathFacts, MaxByteAssumption DEF Byte
    <2> QED
      BY <2>1, <2>3, MaxByteAssumption
  <1> QED
    BY <1>1, <1>2, <1>3, <1>4

LEMMA TakenOrder ==
  ASSUME Trunk, NEW p \in DOMAIN tree, IsRouter(tree, p),
         NEW e \in tree[p].edges, NEW f \in tree[p].edges
  PROVE  /\ Ord!Less(e, f) <=> Taken(p, e) < Taken(p, f)
         /\ Taken(p, e) = Taken(p, f) => e = f
         /\ e # f => Taken(p, e) < Taken(p, f) \/ Taken(p, f) < Taken(p, e)
  <1>1. ASSUME NEW a \in tree[p].edges, NEW b \in tree[p].edges, Ord!Less(a, b)
        PROVE  Taken(p, a) < Taken(p, b)
    <2>1. CASE tree[p].kind = "u16"
      <3>1. /\ Taken(p, a) = Cardinality(Before(tree[p].edges, a)) + 1
            /\ Taken(p, b) = Cardinality(Before(tree[p].edges, b)) + 1
            /\ tree[p].edges \subseteq Path /\ IsFiniteSet(tree[p].edges)
        BY <2>1, TakenIs
      <3>2. /\ Cardinality(Before(tree[p].edges, a)) \in Nat
            /\ Cardinality(Before(tree[p].edges, b)) \in Nat
        BY <3>1, BeforeFinite
      <3>3. Cardinality(Before(tree[p].edges, a)) < Cardinality(Before(tree[p].edges, b))
        BY <1>1, <3>1, CountBefore
      <3> QED
        BY <3>1, <3>2, <3>3
    <2>2. CASE tree[p].kind # "u16"
      <3>1. /\ Taken(p, a) = a[1] + 1 /\ Len(a) = 1 /\ a \in Path
            /\ Taken(p, b) = b[1] + 1 /\ Len(b) = 1 /\ b \in Path
        BY <2>2, TakenIs
      <3>2. a[1] < b[1] /\ a[1] \in Byte /\ b[1] \in Byte
        BY <1>1, <3>1, ByteLess
      <3> QED
        BY <3>1, <3>2, MaxByteAssumption DEF Byte
    <2> QED
      BY <2>1, <2>2
  <1>2. Taken(p, e) \in Nat /\ Taken(p, f) \in Nat /\ e \in Path /\ f \in Path
    BY TakenIs
  <1>3. e = f \/ Ord!Less(e, f) \/ Ord!Less(f, e)
    BY <1>2, LessTotal
  <1>4. Ord!Less(e, f) => Taken(p, e) < Taken(p, f)
    BY <1>1
  <1>5. Ord!Less(f, e) => Taken(p, f) < Taken(p, e)
    BY <1>1
  <1> QED
    BY <1>2, <1>3, <1>4, <1>5

\* The first and the last edge of a set.
LEMMA MinEdgeIs ==
  ASSUME Trunk, NEW p \in DOMAIN tree, IsRouter(tree, p),
         NEW E, E \subseteq tree[p].edges, E # {}
  PROVE  MinEdge(E) \in E /\ \A f \in E : f = MinEdge(E) \/ Taken(p, MinEdge(E)) < Taken(p, f)
  <1> DEFINE S == {Taken(p, e) : e \in E}
  <1>1. \A e \in E : Taken(p, e) \in Nat
    BY TakenIs
  <1>2. S \subseteq Nat /\ S # {}
    BY <1>1
  <1>3. PICK m \in S : \A k \in S : m <= k
    BY <1>2, Smallest
  <1>4. PICK e \in E : m = Taken(p, e)
    BY <1>3
  <1>5. \A f \in E : Taken(p, e) <= Taken(p, f)
    BY <1>3, <1>4
  <1>6. ASSUME NEW f \in E \ {e}
        PROVE  EdgeLess(e, f)
    <2>1. Taken(p, e) <= Taken(p, f) /\ Taken(p, e) \in Nat /\ Taken(p, f) \in Nat
      BY <1>1, <1>5
    <2>2. e \in tree[p].edges /\ f \in tree[p].edges /\ e # f
      OBVIOUS
    <2>3. Taken(p, e) # Taken(p, f)
      BY <2>2, TakenOrder
    <2>4. Taken(p, e) < Taken(p, f)
      BY <2>1, <2>3
    <2> QED
      BY <2>2, <2>4, TakenOrder DEF EdgeLess
  <1>7. MinEdge(E) \in E /\ \A f \in E \ {MinEdge(E)} : EdgeLess(MinEdge(E), f)
    <2> HIDE DEF S
    <2> QED
      BY <1>6 DEF MinEdge
  <1> QED
    BY <1>7, TakenOrder DEF EdgeLess

LEMMA MaxEdgeIs ==
  ASSUME Trunk, NEW p \in DOMAIN tree, IsRouter(tree, p),
         NEW E, E \subseteq tree[p].edges, E # {}
  PROVE  MaxEdge(E) \in E /\ \A f \in E : f = MaxEdge(E) \/ Taken(p, f) < Taken(p, MaxEdge(E))
  <1> DEFINE S == {Taken(p, e) : e \in E}
  <1>1. \A e \in E : Taken(p, e) \in Nat
    BY TakenIs
  <1>2. S \subseteq Nat /\ S # {}
    BY <1>1
  <1>3. \E b \in Nat : \A k \in S : k <= b
    <2>1. CASE tree[p].kind = "u16"
      <3> DEFINE b == Cardinality(tree[p].edges) + 1
      <3>1. IsFiniteSet(tree[p].edges)
        BY TakenIs
      <3>2. Cardinality(tree[p].edges) \in Nat
        BY <3>1, FS_CardinalityType
      <3>3. ASSUME NEW e \in E
            PROVE  Taken(p, e) <= b
        <4>1. Before(tree[p].edges, e) \subseteq tree[p].edges
          BY DEF Before
        <4>2. Cardinality(Before(tree[p].edges, e)) <= Cardinality(tree[p].edges)
          BY <3>1, <4>1, FS_Subset
        <4>3. Cardinality(Before(tree[p].edges, e)) \in Nat
          BY <3>1, BeforeFinite
        <4>4. Taken(p, e) = Cardinality(Before(tree[p].edges, e)) + 1
          BY <2>1, TakenIs
        <4> QED
          BY <3>2, <4>2, <4>3, <4>4
      <3> QED
        BY <3>2, <3>3
    <2>2. CASE tree[p].kind # "u16"
      <3>1. \A e \in E : Taken(p, e) <= MaxByte + 1
        BY <2>2, TakenIs
      <3>2. MaxByte + 1 \in Nat
        BY MaxByteAssumption
      <3> QED
        BY <3>1, <3>2
    <2> QED
      BY <2>1, <2>2
  <1>4. PICK m \in S : \A k \in S : k <= m
    BY <1>2, <1>3, Largest
  <1>5. PICK e \in E : m = Taken(p, e)
    BY <1>4
  <1>6. ASSUME NEW f \in E \ {e}
        PROVE  EdgeLess(f, e)
    <2>1. Taken(p, f) <= Taken(p, e) /\ Taken(p, e) \in Nat /\ Taken(p, f) \in Nat
      BY <1>1, <1>4, <1>5
    <2>2. e \in tree[p].edges /\ f \in tree[p].edges /\ e # f
      OBVIOUS
    <2>3. Taken(p, e) # Taken(p, f)
      BY <2>2, TakenOrder
    <2>4. Taken(p, f) < Taken(p, e)
      BY <2>1, <2>3
    <2> QED
      BY <2>2, <2>4, TakenOrder DEF EdgeLess
  <1>7. MaxEdge(E) \in E /\ \A f \in E \ {MaxEdge(E)} : EdgeLess(f, MaxEdge(E))
    <2> HIDE DEF S
    <2> QED
      BY <1>6 DEF MaxEdge
  <1> QED
    BY <1>7, TakenOrder DEF EdgeLess

-----------------------------------------------------------------------------
(* Where a bound leaves a router: at the key's next bytes, as many of them  *)
(* as a stem has.                                                           *)

Stem(p, r) == Front(r, Min2(Len(r), IF tree[p].kind = "u16" THEN 2 ELSE 1))

\* The key k stands at the router p, with the bytes r to go.
Leaves(p, k, r) ==
  /\ k \in Path /\ StartsWith(k, At(tree, p)) /\ r = Rest(k, At(tree, p)) /\ r # <<>>

LEMMA StemIs ==
  ASSUME Trunk, NEW p \in DOMAIN tree, IsRouter(tree, p), NEW k, NEW r, Leaves(p, k, r)
  PROVE  /\ r \in Path /\ Len(r) >= 1 /\ k = At(tree, p) \o r
         /\ Stem(p, r) \in Path /\ Len(Stem(p, r)) >= 1 /\ Stem(p, r)[1] = r[1]
         /\ Len(Stem(p, r)) <= StemLen(tree[p].kind) /\ Len(Stem(p, r)) <= Len(r)
         /\ Len(Stem(p, r)) < StemLen(tree[p].kind) => Stem(p, r) = r
         /\ Len(r) >= StemLen(tree[p].kind) =>
              /\ Len(Stem(p, r)) = StemLen(tree[p].kind)
              /\ Stem(p, r) = Front(r, StemLen(tree[p].kind))
         /\ StartsWith(k, ChildOf(p, Stem(p, r)))
  <1> DEFINE a == At(tree, p)
             m == StemLen(tree[p].kind)
             c == Min2(Len(r), m)
             f == Stem(p, r)
  <1>1. a \in Path /\ k \in Path /\ StartsWith(k, a)
    BY RouterHas, NodeIs DEF Leaves
  <1>2. f = Front(r, c)
    BY DEF Stem, StemLen
  <1>3. m = 1 \/ m = 2
    BY DEF StemLen
  <1> HIDE DEF f, m, a
  <1>4. Len(a) \in Nat /\ Len(k) \in Nat /\ Len(a) <= Len(k)
    BY <1>1, StartsLen
  <1>5. r = Rest(k, a)
    BY DEF Leaves, a
  <1>6. r \in Path
    BY <1>1, <1>4, <1>5, RestFacts
  <1>7. Len(r) \in Nat /\ Len(r) >= 1
    BY <1>6, PathFacts DEF Leaves
  <1>8. k = a \o r
    <2>1. Len(a) \in 0 .. Len(k)
      BY <1>4
    <2>2. k = Front(k, Len(a)) \o Back(k, Len(a))
      BY <1>1, <2>1, FrontBack
    <2>3. Front(k, Len(a)) = a
      BY <1>1 DEF StartsWith
    <2>4. Back(k, Len(a)) = r
      BY <1>5 DEF Back, Rest
    <2> QED
      BY <2>2, <2>3, <2>4
  <1>9. c \in 0 .. Len(r) /\ c >= 1 /\ c <= m /\ (c < m => c = Len(r)) /\ (Len(r) >= m => c = m)
    BY <1>3, <1>7 DEF Min2
  <1> HIDE DEF c
  <1>10. f \in Path /\ Len(f) = c /\ f[1] = r[1]
    <2>1. f \in Path /\ Len(f) = c /\ \A i \in 1 .. c : f[i] = r[i]
      BY <1>2, <1>6, <1>9, FrontFacts
    <2>2. 1 \in 1 .. c
      BY <1>7, <1>9
    <2> QED
      BY <2>1, <2>2
  <1>11. r = f \o Back(r, c) /\ Back(r, c) \in Path /\ (c = Len(r) => f = r)
    <2>1. r = Front(r, c) \o Back(r, c) /\ Back(r, c) \in Path /\ Len(Back(r, c)) = Len(r) - c
      BY <1>6, <1>9, FrontBack, BackFacts
    <2>2. c = Len(r) => StartsWith(r, f)
      BY <1>2, <1>6, <1>7, <1>10, <2>1, StartsConcat
    <2>3. c = Len(r) => f = r
      BY <1>6, <1>10, <2>2, StartsLen
    <2> QED
      BY <1>2, <2>1, <2>3
  <1>12. StartsWith(k, a \o f)
    <2> DEFINE y == Back(r, c)
    <2> HIDE DEF y
    <2>3. y \in Path /\ r = f \o y
      BY <1>11 DEF y
    <2>1. a \o r = (a \o f) \o y
      BY <1>1, <1>10, <2>3, ConcatAssoc
    <2>2. a \o f \in Path
      BY <1>1, <1>10, ConcatFacts
    <2> QED
      BY <1>8, <2>1, <2>2, <2>3, StartsConcat
  <1>13. c < m => f = r
    BY <1>9, <1>11
  <1>14. Len(r) >= m => c = m /\ f = Front(r, m)
    BY <1>2, <1>9
  <1>15. Len(f) >= 1 /\ Len(f) <= m /\ Len(f) <= Len(r) /\ (Len(f) < m => f = r)
    BY <1>7, <1>9, <1>10, <1>13
  <1>16. Len(r) >= m => Len(f) = m /\ f = Front(r, m)
    BY <1>10, <1>14
  <1> QED
    BY <1>6, <1>7, <1>8, <1>10, <1>12, <1>15, <1>16 DEF f, m, a, ChildOf

\* The edges after the stem lead to greater keys only, those before it to
\* smaller ones.
LEMMA StemSides ==
  ASSUME Trunk, NEW p \in DOMAIN tree, IsRouter(tree, p), NEW k, NEW r, Leaves(p, k, r),
         NEW e \in tree[p].edges, NEW x \in Path, StartsWith(x, ChildOf(p, e))
  PROVE  /\ Ord!Less(Stem(p, r), e) => Ord!Less(k, x)
         /\ Ord!Less(e, Stem(p, r)) => Ord!Less(x, k)
         /\ e # Stem(p, r) => Ord!Less(Stem(p, r), e) \/ Ord!Less(e, Stem(p, r))
  <1> DEFINE a == At(tree, p)
             f == Stem(p, r)
             m == StemLen(tree[p].kind)
  <1>1. /\ f \in Path /\ Len(f) <= m /\ (Len(f) < m => f = r)
        /\ StartsWith(k, a \o f) /\ k \in Path /\ k = a \o r /\ r \in Path
    BY StemIs DEF ChildOf, Leaves
  <1>2. e \in Path /\ Len(e) = m /\ a \in Path /\ StartsWith(x, a \o e)
    BY RouterHas, NodeIs DEF ChildOf
  <1>3. m = 1 \/ m = 2
    BY DEF StemLen
  <1> HIDE DEF a, f, m
  <1>4. Len(f) \in Nat /\ Len(e) \in Nat /\ Len(a) \in Nat
    BY <1>1, <1>2, PathFacts
  <1>5. /\ a \o e \in Path /\ Len(a \o e) = Len(a) + Len(e)
        /\ a \o f \in Path /\ Len(a \o f) = Len(a) + Len(f)
    BY <1>1, <1>2, ConcatFacts
  <1>6. ASSUME Ord!Less(f, e)
        PROVE  Ord!Less(k, x)
    <2>1. Ord!Less(a \o f, a \o e)
      BY <1>1, <1>2, <1>6, ConcatLess
    <2>2. CASE Len(f) < m
      <3>1. k = a \o f
        BY <1>1, <2>2
      <3> QED
        BY <1>1, <1>2, <1>5, <2>1, <3>1, LessBelow
    <2>3. CASE Len(f) = m
      <3>1. Len(a \o f) = Len(a \o e)
        BY <1>2, <1>5, <2>3
      <3> QED
        BY <1>1, <1>2, <1>5, <2>1, <3>1, SidesLess
    <2> QED
      BY <1>1, <1>3, <1>4, <2>2, <2>3
  <1>7. ASSUME Ord!Less(e, f)
        PROVE  Ord!Less(x, k)
    <2>1. Ord!Less(a \o e, a \o f)
      BY <1>1, <1>2, <1>7, ConcatLess
    <2>2. Ord!Less(a \o e, k)
      BY <1>1, <1>5, <2>1, LessBelow
    <2>3. ~StartsWith(k, a \o e)
      <3> SUFFICES ASSUME StartsWith(k, a \o e)
                   PROVE  FALSE
        OBVIOUS
      <3>1. Len(a \o f) <= Len(a \o e)
        BY <1>1, <1>2, <1>4, <1>5
      <3>2. StartsWith(a \o e, a \o f)
        BY <1>1, <1>5, <3>1, StartsEither
      <3>3. CASE a \o e = a \o f
        BY <1>5, <2>1, <3>3, LessNever
      <3>4. CASE a \o e # a \o f
        <4>1. Ord!Less(a \o f, a \o e)
          BY <1>5, <3>2, <3>4, PrefixLess
        <4> QED
          BY <1>5, <2>1, <4>1, LessOneWay
      <3> QED
        BY <3>3, <3>4
    <2> QED
      BY <1>1, <1>2, <1>5, <2>2, <2>3, BelowLess
  <1>8. e # f => Ord!Less(f, e) \/ Ord!Less(e, f)
    BY <1>1, <1>2, LessTotal
  <1> QED
    BY <1>6, <1>7, <1>8 DEF f

\* Where the cursor goes when no edge is the stem: before the first one after it.
LEMMA CursorIs ==
  ASSUME Trunk, NEW p \in DOMAIN tree, IsRouter(tree, p), NEW k, NEW r, Leaves(p, k, r),
         Stem(p, r) \notin tree[p].edges, NEW e \in tree[p].edges
  PROVE  LET c == IF tree[p].kind = "u16" THEN StemCursor(p, r) ELSE r[1]
         IN  c \in Nat /\ (Taken(p, e) > c <=> Ord!Less(Stem(p, r), e))
  <1> DEFINE f == Stem(p, r)
             E == tree[p].edges
  <1>1. /\ r \in Path /\ Len(r) \in Nat /\ Len(r) >= 1 /\ f \in Path /\ Len(f) >= 1 /\ f[1] = r[1]
        /\ Len(f) <= StemLen(tree[p].kind) /\ (Len(f) < StemLen(tree[p].kind) => f = r)
        /\ Len(r) >= StemLen(tree[p].kind) =>
             Len(f) = StemLen(tree[p].kind) /\ f = Front(r, StemLen(tree[p].kind))
        /\ Len(f) <= Len(r)
    BY StemIs, PathFacts
  <1>5. Len(r) \in Nat /\ Len(r) >= 1
    BY <1>1
  <1>2. e \in Path /\ Len(e) = StemLen(tree[p].kind) /\ e # f
    BY RouterHas
  <1> HIDE DEF f
  <1>3. CASE tree[p].kind # "u16"
    <2>1. Taken(p, e) = e[1] + 1 /\ Len(e) = 1 /\ Len(f) = 1 /\ Len(r) >= 1
      BY <1>1, <1>3, TakenIs DEF StemLen
    <2>2. (Ord!Less(f, e) <=> f[1] < e[1]) /\ f[1] \in Byte /\ e[1] \in Byte
      BY <1>1, <1>2, <2>1, ByteLess
    <2>3. f[1] # e[1]
      <3>1. ASSUME f[1] = e[1]
            PROVE  \A i \in 1 .. Len(f) : f[i] = e[i]
        <4>1. \A i \in 1 .. Len(f) : i = 1
          BY <2>1
        <4> QED
          BY <3>1, <4>1
      <3> QED
        BY <1>1, <1>2, <2>1, <3>1, SamePath
    <2>4. r[1] \in Nat /\ e[1] \in Nat /\ r[1] # e[1] /\ (Ord!Less(f, e) <=> r[1] < e[1])
      BY <1>1, <2>2, <2>3, MaxByteAssumption DEF Byte
    <2>5. e[1] + 1 > r[1] <=> r[1] < e[1]
      BY <2>4
    <2> QED
      BY <1>3, <2>1, <2>4, <2>5 DEF f
  <1>4. CASE tree[p].kind = "u16"
    <2> DEFINE g == IF Len(r) < 2 THEN <<r[1], 0>> ELSE Front(r, 2)
    <2>1. StemCursor(p, r) = Cardinality(Before(E, g))
      BY DEF StemCursor, Before, EdgeLess
    <2>2. /\ Taken(p, e) = Cardinality(Before(E, e)) + 1 /\ IsFiniteSet(E) /\ E \subseteq Path
      BY <1>4, TakenIs
    <2>3. Len(e) = 2 /\ Len(f) <= 2 /\ (Len(f) < 2 => f = r) /\ (Len(r) >= 2 => f = Front(r, 2))
      BY <1>1, <1>2, <1>4 DEF StemLen
    <2>4. g \in Path /\ (Ord!Less(f, e) <=> ~Ord!Less(e, g))
      <3>1. CASE Len(r) < 2
        <4>8. Len(r) = 1
          <5> DEFINE z == Len(r)
          <5>1. z \in Nat /\ z >= 1 /\ z < 2
            BY <1>5, <3>1
          <5> HIDE DEF z
          <5>2. z = 1
            BY <5>1
          <5> QED
            BY <5>2 DEF z
        <4>1. Len(r) = 1 /\ g = <<r[1], 0>>
          BY <3>1, <4>8, Zenon
        <4>2. f = r /\ Len(e) > 1 /\ Len(e) >= 1
          BY <1>1, <2>3, <4>1
        <4>3. r[1] \in Byte /\ e[1] \in Byte /\ e[2] \in Byte /\ 0 \in Byte
          <5>1. 1 \in 1 .. Len(r) /\ 1 \in 1 .. Len(e) /\ 2 \in 1 .. Len(e)
            BY <1>1, <2>3
          <5> QED
            BY <1>1, <1>2, <5>1, PathFacts, MaxByteAssumption DEF Byte
        <4>4. g \in Path /\ Len(g) = 2 /\ g[1] = r[1] /\ g[2] = 0
          BY <4>1, <4>3 DEF Path
        <4>5. Ord!Less(f, e) <=> r[1] <= e[1]
          <5>1. /\ r[1] < e[1] => Ord!Less(r, e)
                /\ e[1] < r[1] => ~Ord!Less(r, e)
                /\ r[1] = e[1] => Ord!Less(r, e)
            <6>1. r \in Path /\ Len(r) = 1 /\ e \in Path /\ Len(e) >= 1 /\ Len(e) > 1
              BY <1>1, <1>2, <4>1, <4>2
            <6> QED
              BY <6>1, ByteLess
          <5>2. r[1] \in Int /\ e[1] \in Int
            BY <4>3, MaxByteAssumption DEF Byte
          <5> QED
            BY <4>2, <5>1, <5>2
        <4>6. Ord!Less(e, g) <=> e[1] < r[1]
          <5>1. ASSUME e[1] < r[1]
                PROVE  Parting(e, g, 0)
            BY <2>3, <4>4, <5>1 DEF Parting
          <5>2. ASSUME NEW c \in Nat, Parting(e, g, c)
                PROVE  e[1] < r[1]
            <6>1. c < 2 /\ (c < 2 => e[c + 1] < g[c + 1])
              BY <2>3, <4>4, <5>2 DEF Parting
            <6>2. c = 0 \/ c = 1
              BY <6>1
            <6>3. c = 1 => e[2] < 0
              BY <4>4, <6>1
            <6>4. c # 1
              BY <4>3, <6>3, MaxByteAssumption DEF Byte
            <6> QED
              BY <4>4, <6>1, <6>2, <6>4
          <5> QED
            BY <1>2, <4>4, <5>1, <5>2, LessIs
        <4>7. r[1] <= e[1] <=> ~(e[1] < r[1])
          <5>1. r[1] \in Int /\ e[1] \in Int
            BY <4>3, MaxByteAssumption DEF Byte
          <5> QED
            BY <5>1
        <4> QED
          BY <4>4, <4>5, <4>6, <4>7
      <3>2. CASE ~(Len(r) < 2)
        <4>1. g = f
          BY <1>1, <2>3, <3>2
        <4>2. Ord!Less(f, e) \/ Ord!Less(e, f)
          BY <1>1, <1>2, LessTotal
        <4>3. ~(Ord!Less(f, e) /\ Ord!Less(e, f))
          BY <1>1, <1>2, LessOneWay
        <4> QED
          BY <1>1, <4>1, <4>2, <4>3
      <3> QED
        BY <3>1, <3>2
    <2> HIDE DEF g
    <2>5. Cardinality(Before(E, g)) \in Nat /\ Cardinality(Before(E, e)) \in Nat
      BY <2>2, BeforeFinite
    <2>6. /\ Ord!Less(e, g) => Cardinality(Before(E, e)) < Cardinality(Before(E, g))
          /\ ~Ord!Less(e, g) => Cardinality(Before(E, g)) <= Cardinality(Before(E, e))
      BY <2>2, <2>4, CountBefore
    <2> DEFINE u == Cardinality(Before(E, g))
               v == Cardinality(Before(E, e))
    <2> HIDE DEF u, v
    <2>7. u \in Nat /\ v \in Nat /\ (Ord!Less(e, g) => v < u) /\ (~Ord!Less(e, g) => u <= v)
      BY <2>5, <2>6 DEF u, v
    <2>8. v + 1 > u <=> ~Ord!Less(e, g)
      BY <2>7
    <2>9. StemCursor(p, r) = u /\ Taken(p, e) = v + 1
      BY <2>1, <2>2 DEF u, v
    <2> QED
      BY <1>4, <2>4, <2>7, <2>8, <2>9 DEF f
  <1> QED
    BY <1>3, <1>4

-----------------------------------------------------------------------------
(* Stacks of frames.                                                       *)

Frames == [node : Path, cur : Int, plen : Nat, cbase : Nat]

\* The cursor of the frame is on the way to q.
Aims(fr, q) ==
  /\ IsPn(tree, fr.node) => fr.cur = 1 /\ StartsWith(q, At(tree, fr.node))
  /\ IsRouter(tree, fr.node) =>
       \E e \in tree[fr.node].edges :
         fr.cur = Taken(fr.node, e) /\ StartsWith(q, ChildOf(fr.node, e))

\* The first m frames are the way from the root to q, q excluded.
Trail(s, m, q) ==
  /\ \A i \in 1 .. m : Aims(s[i], q)
  /\ \A p \in DOMAIN tree : StartsWith(q, p) /\ p # q => \E i \in 1 .. m : s[i].node = p

Inner(fr) == fr.node \in DOMAIN tree /\ ~IsLeaf(tree, fr.node)

\* Every frame stands where the frames above it lead.
Stack(s) == \A i \in 1 .. Len(s) : Inner(s[i]) /\ Trail(s, i - 1, s[i].node)

LEMMA InnerIs ==
  ASSUME Trunk, NEW fr, Inner(fr)
  PROVE  /\ fr.node \in DOMAIN tree /\ fr.node \in Path
         /\ IsPn(tree, fr.node) \/ IsRouter(tree, fr.node)
         /\ ~(IsPn(tree, fr.node) /\ IsRouter(tree, fr.node))
         /\ At(tree, fr.node) \in Path /\ StartsWith(At(tree, fr.node), fr.node)
  BY KindIs, NodeIs DEF Inner

\* A frame aims at one child of its node.
LEMMA AimsUnder ==
  ASSUME Trunk, NEW fr, Inner(fr), NEW q \in Path, Aims(fr, q)
  PROVE  /\ StartsWith(q, fr.node) /\ q # fr.node /\ Len(fr.node) < Len(q)
         /\ StartsWith(q, At(tree, fr.node))
         /\ \E c \in KidsOf(fr.node, tree[fr.node]) : c \in DOMAIN tree /\ StartsWith(q, c)
  <1> DEFINE p == fr.node
  <1>1. /\ p \in DOMAIN tree /\ p \in Path /\ (IsPn(tree, p) \/ IsRouter(tree, p))
        /\ At(tree, p) \in Path /\ StartsWith(At(tree, p), p) /\ ~IsLeaf(tree, p)
    BY InnerIs DEF Inner
  <1>2. CASE IsPn(tree, p)
    <2>1. StartsWith(q, At(tree, p))
      BY <1>2 DEF Aims
    <2>2. /\ At(tree, p) \in DOMAIN tree /\ KidsOf(p, tree[p]) = {At(tree, p)}
          /\ Len(p) < Len(At(tree, p))
      BY <1>1, <1>2, NodeIs
    <2>3. StartsWith(q, p) /\ Len(At(tree, p)) <= Len(q) /\ Len(q) \in Nat
      BY <1>1, <2>1, StartsTrans, StartsLen
    <2>4. Len(p) \in Nat /\ Len(At(tree, p)) \in Nat
      BY <1>1, PathFacts
    <2>5. Len(p) < Len(q)
      BY <2>2, <2>3, <2>4
    <2>6. q # p
      BY <2>4, <2>5
    <2> QED
      BY <2>1, <2>2, <2>3, <2>5, <2>6
  <1>3. CASE IsRouter(tree, p)
    <2>1. PICK e \in tree[p].edges : StartsWith(q, ChildOf(p, e))
      BY <1>3 DEF Aims
    <2>2. /\ ChildOf(p, e) \in DOMAIN tree /\ ChildOf(p, e) \in Path
          /\ ChildOf(p, e) \in KidsOf(p, tree[p])
          /\ StartsWith(ChildOf(p, e), At(tree, p)) /\ StartsWith(ChildOf(p, e), p)
          /\ Len(p) < Len(ChildOf(p, e))
      BY <1>1, <1>3, EdgeIs
    <2>3. StartsWith(q, p) /\ StartsWith(q, At(tree, p)) /\ Len(ChildOf(p, e)) <= Len(q)
      BY <1>1, <2>1, <2>2, StartsTrans, StartsLen
    <2>4. Len(p) \in Nat /\ Len(ChildOf(p, e)) \in Nat /\ Len(q) \in Nat
      BY <1>1, <2>2, PathFacts
    <2>5. Len(p) < Len(q)
      BY <2>2, <2>3, <2>4
    <2>6. q # p
      BY <2>4, <2>5
    <2> QED
      BY <2>1, <2>2, <2>3, <2>5, <2>6
  <1> QED
    BY <1>1, <1>2, <1>3

LEMMA AimsOn ==
  ASSUME Trunk, NEW fr, Inner(fr), NEW q \in Path, Aims(fr, q),
         NEW y \in Path, StartsWith(y, q)
  PROVE  Aims(fr, y)
  <1> DEFINE p == fr.node
  <1>1. p \in DOMAIN tree /\ At(tree, p) \in Path
    BY InnerIs
  <1>2. IsPn(tree, p) => fr.cur = 1 /\ StartsWith(y, At(tree, p))
    BY <1>1, StartsTrans DEF Aims
  <1>3. ASSUME IsRouter(tree, p)
        PROVE  \E e \in tree[p].edges : fr.cur = Taken(p, e) /\ StartsWith(y, ChildOf(p, e))
    <2>1. PICK e \in tree[p].edges : fr.cur = Taken(p, e) /\ StartsWith(q, ChildOf(p, e))
      BY <1>3 DEF Aims
    <2>2. ChildOf(p, e) \in Path
      BY <1>1, <1>3, EdgeIs
    <2>3. StartsWith(y, ChildOf(p, e))
      BY <2>1, <2>2, StartsTrans
    <2> QED
      BY <2>1, <2>3
  <1> QED
    BY <1>2, <1>3 DEF Aims

\* The trail goes on to a child of where it led.
LEMMA TrailOn ==
  ASSUME Trunk, NEW s, NEW m \in Nat, NEW q \in DOMAIN tree, ~IsLeaf(tree, q),
         Trail(s, m, q), \A i \in 1 .. m : Inner(s[i]),
         s[m + 1].node = q, NEW c \in KidsOf(q, tree[q]), Aims(s[m + 1], c)
  PROVE  Trail(s, m + 1, c) /\ c \in DOMAIN tree
  <1>1. /\ q \in Path /\ c \in DOMAIN tree /\ c \in Path /\ StartsWith(c, q) /\ c # q
        /\ DOMAIN Kids(tree) = DOMAIN tree /\ Kids(tree)[q] = KidsOf(q, tree[q])
        /\ Good(Kids(tree))
    <2>1. DOMAIN Kids(tree) = DOMAIN tree /\ Kids(tree)[q] = KidsOf(q, tree[q])
          /\ Good(Kids(tree)) /\ c \in DOMAIN tree
      BY KidsIs DEF Trunk
    <2> QED
      BY <2>1, KidFacts DEF Good
  <1>2. ASSUME NEW i \in 1 .. m + 1
        PROVE  Aims(s[i], c)
    <2>1. CASE i = m + 1
      BY <2>1
    <2>2. CASE i # m + 1
      <3>1. i \in 1 .. m
        BY <2>2
      <3>2. Inner(s[i]) /\ Aims(s[i], q)
        BY <3>1 DEF Trail
      <3> QED
        BY <1>1, <3>2, AimsOn
    <2> QED
      BY <2>1, <2>2
  <1>3. ASSUME NEW p \in DOMAIN tree, StartsWith(c, p), p # c
        PROVE  \E i \in 1 .. m + 1 : s[i].node = p
    <2>1. p \in Path
      BY KindIs
    <2>2. CASE p = q
      <3>1. m + 1 \in 1 .. m + 1
        OBVIOUS
      <3> QED
        BY <2>2, <3>1
    <2>3. CASE StartsWith(q, p) /\ p # q
      <3>1. PICK i \in 1 .. m : s[i].node = p
        BY <2>3 DEF Trail
      <3>2. i \in 1 .. m + 1
        OBVIOUS
      <3> QED
        BY <3>1, <3>2
    <2>4. CASE StartsWith(p, q) /\ p # q
      <3>1. PICK d \in KidsOf(q, tree[q]) : StartsWith(p, d)
        BY <1>1, <2>4 DEF Good, Trie
      <3>2. d \in Path
        BY <1>1, <3>1, KidFacts DEF Good
      <3>3. StartsWith(c, d) /\ StartsWith(c, c)
        BY <1>1, <2>1, <1>3, <3>1, <3>2, StartsTrans, StartsRefl
      <3>4. d = c
        BY <1>1, <3>1, <3>3, OneKid DEF Good
      <3>5. p = c
        BY <1>1, <1>3, <2>1, <3>1, <3>4, StartsSame
      <3> QED
        BY <1>3, <3>5
    <2>5. StartsWith(q, p) \/ StartsWith(p, q)
      BY <1>1, <1>3, <2>1, StartsEither
    <2> QED
      BY <2>2, <2>3, <2>4, <2>5
  <1>4. m + 1 \in Nat
    OBVIOUS
  <1> QED
    BY <1>1, <1>2, <1>3 DEF Trail

\* s and t have the same first m frames, but for the key lengths.
Like(s, t, m) == \A i \in 1 .. m : s[i].node = t[i].node /\ s[i].cur = t[i].cur

LEMMA AimsLike ==
  ASSUME NEW fr, NEW gr, fr.node = gr.node, fr.cur = gr.cur, NEW q
  PROVE  Aims(fr, q) <=> Aims(gr, q)
  BY DEF Aims

LEMMA TrailLike ==
  ASSUME NEW s, NEW t, NEW m \in Nat, Like(s, t, m), NEW q, Trail(s, m, q)
  PROVE  Trail(t, m, q)
  <1>1. \A i \in 1 .. m : Aims(t[i], q)
    BY AimsLike DEF Like, Trail
  <1>2. ASSUME NEW p \in DOMAIN tree, StartsWith(q, p), p # q
        PROVE  \E i \in 1 .. m : t[i].node = p
    BY <1>2 DEF Like, Trail
  <1> QED
    BY <1>1, <1>2 DEF Trail

\* A stack is one without its last frame, if that one stands where it leads.
LEMMA StackTop ==
  ASSUME NEW s, NEW t, NEW m \in Nat, Stack(s), m <= Len(s), Len(s) \in Nat, Len(t) = m + 1,
         Like(s, t, m), Inner(t[m + 1]), Trail(s, m, t[m + 1].node)
  PROVE  Stack(t)
  <1> SUFFICES ASSUME NEW i \in 1 .. m + 1
               PROVE  Inner(t[i]) /\ Trail(t, i - 1, t[i].node)
    BY DEF Stack
  <1>1. CASE i = m + 1
    <2>1. i - 1 = m
      BY <1>1
    <2>2. Trail(t, m, t[m + 1].node)
      BY TrailLike
    <2> QED
      BY <1>1, <2>1, <2>2
  <1>2. CASE i # m + 1
    <2>1. i \in 1 .. m /\ i \in 1 .. Len(s) /\ i - 1 \in Nat
      BY <1>2
    <2>2. Inner(s[i]) /\ Trail(s, i - 1, s[i].node) /\ t[i].node = s[i].node
      BY <2>1 DEF Stack, Like
    <2>3. Like(s, t, i - 1)
      BY <2>1 DEF Like
    <2> QED
      BY <2>1, <2>2, <2>3, TrailLike DEF Inner
  <1> QED
    BY <1>1, <1>2

LEMMA StackLike ==
  ASSUME NEW s, NEW t, Stack(s), Len(s) \in Nat, Len(t) \in Nat, Len(t) <= Len(s),
         Like(s, t, Len(t))
  PROVE  Stack(t)
  <1> SUFFICES ASSUME NEW i \in 1 .. Len(t)
               PROVE  Inner(t[i]) /\ Trail(t, i - 1, t[i].node)
    BY DEF Stack
  <1>1. i \in 1 .. Len(s) /\ i - 1 \in Nat
    OBVIOUS
  <1>2. Inner(s[i]) /\ Trail(s, i - 1, s[i].node) /\ t[i].node = s[i].node
    BY <1>1 DEF Stack, Like
  <1>3. Like(s, t, i - 1)
    BY <1>1 DEF Like
  <1> QED
    BY <1>1, <1>2, <1>3, TrailLike DEF Inner

\* Frames further down stand on longer slots, each on a child of the one before.
LEMMA Deepens ==
  ASSUME Trunk, NEW s, Stack(s), NEW a \in 1 .. Len(s), NEW b \in 1 .. Len(s), Len(s) \in Nat, a < b
  PROVE  /\ Len(s[a].node) < Len(s[b].node) /\ StartsWith(s[b].node, s[a].node)
         /\ Aims(s[a], s[b].node)
  <1>1. Inner(s[a]) /\ Inner(s[b]) /\ Trail(s, b - 1, s[b].node) /\ a \in 1 .. b - 1
    BY DEF Stack
  <1>2. Aims(s[a], s[b].node) /\ s[b].node \in Path
    BY <1>1, InnerIs DEF Trail
  <1> QED
    BY <1>1, <1>2, AimsUnder

-----------------------------------------------------------------------------
(* What a stack has yet to visit, and what it has left behind.             *)

\* Moving on from the frame, seek_ meets x; moving back, retreat_ does.
Pends(fr, x) ==
  \/ IsPn(tree, fr.node) /\ fr.cur = 0 /\ StartsWith(x, At(tree, fr.node))
  \/ IsRouter(tree, fr.node) /\ fr.cur = -1 /\ x = fr.node
  \/ /\ IsRouter(tree, fr.node)
     /\ \E e \in tree[fr.node].edges :
          Taken(fr.node, e) > fr.cur /\ StartsWith(x, ChildOf(fr.node, e))

Passed(fr, x) ==
  \/ IsRouter(tree, fr.node) /\ fr.cur >= 1 /\ x = fr.node
  \/ /\ IsRouter(tree, fr.node)
     /\ \E e \in tree[fr.node].edges :
          Taken(fr.node, e) < fr.cur /\ StartsWith(x, ChildOf(fr.node, e))

Ahead(s, x)  == \E i \in 1 .. Len(s) : Pends(s[i], x)
Behind(s, x) == \E i \in 1 .. Len(s) : Passed(s[i], x)
Under(q, x)  == StartsWith(x, q)

TSet == Terminals(tree)
Key(x) == KeyAt(tree, x)

LEMMA TerminalIs ==
  ASSUME Trunk, NEW x \in TSet
  PROVE  /\ x \in DOMAIN tree /\ x \in Path /\ Key(x) \in Path /\ StartsWith(Key(x), x)
         /\ IsLeaf(tree, x) => Key(x) = x \o tree[x].suf /\ tree[x].suf \in Path
         /\ IsLeaf(tree, x) \/ IsRouter(tree, x)
         /\ IsRouter(tree, x) => Key(x) = At(tree, x) /\ tree[x].term # NoVal
  <1>1. x \in DOMAIN tree /\ x \in Path /\ Key(x) \in Path /\ StartsWith(Key(x), x)
    BY KeyFacts DEF TSet, Key, Trunk
  <1>2. ASSUME IsLeaf(tree, x)
        PROVE  Key(x) = x \o tree[x].suf /\ tree[x].suf \in Path
    <2>1. NodeOK(tree[x])
      BY <1>1, KindIs
    <2> QED
      BY <1>2, <2>1, NodeFields DEF Key, KeyAt, IsLeaf
  <1>3. IsLeaf(tree, x) \/ IsRouter(tree, x)
    BY DEF TSet, Terminals
  <1>4. ASSUME IsRouter(tree, x)
        PROVE  Key(x) = At(tree, x) /\ tree[x].term # NoVal
    <2>1. ~IsLeaf(tree, x)
      BY <1>1, <1>4, KindIs
    <2> QED
      BY <1>4, <2>1 DEF Key, KeyAt, TSet, Terminals
  <1> QED
    BY <1>1, <1>2, <1>3, <1>4

\* A key below q is below the keys of what pends in a frame on the way to q,
\* and above those of what the frame has passed.
LEMMA PendsAfter ==
  ASSUME Trunk, NEW fr, Inner(fr), NEW q \in Path, Aims(fr, q), NEW x \in TSet, Pends(fr, x),
         NEW k \in Path, StartsWith(k, q)
  PROVE  Ord!Less(k, Key(x))
  <1> DEFINE p == fr.node
  <1>1. p \in DOMAIN tree /\ ~(IsPn(tree, p) /\ IsRouter(tree, p))
    BY InnerIs
  <1>2. x \in Path /\ Key(x) \in Path /\ StartsWith(Key(x), x)
    BY TerminalIs
  <1>3. ~IsPn(tree, p)
    BY <1>1 DEF Aims, Pends
  <1>4. IsRouter(tree, p)
    BY <1>3 DEF Pends
  <1>5. PICK e \in tree[p].edges : fr.cur = Taken(p, e) /\ StartsWith(q, ChildOf(p, e))
    BY <1>4 DEF Aims
  <1>6. fr.cur \in Nat
    BY <1>1, <1>4, <1>5, TakenIs
  <1>7. PICK f \in tree[p].edges : Taken(p, f) > fr.cur /\ StartsWith(x, ChildOf(p, f))
    BY <1>3, <1>6 DEF Pends
  <1>8. Taken(p, e) < Taken(p, f)
    <2>1. Taken(p, e) \in Nat /\ Taken(p, f) \in Nat
      BY <1>1, <1>4, TakenIs
    <2> QED
      BY <1>5, <1>7, <2>1
  <1>9. Ord!Less(e, f)
    BY <1>1, <1>4, <1>8, TakenOrder
  <1>10. /\ e \in Path /\ f \in Path /\ At(tree, p) \in Path
         /\ ChildOf(p, e) \in Path /\ ChildOf(p, f) \in Path
         /\ Len(ChildOf(p, e)) = Len(ChildOf(p, f))
    <2>1. e \in Path /\ f \in Path /\ Len(e) = Len(f)
      BY <1>1, <1>4, RouterHas
    <2>2. /\ Len(ChildOf(p, e)) = Len(At(tree, p)) + Len(e)
          /\ Len(ChildOf(p, f)) = Len(At(tree, p)) + Len(f)
          /\ ChildOf(p, e) \in Path /\ ChildOf(p, f) \in Path
      BY <1>1, <1>4, EdgeIs
    <2> QED
      BY <2>1, <2>2, InnerIs
  <1>11. Ord!Less(ChildOf(p, e), ChildOf(p, f))
    BY <1>9, <1>10, ConcatLess DEF ChildOf
  <1>12. StartsWith(k, ChildOf(p, e)) /\ StartsWith(Key(x), ChildOf(p, f))
    BY <1>2, <1>5, <1>7, <1>10, StartsTrans
  <1> QED
    BY <1>2, <1>10, <1>11, <1>12, SidesLess

LEMMA PassedBefore ==
  ASSUME Trunk, NEW fr, Inner(fr), NEW q \in Path, Aims(fr, q), NEW x \in TSet, Passed(fr, x),
         NEW k \in Path, StartsWith(k, q)
  PROVE  Ord!Less(Key(x), k)
  <1> DEFINE p == fr.node
  <1>1. /\ p \in DOMAIN tree /\ ~(IsPn(tree, p) /\ IsRouter(tree, p)) /\ IsRouter(tree, p)
        /\ At(tree, p) \in Path
    BY InnerIs DEF Passed
  <1>2. x \in Path /\ Key(x) \in Path /\ StartsWith(Key(x), x)
    BY TerminalIs
  <1>3. PICK e \in tree[p].edges : fr.cur = Taken(p, e) /\ StartsWith(q, ChildOf(p, e))
    BY <1>1 DEF Aims
  <1>4. /\ ChildOf(p, e) \in Path /\ StartsWith(ChildOf(p, e), At(tree, p))
        /\ ChildOf(p, e) # At(tree, p)
    BY <1>1, EdgeIs
  <1>5. StartsWith(k, ChildOf(p, e))
    BY <1>3, <1>4, StartsTrans
  <1>6. CASE x = p
    <2>1. Key(x) = At(tree, p)
      BY <1>1, <1>6, TerminalIs
    <2>2. Ord!Less(At(tree, p), ChildOf(p, e))
      BY <1>1, <1>4, PrefixLess
    <2> QED
      BY <1>1, <1>4, <1>5, <2>1, <2>2, LessBelow
  <1>7. CASE x # p
    <2>1. PICK f \in tree[p].edges : Taken(p, f) < fr.cur /\ StartsWith(x, ChildOf(p, f))
      BY <1>7 DEF Passed
    <2>2. Ord!Less(f, e)
      BY <1>1, <1>3, <2>1, TakenOrder
    <2>3. /\ e \in Path /\ f \in Path /\ ChildOf(p, f) \in Path
          /\ Len(ChildOf(p, e)) = Len(ChildOf(p, f))
      <3>1. e \in Path /\ f \in Path /\ Len(e) = Len(f)
        BY <1>1, RouterHas
      <3>2. /\ Len(ChildOf(p, e)) = Len(At(tree, p)) + Len(e)
            /\ Len(ChildOf(p, f)) = Len(At(tree, p)) + Len(f)
            /\ ChildOf(p, f) \in Path
        BY <1>1, EdgeIs
      <3> QED
        BY <3>1, <3>2
    <2>4. Ord!Less(ChildOf(p, f), ChildOf(p, e))
      BY <1>1, <2>2, <2>3, ConcatLess DEF ChildOf
    <2>5. StartsWith(Key(x), ChildOf(p, f))
      BY <1>2, <2>1, <2>3, StartsTrans
    <2> QED
      BY <1>2, <1>4, <1>5, <2>3, <2>4, <2>5, SidesLess
  <1> QED
    BY <1>6, <1>7

\* A terminal below the node of a frame that aims elsewhere.
LEMMA FrameSides ==
  ASSUME Trunk, NEW fr, Inner(fr), NEW q \in Path, Aims(fr, q), NEW x \in TSet,
         StartsWith(x, fr.node)
  PROVE  \/ Pends(fr, x) \/ Passed(fr, x)
         \/ \E c \in KidsOf(fr.node, tree[fr.node]) : StartsWith(q, c) /\ StartsWith(x, c)
  <1> DEFINE p == fr.node
  <1>1. p \in DOMAIN tree /\ (IsPn(tree, p) \/ IsRouter(tree, p))
        /\ ~(IsPn(tree, p) /\ IsRouter(tree, p)) /\ ~IsLeaf(tree, p)
    BY InnerIs DEF Inner
  <1>2. x \in DOMAIN tree /\ (IsLeaf(tree, x) \/ IsRouter(tree, x))
    BY TerminalIs
  <1>3. CASE IsPn(tree, p)
    <2>1. x # p
      BY <1>1, <1>2, <1>3
    <2>2. StartsWith(x, At(tree, p)) /\ StartsWith(q, At(tree, p))
      BY <1>1, <1>2, <1>3, <2>1, BelowNode DEF Aims
    <2>3. KidsOf(p, tree[p]) = {At(tree, p)}
      BY <1>1, <1>3, NodeIs
    <2> QED
      BY <2>2, <2>3
  <1>4. CASE IsRouter(tree, p)
    <2>1. PICK e \in tree[p].edges : fr.cur = Taken(p, e) /\ StartsWith(q, ChildOf(p, e))
      BY <1>4 DEF Aims
    <2>2. Taken(p, e) \in Nat \ {0} /\ ChildOf(p, e) \in KidsOf(p, tree[p])
      BY <1>1, <1>4, TakenIs, EdgeIs
    <2>3. CASE x = p
      <3>1. fr.cur >= 1
        BY <2>1, <2>2
      <3> QED
        BY <1>4, <2>3, <3>1 DEF Passed
    <2>4. CASE x # p
      <3>1. PICK f \in tree[p].edges : StartsWith(x, ChildOf(p, f))
        BY <1>1, <1>2, <1>4, <2>4, BelowNode
      <3>2. CASE f = e
        BY <2>1, <2>2, <3>1, <3>2
      <3>3. CASE f # e
        <4>1. Taken(p, f) < Taken(p, e) \/ Taken(p, e) < Taken(p, f)
          BY <1>1, <1>4, <3>3, TakenOrder
        <4>2. CASE Taken(p, f) < Taken(p, e)
          BY <1>4, <2>1, <3>1, <4>2 DEF Passed
        <4>3. CASE Taken(p, e) < Taken(p, f)
          <5>1. Taken(p, f) > fr.cur
            <6>1. Taken(p, e) \in Nat /\ Taken(p, f) \in Nat
              BY <1>1, <1>4, TakenIs
            <6> QED
              BY <2>1, <4>3, <6>1
          <5> QED
            BY <1>4, <3>1, <5>1 DEF Pends
        <4> QED
          BY <4>1, <4>2, <4>3
      <3> QED
        BY <3>2, <3>3
    <2> QED
      BY <2>3, <2>4
  <1> QED
    BY <1>1, <1>3, <1>4

\* Every terminal that is not below q is ahead of or behind the way to q.
LEMMA Sides ==
  ASSUME Trunk, NEW s, NEW m \in Nat, m <= Len(s), Len(s) \in Nat, Stack(s), NEW q \in DOMAIN tree, Trail(s, m, q),
         NEW x \in TSet, ~StartsWith(x, q)
  PROVE  \E i \in 1 .. m : Pends(s[i], x) \/ Passed(s[i], x)
  <1> DEFINE I == {i \in 1 .. m : StartsWith(x, s[i].node)}
  <1>1. x \in DOMAIN tree /\ x \in Path /\ q \in Path
    BY TerminalIs, KindIs
  <1>2. I # {}
    <2>1. <<>> \in DOMAIN tree /\ StartsWith(q, <<>>) /\ StartsWith(x, <<>>)
      BY <1>1, RootIsThere, StartsWithEmpty
    <2>2. q # <<>>
      BY <2>1
    <2>3. PICK i \in 1 .. m : s[i].node = <<>>
      BY <2>1, <2>2 DEF Trail
    <2>4. i \in I
      BY <2>1, <2>3
    <2> QED
      BY <2>4
  <1>3. PICK i \in I : \A k \in I : k <= i
    <2>1. I \subseteq Nat /\ \A k \in I : k <= m
      OBVIOUS
    <2> HIDE DEF I
    <2> QED
      BY <1>2, <2>1, Largest
  <1>4. i \in 1 .. m /\ i \in 1 .. Len(s) /\ StartsWith(x, s[i].node)
    OBVIOUS
  <1>5. Inner(s[i]) /\ Aims(s[i], q)
    BY <1>4 DEF Stack, Trail
  <1>6. ASSUME NEW c \in KidsOf(s[i].node, tree[s[i].node]), StartsWith(q, c), StartsWith(x, c)
        PROVE  FALSE
    <2>1. c \in DOMAIN tree /\ c \in Path
      BY <1>5, <1>6, KindIs DEF Inner, Trunk
    <2>2. c # q
      BY <1>6
    <2>3. PICK k \in 1 .. m : s[k].node = c
      BY <1>6, <2>1, <2>2 DEF Trail
    <2>4. k \in I /\ k \in 1 .. Len(s)
      BY <1>6, <2>3
    <2>5. k <= i
      BY <1>3, <2>4
    <2>6. Len(s[i].node) < Len(c)
      <3>1. DOMAIN Kids(tree) = DOMAIN tree /\ Kids(tree)[s[i].node] = KidsOf(s[i].node, tree[s[i].node])
        BY <1>5, KidsIs DEF Inner
      <3> QED
        BY <1>5, <1>6, <3>1, KidFacts DEF Trunk, Good, Inner
    <2>7. Len(s[i].node) \in Nat /\ Len(c) \in Nat
      BY <1>5, <2>1, InnerIs, PathFacts
    <2>8. CASE k = i
      BY <2>3, <2>6, <2>7, <2>8
    <2>9. CASE k < i
      <3>1. Len(s[k].node) < Len(s[i].node)
        BY <1>4, <2>4, <2>9, Deepens
      <3> QED
        BY <2>3, <2>6, <2>7, <3>1
    <2> QED
      BY <2>5, <2>8, <2>9
  <1>7. Pends(s[i], x) \/ Passed(s[i], x)
    BY <1>1, <1>4, <1>5, <1>6, FrameSides
  <1> QED
    BY <1>4, <1>7

-----------------------------------------------------------------------------
(* What the operations do to an iterator.                                  *)

Iter == [live : BOOLEAN, end : BOOLEAN, stk : Seq(Frames), at : Path \cup {NoSlot},
         key : Path, maintain : BOOLEAN]

Persists(x, y) == y.live = x.live /\ y.end = x.end /\ y.maintain = x.maintain

LEMMA IterIs ==
  ASSUME NEW x \in Iter
  PROVE  /\ Len(x.stk) \in Nat /\ DOMAIN x.stk = 1 .. Len(x.stk)
         /\ x.stk # <<>> => Len(x.stk) \in 1 .. Len(x.stk) /\ Len(x.stk) - 1 \in Nat
         /\ x.stk = <<>> => Len(x.stk) = 0
         /\ \A i \in 1 .. Len(x.stk) :
              /\ x.stk[i] \in Frames /\ x.stk[i].node \in Path /\ x.stk[i].cur \in Int
              /\ x.stk[i].plen \in Nat /\ x.stk[i].cbase \in Nat
         /\ x.key \in Path /\ x.maintain \in BOOLEAN
         /\ Persists(x, x)
  <1>1. x.stk \in Seq(Frames) /\ x.key \in Path /\ x.maintain \in BOOLEAN
    BY DEF Iter
  <1>2. \A i \in 1 .. Len(x.stk) : x.stk[i] \in Frames
    BY <1>1
  <1>3. \A fr \in Frames : fr.node \in Path /\ fr.cur \in Int /\ fr.plen \in Nat /\ fr.cbase \in Nat
    BY DEF Frames
  <1>4. \A i \in 1 .. Len(x.stk) :
          /\ x.stk[i].node \in Path /\ x.stk[i].cur \in Int
          /\ x.stk[i].plen \in Nat /\ x.stk[i].cbase \in Nat
    BY <1>2, <1>3
  <1>5. Len(x.stk) \in Nat /\ DOMAIN x.stk = 1 .. Len(x.stk)
    BY <1>1
  <1>6. /\ x.stk # <<>> => Len(x.stk) \in 1 .. Len(x.stk) /\ Len(x.stk) - 1 \in Nat
        /\ x.stk = <<>> => Len(x.stk) = 0
    BY <1>1
  <1>7. Persists(x, x)
    BY DEF Persists
  <1> QED
    BY <1>1, <1>2, <1>4, <1>5, <1>6, <1>7

LEMMA CutIs ==
  ASSUME NEW k \in Path, NEW q \in Path, StartsWith(k, q)
  PROVE  Cut(k, Len(q)) = q
  <1>1. /\ Len(q) \in Nat /\ Len(k) \in Nat /\ Len(q) <= Len(k)
        /\ \A i \in 1 .. Len(q) : k[i] = q[i]
    BY PathFacts, StartsWithIff
  <1>2. \A i \in 1 .. Len(q) : i <= Len(k)
    BY <1>1
  <1>3. Cut(k, Len(q)) = [i \in 1 .. Len(q) |-> q[i]]
    BY <1>1, <1>2 DEF Cut
  <1>4. q = [i \in 1 .. Len(q) |-> q[i]]
    BY DEF Path
  <1> QED
    BY <1>3, <1>4

\* The cursor of the last frame is set.
LEMMA SetTopIs ==
  ASSUME NEW x \in Iter, x.stk # <<>>, NEW c \in Int
  PROVE  LET y == SetTop(x, c)
             m == Len(x.stk)
         IN  /\ y \in Iter /\ Persists(x, y) /\ y.key = x.key /\ y.at = x.at
             /\ Len(y.stk) = m /\ y.stk # <<>>
             /\ \A i \in 1 .. m - 1 : y.stk[i] = x.stk[i]
             /\ y.stk[m].node = x.stk[m].node /\ y.stk[m].cur = c
             /\ y.stk[m].plen = x.stk[m].plen /\ y.stk[m].cbase = x.stk[m].cbase
  <1> DEFINE y == SetTop(x, c)
             m == Len(x.stk)
             fr == [x.stk[m] EXCEPT !.cur = c]
  <1>1. m \in Nat /\ m \in 1 .. m /\ x.stk[m] \in Frames /\ x.stk \in Seq(Frames)
    BY IterIs DEF Iter
  <1>2. /\ fr \in Frames /\ fr.node = x.stk[m].node /\ fr.cur = c
        /\ fr.plen = x.stk[m].plen /\ fr.cbase = x.stk[m].cbase
    BY <1>1 DEF Frames
  <1>3. y = [x EXCEPT !.stk = [x.stk EXCEPT ![m] = fr]]
    BY DEF SetTop
  <1> HIDE DEF fr
  <1>4. /\ [x.stk EXCEPT ![m] = fr] \in Seq(Frames)
        /\ Len([x.stk EXCEPT ![m] = fr]) = m
        /\ [x.stk EXCEPT ![m] = fr][m] = fr
        /\ \A i \in 1 .. m - 1 : [x.stk EXCEPT ![m] = fr][i] = x.stk[i]
    BY <1>1, <1>2
  <1>5. y.stk = [x.stk EXCEPT ![m] = fr] /\ y.key = x.key /\ y.at = x.at /\ Persists(x, y)
    BY <1>3 DEF Iter, Persists
  <1>6. y \in Iter
    BY <1>3, <1>4 DEF Iter
  <1>7. y.stk # <<>>
    BY <1>1, <1>4, <1>5
  <1> HIDE DEF y
  <1>8. y.stk[m] = fr /\ \A i \in 1 .. m - 1 : y.stk[i] = x.stk[i]
    BY <1>4, <1>5
  <1> QED
    BY <1>2, <1>4, <1>5, <1>6, <1>7, <1>8 DEF y

\* The key lengths of the frames are right.
Lens(s) ==
  \A i \in 1 .. Len(s) : s[i].plen = Len(s[i].node) /\ s[i].cbase = Len(At(tree, s[i].node))

\* The buffer holds the key down to q, if it is maintained.
Kept(x, q) ==
  /\ x.maintain => Lens(x.stk) /\ StartsWith(x.key, q)
  /\ ~x.maintain => x.key = <<>>

LEMMA AppendIs ==
  ASSUME NEW s \in Seq(Frames), NEW fr \in Frames
  PROVE  LET t == Append(s, fr)
         IN  /\ t \in Seq(Frames) /\ Len(t) = Len(s) + 1 /\ t # <<>> /\ Len(s) \in Nat
             /\ \A i \in 1 .. Len(s) : t[i] = s[i]
             /\ t[Len(s) + 1] = fr
  OBVIOUS

\* A frame is pushed for the node the way leads to.
LEMMA EnterIs ==
  ASSUME Trunk, NEW x \in Iter, NEW p \in DOMAIN tree, ~IsLeaf(tree, p), NEW cur \in Int, NEW base,
         Stack(x.stk), Trail(x.stk, Len(x.stk), p), Kept(x, p), x.maintain => base = Len(p)
  PROVE  LET y == Enter(x, p, cur, base)
             m == Len(x.stk)
         IN  /\ y \in Iter /\ Persists(x, y) /\ Len(y.stk) = m + 1 /\ y.stk # <<>>
             /\ \A i \in 1 .. m : y.stk[i] = x.stk[i]
             /\ y.stk[m + 1].node = p /\ y.stk[m + 1].cur = cur
             /\ Stack(y.stk) /\ Kept(y, At(tree, p))
             /\ x.maintain => y.stk[m + 1].cbase = Len(At(tree, p))
  <1> DEFINE y == Enter(x, p, cur, base)
             m == Len(x.stk)
             k == Cut(x.key, base) \o tree[p].pfx
             fr == IF x.maintain THEN Frame(p, cur, base, Len(k)) ELSE Frame(p, cur, 0, 0)
             s == Append(x.stk, fr)
  <1>1. /\ m \in Nat /\ x.stk \in Seq(Frames) /\ x.key \in Path /\ x.maintain \in BOOLEAN
        /\ p \in Path /\ At(tree, p) \in Path
    BY IterIs, NodeIs DEF Iter
  <1>2. x.maintain => k = At(tree, p) /\ base \in Nat /\ Len(k) \in Nat /\ k \in Path
    BY <1>1, CutIs, PathFacts DEF Kept, At
  <1> HIDE DEF k
  <1>3. fr \in Frames /\ fr.node = p /\ fr.cur = cur
    BY <1>1, <1>2 DEF Frames, Frame
  <1>4. x.maintain => fr.plen = Len(p) /\ fr.cbase = Len(At(tree, p))
    BY <1>2 DEF Frame
  <1>5. /\ y.stk = s /\ Persists(x, y) /\ y.key = IF x.maintain THEN k ELSE x.key
        /\ y = [x EXCEPT !.stk = s, !.key = IF x.maintain THEN k ELSE x.key]
    BY <1>1 DEF Iter, Persists, Enter, k
  <1> HIDE DEF fr, y
  <1>6. /\ s \in Seq(Frames) /\ Len(s) = m + 1 /\ s # <<>>
        /\ \A i \in 1 .. m : s[i] = x.stk[i]
        /\ s[m + 1] = fr
    BY <1>1, <1>3, AppendIs
  <1> HIDE DEF s
  <1>7. y \in Iter
    BY <1>1, <1>2, <1>5, <1>6 DEF Iter
  <1>8. Stack(s)
    <2>1. Like(x.stk, s, m) /\ Inner(s[m + 1]) /\ Trail(x.stk, m, s[m + 1].node)
      BY <1>3, <1>6 DEF Like, Inner
    <2> QED
      BY <1>1, <1>6, <2>1, StackTop
  <1>9. Kept(y, At(tree, p))
    <2>1. ASSUME x.maintain
          PROVE  Lens(s) /\ StartsWith(k, At(tree, p))
      <3>1. \A i \in 1 .. m + 1 : i \in 1 .. m \/ i = m + 1
        BY <1>1
      <3>2. \A i \in 1 .. m : s[i].plen = Len(s[i].node) /\ s[i].cbase = Len(At(tree, s[i].node))
        BY <1>6, <2>1 DEF Kept, Lens
      <3>3. Lens(s)
        BY <1>3, <1>4, <1>6, <2>1, <3>1, <3>2 DEF Lens
      <3> QED
        BY <1>1, <1>2, <2>1, <3>3, StartsRefl
    <2> QED
      BY <1>5, <2>1 DEF Kept, Persists
  <1> QED
    BY <1>3, <1>4, <1>5, <1>6, <1>7, <1>8, <1>9 DEF y

LEMMA PushIs ==
  ASSUME NEW x \in Iter, ~x.maintain, NEW p, NEW cur
  PROVE  Push(x, p, cur) = Enter(x, p, cur, 0)
  BY DEF Push, Enter

\* The last frame is popped.
LEMMA PopTopIs ==
  ASSUME Trunk, NEW x \in Iter, x.stk # <<>>, Stack(x.stk), Kept(x, At(tree, Top(x).node))
  PROVE  LET y == PopTop(x)
             m == Len(x.stk) - 1
         IN  /\ y \in Iter /\ Persists(x, y) /\ Len(y.stk) = m
             /\ \A i \in 1 .. m : y.stk[i] = x.stk[i]
             /\ Stack(y.stk) /\ Kept(y, Top(x).node)
  <1> DEFINE y == PopTop(x)
             m == Len(x.stk) - 1
             s == Front(x.stk, m)
             p == Top(x).node
             k == IF x.maintain THEN Cut(x.key, Top(x).plen) ELSE x.key
  <1>1. /\ m \in Nat /\ Len(x.stk) \in Nat /\ x.stk \in Seq(Frames) /\ x.key \in Path
        /\ x.maintain \in BOOLEAN /\ m + 1 = Len(x.stk) /\ m + 1 \in 1 .. Len(x.stk)
    BY IterIs DEF Iter
  <1>2. /\ s \in Seq(Frames) /\ Len(s) = m
        /\ \A i \in 1 .. m : s[i] = x.stk[i]
    BY <1>1 DEF Front
  <1>3. p \in DOMAIN tree /\ p \in Path /\ At(tree, p) \in Path /\ StartsWith(At(tree, p), p)
    BY <1>1, InnerIs DEF Stack, Top
  <1>4. k \in Path /\ (x.maintain => k = p) /\ (~x.maintain => k = <<>>)
    <2>1. ASSUME x.maintain
          PROVE  k = p
      <3>1. Top(x).plen = Len(p) /\ StartsWith(x.key, At(tree, p))
        BY <1>1, <2>1 DEF Kept, Lens, Top
      <3>2. StartsWith(x.key, p)
        BY <1>1, <1>3, <3>1, StartsTrans
      <3> QED
        BY <1>1, <1>3, <2>1, <3>1, <3>2, CutIs
    <2> QED
      BY <1>1, <1>3, <2>1 DEF Kept
  <1>5. y.stk = s /\ y.key = k /\ Persists(x, y) /\ y = [x EXCEPT !.stk = s, !.key = k]
    BY <1>1 DEF Iter, Persists, PopTop
  <1> HIDE DEF s, k, y
  <1>6. y \in Iter
    BY <1>1, <1>2, <1>4, <1>5 DEF Iter
  <1>7. Stack(s)
    <2>1. Len(s) \in Nat /\ Len(s) <= Len(x.stk)
      BY <1>1, <1>2
    <2>2. Like(x.stk, s, Len(s))
      BY <1>2 DEF Like
    <2> QED
      BY <1>1, <2>1, <2>2, StackLike
  <1>8. Kept(y, p)
    <2>1. ASSUME x.maintain
          PROVE  Lens(s)
      <3>1. Lens(x.stk)
        BY <2>1 DEF Kept
      <3>2. \A i \in 1 .. m : i \in 1 .. Len(x.stk)
        BY <1>1
      <3> QED
        BY <1>2, <3>1, <3>2 DEF Lens
    <2> QED
      BY <1>3, <1>4, <1>5, <2>1, StartsRefl DEF Kept, Persists
  <1> QED
    BY <1>2, <1>5, <1>6, <1>7, <1>8 DEF y

LEMMA SetTopKeeps ==
  ASSUME NEW x \in Iter, x.stk # <<>>, NEW c \in Int, Stack(x.stk)
  PROVE  Stack(SetTop(x, c).stk) /\ (Lens(x.stk) => Lens(SetTop(x, c).stk))
  <1> DEFINE m == Len(x.stk) - 1
             t == SetTop(x, c).stk
  <1>1. /\ m \in Nat /\ Len(x.stk) \in Nat /\ m + 1 = Len(x.stk) /\ m + 1 \in 1 .. Len(x.stk)
        /\ m <= Len(x.stk)
    BY IterIs
  <1>2. /\ Len(t) = m + 1
        /\ \A i \in 1 .. m : t[i] = x.stk[i]
        /\ t[m + 1].node = x.stk[m + 1].node
        /\ t[m + 1].plen = x.stk[m + 1].plen /\ t[m + 1].cbase = x.stk[m + 1].cbase
    BY <1>1, SetTopIs
  <1> HIDE DEF t
  <1>3. Stack(t)
    <2>1. Like(x.stk, t, m) /\ Inner(t[m + 1])
      BY <1>1, <1>2 DEF Like, Inner, Stack
    <2>2. Trail(x.stk, m, t[m + 1].node)
      <3>1. (m + 1) - 1 = m
        BY <1>1
      <3> QED
        BY <1>1, <1>2, <3>1 DEF Stack
    <2> HIDE DEF m
    <2> QED
      BY <1>1, <1>2, <2>1, <2>2, StackTop
  <1>4. ASSUME Lens(x.stk)
        PROVE  Lens(t)
    <2>1. \A i \in 1 .. m + 1 : i \in 1 .. m \/ i = m + 1
      BY <1>1
    <2>2. \A i \in 1 .. m : i \in 1 .. Len(x.stk)
      BY <1>1
    <2>3. t[m + 1].plen = Len(t[m + 1].node) /\ t[m + 1].cbase = Len(At(tree, t[m + 1].node))
      BY <1>1, <1>2, <1>4 DEF Lens
    <2>4. \A i \in 1 .. m : t[i].plen = Len(t[i].node) /\ t[i].cbase = Len(At(tree, t[i].node))
      BY <1>2, <1>4, <2>2 DEF Lens
    <2> QED
      BY <1>2, <2>1, <2>3, <2>4 DEF Lens
  <1> QED
    BY <1>3, <1>4 DEF t

\* An edge is taken out of the router on top.
LEMMA TakeIs ==
  ASSUME Trunk, NEW x \in Iter, x.stk # <<>>, Stack(x.stk), IsRouter(tree, Top(x).node),
         NEW e \in tree[Top(x).node].edges, Kept(x, At(tree, Top(x).node))
  PROVE  LET y == Take(x, e)
             m == Len(x.stk)
             p == Top(x).node
         IN  /\ y \in Iter /\ Persists(x, y) /\ Len(y.stk) = m
             /\ \A i \in 1 .. m - 1 : y.stk[i] = x.stk[i]
             /\ y.stk[m].node = p /\ y.stk[m].cur = Taken(p, e)
             /\ Stack(y.stk) /\ Trail(y.stk, m, ChildOf(p, e)) /\ ChildOf(p, e) \in DOMAIN tree
             /\ Kept(y, ChildOf(p, e)) /\ (x.maintain => Len(y.key) = Len(ChildOf(p, e)))
  <1> DEFINE y == Take(x, e)
             m == Len(x.stk)
             p == Top(x).node
             c == ChildOf(p, e)
             z == SetTop(x, Taken(p, e))
             k == IF x.maintain THEN Cut(x.key, Top(x).cbase) \o e ELSE x.key
  <1>1. /\ m \in Nat /\ m \in 1 .. m /\ m - 1 \in Nat /\ x.key \in Path /\ x.maintain \in BOOLEAN
        /\ Top(x) = x.stk[m] /\ Inner(x.stk[m]) /\ p \in DOMAIN tree
    BY IterIs DEF Stack, Inner, Top
  <1>2. /\ Taken(p, e) \in Int /\ c \in DOMAIN tree /\ c \in Path /\ c \in KidsOf(p, tree[p])
        /\ c = At(tree, p) \o e /\ At(tree, p) \in Path /\ ~IsLeaf(tree, p) /\ ~IsPn(tree, p)
    BY <1>1, TakenIs, EdgeIs, RouterHas, NodeIs DEF ChildOf
  <1> HIDE DEF c
  <1>3. /\ z \in Iter /\ Persists(x, z) /\ z.key = x.key /\ Len(z.stk) = m
        /\ \A i \in 1 .. m - 1 : z.stk[i] = x.stk[i]
        /\ z.stk[m].node = p /\ z.stk[m].cur = Taken(p, e)
        /\ Stack(z.stk) /\ (Lens(x.stk) => Lens(z.stk))
    <2> DEFINE v == Taken(p, e)
    <2> HIDE DEF v
    <2>1. v \in Int
      BY <1>2 DEF v
    <2>2. Stack(SetTop(x, v).stk) /\ (Lens(x.stk) => Lens(SetTop(x, v).stk))
      BY <2>1, SetTopKeeps
    <2>3. /\ SetTop(x, v) \in Iter /\ Persists(x, SetTop(x, v))
          /\ SetTop(x, v).key = x.key /\ Len(SetTop(x, v).stk) = m
          /\ \A i \in 1 .. m - 1 : SetTop(x, v).stk[i] = x.stk[i]
          /\ SetTop(x, v).stk[m].node = p /\ SetTop(x, v).stk[m].cur = v
      BY <1>1, <2>1, SetTopIs
    <2> QED
      BY <2>2, <2>3 DEF v, z
  <1> HIDE DEF z
  <1>4. k \in Path /\ (x.maintain => k = c) /\ (~x.maintain => k = <<>>)
    <2>1. ASSUME x.maintain
          PROVE  k = c
      <3>1. Top(x).cbase = Len(At(tree, p)) /\ StartsWith(x.key, At(tree, p))
        BY <1>1, <2>1 DEF Kept, Lens
      <3> QED
        BY <1>1, <1>2, <2>1, <3>1, CutIs
    <2> QED
      BY <1>1, <1>2, <2>1 DEF Kept
  <1>5. y = [z EXCEPT !.key = k]
    BY <1>1, <1>3 DEF Take, z
  <1> HIDE DEF k, y
  <1>6. y \in Iter /\ y.stk = z.stk /\ y.key = k /\ Persists(x, y)
    BY <1>3, <1>4, <1>5 DEF Iter, Persists
  <1>7. Trail(z.stk, m, c)
    <2>1. Aims(z.stk[m], c)
      <3>1. StartsWith(c, c)
        BY <1>2, StartsRefl
      <3> QED
        BY <1>2, <1>3, <3>1 DEF Aims, c
    <2>2. Trail(z.stk, m - 1, p) /\ \A i \in 1 .. m - 1 : Inner(z.stk[i])
      BY <1>1, <1>3 DEF Stack
    <2>3. (m - 1) + 1 = m
      BY <1>1
    <2> QED
      BY <1>1, <1>2, <1>3, <2>1, <2>2, <2>3, TrailOn
  <1>8. Kept(y, c)
    BY <1>2, <1>3, <1>4, <1>6, StartsRefl DEF Kept, Persists
  <1> QED
    BY <1>2, <1>3, <1>4, <1>6, <1>7, <1>8 DEF y, c

\* The buffer of an iterator that stands.
KeyRest(x) ==
  /\ x.maintain => Lens(x.stk) /\ x.key = IF Full(x.at) THEN x.at ELSE Key(x.at)
  /\ ~x.maintain => x.key = <<>>

LEMMA EmitIs ==
  ASSUME Trunk, NEW x \in Iter, NEW p \in DOMAIN tree, IsLeaf(tree, p), Kept(x, p), NEW base,
         x.maintain => base = Len(p)
  PROVE  LET y == Emit(x, p, base)
         IN  y \in Iter /\ Persists(x, y) /\ y.stk = x.stk /\ y.at = p /\ KeyRest(y)
  <1> DEFINE y == Emit(x, p, base)
             k == IF x.maintain THEN Cut(x.key, base) \o (IF Full(p) THEN <<>> ELSE Sfx(p)) ELSE x.key
  <1>1. x.key \in Path /\ x.maintain \in BOOLEAN /\ p \in Path
    BY IterIs, KindIs
  <1>2. tree[p].suf \in Path /\ Sfx(p) = tree[p].suf /\ Key(p) = p \o tree[p].suf /\ <<>> \in Path
    BY KindIs, NodeFields, EmptyPath DEF Sfx, Key, KeyAt, IsLeaf
  <1>3. x.maintain => k = IF Full(p) THEN p ELSE Key(p)
    BY <1>1, <1>2, CutIs, ConcatEmpty DEF Kept
  <1>4. k \in Path /\ (~x.maintain => k = <<>>)
    BY <1>1, <1>2, <1>3, ConcatFacts DEF Kept
  <1>5. y = [x EXCEPT !.at = p, !.key = k]
    BY <1>1 DEF Emit
  <1> HIDE DEF k, y
  <1>6. y \in Iter /\ y.stk = x.stk /\ y.key = k /\ y.at = p /\ Persists(x, y)
    BY <1>1, <1>4, <1>5 DEF Iter, Persists
  <1>7. KeyRest(y)
    BY <1>3, <1>4, <1>6 DEF Kept, KeyRest, Persists
  <1> QED
    BY <1>6, <1>7 DEF y

LEMMA EmitTermIs ==
  ASSUME Trunk, NEW x \in Iter, x.stk # <<>>, Stack(x.stk), IsRouter(tree, Top(x).node),
         Kept(x, At(tree, Top(x).node))
  PROVE  LET y == EmitTerm(x)
             m == Len(x.stk)
             p == Top(x).node
         IN  /\ y \in Iter /\ Persists(x, y) /\ y.at = p /\ Len(y.stk) = m
             /\ \A i \in 1 .. m - 1 : y.stk[i] = x.stk[i]
             /\ y.stk[m].node = p /\ y.stk[m].cur = 0
             /\ Stack(y.stk) /\ KeyRest(y)
  <1> DEFINE y == EmitTerm(x)
             m == Len(x.stk)
             p == Top(x).node
             z == SetTop(x, 0)
             k == IF x.maintain THEN Cut(x.key, Top(x).cbase) ELSE x.key
  <1>1. /\ m \in Nat /\ m \in 1 .. m /\ m - 1 \in Nat /\ x.key \in Path /\ x.maintain \in BOOLEAN
        /\ Top(x) = x.stk[m] /\ Inner(x.stk[m]) /\ p \in DOMAIN tree
    BY IterIs DEF Stack, Inner, Top
  <1>2. /\ At(tree, p) \in Path /\ ~IsLeaf(tree, p) /\ p \in Path
        /\ Key(p) = At(tree, p) /\ ~Full(p) /\ 0 \in Int
    BY <1>1, RouterHas, NodeIs DEF Key, KeyAt, Full
  <1>3. /\ z \in Iter /\ Persists(x, z) /\ z.key = x.key /\ Len(z.stk) = m
        /\ \A i \in 1 .. m - 1 : z.stk[i] = x.stk[i]
        /\ z.stk[m].node = p /\ z.stk[m].cur = 0
        /\ Stack(z.stk) /\ (Lens(x.stk) => Lens(z.stk))
    BY <1>1, <1>2, SetTopIs, SetTopKeeps
  <1> HIDE DEF z
  <1>4. k \in Path /\ (x.maintain => k = Key(p)) /\ (~x.maintain => k = <<>>)
    <2>1. ASSUME x.maintain
          PROVE  k = At(tree, p)
      <3>1. Top(x).cbase = Len(At(tree, p)) /\ StartsWith(x.key, At(tree, p))
        BY <1>1, <2>1 DEF Kept, Lens
      <3> QED
        BY <1>1, <1>2, <2>1, <3>1, CutIs
    <2> QED
      BY <1>1, <1>2, <2>1 DEF Kept
  <1>5. y = [z EXCEPT !.at = p, !.key = k]
    BY <1>1, <1>3 DEF EmitTerm, z
  <1> HIDE DEF k, y
  <1>6. y \in Iter /\ y.stk = z.stk /\ y.key = k /\ y.at = p /\ Persists(x, y)
    BY <1>2, <1>3, <1>4, <1>5 DEF Iter, Persists
  <1>7. KeyRest(y)
    BY <1>2, <1>3, <1>4, <1>6 DEF Kept, KeyRest, Persists
  <1> QED
    BY <1>3, <1>6, <1>7 DEF y

-----------------------------------------------------------------------------
(* What an operation looks for, and what it answers.                       *)

Bounds == {"lower", "upper", "find", "erase"}
Fore   == Bounds \cup {"begin", "next"}

AskOK(a) ==
  /\ a.op \in Bounds => a.key \in Path
  /\ a.op \in {"next", "prev"} => a.key \in Path \cup {Past}

\* The terminals on operation a's side of where it starts.
Wanted(a, z) ==
  /\ a.op \in {"lower", "find", "erase"} => ~Ord!Less(Key(z), a.key)
  /\ a.op = "upper" => Ord!Less(a.key, Key(z))
  /\ a.op = "next" => a.key # Past /\ Ord!Less(a.key, Key(z))
  /\ a.op = "prev" => a.key = Past \/ Ord!Less(Key(z), a.key)

FirstWanted(a, z) ==
  z \in TSet /\ Wanted(a, z) /\ \A y \in TSet : Wanted(a, y) /\ y # z => Ord!Less(Key(z), Key(y))
LastWanted(a, z) ==
  z \in TSet /\ Wanted(a, z) /\ \A y \in TSet : Wanted(a, y) /\ y # z => Ord!Less(Key(y), Key(z))
NoneWanted(a) == \A y \in TSet : ~Wanted(a, y)

LEMMA PastIs == Past \notin Path /\ Ord!Past \notin Path
  BY MaxByteAssumption DEF Past, Ord!Past, Path, Byte

LEMMA StoredIs ==
  ASSUME Trunk
  PROVE  /\ \A b : b \in Stored <=> \E y \in TSet : b = Key(y)
         /\ Stored \subseteq Path
  BY TerminalIs DEF Stored, TSet, Key

LEMMA WantedFirst ==
  ASSUME Trunk, NEW a, NEW z, FirstWanted(a, z), NEW S,
         \A b : b \in S <=> \E y \in TSet : b = Key(y) /\ Wanted(a, y)
  PROVE  Ord!FirstOf(S) = Key(z)
  <1>1. S \subseteq Path /\ Key(z) \in S
    BY TerminalIs DEF FirstWanted
  <1>2. \A b \in S \ {Key(z)} : Ord!Less(Key(z), b)
    BY DEF FirstWanted
  <1> QED
    BY <1>1, <1>2, FirstIs

LEMMA WantedLast ==
  ASSUME Trunk, NEW a, NEW z, LastWanted(a, z), NEW S,
         \A b : b \in S <=> \E y \in TSet : b = Key(y) /\ Wanted(a, y)
  PROVE  Ord!LastOf(S) = Key(z)
  <1>1. S \subseteq Path /\ Key(z) \in S
    BY TerminalIs DEF LastWanted
  <1>2. \A b \in S \ {Key(z)} : Ord!Less(b, Key(z))
    BY DEF LastWanted
  <1> QED
    BY <1>1, <1>2, LastIs

\* The set whose first or last element an operation answers.
Candidates(a) ==
  IF a.op \in {"lower", "erase"} THEN Ord!From(Stored, a.key)
  ELSE IF a.op \in {"upper", "next"} THEN Ord!After(Stored, a.key)
  ELSE IF a.op = "prev" /\ a.key # Past THEN Ord!Below(Stored, a.key)
  ELSE Stored

LEMMA CandidatesAre ==
  ASSUME Trunk, NEW a, a.op \in (Fore \ {"find"}) \cup {"prev"}, a.op = "next" => a.key # Past
  PROVE  \A b : b \in Candidates(a) <=> \E y \in TSet : b = Key(y) /\ Wanted(a, y)
  <1> SUFFICES ASSUME NEW b
               PROVE  b \in Candidates(a) <=> \E y \in TSet : b = Key(y) /\ Wanted(a, y)
    OBVIOUS
  <1>1. b \in Stored <=> \E y \in TSet : b = Key(y)
    BY StoredIs
  <1>2. CASE a.op \in {"lower", "erase"}
    BY <1>1, <1>2 DEF Candidates, Wanted, Ord!From
  <1>3. CASE a.op \in {"upper", "next"}
    BY <1>1, <1>3 DEF Candidates, Wanted, Ord!After
  <1>4. CASE a.op = "prev"
    BY <1>1, <1>4 DEF Candidates, Wanted, Ord!Below
  <1>5. CASE a.op = "begin"
    BY <1>1, <1>5 DEF Candidates, Wanted
  <1> QED
    BY <1>2, <1>3, <1>4, <1>5 DEF Fore, Bounds

\* What is not stored may be left out of the candidates of a lower bound.
LEMMA FromIsAfter ==
  ASSUME Trunk, NEW k \in Path, k \notin Stored
  PROVE  Ord!From(Stored, k) = Ord!After(Stored, k)
  <1>1. ASSUME NEW b \in Stored
        PROVE  ~Ord!Less(b, k) <=> Ord!Less(k, b)
    <2>1. b \in Path /\ b # k
      BY <1>1, StoredIs
    <2>2. Ord!Less(b, k) \/ Ord!Less(k, b)
      BY <2>1, LessTotal
    <2>3. ~(Ord!Less(b, k) /\ Ord!Less(k, b))
      BY <2>1, LessOneWay
    <2> QED
      BY <2>2, <2>3
  <1> QED
    BY <1>1 DEF Ord!From, Ord!After

LEMMA AnswerIs ==
  ASSUME Trunk, NEW a, AskOK(a), a.op \in (Fore \ {"find"}) \cup {"prev"},
         a.op = "next" => a.key # Past, a.op = "erase" => a.key \notin Stored
  PROVE  /\ a.op \in Fore => AnswerTo(a) = Ord!FirstOf(Candidates(a))
         /\ a.op = "prev" => AnswerTo(a) = Ord!LastOf(Candidates(a))
  <1>1. CASE a.op = "erase"
    <2>1. AnswerTo(a) = Ord!FirstOf(Ord!After(Stored, a.key))
      BY <1>1 DEF AnswerTo
    <2>2. Candidates(a) = Ord!After(Stored, a.key)
      BY <1>1, FromIsAfter DEF Candidates, AskOK, Bounds
    <2> QED
      BY <1>1, <2>1, <2>2
  <1>2. CASE a.op = "lower"
    BY <1>2 DEF AnswerTo, Candidates
  <1>3. CASE a.op = "upper"
    BY <1>3 DEF AnswerTo, Candidates
  <1>4. CASE a.op = "next"
    BY <1>4 DEF AnswerTo, Candidates
  <1>5. CASE a.op = "begin"
    BY <1>5 DEF AnswerTo, Candidates
  <1>6. CASE a.op = "prev"
    <2>1. CASE a.key = Past
      BY <1>6, <2>1 DEF AnswerTo, Candidates, Fore, Bounds
    <2>2. CASE a.key # Past
      BY <1>6, <2>2 DEF AnswerTo, Candidates, Fore, Bounds
    <2> QED
      BY <2>1, <2>2
  <1> QED
    BY <1>1, <1>2, <1>3, <1>4, <1>5, <1>6 DEF Fore, Bounds

LEMMA AnswerFirst ==
  ASSUME Trunk, NEW a, AskOK(a), a.op \in Fore \ {"find"}, a.op = "erase" => a.key \notin Stored,
         NEW z, FirstWanted(a, z)
  PROVE  AnswerTo(a) = Key(z)
  <1>1. a.op = "next" => a.key # Past
    BY DEF FirstWanted, Wanted
  <1>2. AnswerTo(a) = Ord!FirstOf(Candidates(a))
    BY <1>1, AnswerIs
  <1>3. \A b : b \in Candidates(a) <=> \E y \in TSet : b = Key(y) /\ Wanted(a, y)
    BY <1>1, CandidatesAre
  <1> QED
    BY <1>2, <1>3, WantedFirst

LEMMA AnswerLast ==
  ASSUME Trunk, NEW a, AskOK(a), a.op = "prev", NEW z, LastWanted(a, z)
  PROVE  AnswerTo(a) = Key(z)
  <1>1. AnswerTo(a) = Ord!LastOf(Candidates(a))
    BY AnswerIs
  <1>2. \A b : b \in Candidates(a) <=> \E y \in TSet : b = Key(y) /\ Wanted(a, y)
    BY CandidatesAre
  <1> QED
    BY <1>1, <1>2, WantedLast

LEMMA AnswerNone ==
  ASSUME Trunk, NEW a, AskOK(a), a.op \in (Fore \ {"find"}) \cup {"prev"},
         a.op = "erase" => a.key \notin Stored, NoneWanted(a)
  PROVE  AnswerTo(a) = Past
  <1>1. CASE a.op = "next" /\ a.key = Past
    BY <1>1 DEF AnswerTo
  <1>2. CASE ~(a.op = "next" /\ a.key = Past)
    <2>1. Candidates(a) = {}
      BY <1>2, CandidatesAre DEF NoneWanted
    <2>2. /\ a.op \in Fore => AnswerTo(a) = Ord!FirstOf(Candidates(a))
          /\ a.op = "prev" => AnswerTo(a) = Ord!LastOf(Candidates(a))
      BY <1>2, AnswerIs
    <2> QED
      BY <2>1, <2>2 DEF Ord!FirstOf, Ord!LastOf, Past, Fore, Bounds
  <1> QED
    BY <1>1, <1>2

\* find(k): the lower bound is k's, or k is not stored.
LEMMA FindIs ==
  ASSUME Trunk, NEW a, a.op = "find", AskOK(a)
  PROVE  /\ NoneWanted(a) => AnswerTo(a) = Past
         /\ \A z : FirstWanted(a, z) => AnswerTo(a) = IF Key(z) = a.key THEN a.key ELSE Past
  <1>1. AnswerTo(a) = (IF a.key \in Stored THEN a.key ELSE Past) /\ a.key \in Path
    BY DEF AnswerTo, AskOK, Bounds
  <1>2. \A y \in TSet : Key(y) \in Path /\ (Key(y) = a.key => Wanted(a, y))
    BY <1>1, TerminalIs, LessNever DEF Wanted
  <1>3. NoneWanted(a) => a.key \notin Stored
    BY <1>2, StoredIs DEF NoneWanted
  <1>4. ASSUME NEW z, FirstWanted(a, z), Key(z) # a.key
        PROVE  a.key \notin Stored
    <2> SUFFICES ASSUME NEW y \in TSet, a.key = Key(y)
                 PROVE  FALSE
      BY StoredIs
    <2>1. Ord!Less(Key(z), a.key) /\ z \in TSet
      BY <1>2, <1>4 DEF FirstWanted
    <2> QED
      BY <1>4, <2>1 DEF FirstWanted, Wanted
  <1>5. ASSUME NEW z, FirstWanted(a, z), Key(z) = a.key
        PROVE  a.key \in Stored
    BY <1>5, StoredIs DEF FirstWanted
  <1> QED
    BY <1>1, <1>3, <1>4, <1>5

-----------------------------------------------------------------------------
(* The loops and what holds in them.                                       *)

WayTo(x, q) == Stack(x.stk) /\ Trail(x.stk, Len(x.stk), q) /\ q \in DOMAIN tree

\* The iterator stands on a terminal.
Seated(x) ==
  /\ ~x.end /\ Stack(x.stk) /\ x.at \in TSet
  /\ IsLeaf(tree, x.at) => Trail(x.stk, Len(x.stk), x.at)
  /\ IsRouter(tree, x.at) => x.stk # <<>> /\ Top(x).node = x.at /\ Top(x).cur = 0

AtEnd(x) == x.end /\ x.stk = <<>> /\ (~x.maintain => x.key = <<>>)

Done(x, a) == ((Seated(x) /\ KeyRest(x)) \/ AtEnd(x)) /\ Place(x) = AnswerTo(a)

\* The key is not stored any more when erase looks for what followed it.
Erased(a) == a.op = "erase" => a.key \notin Stored /\ req.key = a.key

\* Where the frame on top stands; the key is maintained down to there.
AtTop(x) == IF x.stk = <<>> THEN <<>> ELSE At(tree, Top(x).node)

Seeking(x, a) ==
  /\ x.end => x.stk = <<>>
  /\ Stack(x.stk) /\ Kept(x, AtTop(x))
  /\ a.op \in Fore /\ Erased(a)
  /\ \A z \in TSet : Wanted(a, z) <=> Ahead(x.stk, z)

Retreating(x, a) ==
  /\ Stack(x.stk) /\ Kept(x, AtTop(x)) /\ ~x.end
  /\ a.op = "prev"
  /\ \A z \in TSet : Wanted(a, z) <=> Behind(x.stk, z)

\* Nothing above the slot q is wanted any more but what is ahead (behind).
Down(x, q, c) == ~x.end /\ WayTo(x, q) /\ Kept(x, q) /\ (x.maintain => c = Len(q))

MinAt(x, q, c, a) ==
  /\ Down(x, q, c) /\ a.op \in Fore /\ Erased(a)
  /\ \A z \in TSet : Wanted(a, z) <=> Ahead(x.stk, z) \/ Under(q, z)

MaxAt(x, q, c, a) ==
  /\ Down(x, q, c) /\ a.op = "prev"
  /\ \A z \in TSet : Wanted(a, z) <=> Behind(x.stk, z) \/ Under(q, z)

LbAt(x, q, a) ==
  /\ ~x.end /\ ~x.maintain /\ x.key = <<>> /\ WayTo(x, q)
  /\ a.op \in Bounds /\ Erased(a) /\ StartsWith(a.key, q)

Known(x) == Full(x.at) \/ x.maintain

\* The key bytes once the first m frames are replayed.
Upto(x, m) ==
  IF m < Len(x.stk) THEN x.stk[m + 1].node
  ELSE IF IsLeaf(tree, x.at) THEN x.at ELSE At(tree, x.at)

Replayed(x, m) ==
  /\ m \in 0 .. Len(x.stk) /\ ~Known(x)
  /\ \A i \in 1 .. m : x.stk[i].plen = Len(x.stk[i].node) /\ x.stk[i].cbase = Len(At(tree, x.stk[i].node))
  /\ x.key = Upto(x, m)

ReadAt(x, m, a) ==
  /\ Seated(x) /\ a.op \in {"read", "erase", "find"}
  /\ a.op \in {"read", "erase"} => a.key = Key(x.at)
  /\ a.op = "find" => FirstWanted(a, x.at)
  /\ Known(x) => KeyRest(x)
  /\ ~Known(x) => Replayed(x, m)

Mode(x, g, a) ==
  /\ x \in Iter /\ x.live /\ AskOK(a)
  /\ \/ g.do = "rest" /\ Done(x, a)
     \/ g.do = "seek" /\ Seeking(x, a)
     \/ g.do = "retreat" /\ Retreating(x, a)
     \/ g.do = "min" /\ MinAt(x, g.p, g.m, a)
     \/ g.do = "max" /\ MaxAt(x, g.p, g.m, a)
     \/ g.do = "lb" /\ LbAt(x, g.p, a)
     \/ g.do = "read" /\ ReadAt(x, g.m, a)

-----------------------------------------------------------------------------
(* Frames and the order of the keys around them.                           *)

AheadIn(s, m, z)  == \E i \in 1 .. m : Pends(s[i], z)
BehindIn(s, m, z) == \E i \in 1 .. m : Passed(s[i], z)

LEMMA TopSides ==
  ASSUME NEW s, NEW t, NEW m \in Nat, \A i \in 1 .. m : t[i] = s[i], Len(t) = m + 1, NEW z
  PROVE  /\ Ahead(t, z) <=> AheadIn(s, m, z) \/ Pends(t[m + 1], z)
         /\ Behind(t, z) <=> BehindIn(s, m, z) \/ Passed(t[m + 1], z)
  <1>1. \A i \in 1 .. m + 1 : i \in 1 .. m \/ i = m + 1
    OBVIOUS
  <1>2. m + 1 \in 1 .. m + 1 /\ \A i \in 1 .. m : i \in 1 .. m + 1
    OBVIOUS
  <1> QED
    BY <1>1, <1>2 DEF Ahead, Behind, AheadIn, BehindIn

\* What pends (was passed) in the frames on the way to q comes after (before)
\* every key below q.
LEMMA AheadAfter ==
  ASSUME Trunk, NEW s, NEW m \in Nat, m <= Len(s), Len(s) \in Nat, Stack(s),
         NEW q \in Path, \A i \in 1 .. m : Aims(s[i], q), NEW z \in TSet,
         NEW k \in Path, StartsWith(k, q)
  PROVE  /\ AheadIn(s, m, z) => Ord!Less(k, Key(z))
         /\ BehindIn(s, m, z) => Ord!Less(Key(z), k)
  <1>1. \A i \in 1 .. m : Inner(s[i])
    BY DEF Stack
  <1> QED
    BY <1>1, PendsAfter, PassedBefore DEF AheadIn, BehindIn

\* The frames of a stack below its last one are the way to the last one's node.
LEMMA WayToTop ==
  ASSUME Trunk, NEW x \in Iter, x.stk # <<>>, Stack(x.stk)
  PROVE  LET m == Len(x.stk) - 1
         IN  /\ m \in Nat /\ m + 1 = Len(x.stk) /\ Top(x) = x.stk[m + 1] /\ m <= Len(x.stk)
             /\ Inner(Top(x)) /\ Top(x) \in Frames /\ Top(x).node \in DOMAIN tree
             /\ Top(x).node \in Path /\ At(tree, Top(x).node) \in Path /\ Top(x).cur \in Int
             /\ StartsWith(At(tree, Top(x).node), Top(x).node)
             /\ Trail(x.stk, m, Top(x).node)
             /\ IsPn(tree, Top(x).node) \/ IsRouter(tree, Top(x).node)
             /\ ~(IsPn(tree, Top(x).node) /\ IsRouter(tree, Top(x).node))
  <1> DEFINE m == Len(x.stk) - 1
  <1>1. /\ m \in Nat /\ Len(x.stk) \in Nat /\ m + 1 = Len(x.stk) /\ m + 1 \in 1 .. Len(x.stk)
        /\ m <= Len(x.stk) /\ (m + 1) - 1 = m
        /\ x.stk[m + 1] \in Frames /\ x.stk[m + 1].cur \in Int
    BY IterIs
  <1>2. Top(x) = x.stk[m + 1]
    BY <1>1 DEF Top
  <1>3. Inner(x.stk[m + 1]) /\ Trail(x.stk, m, x.stk[m + 1].node)
    BY <1>1 DEF Stack
  <1> HIDE DEF m
  <1> QED
    BY <1>1, <1>2, <1>3, InnerIs DEF m

\* A terminal below a router stands at it or below one of its edges, and in
\* the latter case its key is the greater one.
LEMMA UnderRouter ==
  ASSUME Trunk, NEW p \in DOMAIN tree, IsRouter(tree, p), NEW z \in TSet
  PROVE  /\ Under(p, z) <=> z = p \/ \E e \in tree[p].edges : Under(ChildOf(p, e), z)
         /\ \A e \in tree[p].edges : Under(ChildOf(p, e), z) =>
              /\ Ord!Less(At(tree, p), Key(z)) /\ StartsWith(Key(z), ChildOf(p, e))
              /\ z # p
         /\ z = p => Key(z) = At(tree, p) /\ tree[p].term # NoVal
         /\ Under(p, z) => StartsWith(Key(z), At(tree, p))
  <1>1. /\ z \in DOMAIN tree /\ z \in Path /\ Key(z) \in Path /\ StartsWith(Key(z), z)
        /\ p \in Path /\ At(tree, p) \in Path
        /\ ~IsLeaf(tree, p)
    BY TerminalIs, RouterHas, NodeIs
  <1>2. ASSUME Under(p, z), z # p
        PROVE  \E e \in tree[p].edges : Under(ChildOf(p, e), z)
    BY <1>1, <1>2, BelowNode DEF Under
  <1>3. ASSUME NEW e \in tree[p].edges, Under(ChildOf(p, e), z)
        PROVE  /\ Under(p, z) /\ z # p
               /\ StartsWith(Key(z), ChildOf(p, e)) /\ StartsWith(Key(z), At(tree, p))
               /\ Ord!Less(At(tree, p), Key(z))
    <2>1. /\ ChildOf(p, e) \in Path /\ StartsWith(ChildOf(p, e), At(tree, p))
          /\ StartsWith(ChildOf(p, e), p) /\ Len(At(tree, p)) < Len(ChildOf(p, e))
          /\ Len(p) < Len(ChildOf(p, e))
      BY EdgeIs
    <2>2. StartsWith(z, ChildOf(p, e)) /\ StartsWith(z, p)
      BY <1>1, <1>3, <2>1, StartsTrans DEF Under
    <2>3. StartsWith(Key(z), ChildOf(p, e)) /\ StartsWith(Key(z), At(tree, p))
      BY <1>1, <2>1, <2>2, StartsTrans
    <2>4. /\ Len(ChildOf(p, e)) <= Len(z) /\ Len(ChildOf(p, e)) <= Len(Key(z))
          /\ Len(z) \in Nat /\ Len(Key(z)) \in Nat /\ Len(p) \in Nat /\ Len(At(tree, p)) \in Nat
          /\ Len(ChildOf(p, e)) \in Nat
      BY <1>1, <2>1, <2>2, <2>3, StartsLen, PathFacts
    <2>5. Len(z) # Len(p) /\ Len(Key(z)) # Len(At(tree, p))
      BY <2>1, <2>4
    <2>6. z # p /\ At(tree, p) # Key(z)
      BY <2>5
    <2>7. Ord!Less(At(tree, p), Key(z))
      BY <1>1, <2>3, <2>6, PrefixLess
    <2> QED
      BY <2>2, <2>3, <2>6, <2>7 DEF Under
  <1>4. Under(p, p)
    BY <1>1, StartsRefl DEF Under
  <1>5. ASSUME z = p
        PROVE  Key(z) = At(tree, p) /\ tree[p].term # NoVal
    BY <1>5, TerminalIs
  <1>6. StartsWith(At(tree, p), At(tree, p))
    BY <1>1, StartsRefl
  <1> QED
    BY <1>2, <1>3, <1>4, <1>5, <1>6

LEMMA UnderLeaf ==
  ASSUME Trunk, NEW p \in DOMAIN tree, IsLeaf(tree, p), NEW z \in TSet
  PROVE  Under(p, z) <=> z = p
  <1>1. z \in DOMAIN tree /\ z \in Path /\ p \in Path
    BY TerminalIs, KindIs
  <1> QED
    BY <1>1, BelowNode, StartsRefl DEF Under

LEMMA UnderPn ==
  ASSUME Trunk, NEW p \in DOMAIN tree, IsPn(tree, p), NEW z \in TSet
  PROVE  Under(p, z) <=> Under(At(tree, p), z)
  <1>1. /\ z \in DOMAIN tree /\ z \in Path /\ p \in Path /\ At(tree, p) \in Path
        /\ StartsWith(At(tree, p), p) /\ z # p
    BY TerminalIs, KindIs, NodeIs
  <1> QED
    BY <1>1, BelowNode, StartsTrans DEF Under

LEMMA AheadOf ==
  ASSUME NEW s, NEW z
  PROVE  (Ahead(s, z) <=> AheadIn(s, Len(s), z)) /\ (Behind(s, z) <=> BehindIn(s, Len(s), z))
  BY DEF Ahead, Behind, AheadIn, BehindIn

\* A terminal off the way to q is ahead of it or behind it, as its key is.
LEMMA WaySides ==
  ASSUME Trunk, NEW s, NEW m \in Nat, m <= Len(s), Len(s) \in Nat, Stack(s),
         NEW q \in DOMAIN tree, Trail(s, m, q), NEW z \in TSet, ~Under(q, z),
         NEW k \in Path, StartsWith(k, q)
  PROVE  /\ Ord!Less(k, Key(z)) <=> AheadIn(s, m, z)
         /\ Ord!Less(Key(z), k) <=> BehindIn(s, m, z)
  <1>1. AheadIn(s, m, z) \/ BehindIn(s, m, z)
    BY Sides DEF Under, AheadIn, BehindIn
  <1>2. q \in Path /\ Key(z) \in Path
    BY KindIs, TerminalIs
  <1>3. \A i \in 1 .. m : Aims(s[i], q)
    BY DEF Trail
  <1>4. /\ AheadIn(s, m, z) => Ord!Less(k, Key(z))
        /\ BehindIn(s, m, z) => Ord!Less(Key(z), k)
    BY <1>2, <1>3, AheadAfter
  <1>5. ~(Ord!Less(k, Key(z)) /\ Ord!Less(Key(z), k))
    BY <1>2, LessOneWay
  <1> QED
    BY <1>1, <1>4, <1>5

\* Seen from where the iterator stands, the greater keys are ahead of its
\* frames and the smaller ones behind them.
LEMMA SeatedSides ==
  ASSUME Trunk, NEW x \in Iter, Seated(x), NEW z \in TSet
  PROVE  /\ Ord!Less(Key(x.at), Key(z)) <=> Ahead(x.stk, z)
         /\ Ord!Less(Key(z), Key(x.at)) <=> Behind(x.stk, z)
  <1> DEFINE p == x.at
             s == x.stk
  <1>1. /\ p \in DOMAIN tree /\ p \in Path /\ p \in TSet /\ Key(p) \in Path /\ Key(z) \in Path
        /\ StartsWith(Key(p), p) /\ Len(s) \in Nat /\ Stack(s)
        /\ IsLeaf(tree, p) \/ IsRouter(tree, p)
    BY TerminalIs, IterIs DEF Seated
  <1>2. ~Ord!Less(Key(p), Key(p))
    BY <1>1, LessNever
  <1>3. CASE IsLeaf(tree, p)
    <2>1. Trail(s, Len(s), p) /\ \A i \in 1 .. Len(s) : Aims(s[i], p)
      BY <1>3 DEF Seated, Trail
    <2>2. /\ AheadIn(s, Len(s), z) => Ord!Less(Key(p), Key(z))
          /\ BehindIn(s, Len(s), z) => Ord!Less(Key(z), Key(p))
      BY <1>1, <2>1, AheadAfter
    <2>3. CASE Under(p, z)
      <3>1. z = p
        BY <1>1, <1>3, <2>3, UnderLeaf
      <3> QED
        BY <1>2, <2>2, <3>1, AheadOf
    <2>4. CASE ~Under(p, z)
      <3>1. /\ Ord!Less(Key(p), Key(z)) <=> AheadIn(s, Len(s), z)
            /\ Ord!Less(Key(z), Key(p)) <=> BehindIn(s, Len(s), z)
        BY <1>1, <2>1, <2>4, WaySides
      <3> QED
        BY <3>1, AheadOf
    <2> QED
      BY <2>3, <2>4
  <1>4. CASE IsRouter(tree, p)
    <2> DEFINE m == Len(s) - 1
    <2>1. s # <<>> /\ Top(x).node = p /\ Top(x).cur = 0
      BY <1>4 DEF Seated
    <2>2. /\ m \in Nat /\ m + 1 = Len(s) /\ m <= Len(s) /\ Top(x) = s[m + 1]
          /\ Trail(s, m, p)
      BY <1>1, <2>1, WayToTop
    <2> HIDE DEF m
    <2>3. /\ Ahead(s, z) <=> AheadIn(s, m, z) \/ Pends(s[m + 1], z)
          /\ Behind(s, z) <=> BehindIn(s, m, z) \/ Passed(s[m + 1], z)
      BY <2>2, TopSides
    <2>4. /\ AheadIn(s, m, z) => Ord!Less(Key(p), Key(z))
          /\ BehindIn(s, m, z) => Ord!Less(Key(z), Key(p))
      BY <1>1, <2>2, AheadAfter DEF Trail
    <2>5. ~IsPn(tree, p) /\ ~IsLeaf(tree, p) /\ Key(p) = At(tree, p)
      BY <1>1, <1>4, RouterHas, UnderRouter
    <2>6. \A e \in tree[p].edges : Taken(p, e) \in Nat /\ Taken(p, e) > 0
      BY <1>1, <1>4, TakenIs
    <2>7. Pends(s[m + 1], z) <=> \E e \in tree[p].edges : Under(ChildOf(p, e), z)
      BY <1>4, <2>1, <2>2, <2>5, <2>6 DEF Pends, Under
    <2>8. ~Passed(s[m + 1], z)
      BY <1>4, <2>1, <2>2, <2>5, <2>6 DEF Passed
    <2>9. Pends(s[m + 1], z) => Ord!Less(Key(p), Key(z))
      BY <1>1, <1>4, <2>5, <2>7, UnderRouter
    <2>10. CASE ~Under(p, z)
      <3>1. /\ Ord!Less(Key(p), Key(z)) <=> AheadIn(s, m, z)
            /\ Ord!Less(Key(z), Key(p)) <=> BehindIn(s, m, z)
        BY <1>1, <2>2, <2>10, WaySides
      <3>2. ~Pends(s[m + 1], z)
        BY <1>1, <1>4, <2>7, <2>10, UnderRouter
      <3> QED
        BY <2>3, <2>8, <3>1, <3>2
    <2>11. CASE z = p
      <3>1. ~AheadIn(s, m, z) /\ ~BehindIn(s, m, z) /\ ~Pends(s[m + 1], z)
        BY <1>2, <2>4, <2>9, <2>11
      <3> QED
        BY <1>2, <2>3, <2>8, <2>11, <3>1
    <2>12. CASE Under(p, z) /\ z # p
      <3>1. Pends(s[m + 1], z)
        BY <1>1, <1>4, <2>7, <2>12, UnderRouter
      <3>2. ~(Ord!Less(Key(p), Key(z)) /\ Ord!Less(Key(z), Key(p)))
        BY <1>1, LessOneWay
      <3> QED
        BY <2>3, <2>4, <2>8, <2>9, <3>1, <3>2
    <2> QED
      BY <2>10, <2>11, <2>12
  <1> QED
    BY <1>1, <1>3, <1>4

-----------------------------------------------------------------------------
(* Arrivals.                                                               *)

\* A way without frames leads to the root.
LEMMA RootWay ==
  ASSUME Trunk, NEW s, NEW q \in DOMAIN tree, Trail(s, 0, q)
  PROVE  q = <<>>
  <1>1. <<>> \in DOMAIN tree /\ q \in Path
    BY RootIsThere, KindIs
  <1>2. StartsWith(q, <<>>)
    BY <1>1, EmptyPath, PathFacts, StartsWithIff
  <1>3. ~ \E i \in 1 .. 0 : s[i].node = <<>>
    OBVIOUS
  <1> QED
    BY <1>1, <1>2, <1>3 DEF Trail

LEMMA ReplayStarts ==
  ASSUME Trunk, NEW x \in Iter, Seated(x), x.key = <<>>, ~Known(x)
  PROVE  Replayed(x, 0)
  <1>1. /\ Len(x.stk) \in Nat /\ x.at \in DOMAIN tree
        /\ IsLeaf(tree, x.at) \/ IsRouter(tree, x.at)
        /\ x.stk = <<>> => Len(x.stk) = 0
    BY IterIs, TerminalIs DEF Seated
  <1>2. CASE 0 < Len(x.stk)
    <2>1. 1 \in 1 .. Len(x.stk) /\ 1 - 1 = 0 /\ 0 + 1 = 1
      BY <1>1, <1>2
    <2>2. Inner(x.stk[1]) /\ Trail(x.stk, 0, x.stk[1].node)
      BY <2>1 DEF Seated, Stack
    <2>3. x.stk[1].node = <<>>
      BY <2>2, RootWay DEF Inner
    <2> QED
      BY <1>1, <1>2, <2>1, <2>3 DEF Replayed, Upto
  <1>3. CASE ~(0 < Len(x.stk))
    <2>1. Len(x.stk) = 0 /\ x.stk = <<>>
      BY <1>1, <1>3, IterIs
    <2>2. IsLeaf(tree, x.at) /\ Trail(x.stk, 0, x.at)
      BY <1>1, <2>1 DEF Seated
    <2>3. x.at = <<>>
      BY <1>1, <2>2, RootWay
    <2> QED
      BY <1>1, <2>1, <2>2, <2>3 DEF Replayed, Upto
  <1> QED
    BY <1>2, <1>3

\* Where Arrive leaves the loops.
Landing(y, a) == IF a.op = "find" /\ ~y.end THEN Go("read", <<>>, 0) ELSE Rests

\* The iterator has found the first (last) of the terminals it wanted.
LEMMA Lands ==
  ASSUME Trunk, NEW y \in Iter, y.live, Seated(y), KeyRest(y), NEW a, AskOK(a), Erased(a),
         \/ a.op \in Fore /\ FirstWanted(a, y.at)
         \/ a.op = "prev" /\ LastWanted(a, y.at)
  PROVE  Mode(y, Landing(y, a), a)
  <1>1. ~y.end /\ Place(y) = Key(y.at)
    BY DEF Seated, Place, Key
  <1>2. CASE a.op = "find"
    <2>1. FirstWanted(a, y.at)
      BY <1>2
    <2>2. ASSUME ~Known(y)
          PROVE  Replayed(y, 0)
      BY <2>2, ReplayStarts DEF KeyRest, Known
    <2>3. ReadAt(y, 0, a)
      BY <1>2, <2>1, <2>2 DEF ReadAt
    <2>4. Landing(y, a) = Go("read", <<>>, 0)
      BY <1>1, <1>2 DEF Landing
    <2> QED
      BY <2>3, <2>4 DEF Mode, Go
  <1>3. CASE a.op # "find"
    <2>1. AnswerTo(a) = Key(y.at)
      <3>1. CASE a.op \in Fore
        <4>1. FirstWanted(a, y.at)
          BY <3>1 DEF Fore, Bounds
        <4> QED
          BY <1>3, <3>1, <4>1, AnswerFirst DEF Erased
      <3>2. CASE a.op \notin Fore
        BY <3>2, AnswerLast
      <3> QED
        BY <3>1, <3>2
    <2>2. Landing(y, a) = Rests
      BY <1>3 DEF Landing
    <2>3. Done(y, a)
      BY <1>1, <2>1 DEF Done
    <2> QED
      BY <2>2, <2>3 DEF Mode, Go, Rests
  <1> QED
    BY <1>2, <1>3

\* The iterator has run out of frames: nothing was wanted.
LEMMA RunsOut ==
  ASSUME Trunk, NEW x \in Iter, x.live, x.stk = <<>>, Kept(x, AtTop(x)), NEW a, AskOK(a), Erased(a),
         a.op \in Fore \cup {"prev"}, NoneWanted(a)
  PROVE  Mode(Off(x), Landing(Off(x), a), a)
  <1> DEFINE y == Off(x)
  <1>1. y \in Iter /\ y.end /\ y.live /\ y.stk = <<>> /\ y.key = x.key /\ y.maintain = x.maintain
    BY DEF Off, Iter
  <1> HIDE DEF y
  <1>2. AnswerTo(a) = Past
    BY FindIs, AnswerNone DEF Erased
  <1>3. AtEnd(y)
    BY <1>1 DEF AtEnd, Kept
  <1>4. Place(y) = Past
    BY <1>1 DEF Place
  <1>5. Landing(y, a) = Rests
    BY <1>1 DEF Landing
  <1>6. Done(y, a)
    BY <1>2, <1>3, <1>4 DEF Done
  <1> QED
    BY <1>1, <1>5, <1>6 DEF Mode, Rests, Go, y

-----------------------------------------------------------------------------
(* One node further.                                                       *)

Below(x) == Len(x.stk) - 1

LEMMA TopSplit ==
  ASSUME Trunk, NEW x \in Iter, x.stk # <<>>, Stack(x.stk), NEW z
  PROVE  /\ Ahead(x.stk, z) <=> AheadIn(x.stk, Below(x), z) \/ Pends(Top(x), z)
         /\ Behind(x.stk, z) <=> BehindIn(x.stk, Below(x), z) \/ Passed(Top(x), z)
         /\ AtTop(x) = At(tree, Top(x).node)
  <1> DEFINE m == Below(x)
  <1>1. m \in Nat /\ m + 1 = Len(x.stk) /\ Top(x) = x.stk[m + 1]
    BY WayToTop DEF Below
  <1> HIDE DEF m
  <1> QED
    BY <1>1, TopSides DEF m, AtTop

\* The frame pushed for the node at q.
LEMMA Entered ==
  ASSUME Trunk, NEW x \in Iter, NEW q, NEW c, Down(x, q, c), ~IsLeaf(tree, q), NEW cur \in Int
  PROVE  LET y == Enter(x, q, cur, c)
         IN  /\ y \in Iter /\ Persists(x, y) /\ y.stk # <<>> /\ Stack(y.stk) /\ Kept(y, AtTop(y))
             /\ Top(y).node = q /\ Top(y).cur = cur /\ q \in DOMAIN tree
             /\ y.maintain => Top(y).cbase = Len(At(tree, q))
             /\ \A z : /\ AheadIn(y.stk, Below(y), z) <=> Ahead(x.stk, z)
                       /\ BehindIn(y.stk, Below(y), z) <=> Behind(x.stk, z)
  <1> DEFINE y == Enter(x, q, cur, c)
             m == Len(x.stk)
  <1>1. /\ y \in Iter /\ Persists(x, y) /\ Len(y.stk) = m + 1 /\ y.stk # <<>>
        /\ \A i \in 1 .. m : y.stk[i] = x.stk[i]
        /\ y.stk[m + 1].node = q /\ y.stk[m + 1].cur = cur
        /\ Stack(y.stk) /\ Kept(y, At(tree, q))
        /\ x.maintain => y.stk[m + 1].cbase = Len(At(tree, q))
        /\ q \in DOMAIN tree
    BY EnterIs DEF Down, WayTo
  <1> HIDE DEF y
  <1>2. m \in Nat /\ Below(y) = m /\ Top(y) = y.stk[m + 1]
    <2>1. m \in Nat
      BY IterIs
    <2> QED
      BY <1>1, <2>1 DEF Below, Top
  <1>3. \A z : /\ AheadIn(y.stk, m, z) <=> AheadIn(x.stk, m, z)
               /\ BehindIn(y.stk, m, z) <=> BehindIn(x.stk, m, z)
    BY <1>1 DEF AheadIn, BehindIn
  <1>4. AtTop(y) = At(tree, q)
    BY <1>1, <1>2 DEF AtTop
  <1> QED
    BY <1>1, <1>2, <1>3, <1>4, AheadOf DEF y, Persists

\* An edge is taken out of the router on top.
LEMMA TookEdge ==
  ASSUME Trunk, NEW x \in Iter, x.stk # <<>>, Stack(x.stk), Kept(x, AtTop(x)), ~x.end,
         IsRouter(tree, Top(x).node), NEW e \in tree[Top(x).node].edges
  PROVE  LET y == Take(x, e)
         IN  /\ y \in Iter /\ Persists(x, y) /\ y.stk # <<>> /\ Stack(y.stk)
             /\ Top(y).node = Top(x).node /\ Top(y).cur = Taken(Top(x).node, e)
             /\ Down(y, ChildOf(Top(x).node, e), Len(y.key))
             /\ \A z : /\ AheadIn(y.stk, Below(y), z) <=> AheadIn(x.stk, Below(x), z)
                       /\ BehindIn(y.stk, Below(y), z) <=> BehindIn(x.stk, Below(x), z)
  <1> DEFINE y == Take(x, e)
             m == Len(x.stk)
             p == Top(x).node
  <1>1. AtTop(x) = At(tree, p)
    BY DEF AtTop
  <1>2. /\ y \in Iter /\ Persists(x, y) /\ Len(y.stk) = m
        /\ \A i \in 1 .. m - 1 : y.stk[i] = x.stk[i]
        /\ y.stk[m].node = p /\ y.stk[m].cur = Taken(p, e)
        /\ Stack(y.stk) /\ Trail(y.stk, m, ChildOf(p, e)) /\ ChildOf(p, e) \in DOMAIN tree
        /\ Kept(y, ChildOf(p, e)) /\ (x.maintain => Len(y.key) = Len(ChildOf(p, e)))
    BY <1>1, TakeIs
  <1> HIDE DEF y, p
  <1>3. m \in Nat /\ m # 0 /\ Below(y) = m - 1 /\ Below(x) = m - 1 /\ Top(y) = y.stk[m] /\ y.stk # <<>>
    BY <1>2, IterIs DEF Below, Top
  <1>4. \A z : /\ AheadIn(y.stk, m - 1, z) <=> AheadIn(x.stk, m - 1, z)
               /\ BehindIn(y.stk, m - 1, z) <=> BehindIn(x.stk, m - 1, z)
    BY <1>2 DEF AheadIn, BehindIn
  <1>5. Down(y, ChildOf(p, e), Len(y.key))
    BY <1>2 DEF Down, WayTo, Persists
  <1> QED
    BY <1>2, <1>3, <1>4, <1>5 DEF y, p

\* The first of the edges that are wanted is taken.
LEMMA EdgeDownMin ==
  ASSUME Trunk, NEW x \in Iter, x.live, ~x.end, x.stk # <<>>, Stack(x.stk), Kept(x, AtTop(x)),
         IsRouter(tree, Top(x).node), NEW a, AskOK(a), a.op \in Fore, Erased(a),
         NEW E, E \subseteq tree[Top(x).node].edges, E # {},
         \A e \in E, f \in tree[Top(x).node].edges :
           Taken(Top(x).node, f) > Taken(Top(x).node, e) => f \in E,
         \A z \in TSet : Wanted(a, z) <=>
           AheadIn(x.stk, Below(x), z) \/ \E f \in E : Under(ChildOf(Top(x).node, f), z)
  PROVE  LET e == MinEdge(E)
         IN  Mode(Take(x, e), Go("min", ChildOf(Top(x).node, e), Len(Take(x, e).key)), a)
  <1> DEFINE e == MinEdge(E)
             y == Take(x, e)
             p == Top(x).node
  <1>1. p \in DOMAIN tree /\ ~IsPn(tree, p)
    BY WayToTop, RouterHas
  <1>2. e \in E /\ \A f \in E : f = e \/ Taken(p, e) < Taken(p, f)
    BY <1>1, MinEdgeIs
  <1> HIDE DEF e, p
  <1>3. /\ y \in Iter /\ Persists(x, y) /\ y.stk # <<>> /\ Stack(y.stk)
        /\ Top(y).node = p /\ Top(y).cur = Taken(p, e)
        /\ Down(y, ChildOf(p, e), Len(y.key))
        /\ \A z : AheadIn(y.stk, Below(y), z) <=> AheadIn(x.stk, Below(x), z)
    BY <1>2, TookEdge DEF p
  <1> HIDE DEF y
  <1>4. \A f \in tree[p].edges : Taken(p, f) \in Nat /\ Taken(p, f) > 0
    BY <1>1, TakenIs DEF p
  <1>5. e \in tree[p].edges /\ Taken(p, e) \in Nat /\ Taken(p, e) # -1
    BY <1>2, <1>4 DEF p
  <1>6. \A f \in tree[p].edges : Taken(p, f) > Taken(p, e) <=> f \in E /\ f # e
    <2> SUFFICES ASSUME NEW f \in tree[p].edges
                 PROVE  Taken(p, f) > Taken(p, e) <=> f \in E /\ f # e
      OBVIOUS
    <2>1. Taken(p, f) \in Nat /\ Taken(p, e) \in Nat
      BY <1>4, <1>5
    <2>2. Taken(p, f) > Taken(p, e) => f \in E
      BY <1>2 DEF p
    <2>3. f \in E /\ f # e => Taken(p, e) < Taken(p, f)
      BY <1>2
    <2> QED
      BY <2>1, <2>2, <2>3
  <1>7. \A z : Pends(Top(y), z) <=> \E f \in tree[p].edges : f \in E /\ f # e /\ Under(ChildOf(p, f), z)
    BY <1>1, <1>3, <1>5, <1>6 DEF Pends, Under, p
  <1>8. \A z : Ahead(y.stk, z) <=> AheadIn(x.stk, Below(x), z) \/ Pends(Top(y), z)
    BY <1>3, TopSplit
  <1>9. ASSUME NEW z \in TSet
        PROVE  Wanted(a, z) <=> Ahead(y.stk, z) \/ Under(ChildOf(p, e), z)
    <2>1. (\E f \in E : Under(ChildOf(p, f), z)) <=> Pends(Top(y), z) \/ Under(ChildOf(p, e), z)
      BY <1>2, <1>7 DEF p
    <2>2. Wanted(a, z) <=> AheadIn(x.stk, Below(x), z) \/ \E f \in E : Under(ChildOf(p, f), z)
      BY DEF p
    <2> QED
      BY <1>8, <2>1, <2>2
  <1>10. MinAt(y, ChildOf(p, e), Len(y.key), a)
    BY <1>3, <1>9 DEF MinAt
  <1> QED
    BY <1>3, <1>10 DEF Mode, Go, Persists, y, p, e

\* The last of the edges that are wanted is taken; the router's own key is
\* wanted as well.
LEMMA EdgeDownMax ==
  ASSUME Trunk, NEW x \in Iter, x.live, ~x.end, x.stk # <<>>, Stack(x.stk), Kept(x, AtTop(x)),
         IsRouter(tree, Top(x).node), NEW a, AskOK(a), a.op = "prev",
         NEW E, E \subseteq tree[Top(x).node].edges, E # {},
         \A e \in E, f \in tree[Top(x).node].edges :
           Taken(Top(x).node, f) < Taken(Top(x).node, e) => f \in E,
         \A z \in TSet : Wanted(a, z) <=>
           \/ BehindIn(x.stk, Below(x), z) \/ z = Top(x).node
           \/ \E f \in E : Under(ChildOf(Top(x).node, f), z)
  PROVE  LET e == MaxEdge(E)
         IN  Mode(Take(x, e), Go("max", ChildOf(Top(x).node, e), Len(Take(x, e).key)), a)
  <1> DEFINE e == MaxEdge(E)
             y == Take(x, e)
             p == Top(x).node
  <1>1. p \in DOMAIN tree /\ ~IsPn(tree, p)
    BY WayToTop, RouterHas
  <1>2. e \in E /\ \A f \in E : f = e \/ Taken(p, f) < Taken(p, e)
    BY <1>1, MaxEdgeIs
  <1> HIDE DEF e, p
  <1>3. /\ y \in Iter /\ Persists(x, y) /\ y.stk # <<>> /\ Stack(y.stk)
        /\ Top(y).node = p /\ Top(y).cur = Taken(p, e)
        /\ Down(y, ChildOf(p, e), Len(y.key))
        /\ \A z : BehindIn(y.stk, Below(y), z) <=> BehindIn(x.stk, Below(x), z)
    BY <1>2, TookEdge DEF p
  <1> HIDE DEF y
  <1>4. \A f \in tree[p].edges : Taken(p, f) \in Nat /\ Taken(p, f) > 0
    BY <1>1, TakenIs DEF p
  <1>5. e \in tree[p].edges /\ Taken(p, e) >= 1
    BY <1>2, <1>4 DEF p
  <1>6. \A f \in tree[p].edges : Taken(p, f) < Taken(p, e) <=> f \in E /\ f # e
    <2> SUFFICES ASSUME NEW f \in tree[p].edges
                 PROVE  Taken(p, f) < Taken(p, e) <=> f \in E /\ f # e
      OBVIOUS
    <2>1. Taken(p, f) \in Nat /\ Taken(p, e) \in Nat
      BY <1>4, <1>5
    <2>2. Taken(p, f) < Taken(p, e) => f \in E
      BY <1>2 DEF p
    <2>3. f \in E /\ f # e => Taken(p, f) < Taken(p, e)
      BY <1>2
    <2> QED
      BY <2>1, <2>2, <2>3
  <1>7. \A z : Passed(Top(y), z) <=>
               z = p \/ \E f \in tree[p].edges : f \in E /\ f # e /\ Under(ChildOf(p, f), z)
    BY <1>1, <1>3, <1>5, <1>6 DEF Passed, Under, p
  <1>8. \A z : Behind(y.stk, z) <=> BehindIn(x.stk, Below(x), z) \/ Passed(Top(y), z)
    BY <1>3, TopSplit
  <1>9. ASSUME NEW z \in TSet
        PROVE  Wanted(a, z) <=> Behind(y.stk, z) \/ Under(ChildOf(p, e), z)
    <2>1. z = p \/ (\E f \in E : Under(ChildOf(p, f), z))
            <=> Passed(Top(y), z) \/ Under(ChildOf(p, e), z)
      BY <1>2, <1>7 DEF p
    <2>2. Wanted(a, z) <=> \/ BehindIn(x.stk, Below(x), z) \/ z = p
                           \/ \E f \in E : Under(ChildOf(p, f), z)
      BY DEF p
    <2> QED
      BY <1>8, <2>1, <2>2
  <1>10. MaxAt(y, ChildOf(p, e), Len(y.key), a)
    BY <1>3, <1>9 DEF MaxAt
  <1> QED
    BY <1>3, <1>10 DEF Mode, Go, Persists, y, p, e

\* The router on top holds the first (last) of the wanted keys itself.
LEMMA TermLands ==
  ASSUME Trunk, NEW x \in Iter, x.live, ~x.end, x.stk # <<>>, Stack(x.stk), Kept(x, AtTop(x)),
         IsRouter(tree, Top(x).node), tree[Top(x).node].term # NoVal, NEW a, AskOK(a), Erased(a),
         \/ /\ a.op \in Fore
            /\ \A z \in TSet : Wanted(a, z) <=>
                 AheadIn(x.stk, Below(x), z) \/ Under(Top(x).node, z)
         \/ /\ a.op = "prev"
            /\ \A z \in TSet : Wanted(a, z) <=>
                 BehindIn(x.stk, Below(x), z) \/ z = Top(x).node
  PROVE  Mode(EmitTerm(x), Landing(EmitTerm(x), a), a)
  <1> DEFINE y == EmitTerm(x)
             m == Below(x)
             p == Top(x).node
  <1>1. /\ m \in Nat /\ m + 1 = Len(x.stk) /\ m <= Len(x.stk) /\ Len(x.stk) \in Nat
        /\ p \in DOMAIN tree /\ p \in Path /\ At(tree, p) \in Path
        /\ StartsWith(At(tree, p), p) /\ Trail(x.stk, m, p) /\ ~IsLeaf(tree, p)
    <2>1. p \in DOMAIN tree
      BY WayToTop
    <2> QED
      BY <2>1, WayToTop, IterIs, RouterHas DEF Below
  <1>2. p \in TSet /\ Key(p) = At(tree, p)
    BY <1>1 DEF TSet, Terminals, Key, KeyAt
  <1>3. AtTop(x) = At(tree, p)
    BY DEF AtTop
  <1> HIDE DEF m
  <1>4. /\ y \in Iter /\ Persists(x, y) /\ y.at = p /\ Len(y.stk) = Len(x.stk)
        /\ y.stk[Len(x.stk)].node = p /\ y.stk[Len(x.stk)].cur = 0
        /\ Stack(y.stk) /\ KeyRest(y)
    BY <1>3, EmitTermIs
  <1> HIDE DEF y, p
  <1>5. Seated(y)
    <2>1. Top(y).node = p /\ Top(y).cur = 0
      BY <1>4 DEF Top
    <2>2. y.stk # <<>>
      BY <1>1, <1>4, IterIs
    <2> QED
      BY <1>1, <1>2, <1>4, <2>1, <2>2 DEF Seated, Persists
  <1>6. \A z \in TSet : /\ AheadIn(x.stk, m, z) => Ord!Less(Key(p), Key(z))
                        /\ BehindIn(x.stk, m, z) => Ord!Less(Key(z), Key(p))
    <2>1. Key(p) \in Path /\ StartsWith(Key(p), p)
      BY <1>1, <1>2
    <2>2. \A i \in 1 .. m : Aims(x.stk[i], p)
      BY <1>1 DEF Trail
    <2> QED
      BY <1>1, <2>1, <2>2, AheadAfter
  <1>7. \A z \in TSet : Under(p, z) /\ z # p => Ord!Less(Key(p), Key(z))
    BY <1>1, <1>2, UnderRouter DEF p
  <1>8. Under(p, p)
    BY <1>1, StartsRefl DEF Under
  <1>9. CASE /\ a.op \in Fore
             /\ \A z \in TSet : Wanted(a, z) <=>
                  AheadIn(x.stk, m, z) \/ Under(p, z)
    <2>1. FirstWanted(a, p)
      BY <1>2, <1>6, <1>7, <1>8, <1>9 DEF FirstWanted
    <2> QED
      BY <1>4, <1>5, <1>9, <2>1, Lands DEF y, Persists
  <1>10. CASE /\ a.op = "prev"
              /\ \A z \in TSet : Wanted(a, z) <=>
                   BehindIn(x.stk, m, z) \/ z = p
    <2>1. LastWanted(a, p)
      BY <1>2, <1>6, <1>10 DEF LastWanted
    <2> QED
      BY <1>4, <1>5, <1>10, <2>1, Lands DEF y, Persists
  <1> QED
    BY <1>9, <1>10 DEF m, p

-----------------------------------------------------------------------------
(* The steps of descend_min_, descend_max_, seek_ and retreat_.            *)

\* A leaf at the end of the way is the first (last) of the wanted keys.
LEMMA LeafLands ==
  ASSUME Trunk, NEW x \in Iter, x.live, NEW q, NEW c, Down(x, q, c), IsLeaf(tree, q),
         NEW a, AskOK(a), Erased(a),
         \/ /\ a.op \in Fore /\ Wanted(a, q)
            /\ \A z \in TSet : Wanted(a, z) => Ahead(x.stk, z) \/ Under(q, z)
         \/ /\ a.op = "prev" /\ Wanted(a, q)
            /\ \A z \in TSet : Wanted(a, z) => Behind(x.stk, z) \/ Under(q, z)
  PROVE  Mode(Emit(x, q, c), Landing(Emit(x, q, c), a), a)
  <1> DEFINE y == Emit(x, q, c)
  <1>1. /\ q \in DOMAIN tree /\ ~x.end /\ Stack(x.stk) /\ Trail(x.stk, Len(x.stk), q) /\ Kept(x, q)
        /\ x.maintain => c = Len(q)
    BY DEF Down, WayTo
  <1>2. y \in Iter /\ Persists(x, y) /\ y.stk = x.stk /\ y.at = q /\ KeyRest(y)
    BY <1>1, EmitIs
  <1> HIDE DEF y
  <1>3. q \in TSet
    BY <1>1 DEF TSet, Terminals
  <1>4. Key(q) \in Path /\ StartsWith(Key(q), q) /\ q \in Path /\ ~IsRouter(tree, q)
    BY <1>1, <1>3, TerminalIs, KindIs
  <1>5. Seated(y)
    BY <1>1, <1>2, <1>3, <1>4 DEF Seated, Persists
  <1>6. \A z \in TSet : /\ Ahead(x.stk, z) => Ord!Less(Key(q), Key(z))
                        /\ Behind(x.stk, z) => Ord!Less(Key(z), Key(q))
    <2>1. Len(x.stk) \in Nat /\ Len(x.stk) <= Len(x.stk)
      BY IterIs
    <2>2. \A i \in 1 .. Len(x.stk) : Aims(x.stk[i], q)
      BY <1>1 DEF Trail
    <2> QED
      BY <1>1, <1>4, <2>1, <2>2, AheadAfter, AheadOf
  <1>7. \A z \in TSet : Under(q, z) => z = q
    BY <1>1, UnderLeaf
  <1>8. CASE /\ a.op \in Fore /\ Wanted(a, q)
             /\ \A z \in TSet : Wanted(a, z) => Ahead(x.stk, z) \/ Under(q, z)
    <2>1. FirstWanted(a, q)
      BY <1>3, <1>6, <1>7, <1>8 DEF FirstWanted
    <2> QED
      BY <1>2, <1>5, <1>8, <2>1, Lands DEF y, Persists
  <1>9. CASE /\ a.op = "prev" /\ Wanted(a, q)
             /\ \A z \in TSet : Wanted(a, z) => Behind(x.stk, z) \/ Under(q, z)
    <2>1. LastWanted(a, q)
      BY <1>3, <1>6, <1>7, <1>9 DEF LastWanted
    <2> QED
      BY <1>2, <1>5, <1>9, <2>1, Lands DEF y, Persists
  <1> QED
    BY <1>8, <1>9

LEMMA UnderSelf ==
  ASSUME Trunk, NEW q \in DOMAIN tree
  PROVE  Under(q, q)
  BY KindIs, StartsRefl DEF Under

LEMMA MinLeafOK ==
  ASSUME Trunk, NEW x \in Iter, x.live, NEW a, AskOK(a), NEW q, NEW c, MinAt(x, q, c, a),
         IsLeaf(tree, q)
  PROVE  Mode(Emit(x, q, c), Landing(Emit(x, q, c), a), a)
  <1>1. q \in DOMAIN tree
    BY DEF MinAt, Down, WayTo
  <1>2. q \in TSet /\ Under(q, q)
    BY <1>1, UnderSelf DEF TSet, Terminals
  <1> QED
    BY <1>1, <1>2, LeafLands DEF MinAt

LEMMA MaxLeafOK ==
  ASSUME Trunk, NEW x \in Iter, x.live, NEW a, AskOK(a), NEW q, NEW c, MaxAt(x, q, c, a),
         IsLeaf(tree, q)
  PROVE  Mode(Emit(x, q, c), Landing(Emit(x, q, c), a), a)
  <1>1. q \in DOMAIN tree
    BY DEF MaxAt, Down, WayTo
  <1>2. q \in TSet /\ Under(q, q)
    BY <1>1, UnderSelf DEF TSet, Terminals
  <1>3. Erased(a)
    BY DEF Erased, MaxAt
  <1> QED
    BY <1>1, <1>2, <1>3, LeafLands DEF MaxAt

\* A prefix node's frame leads to its only child.
LEMMA PnWay ==
  ASSUME Trunk, NEW x \in Iter, x.stk # <<>>, Stack(x.stk), IsPn(tree, Top(x).node),
         Top(x).cur = 1
  PROVE  WayTo(x, At(tree, Top(x).node))
  <1> DEFINE m == Len(x.stk) - 1
             p == Top(x).node
             c == At(tree, p)
  <1>1. /\ m \in Nat /\ m + 1 = Len(x.stk) /\ Top(x) = x.stk[m + 1] /\ p \in DOMAIN tree
        /\ Trail(x.stk, m, p) /\ ~IsRouter(tree, p)
    BY WayToTop
  <1>2. ~IsLeaf(tree, p) /\ c \in DOMAIN tree /\ c \in KidsOf(p, tree[p]) /\ c \in Path
    BY <1>1, KindIs, NodeIs
  <1> HIDE DEF m
  <1>3. \A i \in 1 .. m : Inner(x.stk[i])
    BY <1>1 DEF Stack
  <1>4. Aims(x.stk[m + 1], c)
    BY <1>1, <1>2, StartsRefl DEF Aims
  <1>5. Trail(x.stk, m + 1, c)
    BY <1>1, <1>2, <1>3, <1>4, TrailOn
  <1> QED
    BY <1>1, <1>2, <1>5 DEF WayTo

LEMMA PnDown ==
  ASSUME Trunk, NEW x \in Iter, NEW q, NEW c, Down(x, q, c), IsPn(tree, q)
  PROVE  LET y == Enter(x, q, 1, c)
         IN  /\ y \in Iter /\ Persists(x, y) /\ Down(y, At(tree, q), Top(y).cbase)
             /\ \A z \in TSet : /\ Ahead(y.stk, z) <=> Ahead(x.stk, z)
                                /\ Behind(y.stk, z) <=> Behind(x.stk, z)
                                /\ Under(At(tree, q), z) <=> Under(q, z)
  <1> DEFINE y == Enter(x, q, 1, c)
  <1>1. q \in DOMAIN tree
    BY DEF Down, WayTo
  <1>2. ~IsLeaf(tree, q) /\ ~IsRouter(tree, q)
    BY <1>1, KindIs
  <1>3. /\ y \in Iter /\ Persists(x, y) /\ y.stk # <<>> /\ Stack(y.stk) /\ Kept(y, AtTop(y))
        /\ Top(y).node = q /\ Top(y).cur = 1
        /\ y.maintain => Top(y).cbase = Len(At(tree, q))
        /\ \A z : /\ AheadIn(y.stk, Below(y), z) <=> Ahead(x.stk, z)
                  /\ BehindIn(y.stk, Below(y), z) <=> Behind(x.stk, z)
    BY <1>2, Entered
  <1> HIDE DEF y
  <1>4. Down(y, At(tree, q), Top(y).cbase)
    BY <1>3, PnWay DEF Down, AtTop, Persists
  <1>5. \A z : ~Pends(Top(y), z) /\ ~Passed(Top(y), z)
    BY <1>2, <1>3 DEF Pends, Passed
  <1>6. \A z : /\ Ahead(y.stk, z) <=> Ahead(x.stk, z)
               /\ Behind(y.stk, z) <=> Behind(x.stk, z)
    BY <1>3, <1>5, TopSplit
  <1>7. \A z \in TSet : Under(At(tree, q), z) <=> Under(q, z)
    BY <1>1, UnderPn
  <1> QED
    BY <1>3, <1>4, <1>6, <1>7 DEF y

LEMMA MinPnOK ==
  ASSUME Trunk, NEW x \in Iter, x.live, NEW a, AskOK(a), NEW q, NEW c, MinAt(x, q, c, a),
         IsPn(tree, q)
  PROVE  LET y == Enter(x, q, 1, c)
         IN  Mode(y, Go("min", At(tree, q), Top(y).cbase), a)
  <1> DEFINE y == Enter(x, q, 1, c)
  <1>1. /\ y \in Iter /\ Persists(x, y) /\ Down(y, At(tree, q), Top(y).cbase)
        /\ \A z \in TSet : /\ Ahead(y.stk, z) <=> Ahead(x.stk, z)
                           /\ Under(At(tree, q), z) <=> Under(q, z)
    BY PnDown DEF MinAt
  <1> HIDE DEF y
  <1>2. MinAt(y, At(tree, q), Top(y).cbase, a)
    BY <1>1 DEF MinAt
  <1> QED
    BY <1>1, <1>2 DEF Mode, Go, Persists, y

LEMMA MaxPnOK ==
  ASSUME Trunk, NEW x \in Iter, x.live, NEW a, AskOK(a), NEW q, NEW c, MaxAt(x, q, c, a),
         IsPn(tree, q)
  PROVE  LET y == Enter(x, q, 1, c)
         IN  Mode(y, Go("max", At(tree, q), Top(y).cbase), a)
  <1> DEFINE y == Enter(x, q, 1, c)
  <1>1. /\ y \in Iter /\ Persists(x, y) /\ Down(y, At(tree, q), Top(y).cbase)
        /\ \A z \in TSet : /\ Behind(y.stk, z) <=> Behind(x.stk, z)
                           /\ Under(At(tree, q), z) <=> Under(q, z)
    BY PnDown DEF MaxAt
  <1> HIDE DEF y
  <1>2. MaxAt(y, At(tree, q), Top(y).cbase, a)
    BY <1>1 DEF MaxAt
  <1> QED
    BY <1>1, <1>2 DEF Mode, Go, Persists, y

\* A router entered with nothing of it taken.
LEMMA RouterDown ==
  ASSUME Trunk, NEW x \in Iter, NEW q, NEW c, Down(x, q, c), IsRouter(tree, q)
  PROVE  LET y == Enter(x, q, 0, c)
         IN  /\ y \in Iter /\ Persists(x, y) /\ ~y.end /\ y.stk # <<>> /\ Stack(y.stk)
             /\ Kept(y, AtTop(y)) /\ Top(y).node = q /\ q \in DOMAIN tree
             /\ \A z \in TSet : /\ AheadIn(y.stk, Below(y), z) <=> Ahead(x.stk, z)
                                /\ BehindIn(y.stk, Below(y), z) <=> Behind(x.stk, z)
                                /\ Under(q, z) <=> z = q \/ \E f \in tree[q].edges : Under(ChildOf(q, f), z)
                                /\ z = q => tree[q].term # NoVal
  <1> DEFINE y == Enter(x, q, 0, c)
  <1>1. q \in DOMAIN tree /\ ~x.end
    BY DEF Down, WayTo
  <1>2. ~IsLeaf(tree, q) /\ 0 \in Int
    BY <1>1, RouterHas
  <1>3. /\ y \in Iter /\ Persists(x, y) /\ y.stk # <<>> /\ Stack(y.stk) /\ Kept(y, AtTop(y))
        /\ Top(y).node = q
        /\ \A z : /\ AheadIn(y.stk, Below(y), z) <=> Ahead(x.stk, z)
                  /\ BehindIn(y.stk, Below(y), z) <=> Behind(x.stk, z)
    BY <1>2, Entered
  <1>4. \A z \in TSet : /\ Under(q, z) <=> z = q \/ \E f \in tree[q].edges : Under(ChildOf(q, f), z)
                        /\ z = q => tree[q].term # NoVal
    BY <1>1, UnderRouter
  <1>5. ~y.end
    BY <1>1, <1>3 DEF Persists
  <1> QED
    BY <1>1, <1>3, <1>4, <1>5

LEMMA MinTermOK ==
  ASSUME Trunk, NEW x \in Iter, x.live, NEW a, AskOK(a), NEW q, NEW c, MinAt(x, q, c, a),
         IsRouter(tree, q), tree[q].term # NoVal
  PROVE  LET y == EmitTerm(Enter(x, q, 0, c))
         IN  Mode(y, Landing(y, a), a)
  <1> DEFINE y == Enter(x, q, 0, c)
  <1>1. /\ y \in Iter /\ Persists(x, y) /\ ~y.end /\ y.stk # <<>> /\ Stack(y.stk)
        /\ Kept(y, AtTop(y)) /\ Top(y).node = q
        /\ \A z \in TSet : AheadIn(y.stk, Below(y), z) <=> Ahead(x.stk, z)
    BY RouterDown DEF MinAt
  <1> HIDE DEF y
  <1>2. \A z \in TSet : Wanted(a, z) <=> AheadIn(y.stk, Below(y), z) \/ Under(Top(y).node, z)
    BY <1>1 DEF MinAt
  <1>3. y.live /\ a.op \in Fore /\ Erased(a)
    BY <1>1 DEF Persists, MinAt
  <1> QED
    BY <1>1, <1>2, <1>3, TermLands DEF y

LEMMA MinEdgeDownOK ==
  ASSUME Trunk, NEW x \in Iter, x.live, NEW a, AskOK(a), NEW q, NEW c, MinAt(x, q, c, a),
         IsRouter(tree, q), tree[q].term = NoVal
  PROVE  LET y == Enter(x, q, 0, c)
             e == MinEdge(tree[q].edges)
         IN  Mode(Take(y, e), Go("min", ChildOf(q, e), Len(Take(y, e).key)), a)
  <1> DEFINE y == Enter(x, q, 0, c)
             E == tree[q].edges
  <1>1. /\ y \in Iter /\ Persists(x, y) /\ ~y.end /\ y.stk # <<>> /\ Stack(y.stk)
        /\ Kept(y, AtTop(y)) /\ Top(y).node = q /\ q \in DOMAIN tree
        /\ \A z \in TSet : /\ AheadIn(y.stk, Below(y), z) <=> Ahead(x.stk, z)
                           /\ Under(q, z) <=> z = q \/ \E f \in E : Under(ChildOf(q, f), z)
                           /\ z # q
    BY RouterDown DEF MinAt
  <1> HIDE DEF y
  <1>2. \A z \in TSet : Wanted(a, z) <=>
          AheadIn(y.stk, Below(y), z) \/ \E f \in E : Under(ChildOf(q, f), z)
    BY <1>1 DEF MinAt
  <1>3. y.live /\ a.op \in Fore /\ Erased(a)
    BY <1>1 DEF Persists, MinAt
  <1>4. E # {} /\ E \subseteq tree[q].edges
    BY <1>1, RouterHas
  <1>5. \A e \in E, f \in tree[q].edges : Taken(q, f) > Taken(q, e) => f \in E
    OBVIOUS
  <1> HIDE DEF E
  <1> QED
    BY <1>1, <1>2, <1>3, <1>4, <1>5, EdgeDownMin DEF y, E

LEMMA MaxTermOK ==
  ASSUME Trunk, NEW x \in Iter, x.live, NEW a, AskOK(a), NEW q, NEW c, MaxAt(x, q, c, a),
         IsRouter(tree, q), tree[q].edges = {}
  PROVE  LET y == EmitTerm(Enter(x, q, 0, c))
         IN  Mode(y, Landing(y, a), a)
  <1> DEFINE y == Enter(x, q, 0, c)
  <1>1. /\ y \in Iter /\ Persists(x, y) /\ ~y.end /\ y.stk # <<>> /\ Stack(y.stk)
        /\ Kept(y, AtTop(y)) /\ Top(y).node = q /\ q \in DOMAIN tree
        /\ \A z \in TSet : /\ BehindIn(y.stk, Below(y), z) <=> Behind(x.stk, z)
                           /\ Under(q, z) <=> z = q
    BY RouterDown DEF MaxAt
  <1> HIDE DEF y
  <1>2. \A z \in TSet : Wanted(a, z) <=> BehindIn(y.stk, Below(y), z) \/ z = Top(y).node
    BY <1>1 DEF MaxAt
  <1>3. y.live /\ a.op = "prev" /\ Erased(a)
    BY <1>1 DEF Persists, MaxAt, Erased
  <1>4. tree[q].term # NoVal
    BY <1>1, RouterHas
  <1> QED
    BY <1>1, <1>2, <1>3, <1>4, TermLands DEF y

LEMMA MaxEdgeDownOK ==
  ASSUME Trunk, NEW x \in Iter, x.live, NEW a, AskOK(a), NEW q, NEW c, MaxAt(x, q, c, a),
         IsRouter(tree, q), tree[q].edges # {}
  PROVE  LET y == Enter(x, q, 0, c)
             e == MaxEdge(tree[q].edges)
         IN  Mode(Take(y, e), Go("max", ChildOf(q, e), Len(Take(y, e).key)), a)
  <1> DEFINE y == Enter(x, q, 0, c)
             E == tree[q].edges
  <1>1. /\ y \in Iter /\ Persists(x, y) /\ ~y.end /\ y.stk # <<>> /\ Stack(y.stk)
        /\ Kept(y, AtTop(y)) /\ Top(y).node = q /\ q \in DOMAIN tree
        /\ \A z \in TSet : /\ BehindIn(y.stk, Below(y), z) <=> Behind(x.stk, z)
                           /\ Under(q, z) <=> z = q \/ \E f \in E : Under(ChildOf(q, f), z)
    BY RouterDown DEF MaxAt
  <1> HIDE DEF y
  <1>2. \A z \in TSet : Wanted(a, z) <=>
          BehindIn(y.stk, Below(y), z) \/ z = q \/ \E f \in E : Under(ChildOf(q, f), z)
    BY <1>1 DEF MaxAt
  <1>3. y.live /\ a.op = "prev"
    BY <1>1 DEF Persists, MaxAt
  <1>4. \A e \in E, f \in tree[q].edges : Taken(q, f) < Taken(q, e) => f \in E
    OBVIOUS
  <1>5. E # {} /\ E \subseteq tree[q].edges
    OBVIOUS
  <1> HIDE DEF E
  <1> QED
    BY <1>1, <1>2, <1>3, <1>4, <1>5, EdgeDownMax DEF y, E

LEMMA SeekEndOK ==
  ASSUME Trunk, NEW x \in Iter, x.live, NEW a, AskOK(a), x.stk = <<>>,
         Seeking(x, a) \/ Retreating(x, a)
  PROVE  Mode(Off(x), Landing(Off(x), a), a)
  <1>1. \A z : ~Ahead(x.stk, z) /\ ~Behind(x.stk, z)
    BY DEF Ahead, Behind
  <1>2. NoneWanted(a) /\ Kept(x, AtTop(x)) /\ a.op \in Fore \cup {"prev"}
    BY <1>1 DEF NoneWanted, Seeking, Retreating
  <1>3. Erased(a)
    BY DEF Seeking, Retreating, Erased
  <1> QED
    BY <1>2, <1>3, RunsOut

LEMMA SeekPnOK ==
  ASSUME Trunk, NEW x \in Iter, x.live, NEW a, AskOK(a), Seeking(x, a), x.stk # <<>>,
         IsPn(tree, Top(x).node), Top(x).cur = 0
  PROVE  Mode(SetTop(x, 1), Go("min", At(tree, Top(x).node), Top(x).cbase), a)
  <1> DEFINE y == SetTop(x, 1)
             p == Top(x).node
             m == Len(x.stk) - 1
             c == At(tree, p)
  <1>1. /\ p \in DOMAIN tree /\ m \in Nat /\ m + 1 = Len(x.stk) /\ Top(x) = x.stk[m + 1]
        /\ ~IsRouter(tree, p) /\ Stack(x.stk) /\ ~x.end /\ AtTop(x) = c /\ Kept(x, c)
        /\ m + 1 \in 1 .. Len(x.stk)
    <2>1. Stack(x.stk) /\ ~x.end /\ Kept(x, AtTop(x))
      BY DEF Seeking
    <2> QED
      BY <2>1, WayToTop DEF AtTop
  <1>2. /\ y \in Iter /\ Persists(x, y) /\ y.key = x.key /\ Len(y.stk) = m + 1 /\ y.stk # <<>>
        /\ \A i \in 1 .. m : y.stk[i] = x.stk[i]
        /\ y.stk[m + 1].node = p /\ y.stk[m + 1].cur = 1
    <2>1. 1 \in Int
      OBVIOUS
    <2> HIDE DEF m
    <2>2. m = Len(x.stk) - 1
      BY DEF m
    <2> QED
      BY <1>1, <2>1, <2>2, SetTopIs
  <1>3. Stack(y.stk) /\ (Lens(x.stk) => Lens(y.stk))
    BY <1>1, SetTopKeeps
  <1> HIDE DEF y, m
  <1>4. Top(y) = y.stk[m + 1] /\ Below(y) = m /\ Below(x) = m
    BY <1>1, <1>2 DEF Top, Below
  <1>5. WayTo(y, c)
    BY <1>2, <1>3, <1>4, PnWay
  <1>6. Kept(y, c)
    BY <1>1, <1>2, <1>3 DEF Kept, Persists
  <1>7. x.maintain => Top(x).cbase = Len(c)
    BY <1>1 DEF Kept, Lens
  <1>8. Down(y, c, Top(x).cbase)
    BY <1>1, <1>2, <1>5, <1>6, <1>7 DEF Down, Persists
  <1>9. \A z : AheadIn(y.stk, m, z) <=> AheadIn(x.stk, m, z)
    BY <1>2 DEF AheadIn
  <1>10. \A z : ~Pends(Top(y), z) /\ (Pends(Top(x), z) <=> Under(c, z))
    BY <1>1, <1>2, <1>4 DEF Pends, Under
  <1>11. \A z : /\ Ahead(y.stk, z) <=> AheadIn(x.stk, m, z)
                /\ Ahead(x.stk, z) <=> AheadIn(x.stk, m, z) \/ Under(c, z)
    BY <1>1, <1>2, <1>3, <1>4, <1>9, <1>10, TopSplit
  <1>12. MinAt(y, c, Top(x).cbase, a)
    BY <1>8, <1>11 DEF MinAt, Seeking
  <1> QED
    BY <1>2, <1>12 DEF Mode, Go, Persists, y

\* What holds of the frame on top of a seeking iterator.
LEMMA SeekTop ==
  ASSUME Trunk, NEW x \in Iter, NEW a, Seeking(x, a), x.stk # <<>>
  PROVE  /\ ~x.end /\ Stack(x.stk) /\ Kept(x, AtTop(x)) /\ a.op \in Fore /\ Erased(a)
         /\ Top(x).node \in DOMAIN tree
         /\ \A z \in TSet : Wanted(a, z) <=> AheadIn(x.stk, Below(x), z) \/ Pends(Top(x), z)
         /\ IsRouter(tree, Top(x).node) => ~IsPn(tree, Top(x).node)
         /\ IsPn(tree, Top(x).node) \/ IsRouter(tree, Top(x).node)
         /\ \A z \in TSet : z = Top(x).node /\ IsRouter(tree, Top(x).node) => tree[Top(x).node].term # NoVal
  <1>1. ~x.end /\ Stack(x.stk) /\ Kept(x, AtTop(x)) /\ a.op \in Fore /\ Erased(a)
    BY DEF Seeking
  <1>2. \A z : Ahead(x.stk, z) <=> AheadIn(x.stk, Below(x), z) \/ Pends(Top(x), z)
    BY <1>1, TopSplit
  <1>3. \A z \in TSet : Wanted(a, z) <=> AheadIn(x.stk, Below(x), z) \/ Pends(Top(x), z)
    BY <1>2 DEF Seeking
  <1>4. /\ Top(x).node \in DOMAIN tree
        /\ IsRouter(tree, Top(x).node) => ~IsPn(tree, Top(x).node)
        /\ IsPn(tree, Top(x).node) \/ IsRouter(tree, Top(x).node)
    BY <1>1, WayToTop
  <1>5. \A z \in TSet : z = Top(x).node /\ IsRouter(tree, Top(x).node) => tree[Top(x).node].term # NoVal
    BY <1>4, UnderRouter
  <1> QED
    BY <1>1, <1>3, <1>4, <1>5

LEMMA SeekTermOK ==
  ASSUME Trunk, NEW x \in Iter, x.live, NEW a, AskOK(a), Seeking(x, a), x.stk # <<>>,
         IsRouter(tree, Top(x).node), Top(x).cur = -1, tree[Top(x).node].term # NoVal
  PROVE  Mode(EmitTerm(x), Landing(EmitTerm(x), a), a)
  <1> DEFINE p == Top(x).node
  <1>1. /\ ~x.end /\ Stack(x.stk) /\ Kept(x, AtTop(x)) /\ a.op \in Fore /\ Erased(a)
        /\ p \in DOMAIN tree /\ ~IsPn(tree, p)
        /\ \A z \in TSet : Wanted(a, z) <=> AheadIn(x.stk, Below(x), z) \/ Pends(Top(x), z)
    BY SeekTop
  <1>2. \A e \in tree[p].edges : Taken(p, e) > -1
    <2>1. \A e \in tree[p].edges : Taken(p, e) \in Nat
      BY <1>1, TakenIs
    <2> QED
      BY <2>1
  <1>3. \A z \in TSet : Pends(Top(x), z) <=> Under(p, z)
    <2>1. \A z \in TSet : Under(p, z) <=> z = p \/ \E e \in tree[p].edges : Under(ChildOf(p, e), z)
      BY <1>1, UnderRouter
    <2>2. \A z : Pends(Top(x), z) <=> z = p \/ \E e \in tree[p].edges : Under(ChildOf(p, e), z)
      BY <1>1, <1>2 DEF Pends, Under
    <2> QED
      BY <2>1, <2>2
  <1>4. \A z \in TSet : Wanted(a, z) <=> AheadIn(x.stk, Below(x), z) \/ Under(p, z)
    BY <1>1, <1>3
  <1> QED
    BY <1>1, <1>4, TermLands

LEMMA SeekEdgeOK ==
  ASSUME Trunk, NEW x \in Iter, x.live, NEW a, AskOK(a), Seeking(x, a), x.stk # <<>>,
         IsRouter(tree, Top(x).node), ~(Top(x).cur = -1 /\ tree[Top(x).node].term # NoVal),
         EdgesFrom(Top(x).node, Top(x).cur) # {}
  PROVE  LET e == MinEdge(EdgesFrom(Top(x).node, Top(x).cur))
         IN  Mode(Take(x, e), Go("min", ChildOf(Top(x).node, e), Len(Take(x, e).key)), a)
  <1> DEFINE p == Top(x).node
             E == EdgesFrom(p, Top(x).cur)
  <1>1. /\ ~x.end /\ Stack(x.stk) /\ Kept(x, AtTop(x)) /\ a.op \in Fore /\ Erased(a)
        /\ p \in DOMAIN tree /\ ~IsPn(tree, p)
        /\ \A z \in TSet : Wanted(a, z) <=> AheadIn(x.stk, Below(x), z) \/ Pends(Top(x), z)
        /\ \A z \in TSet : z = p => tree[p].term # NoVal
    BY SeekTop
  <1>2. \A z \in TSet : Pends(Top(x), z) <=> \E e \in E : Under(ChildOf(p, e), z)
    BY <1>1 DEF Pends, Under, EdgesFrom
  <1>3. E \subseteq tree[p].edges /\ E # {}
    BY DEF EdgesFrom
  <1>4. \A e \in E, f \in tree[p].edges : Taken(p, f) > Taken(p, e) => f \in E
    <2> SUFFICES ASSUME NEW e \in E, NEW f \in tree[p].edges, Taken(p, f) > Taken(p, e)
                 PROVE  f \in E
      OBVIOUS
    <2>1. Taken(p, f) \in Nat /\ Taken(p, e) \in Nat
      BY <1>1, <1>3, TakenIs
    <2>2. Taken(p, e) > Top(x).cur /\ Top(x).cur \in Int
      BY <1>1, WayToTop DEF EdgesFrom
    <2> QED
      BY <2>1, <2>2 DEF EdgesFrom
  <1>5. \A z \in TSet : Wanted(a, z) <=>
          AheadIn(x.stk, Below(x), z) \/ \E e \in E : Under(ChildOf(p, e), z)
    BY <1>1, <1>2
  <1> HIDE DEF E
  <1> QED
    BY <1>1, <1>3, <1>4, <1>5, EdgeDownMin DEF E

LEMMA KeptUp ==
  ASSUME NEW x \in Iter, NEW p \in Path, NEW q \in Path, Kept(x, p), StartsWith(p, q)
  PROVE  Kept(x, q)
  BY IterIs, StartsTrans DEF Kept

\* The last frame leads nowhere any more and is popped.
LEMMA PopIs ==
  ASSUME Trunk, NEW x \in Iter, x.stk # <<>>, Stack(x.stk), Kept(x, AtTop(x))
  PROVE  LET y == PopTop(x)
         IN  /\ y \in Iter /\ Persists(x, y) /\ Stack(y.stk) /\ Kept(y, AtTop(y))
             /\ \A z : /\ Ahead(y.stk, z) <=> AheadIn(x.stk, Below(x), z)
                       /\ Behind(y.stk, z) <=> BehindIn(x.stk, Below(x), z)
  <1> DEFINE y == PopTop(x)
             m == Below(x)
             p == Top(x).node
  <1>1. /\ m \in Nat /\ m + 1 = Len(x.stk) /\ p \in Path /\ Trail(x.stk, m, p) /\ m = Len(x.stk) - 1
    BY WayToTop DEF Below
  <1>2. /\ y \in Iter /\ Persists(x, y) /\ Len(y.stk) = m
        /\ \A i \in 1 .. m : y.stk[i] = x.stk[i]
        /\ Stack(y.stk) /\ Kept(y, p)
    BY <1>1, PopTopIs DEF AtTop
  <1> HIDE DEF y, p
  <1>3. \A z : /\ AheadIn(y.stk, m, z) <=> AheadIn(x.stk, m, z)
               /\ BehindIn(y.stk, m, z) <=> BehindIn(x.stk, m, z)
    BY <1>2 DEF AheadIn, BehindIn
  <1>4. \A z : /\ Ahead(y.stk, z) <=> AheadIn(x.stk, m, z)
               /\ Behind(y.stk, z) <=> BehindIn(x.stk, m, z)
    BY <1>2, <1>3, AheadOf
  <1>5. AtTop(y) \in Path /\ StartsWith(p, AtTop(y))
    <2>1. CASE y.stk = <<>>
      BY <1>1, <2>1, EmptyPath, PathFacts, StartsWithIff DEF AtTop
    <2>2. CASE y.stk # <<>>
      <3>1. m \in 1 .. m /\ Top(y) = x.stk[m] /\ Top(y) = y.stk[m]
        BY <1>2, <2>2, IterIs DEF Top
      <3>2. Inner(y.stk[m]) /\ Aims(x.stk[m], p)
        BY <1>1, <1>2, <3>1 DEF Stack, Trail
      <3>3. At(tree, Top(y).node) \in Path /\ StartsWith(p, At(tree, Top(y).node))
        BY <1>1, <3>1, <3>2, InnerIs, AimsUnder
      <3> QED
        BY <2>2, <3>3 DEF AtTop
    <2> QED
      BY <2>1, <2>2
  <1>6. Kept(y, AtTop(y))
    BY <1>1, <1>2, <1>5, KeptUp
  <1> HIDE DEF m
  <1> QED
    BY <1>2, <1>4, <1>6 DEF y, m

LEMMA SeekPopOK ==
  ASSUME Trunk, NEW x \in Iter, x.live, NEW a, AskOK(a), Seeking(x, a), x.stk # <<>>,
         IsPn(tree, Top(x).node) => Top(x).cur # 0,
         IsRouter(tree, Top(x).node) =>
           /\ ~(Top(x).cur = -1 /\ tree[Top(x).node].term # NoVal)
           /\ EdgesFrom(Top(x).node, Top(x).cur) = {},
         NEW g, g.do = "seek"
  PROVE  Mode(PopTop(x), g, a)
  <1> DEFINE y == PopTop(x)
             p == Top(x).node
  <1>1. /\ ~x.end /\ Stack(x.stk) /\ Kept(x, AtTop(x)) /\ a.op \in Fore /\ Erased(a)
        /\ p \in DOMAIN tree
        /\ \A z \in TSet : Wanted(a, z) <=> AheadIn(x.stk, Below(x), z) \/ Pends(Top(x), z)
        /\ \A z \in TSet : z = p /\ IsRouter(tree, p) => tree[p].term # NoVal
    BY SeekTop
  <1>2. \A z \in TSet : ~Pends(Top(x), z)
    BY <1>1 DEF Pends, EdgesFrom
  <1>3. /\ y \in Iter /\ Persists(x, y) /\ Stack(y.stk) /\ Kept(y, AtTop(y))
        /\ \A z : Ahead(y.stk, z) <=> AheadIn(x.stk, Below(x), z)
    BY <1>1, PopIs
  <1> HIDE DEF y
  <1>4. \A z \in TSet : Wanted(a, z) <=> Ahead(y.stk, z)
    BY <1>1, <1>2, <1>3
  <1>5. Seeking(y, a)
    BY <1>1, <1>3, <1>4 DEF Seeking, Persists
  <1> QED
    BY <1>3, <1>5 DEF Mode, Persists, y

\* What holds of the frame on top of a retreating iterator.
LEMMA RetreatTop ==
  ASSUME Trunk, NEW x \in Iter, NEW a, Retreating(x, a), x.stk # <<>>
  PROVE  /\ ~x.end /\ Stack(x.stk) /\ Kept(x, AtTop(x)) /\ a.op = "prev" /\ Erased(a)
         /\ Top(x).node \in DOMAIN tree
         /\ \A z \in TSet : Wanted(a, z) <=> BehindIn(x.stk, Below(x), z) \/ Passed(Top(x), z)
         /\ \A z \in TSet : z = Top(x).node /\ IsRouter(tree, Top(x).node) => tree[Top(x).node].term # NoVal
  <1>1. ~x.end /\ Stack(x.stk) /\ Kept(x, AtTop(x)) /\ a.op = "prev" /\ Erased(a)
    BY DEF Retreating, Erased
  <1>2. \A z : Behind(x.stk, z) <=> BehindIn(x.stk, Below(x), z) \/ Passed(Top(x), z)
    BY <1>1, TopSplit
  <1>3. \A z \in TSet : Wanted(a, z) <=> BehindIn(x.stk, Below(x), z) \/ Passed(Top(x), z)
    BY <1>2 DEF Retreating
  <1>4. Top(x).node \in DOMAIN tree
    BY <1>1, WayToTop
  <1>5. \A z \in TSet : z = Top(x).node /\ IsRouter(tree, Top(x).node) => tree[Top(x).node].term # NoVal
    BY <1>4, UnderRouter
  <1> QED
    BY <1>1, <1>3, <1>4, <1>5

LEMMA RetreatEdgeOK ==
  ASSUME Trunk, NEW x \in Iter, x.live, NEW a, AskOK(a), Retreating(x, a), x.stk # <<>>,
         IsRouter(tree, Top(x).node), EdgesBefore(Top(x).node, Top(x).cur) # {}
  PROVE  LET e == MaxEdge(EdgesBefore(Top(x).node, Top(x).cur))
         IN  Mode(Take(x, e), Go("max", ChildOf(Top(x).node, e), Len(Take(x, e).key)), a)
  <1> DEFINE p == Top(x).node
             E == EdgesBefore(p, Top(x).cur)
  <1>1. /\ ~x.end /\ Stack(x.stk) /\ Kept(x, AtTop(x)) /\ a.op = "prev"
        /\ p \in DOMAIN tree
        /\ \A z \in TSet : Wanted(a, z) <=> BehindIn(x.stk, Below(x), z) \/ Passed(Top(x), z)
    BY RetreatTop
  <1>2. E \subseteq tree[p].edges /\ E # {}
    BY DEF EdgesBefore
  <1>3. /\ \A f \in tree[p].edges : Taken(p, f) \in Nat /\ Taken(p, f) > 0
        /\ Top(x).cur \in Int
    BY <1>1, TakenIs, WayToTop
  <1>4. Top(x).cur >= 1
    <2>1. PICK e \in E : e \in tree[p].edges /\ Taken(p, e) < Top(x).cur
      BY <1>2 DEF EdgesBefore
    <2>2. Taken(p, e) \in Nat /\ Taken(p, e) > 0
      BY <1>3, <2>1
    <2> QED
      BY <1>3, <2>1, <2>2
  <1>5. \A z \in TSet : Passed(Top(x), z) <=> z = p \/ \E e \in E : Under(ChildOf(p, e), z)
    BY <1>1, <1>4 DEF Passed, Under, EdgesBefore
  <1>6. \A e \in E, f \in tree[p].edges : Taken(p, f) < Taken(p, e) => f \in E
    <2> SUFFICES ASSUME NEW e \in E, NEW f \in tree[p].edges, Taken(p, f) < Taken(p, e)
                 PROVE  f \in E
      OBVIOUS
    <2>1. Taken(p, f) \in Nat /\ Taken(p, e) \in Nat /\ Top(x).cur \in Int
      BY <1>2, <1>3
    <2>2. Taken(p, e) < Top(x).cur
      BY DEF EdgesBefore
    <2>3. Taken(p, f) < Top(x).cur
      BY <2>1, <2>2
    <2> QED
      BY <2>3 DEF EdgesBefore
  <1>7. \A z \in TSet : Wanted(a, z) <=>
          BehindIn(x.stk, Below(x), z) \/ z = p \/ \E e \in E : Under(ChildOf(p, e), z)
    BY <1>1, <1>5
  <1> HIDE DEF E
  <1> QED
    BY <1>1, <1>2, <1>6, <1>7, EdgeDownMax DEF E

LEMMA RetreatTermOK ==
  ASSUME Trunk, NEW x \in Iter, x.live, NEW a, AskOK(a), Retreating(x, a), x.stk # <<>>,
         IsRouter(tree, Top(x).node), EdgesBefore(Top(x).node, Top(x).cur) = {},
         Top(x).cur >= 1, tree[Top(x).node].term # NoVal
  PROVE  Mode(EmitTerm(x), Landing(EmitTerm(x), a), a)
  <1> DEFINE p == Top(x).node
  <1>1. /\ ~x.end /\ Stack(x.stk) /\ Kept(x, AtTop(x)) /\ a.op = "prev" /\ Erased(a)
        /\ \A z \in TSet : Wanted(a, z) <=> BehindIn(x.stk, Below(x), z) \/ Passed(Top(x), z)
    BY RetreatTop
  <1>2. \A z \in TSet : Passed(Top(x), z) <=> z = p
    BY DEF Passed, EdgesBefore
  <1>3. \A z \in TSet : Wanted(a, z) <=> BehindIn(x.stk, Below(x), z) \/ z = p
    BY <1>1, <1>2
  <1> QED
    BY <1>1, <1>3, TermLands

LEMMA RetreatPopOK ==
  ASSUME Trunk, NEW x \in Iter, x.live, NEW a, AskOK(a), Retreating(x, a), x.stk # <<>>,
         IsRouter(tree, Top(x).node) =>
           /\ EdgesBefore(Top(x).node, Top(x).cur) = {}
           /\ Top(x).cur < 1 \/ tree[Top(x).node].term = NoVal,
         NEW g, g.do = "retreat"
  PROVE  Mode(PopTop(x), g, a)
  <1> DEFINE y == PopTop(x)
             p == Top(x).node
  <1>1. /\ ~x.end /\ Stack(x.stk) /\ Kept(x, AtTop(x)) /\ a.op = "prev"
        /\ \A z \in TSet : Wanted(a, z) <=> BehindIn(x.stk, Below(x), z) \/ Passed(Top(x), z)
        /\ \A z \in TSet : z = p /\ IsRouter(tree, p) => tree[p].term # NoVal
    BY RetreatTop
  <1>2. Top(x).cur \in Int
    BY <1>1, WayToTop
  <1>3. \A z \in TSet : ~Passed(Top(x), z)
    BY <1>1, <1>2 DEF Passed, EdgesBefore
  <1>4. /\ y \in Iter /\ Persists(x, y) /\ Stack(y.stk) /\ Kept(y, AtTop(y))
        /\ \A z : Behind(y.stk, z) <=> BehindIn(x.stk, Below(x), z)
    BY <1>1, PopIs
  <1> HIDE DEF y
  <1>5. \A z \in TSet : Wanted(a, z) <=> Behind(y.stk, z)
    BY <1>1, <1>3, <1>4
  <1>6. Retreating(y, a)
    BY <1>1, <1>4, <1>5 DEF Retreating, Persists
  <1> QED
    BY <1>4, <1>6 DEF Mode, Persists, y

-----------------------------------------------------------------------------
(* The steps of descend_lb_.                                               *)

LEMMA FrameLike ==
  ASSUME NEW fr, NEW p, NEW cur, fr.node = p, fr.cur = cur, NEW z
  PROVE  /\ Pends(fr, z) <=> Pends(Frame(p, cur, 0, 0), z)
         /\ Aims(fr, z) <=> Aims(Frame(p, cur, 0, 0), z)
  BY DEF Pends, Aims, Frame

LEMMA BoundWants ==
  ASSUME Trunk, NEW a, AskOK(a), a.op \in Bounds, NEW z \in TSet
  PROVE  /\ a.key \in Path
         /\ Ord!Less(a.key, Key(z)) => Wanted(a, z)
         /\ Ord!Less(Key(z), a.key) => ~Wanted(a, z)
         /\ Key(z) = a.key => (Wanted(a, z) <=> a.op # "upper")
  <1>1. a.key \in Path /\ Key(z) \in Path
    BY TerminalIs DEF AskOK
  <1>2. ~(Ord!Less(a.key, Key(z)) /\ Ord!Less(Key(z), a.key))
    BY <1>1, LessOneWay
  <1>3. ~Ord!Less(a.key, a.key)
    BY <1>1, LessNever
  <1> QED
    BY <1>1, <1>2, <1>3 DEF Wanted, Bounds

\* What is wanted above the slot the descent is at is ahead of its frames.
LEMMA LbSides ==
  ASSUME Trunk, NEW x \in Iter, NEW a, AskOK(a), NEW q, LbAt(x, q, a), NEW z \in TSet
  PROVE  /\ Ahead(x.stk, z) => Wanted(a, z)
         /\ Wanted(a, z) => Ahead(x.stk, z) \/ Under(q, z)
  <1> DEFINE s == x.stk
             k == a.key
  <1>1. /\ Len(s) \in Nat /\ Len(s) <= Len(s) /\ Stack(s) /\ Trail(s, Len(s), q)
        /\ q \in DOMAIN tree /\ q \in Path /\ StartsWith(k, q) /\ a.op \in Bounds
    BY IterIs, KindIs DEF LbAt, WayTo
  <1>2. /\ k \in Path
        /\ Ord!Less(k, Key(z)) => Wanted(a, z)
        /\ Ord!Less(Key(z), k) => ~Wanted(a, z)
    BY <1>1, BoundWants
  <1>3. \A i \in 1 .. Len(s) : Aims(s[i], q)
    BY <1>1 DEF Trail
  <1> HIDE DEF s, k
  <1>4. AheadIn(s, Len(s), z) => Ord!Less(k, Key(z))
    BY <1>1, <1>2, <1>3, AheadAfter
  <1>5. ~Under(q, z) => AheadIn(s, Len(s), z) \/ BehindIn(s, Len(s), z)
    BY <1>1, Sides DEF Under, AheadIn, BehindIn
  <1>6. BehindIn(s, Len(s), z) => Ord!Less(Key(z), k)
    BY <1>1, <1>2, <1>3, AheadAfter
  <1>7. Ahead(s, z) <=> AheadIn(s, Len(s), z)
    BY AheadOf
  <1> QED
    BY <1>2, <1>4, <1>5, <1>6, <1>7 DEF s

LEMMA LbDown ==
  ASSUME NEW x, NEW q, NEW a, LbAt(x, q, a)
  PROVE  Down(x, q, 0) /\ q \in DOMAIN tree /\ a.op \in Bounds /\ a.op \in Fore /\ Erased(a)
  BY DEF LbAt, Down, Kept, WayTo, Fore

\* The descent ends in a frame that pends just what is wanted below it.
LEMMA LbSeeks ==
  ASSUME Trunk, NEW x \in Iter, x.live, NEW a, AskOK(a), NEW q, LbAt(x, q, a), ~IsLeaf(tree, q),
         NEW cur \in Int,
         \A z \in TSet : Under(q, z) => (Wanted(a, z) <=> Pends(Frame(q, cur, 0, 0), z))
  PROVE  Mode(Enter(x, q, cur, 0), Go("seek", <<>>, 0), a)
  <1> DEFINE y == Enter(x, q, cur, 0)
  <1>1. /\ Down(x, q, 0) /\ q \in DOMAIN tree /\ a.op \in Fore /\ Erased(a) /\ ~x.end
    BY LbDown DEF LbAt
  <1>2. /\ y \in Iter /\ Persists(x, y) /\ y.stk # <<>> /\ Stack(y.stk) /\ Kept(y, AtTop(y))
        /\ Top(y).node = q /\ Top(y).cur = cur
        /\ \A z : AheadIn(y.stk, Below(y), z) <=> Ahead(x.stk, z)
    BY <1>1, Entered
  <1> HIDE DEF y
  <1>3. \A z : Ahead(y.stk, z) <=> Ahead(x.stk, z) \/ Pends(Frame(q, cur, 0, 0), z)
    <2>1. \A z : Ahead(y.stk, z) <=> AheadIn(y.stk, Below(y), z) \/ Pends(Top(y), z)
      BY <1>2, TopSplit
    <2>2. \A z : Pends(Top(y), z) <=> Pends(Frame(q, cur, 0, 0), z)
      BY <1>2, FrameLike
    <2> QED
      BY <1>2, <2>1, <2>2
  <1>4. ASSUME NEW z \in TSet, Pends(Frame(q, cur, 0, 0), z)
        PROVE  Under(q, z)
    <2>1. Frame(q, cur, 0, 0).node = q
      BY DEF Frame
    <2>2. CASE IsPn(tree, q)
      <3>1. ~IsRouter(tree, q)
        BY <1>1, <2>2, KindIs
      <3>2. Under(At(tree, q), z)
        BY <1>4, <2>1, <2>2, <3>1 DEF Pends, Under
      <3> QED
        BY <1>1, <2>2, <3>2, UnderPn
    <2>3. CASE IsRouter(tree, q)
      <3>1. ~IsPn(tree, q)
        BY <1>1, <2>3, KindIs
      <3>2. z = q \/ \E e \in tree[q].edges : Under(ChildOf(q, e), z)
        BY <1>4, <2>1, <2>3, <3>1 DEF Pends, Under
      <3> QED
        BY <1>1, <2>3, <3>2, UnderRouter
    <2> QED
      BY <1>1, <2>2, <2>3, KindIs
  <1>5. \A z \in TSet : Wanted(a, z) <=> Ahead(y.stk, z)
    BY <1>3, <1>4, LbSides
  <1>6. Seeking(y, a)
    BY <1>1, <1>2, <1>5 DEF Seeking, Persists
  <1> QED
    BY <1>2, <1>6 DEF Mode, Go, Persists, y

\* The descent goes on to a child that the key starts with.
LEMMA LbGoesOn ==
  ASSUME Trunk, NEW x \in Iter, x.live, NEW a, AskOK(a), NEW q, LbAt(x, q, a), ~IsLeaf(tree, q),
         NEW cur \in Int, NEW c \in KidsOf(q, tree[q]), Aims(Frame(q, cur, 0, 0), c),
         StartsWith(a.key, c)
  PROVE  Mode(Enter(x, q, cur, 0), Go("lb", c, 0), a)
  <1> DEFINE y == Enter(x, q, cur, 0)
             m == Len(x.stk)
  <1>1. /\ q \in DOMAIN tree /\ ~x.maintain /\ x.key = <<>> /\ ~x.end /\ Stack(x.stk) /\ Trail(x.stk, m, q)
        /\ Kept(x, q) /\ m \in Nat /\ a.op \in Bounds /\ Erased(a)
    BY IterIs DEF LbAt, WayTo, Kept
  <1>2. /\ y \in Iter /\ Persists(x, y) /\ Len(y.stk) = m + 1
        /\ \A i \in 1 .. m : y.stk[i] = x.stk[i]
        /\ y.stk[m + 1].node = q /\ y.stk[m + 1].cur = cur
        /\ Stack(y.stk) /\ Kept(y, At(tree, q))
    BY <1>1, EnterIs
  <1> HIDE DEF y
  <1>3. Trail(y.stk, m, q)
    <2>1. Like(x.stk, y.stk, m)
      BY <1>2 DEF Like
    <2> QED
      BY <1>1, <2>1, TrailLike
  <1>4. \A i \in 1 .. m : Inner(y.stk[i])
    BY <1>1, <1>2 DEF Stack
  <1>5. Aims(y.stk[m + 1], c)
    BY <1>2, FrameLike
  <1> HIDE DEF m
  <1>6. Trail(y.stk, m + 1, c) /\ c \in DOMAIN tree
    BY <1>1, <1>2, <1>3, <1>4, <1>5, TrailOn
  <1>7. LbAt(y, c, a)
    BY <1>1, <1>2, <1>6 DEF LbAt, WayTo, Persists, Kept
  <1> QED
    BY <1>2, <1>7 DEF Mode, Go, Persists, y

\* A key behind p, and what it starts with.
LEMMA RestStarts ==
  ASSUME NEW k \in Path, NEW p \in Path, NEW x \in Path, StartsWith(k, p)
  PROVE  StartsWith(Rest(k, p), x) <=> StartsWith(k, p \o x)
  <1> DEFINE r == Rest(k, p)
  <1>1. r \in Path /\ k = p \o r
    BY RestJoin
  <1>2. Len(p) \in Nat /\ Len(x) \in Nat /\ Len(r) \in Nat
    BY <1>1, PathFacts
  <1>3. StartsWith(r, x) => StartsWith(k, p \o x)
    BY PassPrefix
  <1> HIDE DEF r
  <1>4. ASSUME StartsWith(k, p \o x)
        PROVE  StartsWith(r, x)
    <2>1. /\ Len(p \o x) = Len(p) + Len(x) /\ p \o x \in Path
          /\ \A i \in 1 .. Len(p) + Len(x) : (p \o x)[i] = IF i <= Len(p) THEN p[i] ELSE x[i - Len(p)]
      BY ConcatFacts
    <2>2. /\ Len(p \o r) = Len(p) + Len(r)
          /\ \A i \in 1 .. Len(p) + Len(r) : (p \o r)[i] = IF i <= Len(p) THEN p[i] ELSE r[i - Len(p)]
      BY <1>1, ConcatFacts
    <2>3. Len(p \o x) <= Len(k) /\ \A i \in 1 .. Len(p \o x) : k[i] = (p \o x)[i]
      BY <1>4, <2>1, StartsWithIff
    <2>4. Len(x) <= Len(r)
      BY <1>1, <1>2, <2>1, <2>2, <2>3
    <2>5. ASSUME NEW i \in 1 .. Len(x)
          PROVE  r[i] = x[i]
      <3>1. Len(p) + i \in 1 .. Len(p) + Len(x) /\ Len(p) + i \in 1 .. Len(p) + Len(r)
            /\ ~(Len(p) + i <= Len(p)) /\ (Len(p) + i) - Len(p) = i
        BY <1>2, <2>4
      <3>2. k[Len(p) + i] = (p \o x)[Len(p) + i]
        BY <2>1, <2>3, <3>1
      <3>3. (p \o x)[Len(p) + i] = x[i]
        BY <2>1, <3>1
      <3>4. (p \o r)[Len(p) + i] = r[i]
        BY <2>2, <3>1
      <3> QED
        BY <1>1, <3>2, <3>3, <3>4
    <2> QED
      BY <1>1, <2>4, <2>5, StartsWithIff
  <1> QED
    BY <1>3, <1>4 DEF r

\* Where the key parts from a node's prefix decides about all of the subtree.
LEMMA GreaterIs ==
  ASSUME NEW k \in Path, NEW p \in Path, NEW x \in Path, StartsWith(k, p),
         ~StartsWith(Rest(k, p), x)
  PROVE  /\ Greater(x, Rest(k, p)) => Ord!Less(k, p \o x)
         /\ ~Greater(x, Rest(k, p)) => Ord!Less(p \o x, k)
         /\ ~StartsWith(k, p \o x) /\ p \o x \in Path
  <1> DEFINE r == Rest(k, p)
             c == Lcp(x, r)
  <1>1. r \in Path /\ k = p \o r
    BY RestJoin
  <1>2. ~StartsWith(r, x)
    OBVIOUS
  <1>3. ~StartsWith(k, p \o x)
    BY RestStarts
  <1>g. Greater(x, r) <=> (c = Len(r) \/ (c < Len(x) /\ x[c + 1] > r[c + 1]))
    BY DEF Greater
  <1> HIDE DEF r
  <1>4. /\ c \in 0 .. Len(x) /\ c <= Len(r) /\ c < Len(x)
        /\ Front(x, c) = Front(r, c)
        /\ c < Len(r) => x[c + 1] # r[c + 1]
    BY <1>1, <1>2, LcpFacts
  <1> HIDE DEF c
  <1>5. Len(x) \in Nat /\ Len(r) \in Nat /\ c \in Nat /\ c \in 0 .. Len(r)
    BY <1>1, <1>4, PathFacts
  <1>6. \A i \in 1 .. c : x[i] = r[i]
    <2>1. \A i \in 1 .. c : Front(x, c)[i] = x[i]
      BY <1>4, FrontFacts
    <2>2. \A i \in 1 .. c : Front(r, c)[i] = r[i]
      BY <1>1, <1>5, FrontFacts
    <2> QED
      BY <1>4, <2>1, <2>2
  <1>7. c < Len(r) => x[c + 1] \in Nat /\ r[c + 1] \in Nat
    <2>1. c < Len(r) => c + 1 \in 1 .. Len(r) /\ c + 1 \in 1 .. Len(x)
      BY <1>4, <1>5
    <2>2. c < Len(r) => x[c + 1] \in Byte /\ r[c + 1] \in Byte
      BY <1>1, <2>1, PathFacts
    <2> QED
      BY <2>2, MaxByteAssumption DEF Byte
  <1>8. Greater(x, r) => Parting(r, x, c)
    BY <1>g, <1>4, <1>5, <1>6, <1>7 DEF Parting
  <1>9. ~Greater(x, r) => Parting(x, r, c)
    BY <1>g, <1>4, <1>5, <1>6, <1>7 DEF Parting
  <1>10. Greater(x, r) => Ord!Less(r, x)
    BY <1>1, <1>5, <1>8, LessIs
  <1>11. ~Greater(x, r) => Ord!Less(x, r)
    BY <1>1, <1>5, <1>9, LessIs
  <1>12. Greater(x, r) => Ord!Less(k, p \o x)
    BY <1>1, <1>10, ConcatLess
  <1>13. ~Greater(x, r) => Ord!Less(p \o x, k)
    BY <1>1, <1>11, ConcatLess
  <1> QED
    BY <1>3, <1>12, <1>13, ConcatFacts DEF r

\* The leaf the descent ends at is the bound.
LEMMA LbLeafOK ==
  ASSUME Trunk, NEW x \in Iter, x.live, NEW a, AskOK(a), NEW q, LbAt(x, q, a), IsLeaf(tree, q),
         Wanted(a, q)
  PROVE  Mode(Emit(x, q, 0), Landing(Emit(x, q, 0), a), a)
  <1>1. Down(x, q, 0) /\ q \in DOMAIN tree /\ a.op \in Fore /\ Erased(a)
    BY LbDown
  <1>2. \A z \in TSet : Wanted(a, z) => Ahead(x.stk, z) \/ Under(q, z)
    BY LbSides
  <1> QED
    BY <1>1, <1>2, LeafLands

\* ... or smaller than it: what is wanted is ahead.
LEMMA LbLeafPastOK ==
  ASSUME Trunk, NEW x \in Iter, x.live, NEW a, AskOK(a), NEW q, LbAt(x, q, a), IsLeaf(tree, q),
         ~Wanted(a, q)
  PROVE  Mode(x, Go("seek", <<>>, 0), a)
  <1>1. q \in DOMAIN tree /\ a.op \in Fore /\ Erased(a) /\ ~x.end /\ Stack(x.stk)
    BY LbDown DEF LbAt, WayTo
  <1>2. \A z \in TSet : Wanted(a, z) <=> Ahead(x.stk, z)
    BY <1>1, LbSides, UnderLeaf
  <1>3. Kept(x, AtTop(x))
    BY DEF LbAt, Kept
  <1>4. Seeking(x, a)
    BY <1>1, <1>2, <1>3 DEF Seeking
  <1> QED
    BY <1>4 DEF Mode, Go

\* The keys below a node start with its prefix.
LEMMA UnderKey ==
  ASSUME Trunk, NEW q \in DOMAIN tree, ~IsLeaf(tree, q), NEW z \in TSet, Under(q, z)
  PROVE  StartsWith(Key(z), At(tree, q)) /\ Key(z) \in Path /\ z \in Path
  <1>1. /\ z \in DOMAIN tree /\ z \in Path /\ Key(z) \in Path /\ StartsWith(Key(z), z)
        /\ At(tree, q) \in Path
    BY TerminalIs, NodeIs
  <1>2. CASE IsPn(tree, q)
    <2>1. StartsWith(z, At(tree, q))
      BY <1>2, UnderPn DEF Under
    <2> QED
      BY <1>1, <2>1, StartsTrans
  <1>3. CASE IsRouter(tree, q)
    BY <1>1, <1>3, UnderRouter
  <1> QED
    BY <1>1, <1>2, <1>3, KindIs

\* A frame that pends all of its node's subtree, or nothing of it.
LEMMA PendsAll ==
  ASSUME Trunk, NEW q \in DOMAIN tree, ~IsLeaf(tree, q), NEW z \in TSet, Under(q, z)
  PROVE  Pends(Frame(q, IF IsPn(tree, q) THEN 0 ELSE -1, 0, 0), z)
  <1>1. CASE IsPn(tree, q)
    <2>1. StartsWith(z, At(tree, q))
      BY <1>1, UnderPn DEF Under
    <2> QED
      BY <1>1, <2>1 DEF Pends, Frame
  <1>2. CASE IsRouter(tree, q)
    <2>1. ~IsPn(tree, q)
      BY <1>2, KindIs
    <2>2. z = q \/ \E e \in tree[q].edges : StartsWith(z, ChildOf(q, e))
      BY <1>2, UnderRouter DEF Under
    <2>3. \A e \in tree[q].edges : Taken(q, e) > -1
      BY <1>2, TakenIs
    <2> QED
      BY <1>2, <2>1, <2>2, <2>3 DEF Pends, Frame
  <1> QED
    BY <1>1, <1>2, KindIs

LEMMA PendsNone ==
  ASSUME Trunk, NEW q \in DOMAIN tree, ~IsLeaf(tree, q), IsRouter(tree, q) => tree[q].kind # "u16",
         NEW z
  PROVE  ~Pends(Frame(q, IF IsPn(tree, q) THEN 1 ELSE MaxByte + 1, 0, 0), z)
  <1>1. CASE IsPn(tree, q)
    <2>1. ~IsRouter(tree, q)
      BY <1>1, KindIs
    <2> QED
      BY <1>1, <2>1 DEF Pends, Frame
  <1>2. CASE IsRouter(tree, q)
    <2>1. ~IsPn(tree, q)
      BY <1>2, KindIs
    <2>2. \A e \in tree[q].edges : Taken(q, e) \in Nat /\ Taken(q, e) <= MaxByte + 1
      BY <1>2, TakenIs
    <2>3. MaxByte + 1 # -1 /\ MaxByte + 1 \in Nat
      BY MaxByteAssumption
    <2> QED
      BY <1>2, <2>1, <2>2, <2>3 DEF Pends, Frame
  <1> QED
    BY <1>1, <1>2, KindIs

\* The key parts from the prefix of the node the descent is at.
LEMMA LbPartsOK ==
  ASSUME Trunk, NEW x \in Iter, x.live, NEW a, AskOK(a), NEW q, LbAt(x, q, a), ~IsLeaf(tree, q),
         NEW r, r = Rest(a.key, q), ~StartsWith(r, tree[q].pfx)
  PROVE  /\ Greater(tree[q].pfx, r) => Mode(Descend(x, q), Go("seek", <<>>, 0), a)
         /\ ~Greater(tree[q].pfx, r) =>
              Mode(Push(x, q, IF IsPn(tree, q) THEN 1 ELSE MaxByte + 1), Go("seek", <<>>, 0), a)
  <1> DEFINE k == a.key
             p == tree[q].pfx
             lo == IF IsPn(tree, q) THEN 0 ELSE -1
             hi == IF IsPn(tree, q) THEN 1 ELSE MaxByte + 1
  <1>1. q \in DOMAIN tree /\ a.op \in Bounds /\ StartsWith(k, q) /\ ~x.maintain
    BY DEF LbAt, WayTo
  <1>2. k \in Path /\ q \in Path /\ p \in Path /\ At(tree, q) = q \o p
    BY <1>1, NodeIs DEF AskOK, At
  <1>3. lo \in Int /\ hi \in Int
    BY MaxByteAssumption
  <1>4. Descend(x, q) = Enter(x, q, lo, 0) /\ Push(x, q, hi) = Enter(x, q, hi, 0)
    BY <1>1, PushIs DEF Descend
  <1>5. \A z \in TSet : Under(q, z) => Pends(Frame(q, lo, 0, 0), z)
    BY <1>1, PendsAll
  <1>6. \A z : ~Pends(Frame(q, hi, 0, 0), z)
    <2>1. IsRouter(tree, q) => tree[q].kind # "u16"
      <3>1. ASSUME IsRouter(tree, q), tree[q].kind = "u16"
            PROVE  FALSE
        <4>1. p = <<>>
          BY <1>1, <3>1, RouterHas
        <4>2. r \in Path
          BY <1>2, <1>1, RestJoin
        <4> QED
          BY <4>1, <4>2, StartsWithEmpty
      <3> QED
        BY <3>1
    <2> QED
      BY <1>1, <2>1, PendsNone
  <1> HIDE DEF k, p, lo, hi
  <1>7. /\ Greater(p, r) => Ord!Less(k, At(tree, q))
        /\ ~Greater(p, r) => Ord!Less(At(tree, q), k)
        /\ ~StartsWith(k, At(tree, q)) /\ At(tree, q) \in Path
    <2>1. r = Rest(k, q) /\ ~StartsWith(Rest(k, q), p)
      BY DEF k, p
    <2> QED
      BY <1>1, <1>2, <2>1, GreaterIs
  <1>8. \A z \in TSet : Under(q, z) =>
          /\ Ord!Less(k, At(tree, q)) => Ord!Less(k, Key(z))
          /\ Ord!Less(At(tree, q), k) => Ord!Less(Key(z), k)
    <2> TAKE z \in TSet
    <2> HAVE Under(q, z)
    <2>1. StartsWith(Key(z), At(tree, q)) /\ Key(z) \in Path
      BY <1>1, UnderKey
    <2>2. Ord!Less(k, At(tree, q)) => Ord!Less(k, Key(z))
      BY <1>2, <1>7, <2>1, LessBelow
    <2>3. Ord!Less(At(tree, q), k) => Ord!Less(Key(z), k)
      BY <1>2, <1>7, <2>1, BelowLess
    <2> QED
      BY <2>2, <2>3
  <1>9. \A z \in TSet : /\ Ord!Less(k, Key(z)) => Wanted(a, z)
                        /\ Ord!Less(Key(z), k) => ~Wanted(a, z)
    BY <1>1, BoundWants DEF k
  <1>10. ASSUME Greater(p, r)
         PROVE  Mode(Enter(x, q, lo, 0), Go("seek", <<>>, 0), a)
    <2>1. \A z \in TSet : Under(q, z) => (Wanted(a, z) <=> Pends(Frame(q, lo, 0, 0), z))
      BY <1>5, <1>7, <1>8, <1>9, <1>10
    <2> QED
      BY <1>3, <2>1, LbSeeks
  <1>11. ASSUME ~Greater(p, r)
         PROVE  Mode(Enter(x, q, hi, 0), Go("seek", <<>>, 0), a)
    <2>1. \A z \in TSet : Under(q, z) => (Wanted(a, z) <=> Pends(Frame(q, hi, 0, 0), z))
      BY <1>6, <1>7, <1>8, <1>9, <1>11
    <2> QED
      BY <1>3, <2>1, LbSeeks
  <1> QED
    BY <1>4, <1>10, <1>11 DEF p, hi

\* The key starts with all of the node's prefix.
LEMMA LbMatches ==
  ASSUME Trunk, NEW x, NEW a, AskOK(a), NEW q, LbAt(x, q, a), ~IsLeaf(tree, q),
         StartsWith(Rest(a.key, q), tree[q].pfx)
  PROVE  /\ q \in DOMAIN tree /\ q \in Path /\ At(tree, q) \in Path /\ a.op \in Bounds /\ ~x.maintain
         /\ a.key \in Path /\ StartsWith(a.key, At(tree, q)) /\ StartsWith(a.key, q)
         /\ Rest(a.key, At(tree, q)) \in Path
         /\ At(tree, q) \o Rest(a.key, At(tree, q)) = a.key
  <1>1. q \in DOMAIN tree /\ a.op \in Bounds /\ StartsWith(a.key, q) /\ ~x.maintain
    BY DEF LbAt, WayTo
  <1>2. a.key \in Path /\ q \in Path /\ tree[q].pfx \in Path /\ At(tree, q) = q \o tree[q].pfx
        /\ At(tree, q) \in Path
    BY <1>1, NodeIs DEF AskOK, At
  <1>3. StartsWith(a.key, At(tree, q))
    BY <1>1, <1>2, RestStarts
  <1> QED
    BY <1>1, <1>2, <1>3, RestJoin

LEMMA LbPnOK ==
  ASSUME Trunk, NEW x \in Iter, x.live, NEW a, AskOK(a), NEW q, LbAt(x, q, a), IsPn(tree, q),
         StartsWith(Rest(a.key, q), tree[q].pfx)
  PROVE  Mode(Push(x, q, 1), Go("lb", At(tree, q), 0), a)
  <1>1. q \in DOMAIN tree
    BY DEF LbAt, WayTo
  <1>2. ~IsLeaf(tree, q) /\ ~IsRouter(tree, q)
    BY <1>1, KindIs
  <1>3. /\ StartsWith(a.key, At(tree, q)) /\ ~x.maintain /\ At(tree, q) \in Path
    BY <1>2, LbMatches
  <1>4. At(tree, q) \in KidsOf(q, tree[q])
    BY <1>1, <1>2, NodeIs
  <1>5. Aims(Frame(q, 1, 0, 0), At(tree, q))
    BY <1>2, <1>3, StartsRefl DEF Aims, Frame
  <1>6. Mode(Enter(x, q, 1, 0), Go("lb", At(tree, q), 0), a)
    BY <1>2, <1>3, <1>4, <1>5, LbGoesOn
  <1> QED
    BY <1>3, <1>6, PushIs

\* The key ends at a router: its own terminal is the bound, or pending next.
LEMMA LbTermOK ==
  ASSUME Trunk, NEW x \in Iter, x.live, NEW a, AskOK(a), NEW q, LbAt(x, q, a), IsRouter(tree, q),
         StartsWith(Rest(a.key, q), tree[q].pfx), Rest(a.key, At(tree, q)) = <<>>
  PROVE  Mode(Push(x, q, IF a.op = "upper" THEN 0 ELSE -1), Go("seek", <<>>, 0), a)
  <1> DEFINE cur == IF a.op = "upper" THEN 0 ELSE -1
  <1>1. q \in DOMAIN tree
    BY DEF LbAt, WayTo
  <1>2. ~IsLeaf(tree, q) /\ ~IsPn(tree, q)
    BY <1>1, KindIs
  <1>3. a.op \in Bounds /\ ~x.maintain /\ At(tree, q) \in Path /\ a.key \in Path
        /\ At(tree, q) \o <<>> = a.key
    BY <1>2, LbMatches
  <1>4. a.key = At(tree, q)
    BY <1>3, ConcatEmpty
  <1>5. cur \in Int /\ (cur = -1 <=> a.op # "upper") /\ cur <= 0
    OBVIOUS
  <1> HIDE DEF cur
  <1>6. \A e \in tree[q].edges : Taken(q, e) > cur
    BY <1>1, <1>5, TakenIs
  <1>7. ASSUME NEW z \in TSet, Under(q, z)
        PROVE  Wanted(a, z) <=> Pends(Frame(q, cur, 0, 0), z)
    <2>1. Pends(Frame(q, cur, 0, 0), z) <=>
            (cur = -1 /\ z = q) \/ \E e \in tree[q].edges : Under(ChildOf(q, e), z)
      BY <1>2, <1>6 DEF Pends, Frame, Under
    <2>2. /\ Ord!Less(a.key, Key(z)) => Wanted(a, z)
          /\ Key(z) = a.key => (Wanted(a, z) <=> a.op # "upper")
      BY <1>3, BoundWants
    <2>3. /\ z = q \/ \E e \in tree[q].edges : Under(ChildOf(q, e), z)
          /\ \A e \in tree[q].edges : Under(ChildOf(q, e), z) => Ord!Less(At(tree, q), Key(z)) /\ z # q
          /\ z = q => Key(z) = At(tree, q)
      BY <1>1, <1>7, UnderRouter
    <2>4. CASE z = q
      BY <1>4, <1>5, <2>1, <2>2, <2>3, <2>4
    <2>5. CASE z # q
      BY <1>4, <2>1, <2>2, <2>3, <2>5
    <2> QED
      BY <2>4, <2>5
  <1>8. Mode(Enter(x, q, cur, 0), Go("seek", <<>>, 0), a)
    BY <1>2, <1>5, <1>7, LbSeeks
  <1>9. Push(x, q, cur) = Enter(x, q, cur, 0)
    BY <1>3, PushIs
  <1> QED
    BY <1>8, <1>9 DEF cur

LEMMA LbLeaves ==
  ASSUME Trunk, NEW x, NEW a, AskOK(a), NEW q, LbAt(x, q, a), IsRouter(tree, q),
         StartsWith(Rest(a.key, q), tree[q].pfx), Rest(a.key, At(tree, q)) # <<>>
  PROVE  /\ Leaves(q, a.key, Rest(a.key, At(tree, q))) /\ q \in DOMAIN tree
         /\ ~IsLeaf(tree, q) /\ ~IsPn(tree, q) /\ a.op \in Bounds /\ ~x.maintain
  <1>1. q \in DOMAIN tree
    BY DEF LbAt, WayTo
  <1>2. ~IsLeaf(tree, q) /\ ~IsPn(tree, q)
    BY <1>1, KindIs
  <1> QED
    BY <1>1, <1>2, LbMatches DEF Leaves

LEMMA LbEdgeOK ==
  ASSUME Trunk, NEW x \in Iter, x.live, NEW a, AskOK(a), NEW q, LbAt(x, q, a), IsRouter(tree, q),
         StartsWith(Rest(a.key, q), tree[q].pfx), Rest(a.key, At(tree, q)) # <<>>,
         NEW e \in tree[q].edges, e = Stem(q, Rest(a.key, At(tree, q)))
  PROVE  Mode(Push(x, q, Taken(q, e)), Go("lb", ChildOf(q, e), 0), a)
  <1>1. /\ Leaves(q, a.key, Rest(a.key, At(tree, q))) /\ q \in DOMAIN tree
        /\ ~IsLeaf(tree, q) /\ ~IsPn(tree, q) /\ ~x.maintain
    BY LbLeaves
  <1>2. StartsWith(a.key, ChildOf(q, e))
    BY <1>1, StemIs
  <1>3. ChildOf(q, e) \in KidsOf(q, tree[q]) /\ ChildOf(q, e) \in Path
    BY <1>1, EdgeIs
  <1>4. Taken(q, e) \in Int
    BY <1>1, TakenIs
  <1>5. Aims(Frame(q, Taken(q, e), 0, 0), ChildOf(q, e))
    BY <1>1, <1>3, StartsRefl DEF Aims, Frame
  <1>6. Mode(Enter(x, q, Taken(q, e), 0), Go("lb", ChildOf(q, e), 0), a)
    BY <1>1, <1>2, <1>3, <1>4, <1>5, LbGoesOn
  <1> QED
    BY <1>1, <1>6, PushIs

LEMMA LbNoEdgeOK ==
  ASSUME Trunk, NEW x \in Iter, x.live, NEW a, AskOK(a), NEW q, LbAt(x, q, a), IsRouter(tree, q),
         StartsWith(Rest(a.key, q), tree[q].pfx), NEW r, r = Rest(a.key, At(tree, q)), r # <<>>,
         Stem(q, r) \notin tree[q].edges
  PROVE  Mode(Push(x, q, IF tree[q].kind = "u16" THEN StemCursor(q, r) ELSE r[1]),
              Go("seek", <<>>, 0), a)
  <1> DEFINE cur == IF tree[q].kind = "u16" THEN StemCursor(q, r) ELSE r[1]
             k == a.key
  <1>1. /\ Leaves(q, k, r) /\ q \in DOMAIN tree /\ ~IsLeaf(tree, q) /\ ~IsPn(tree, q) /\ ~x.maintain
        /\ a.op \in Bounds
    BY LbLeaves
  <1>2. /\ \A e \in tree[q].edges : cur \in Nat /\ (Taken(q, e) > cur <=> Ord!Less(Stem(q, r), e))
    BY <1>1, CursorIs
  <1>3. cur \in Nat
    <2>1. CASE tree[q].kind = "u16"
      <3>1. IsFiniteSet(tree[q].edges)
        BY <1>1, KindIs, EdgesFinite DEF IsRouter
      <3>2. IsFiniteSet({f \in tree[q].edges : EdgeLess(f, IF Len(r) < 2 THEN <<r[1], 0>> ELSE Front(r, 2))})
        BY <3>1, FS_Subset
      <3>3. StemCursor(q, r) \in Nat
        BY <3>2, FS_CardinalityType DEF StemCursor
      <3> QED
        BY <2>1, <3>3
    <2>2. CASE tree[q].kind # "u16"
      <3>1. r \in Path /\ Len(r) >= 1
        BY <1>1, StemIs
      <3>2. 1 \in 1 .. Len(r)
        BY <3>1, PathFacts
      <3>3. r[1] \in Byte
        BY <3>1, <3>2, PathFacts
      <3> QED
        BY <2>2, <3>3, MaxByteAssumption DEF Byte
    <2> QED
      BY <2>1, <2>2
  <1>4. k \in Path /\ StartsWith(k, At(tree, q)) /\ k = At(tree, q) \o r /\ r \in Path
        /\ At(tree, q) \in Path /\ k # At(tree, q)
    <2>1. k \in Path /\ StartsWith(k, At(tree, q)) /\ k = At(tree, q) \o r /\ r \in Path
          /\ At(tree, q) \in Path
      BY <1>1, StemIs, NodeIs DEF Leaves
    <2>2. k # At(tree, q)
      BY <2>1, StartsConcat
    <2> QED
      BY <2>1, <2>2
  <1> HIDE DEF cur, k
  <1>5. ASSUME NEW z \in TSet, Under(q, z)
        PROVE  Wanted(a, z) <=> Pends(Frame(q, cur, 0, 0), z)
    <2>1. Pends(Frame(q, cur, 0, 0), z) <=>
            \E e \in tree[q].edges : Taken(q, e) > cur /\ Under(ChildOf(q, e), z)
      BY <1>1, <1>3 DEF Pends, Frame, Under
    <2>2. /\ Ord!Less(k, Key(z)) => Wanted(a, z)
          /\ Ord!Less(Key(z), k) => ~Wanted(a, z)
      BY <1>1, BoundWants DEF k
    <2>3. /\ z = q \/ \E e \in tree[q].edges : Under(ChildOf(q, e), z)
          /\ \A e \in tree[q].edges : Under(ChildOf(q, e), z) =>
               StartsWith(Key(z), ChildOf(q, e)) /\ z # q
          /\ z = q => Key(z) = At(tree, q)
      BY <1>1, <1>5, UnderRouter
    <2>4. CASE z = q
      <3>1. Ord!Less(Key(z), k)
        BY <1>4, <2>3, <2>4, PrefixLess
      <3> QED
        BY <2>1, <2>2, <2>3, <2>4, <3>1
    <2>5. ASSUME NEW e \in tree[q].edges, Under(ChildOf(q, e), z)
          PROVE  /\ Wanted(a, z) <=> Taken(q, e) > cur
                 /\ \A f \in tree[q].edges : Under(ChildOf(q, f), z) => f = e
      <3>1. /\ Ord!Less(Stem(q, r), e) => Ord!Less(k, Key(z))
            /\ Ord!Less(e, Stem(q, r)) => Ord!Less(Key(z), k)
            /\ Ord!Less(Stem(q, r), e) \/ Ord!Less(e, Stem(q, r))
        BY <1>1, <2>3, <2>5, StemSides, TerminalIs
      <3>2. Taken(q, e) > cur <=> Ord!Less(Stem(q, r), e)
        BY <1>2
      <3>3. \A f \in tree[q].edges : Under(ChildOf(q, f), z) => f = e
        BY <1>1, <2>5, OneEdge, TerminalIs DEF Under
      <3> QED
        BY <2>2, <3>1, <3>2, <3>3
    <2> QED
      BY <2>1, <2>3, <2>4, <2>5
  <1>6. Mode(Enter(x, q, cur, 0), Go("seek", <<>>, 0), a)
    BY <1>1, <1>3, <1>5, LbSeeks
  <1>7. Push(x, q, cur) = Enter(x, q, cur, 0)
    BY <1>1, PushIs
  <1> QED
    BY <1>6, <1>7 DEF cur

-----------------------------------------------------------------------------
(* Reading the key.                                                        *)

\* Nothing of the tree stands between a frame's node and where the frames up to
\* it lead.
LEMMA NextFrame ==
  ASSUME Trunk, NEW s, NEW m \in Nat, m + 1 <= Len(s), Len(s) \in Nat, Stack(s),
         NEW q \in DOMAIN tree, Trail(s, m + 1, q)
  PROVE  LET fr == s[m + 1]
         IN  /\ IsPn(tree, fr.node) => q = At(tree, fr.node)
             /\ IsRouter(tree, fr.node) =>
                  \E e \in tree[fr.node].edges : fr.cur = Taken(fr.node, e) /\ q = ChildOf(fr.node, e)
  <1> DEFINE fr == s[m + 1]
             p == fr.node
  <1>1. m + 1 \in 1 .. Len(s) /\ q \in Path
    BY KindIs
  <1>2. Inner(fr) /\ Aims(fr, q) /\ p \in DOMAIN tree /\ p \in Path /\ ~IsLeaf(tree, p)
    BY <1>1, InnerIs DEF Stack, Trail, Inner
  <1>3. ASSUME NEW c \in DOMAIN tree, StartsWith(q, c), Len(p) < Len(c)
        PROVE  c = q
    <2>1. ASSUME c # q
          PROVE  FALSE
      <3>1. PICK i \in 1 .. m + 1 : s[i].node = c
        BY <1>3, <2>1 DEF Trail
      <3>2. Len(p) \in Nat /\ Len(c) \in Nat
        BY <1>2, KindIs, PathFacts
      <3>3. i # m + 1
        BY <1>3, <3>1, <3>2
      <3>4. i \in 1 .. Len(s) /\ i < m + 1
        BY <3>3
      <3>5. Len(s[i].node) < Len(p)
        BY <1>1, <3>4, Deepens
      <3> QED
        BY <1>3, <3>1, <3>2, <3>5
    <2> QED
      BY <2>1
  <1> HIDE DEF fr, p
  <1>4. ASSUME IsPn(tree, p)
        PROVE  q = At(tree, p)
    <2>1. At(tree, p) \in DOMAIN tree /\ Len(p) < Len(At(tree, p)) /\ StartsWith(q, At(tree, p))
      BY <1>2, <1>4, NodeIs DEF Aims, p
    <2> QED
      BY <1>3, <2>1
  <1>5. ASSUME IsRouter(tree, p)
        PROVE  \E e \in tree[p].edges : fr.cur = Taken(p, e) /\ q = ChildOf(p, e)
    <2>1. PICK e \in tree[p].edges : fr.cur = Taken(p, e) /\ StartsWith(q, ChildOf(p, e))
      BY <1>2, <1>5 DEF Aims, p
    <2>2. ChildOf(p, e) \in DOMAIN tree /\ Len(p) < Len(ChildOf(p, e))
      BY <1>2, <1>5, EdgeIs
    <2> QED
      BY <1>3, <2>1, <2>2
  <1> QED
    BY <1>4, <1>5 DEF fr, p

\* The bytes a frame's cursor has taken.
LEMMA TakenBytesIs ==
  ASSUME Trunk, NEW fr, Inner(fr), fr.cur \in Int
  PROVE  /\ IsPn(tree, fr.node) => TakenBytes(fr) = <<>>
         /\ fr.cur = 0 => TakenBytes(fr) = <<>>
         /\ IsRouter(tree, fr.node) => \A e \in tree[fr.node].edges :
              fr.cur = Taken(fr.node, e) => TakenBytes(fr) = e
  <1>1. fr.node \in DOMAIN tree
    BY DEF Inner
  <1>2. IsPn(tree, fr.node) => TakenBytes(fr) = <<>>
    BY DEF TakenBytes
  <1>3. fr.cur = 0 => TakenBytes(fr) = <<>>
    BY DEF TakenBytes
  <1>4. ASSUME IsRouter(tree, fr.node), NEW e \in tree[fr.node].edges, fr.cur = Taken(fr.node, e)
        PROVE  TakenBytes(fr) = e
    <2>1. Taken(fr.node, e) \in Nat \ {0} /\ ~IsPn(tree, fr.node)
      BY <1>1, <1>4, TakenIs, KindIs
    <2>2. ~(fr.cur < 1)
      BY <1>4, <2>1
    <2>3. TakenBytes(fr) = CHOOSE f \in tree[fr.node].edges : Taken(fr.node, f) = fr.cur
      BY <2>1, <2>2 DEF TakenBytes
    <2>4. \A f \in tree[fr.node].edges : Taken(fr.node, f) = fr.cur => f = e
      BY <1>1, <1>4, TakenOrder
    <2> QED
      BY <1>4, <2>3, <2>4
  <1> QED
    BY <1>2, <1>3, <1>4

\* One frame of an iterator is replaced.
SetAt(x, i, fr) == [x EXCEPT !.stk = [x.stk EXCEPT ![i] = fr]]

LEMMA SetFrame ==
  ASSUME NEW x \in Iter, NEW i \in 1 .. Len(x.stk), NEW fr \in Frames
  PROVE  LET y == SetAt(x, i, fr)
         IN  /\ y \in Iter /\ Persists(x, y) /\ y.at = x.at /\ y.key = x.key
             /\ Len(y.stk) = Len(x.stk) /\ y.stk[i] = fr
             /\ \A jj \in 1 .. Len(x.stk) : jj # i => y.stk[jj] = x.stk[jj]
  <1> DEFINE y == SetAt(x, i, fr)
             m == Len(x.stk)
  <1>1. m \in Nat /\ i \in 1 .. m /\ x.stk \in Seq(Frames)
    BY IterIs DEF Iter
  <1>5. /\ [x.stk EXCEPT ![i] = fr] \in Seq(Frames)
        /\ Len([x.stk EXCEPT ![i] = fr]) = m
        /\ [x.stk EXCEPT ![i] = fr][i] = fr
        /\ \A jj \in 1 .. m : jj # i => [x.stk EXCEPT ![i] = fr][jj] = x.stk[jj]
    BY <1>1
  <1>6. y.stk = [x.stk EXCEPT ![i] = fr] /\ y.key = x.key /\ y.at = x.at /\ Persists(x, y)
    BY DEF Iter, Persists, SetAt
  <1>7. y \in Iter
    BY <1>5 DEF Iter, SetAt
  <1> HIDE DEF y
  <1> QED
    BY <1>5, <1>6, <1>7 DEF y

\* Frame i learns its key lengths.
Primes(x, y, i, k) ==
  /\ y \in Iter /\ Persists(x, y) /\ y.at = x.at
  /\ Len(y.stk) = Len(x.stk)
  /\ \A jj \in 1 .. Len(x.stk) : jj # i => y.stk[jj] = x.stk[jj]
  /\ y.stk[i].node = x.stk[i].node /\ y.stk[i].cur = x.stk[i].cur
  /\ y.stk[i].plen = Len(x.key) /\ y.stk[i].cbase = Len(k)
  /\ y.key = k \o TakenBytes(x.stk[i])

LEMMA PrimedIs ==
  ASSUME NEW x \in Iter, NEW i \in 1 .. Len(x.stk),
         NEW k, k = x.key \o tree[x.stk[i].node].pfx, k \in Path,
         k \o TakenBytes(x.stk[i]) \in Path
  PROVE  Primes(x, Primed(x, i), i, k)
  <1> DEFINE nn == Len(x.key)
             l == Len(k)
             kk == k \o TakenBytes(x.stk[i])
             f1 == [x.stk[i] EXCEPT !.plen = nn]
             y1 == SetAt(x, i, f1)
             f2 == [y1.stk[i] EXCEPT !.cbase = l]
             y2 == SetAt(y1, i, f2)
             y3 == [y2 EXCEPT !.key = kk]
  <1>1. x.stk[i] \in Frames /\ nn \in Nat /\ l \in Nat
    BY IterIs, PathFacts
  <1>2. Primed(x, i) = y3
    BY DEF Primed, SetAt
  <1>3. f1 \in Frames /\ f1.node = x.stk[i].node /\ f1.cur = x.stk[i].cur /\ f1.plen = nn
    BY <1>1 DEF Frames
  <1> HIDE DEF nn, l, kk, f1
  <1>4. /\ y1 \in Iter /\ Persists(x, y1) /\ y1.at = x.at
        /\ Len(y1.stk) = Len(x.stk) /\ y1.stk[i] = f1
        /\ \A jj \in 1 .. Len(x.stk) : jj # i => y1.stk[jj] = x.stk[jj]
    BY <1>3, SetFrame
  <1> HIDE DEF y1
  <1>5. f2 \in Frames /\ f2.node = f1.node /\ f2.cur = f1.cur /\ f2.plen = f1.plen /\ f2.cbase = l
    BY <1>1, <1>3, <1>4 DEF Frames
  <1> HIDE DEF f2
  <1>9. y1 \in Iter /\ i \in 1 .. Len(y1.stk) /\ f2 \in Frames
    BY <1>4, <1>5
  <1>6. /\ y2 \in Iter /\ Persists(y1, y2) /\ y2.at = y1.at
        /\ Len(y2.stk) = Len(y1.stk) /\ y2.stk[i] = f2
        /\ \A jj \in 1 .. Len(y1.stk) : jj # i => y2.stk[jj] = y1.stk[jj]
    BY <1>9, SetFrame
  <1> HIDE DEF y2
  <1>7. y3 \in Iter /\ Persists(y2, y3) /\ y3.at = y2.at /\ y3.stk = y2.stk /\ y3.key = kk
    BY <1>6 DEF Iter, Persists, kk
  <1> HIDE DEF y3
  <1>8. Persists(x, y3)
    BY <1>4, <1>6, <1>7 DEF Persists
  <1> QED
    BY <1>2, <1>3, <1>4, <1>5, <1>6, <1>7, <1>8 DEF nn, l, kk, Primes

\* A seated iterator whose frames learn their key lengths stays seated.
LEMMA SeatedLike ==
  ASSUME NEW x \in Iter, NEW y \in Iter, Seated(x), y.end = x.end, y.at = x.at,
         Len(y.stk) = Len(x.stk), Like(x.stk, y.stk, Len(x.stk))
  PROVE  Seated(y)
  <1> DEFINE m == Len(x.stk)
  <1>1. m \in Nat /\ Len(y.stk) = m
    BY IterIs
  <1>2. Stack(y.stk)
    BY <1>1, StackLike DEF Seated
  <1>3. IsLeaf(tree, y.at) => Trail(y.stk, Len(y.stk), y.at)
    BY <1>1, TrailLike DEF Seated
  <1>4. IsRouter(tree, y.at) => y.stk # <<>> /\ Top(y).node = y.at /\ Top(y).cur = 0
    <2>1. ASSUME IsRouter(tree, y.at)
          PROVE  y.stk # <<>> /\ Top(y).node = y.at /\ Top(y).cur = 0
      <3>1. x.stk # <<>> /\ Top(x).node = y.at /\ Top(x).cur = 0
        BY <2>1 DEF Seated
      <3>2. m \in 1 .. m
        BY <3>1, IterIs
      <3>3. y.stk[m].node = x.stk[m].node /\ y.stk[m].cur = x.stk[m].cur
        BY <3>2 DEF Like
      <3>4. y.stk # <<>>
        <4>1. y.stk = <<>> => Len(y.stk) = 0
          BY IterIs
        <4>2. m # 0
          BY <3>2
        <4> QED
          BY <1>1, <4>1, <4>2
      <3> QED
        BY <1>1, <3>1, <3>3, <3>4 DEF Top
    <2> QED
      BY <2>1
  <1> QED
    BY <1>2, <1>3, <1>4 DEF Seated

\* The bytes of a frame end where the next one stands.
LEMMA FrameBytes ==
  ASSUME Trunk, NEW s, NEW m \in Nat, m + 1 <= Len(s), Len(s) \in Nat, Stack(s), s[m + 1].cur \in Int,
         NEW q \in DOMAIN tree, Trail(s, m + 1, q)
  PROVE  At(tree, s[m + 1].node) \o TakenBytes(s[m + 1]) = q
  <1> DEFINE fr == s[m + 1]
             p == fr.node
  <1>1. m + 1 \in 1 .. Len(s)
    OBVIOUS
  <1>2. Inner(fr)
    BY <1>1 DEF Stack
  <1>3. /\ IsPn(tree, p) => q = At(tree, p)
        /\ IsRouter(tree, p) => \E e \in tree[p].edges : fr.cur = Taken(p, e) /\ q = ChildOf(p, e)
    BY NextFrame
  <1> HIDE DEF fr
  <1>4. /\ IsPn(tree, p) => TakenBytes(fr) = <<>>
        /\ IsRouter(tree, p) => \A e \in tree[p].edges : fr.cur = Taken(p, e) => TakenBytes(fr) = e
    <2>1. fr.cur \in Int
      BY DEF fr
    <2> QED
      BY <1>2, <2>1, TakenBytesIs
  <1>5. (IsPn(tree, p) \/ IsRouter(tree, p)) /\ At(tree, p) \in Path
    BY <1>2, InnerIs
  <1>6. At(tree, p) \o <<>> = At(tree, p)
    BY <1>5, ConcatEmpty
  <1>7. CASE IsPn(tree, p)
    BY <1>3, <1>4, <1>6, <1>7 DEF fr
  <1>8. CASE IsRouter(tree, p)
    BY <1>3, <1>4, <1>8 DEF ChildOf, fr
  <1> QED
    BY <1>5, <1>7, <1>8

\* One more frame is replayed.
LEMMA ReadFrameOK ==
  ASSUME Trunk, NEW x \in Iter, x.live, NEW a, AskOK(a), NEW m, ReadAt(x, m, a), ~Known(x),
         m < Len(x.stk)
  PROVE  Mode(Primed(x, m + 1), Go("read", <<>>, m + 1), a)
  <1> DEFINE s == x.stk
             nn == Len(s)
             fr == s[m + 1]
             p == fr.node
             k == x.key \o tree[p].pfx
             y == Primed(x, m + 1)
  <1>1. /\ Replayed(x, m) /\ Seated(x) /\ Stack(s) /\ nn \in Nat /\ m \in 0 .. nn /\ m \in Nat
        /\ m + 1 \in 1 .. nn /\ m + 1 <= nn
    <2>1. Replayed(x, m) /\ Seated(x) /\ Stack(s) /\ nn \in Nat /\ m \in 0 .. nn
      BY IterIs DEF ReadAt, Replayed, Seated
    <2> QED
      BY <2>1
  <1>2. x.key = p
    BY <1>1 DEF Replayed, Upto
  <1>3. Inner(fr) /\ fr.cur \in Int /\ p \in DOMAIN tree /\ p \in Path /\ At(tree, p) \in Path
    BY <1>1, InnerIs, IterIs DEF Stack
  <1>4. k = At(tree, p)
    BY <1>2 DEF At
  <1>5. x.at \in DOMAIN tree /\ (IsLeaf(tree, x.at) \/ IsRouter(tree, x.at)) /\ x.at \in Path
    BY <1>1, TerminalIs DEF Seated
  <1>6. k \o TakenBytes(fr) = Upto(x, m + 1) /\ Upto(x, m + 1) \in Path
    <2>1. CASE m + 1 < nn
      <3> DEFINE q == s[m + 2].node
      <3>1. m + 2 \in 1 .. nn /\ (m + 2) - 1 = m + 1
        BY <1>1, <2>1
      <3>2. Inner(s[m + 2]) /\ Trail(s, m + 1, q)
        BY <1>1, <3>1 DEF Stack
      <3>3. q \in DOMAIN tree /\ q \in Path
        BY <3>2, InnerIs
      <3>4. At(tree, p) \o TakenBytes(fr) = q
        BY <1>1, <1>3, <3>2, <3>3, FrameBytes
      <3>5. Upto(x, m + 1) = q
        <4>1. (m + 1) + 1 = m + 2
          BY <1>1
        <4> QED
          BY <2>1, <4>1 DEF Upto
      <3> QED
        BY <1>4, <3>3, <3>4, <3>5
    <2>2. CASE m + 1 = nn /\ IsLeaf(tree, x.at)
      <3>1. Trail(s, m + 1, x.at)
        BY <1>1, <2>2 DEF Seated
      <3>2. At(tree, p) \o TakenBytes(fr) = x.at
        BY <1>1, <1>3, <1>5, <3>1, FrameBytes
      <3>3. Upto(x, m + 1) = x.at
        BY <2>2 DEF Upto
      <3> QED
        BY <1>4, <1>5, <3>2, <3>3
    <2>3. CASE m + 1 = nn /\ ~IsLeaf(tree, x.at)
      <3>1. fr.node = x.at /\ fr.cur = 0
        BY <1>1, <1>5, <2>3 DEF Seated, Top
      <3>2. TakenBytes(fr) = <<>>
        BY <1>3, <3>1, TakenBytesIs
      <3>3. Upto(x, m + 1) = At(tree, p)
        BY <2>3, <3>1 DEF Upto
      <3>4. At(tree, p) \o <<>> = At(tree, p)
        BY <1>3, ConcatEmpty
      <3> QED
        BY <1>3, <1>4, <3>2, <3>3, <3>4
    <2>4. m + 1 < nn \/ m + 1 = nn
      BY <1>1
    <2> QED
      BY <2>1, <2>2, <2>3, <2>4
  <1>7. /\ y \in Iter /\ Persists(x, y) /\ y.at = x.at /\ Len(y.stk) = nn
        /\ \A jj \in 1 .. nn : jj # m + 1 => y.stk[jj] = s[jj]
        /\ y.stk[m + 1].node = p /\ y.stk[m + 1].cur = fr.cur
        /\ y.stk[m + 1].plen = Len(x.key) /\ y.stk[m + 1].cbase = Len(k)
        /\ y.key = k \o TakenBytes(fr)
    <2> DEFINE i == m + 1
    <2>1. k \in Path /\ k \o TakenBytes(x.stk[i]) \in Path
      BY <1>3, <1>4, <1>6
    <2>2. k = x.key \o tree[x.stk[i].node].pfx
      OBVIOUS
    <2>3. i \in 1 .. Len(x.stk)
      BY <1>1
    <2> HIDE DEF k, i
    <2>4. Primes(x, Primed(x, i), i, k)
      BY <2>1, <2>2, <2>3, PrimedIs
    <2> QED
      BY <2>4 DEF i, Primes
  <1> HIDE DEF y, fr, k
  <1>8. Like(x.stk, y.stk, Len(x.stk))
    <2> SUFFICES ASSUME NEW i \in 1 .. nn
                 PROVE  s[i].node = y.stk[i].node /\ s[i].cur = y.stk[i].cur
      BY DEF Like
    <2> QED
      BY <1>7 DEF fr
  <1>9. Seated(y)
    BY <1>1, <1>7, <1>8, SeatedLike DEF Persists
  <1>10. ~Known(y) /\ ~Known(x)
    BY <1>7 DEF Known, Persists
  <1>11. Upto(y, m + 1) = Upto(x, m + 1)
    <2>1. CASE m + 1 < nn
      <3>1. (m + 1) + 1 \in 1 .. nn /\ (m + 1) + 1 # m + 1
        BY <1>1, <2>1
      <3>2. y.stk[(m + 1) + 1] = s[(m + 1) + 1]
        BY <1>7, <3>1
      <3> QED
        BY <1>7, <2>1, <3>2 DEF Upto
    <2>2. CASE ~(m + 1 < nn)
      BY <1>7, <2>2 DEF Upto
    <2> QED
      BY <2>1, <2>2
  <1>12. Replayed(y, m + 1)
    <2>1. ASSUME NEW i \in 1 .. m + 1
          PROVE  y.stk[i].plen = Len(y.stk[i].node) /\ y.stk[i].cbase = Len(At(tree, y.stk[i].node))
      <3>1. CASE i = m + 1
        BY <1>2, <1>4, <1>7, <3>1
      <3>2. CASE i # m + 1
        <4>1. i \in 1 .. m /\ i \in 1 .. nn
          BY <1>1, <3>2
        <4>2. s[i].plen = Len(s[i].node) /\ s[i].cbase = Len(At(tree, s[i].node))
          BY <1>1, <4>1 DEF Replayed
        <4> QED
          BY <1>7, <3>2, <4>1, <4>2
      <3> QED
        BY <3>1, <3>2
    <2>2. m + 1 \in 0 .. Len(y.stk)
      BY <1>1, <1>7
    <2>3. y.key = Upto(y, m + 1)
      BY <1>6, <1>7, <1>11 DEF fr
    <2> QED
      BY <1>10, <2>1, <2>2, <2>3 DEF Replayed
  <1>13. ReadAt(y, m + 1, a)
    BY <1>7, <1>9, <1>10, <1>12 DEF ReadAt
  <1> QED
    BY <1>7, <1>13 DEF Mode, Go, Persists, y

\* The replay is complete: the leaf's own bytes are appended.
LEMMA ReadSuffixOK ==
  ASSUME Trunk, NEW x \in Iter, x.live, NEW a, AskOK(a), NEW m, ReadAt(x, m, a), ~Known(x),
         m >= Len(x.stk), NEW g, g.do = "read"
  PROVE  Mode([x EXCEPT !.key = @ \o Sfx(x.at), !.maintain = TRUE], g, a)
  <1> DEFINE y == [x EXCEPT !.key = @ \o Sfx(x.at), !.maintain = TRUE]
             nn == Len(x.stk)
             k == x.key \o Sfx(x.at)
  <1>1. /\ Replayed(x, m) /\ Seated(x) /\ nn \in Nat /\ m \in 0 .. nn /\ ~Full(x.at)
        /\ x.at \in TSet
    BY IterIs DEF ReadAt, Replayed, Seated, Known
  <1>2. m = nn
    BY <1>1
  <1>3. /\ x.at \in DOMAIN tree /\ Key(x.at) \in Path
        /\ IsLeaf(tree, x.at) \/ IsRouter(tree, x.at)
        /\ IsLeaf(tree, x.at) => Key(x.at) = x.at \o tree[x.at].suf
        /\ IsRouter(tree, x.at) => Key(x.at) = At(tree, x.at)
    BY <1>1, TerminalIs
  <1>4. k = Key(x.at)
    <2>1. CASE IsLeaf(tree, x.at)
      <3>1. x.key = x.at
        BY <1>1, <1>2, <2>1 DEF Replayed, Upto
      <3> QED
        BY <1>3, <2>1, <3>1 DEF Sfx
    <2>2. CASE ~IsLeaf(tree, x.at)
      <3>1. x.key = At(tree, x.at)
        BY <1>1, <1>2, <2>2 DEF Replayed, Upto
      <3>2. x.key \o <<>> = x.key
        BY IterIs, ConcatEmpty
      <3> QED
        BY <1>3, <2>2, <3>1, <3>2 DEF Sfx
    <2> QED
      BY <2>1, <2>2
  <1>5. k \in Path
    BY <1>3, <1>4
  <1> HIDE DEF k
  <1>6. y = [x EXCEPT !.key = k, !.maintain = TRUE]
    BY DEF k, Iter
  <1>7. /\ y \in Iter /\ y.live = x.live /\ y.end = x.end /\ y.stk = x.stk /\ y.at = x.at
        /\ y.key = k /\ y.maintain = TRUE
    BY <1>5, <1>6 DEF Iter
  <1> HIDE DEF y
  <1>8. Like(x.stk, y.stk, Len(x.stk))
    BY <1>7 DEF Like
  <1>9. Seated(y)
    BY <1>1, <1>7, <1>8, SeatedLike
  <1>10. Lens(y.stk)
    BY <1>1, <1>2, <1>7 DEF Lens, Replayed
  <1>11. KeyRest(y) /\ Known(y)
    BY <1>1, <1>4, <1>7, <1>10 DEF KeyRest, Known
  <1>12. ReadAt(y, g.m, a)
    BY <1>7, <1>9, <1>11 DEF ReadAt
  <1> QED
    BY <1>7, <1>12 DEF Mode, y

LEMMA ReadEndOK ==
  ASSUME Trunk, NEW x \in Iter, x.live, NEW a, AskOK(a), NEW m, ReadAt(x, m, a), Known(x),
         a.op = "read"
  PROVE  Mode(x, Rests, a)
  <1>1. Seated(x) /\ KeyRest(x) /\ a.key = Key(x.at)
    BY DEF ReadAt
  <1>2. Place(x) = Key(x.at)
    BY <1>1 DEF Place, Seated, Key
  <1>3. AnswerTo(a) = a.key
    BY DEF AnswerTo
  <1>4. Done(x, a)
    BY <1>1, <1>2, <1>3 DEF Done
  <1> QED
    BY <1>4 DEF Mode, Rests, Go

LEMMA EndItIs ==
  /\ EndIt \in Iter /\ EndIt.live /\ EndIt.end /\ EndIt.stk = <<>> /\ ~EndIt.maintain /\ EndIt.key = <<>>
  /\ AtEnd(EndIt) /\ Place(EndIt) = Past
  <1>1. <<>> \in Path /\ <<>> \in Seq(Frames)
    BY EmptyPath, EmptySeq
  <1>2. NoIt \in Iter
    BY <1>1 DEF NoIt, Iter
  <1>3. NoIt.end = TRUE /\ NoIt.stk = <<>> /\ NoIt.maintain = FALSE /\ NoIt.key = <<>>
    BY DEF NoIt
  <1>4. EndIt \in Iter /\ EndIt.live /\ EndIt.end = NoIt.end /\ EndIt.stk = NoIt.stk
        /\ EndIt.maintain = NoIt.maintain /\ EndIt.key = NoIt.key
    BY <1>2 DEF EndIt, Iter
  <1> QED
    BY <1>3, <1>4 DEF AtEnd, Place

\* The bytes of the key, wherever they are.
BytesOf(x) == IF Full(x.at) THEN KeyAt(tree, x.at) ELSE x.key

LEMMA BytesAre ==
  ASSUME NEW x, Known(x), KeyRest(x)
  PROVE  BytesOf(x) = Key(x.at)
  BY DEF Known, KeyRest, BytesOf, Key

LEMMA FindEndOK ==
  ASSUME Trunk, NEW x \in Iter, x.live, NEW a, AskOK(a), NEW m, ReadAt(x, m, a), Known(x),
         a.op = "find"
  PROVE  Mode(IF BytesOf(x) = a.key THEN x ELSE EndIt, Rests, a)
  <1>1. Seated(x) /\ KeyRest(x) /\ FirstWanted(a, x.at)
    BY DEF ReadAt
  <1>2. Place(x) = Key(x.at)
    BY <1>1 DEF Place, Seated, Key
  <1>3. BytesOf(x) = Key(x.at)
    BY <1>1, BytesAre
  <1>4. AnswerTo(a) = IF Key(x.at) = a.key THEN a.key ELSE Past
    BY <1>1, FindIs
  <1>5. CASE Key(x.at) = a.key
    <2>1. Done(x, a)
      BY <1>1, <1>2, <1>4, <1>5 DEF Done
    <2> QED
      BY <1>3, <1>5, <2>1 DEF Mode, Rests, Go
  <1>6. CASE Key(x.at) # a.key
    <2>1. Done(EndIt, a)
      BY <1>4, <1>6, EndItIs DEF Done
    <2> QED
      BY <1>3, <1>6, <2>1, EndItIs DEF Mode, Rests, Go
  <1> QED
    BY <1>5, <1>6

-----------------------------------------------------------------------------
(* An operation begins.                                                    *)

LEMMA EmptyWants ==
  ASSUME Empty, NEW a
  PROVE  NoneWanted(a) /\ Stored = {}
  BY DEF Empty, NoneWanted, TSet, Terminals, Stored

LEMMA EndOK ==
  Mode(EndIt, Rests, [op |-> "end", key |-> Past])
  <1> DEFINE a == [op |-> "end", key |-> Past]
  <1>1. AskOK(a) /\ AnswerTo(a) = Past
    BY DEF AskOK, AnswerTo, Bounds
  <1>2. Done(EndIt, a)
    BY <1>1, EndItIs DEF Done
  <1> QED
    BY <1>1, <1>2, EndItIs DEF Mode, Rests, Go

\* Nothing is stored: the end.
LEMMA EmptyOK ==
  ASSUME Trunk, Empty, NEW a, AskOK(a), a.op \in Fore \cup {"prev"}, Erased(a)
  PROVE  AnswerTo(a) = Past /\ Mode(EndIt, Rests, a)
  <1>1. AnswerTo(a) = Past
    BY EmptyWants, FindIs, AnswerNone DEF Erased
  <1>2. Done(EndIt, a)
    BY <1>1, EndItIs DEF Done
  <1> QED
    BY <1>1, <1>2, EndItIs DEF Mode, Rests, Go

\* An iterator without frames is at the root.
LEMMA AtRoot ==
  ASSUME Trunk, ~Empty
  PROVE  /\ <<>> \in DOMAIN tree /\ Stack(<<>>) /\ Trail(<<>>, 0, <<>>) /\ Lens(<<>>)
         /\ \A z : ~Ahead(<<>>, z) /\ ~Behind(<<>>, z)
         /\ \A z \in TSet : Under(<<>>, z)
  <1>1. PICK q \in DOMAIN tree : TRUE
    BY DEF Empty
  <1>2. <<>> \in DOMAIN tree
    BY RootIsThere
  <1>3. Len(<<>>) = 0
    OBVIOUS
  <1>4. Stack(<<>>) /\ Lens(<<>>) /\ \A z : ~Ahead(<<>>, z) /\ ~Behind(<<>>, z)
    BY <1>3 DEF Stack, Lens, Ahead, Behind
  <1>5. \A p \in DOMAIN tree : StartsWith(<<>>, p) => p = <<>>
    BY KindIs, StartsEmpty
  <1>6. Trail(<<>>, 0, <<>>)
    BY <1>5 DEF Trail
  <1>7. \A z \in TSet : Under(<<>>, z)
    BY TerminalIs, StartsWithEmpty DEF Under
  <1> QED
    BY <1>2, <1>4, <1>6, <1>7

LEMMA FreshIs ==
  /\ Fresh \in Iter /\ Fresh.live /\ ~Fresh.end /\ Fresh.stk = <<>> /\ ~Fresh.maintain /\ Fresh.key = <<>>
  BY EndItIs DEF Fresh, Iter

LEMMA FreshDown ==
  ASSUME Trunk, ~Empty
  PROVE  Down(Fresh, <<>>, 0)
  <1>1. Fresh.stk = <<>> /\ Len(Fresh.stk) = 0
    BY FreshIs
  <1> QED
    BY <1>1, FreshIs, AtRoot DEF Down, WayTo, Kept

LEMMA BoundOK ==
  ASSUME Trunk, NEW a, AskOK(a), a.op \in Bounds, Erased(a)
  PROVE  /\ Empty => Mode(EndIt, Rests, a)
         /\ ~Empty => Mode(Fresh, Go("lb", <<>>, 0), a)
  <1>1. Empty => Mode(EndIt, Rests, a)
    BY EmptyOK DEF Fore
  <1>2. ASSUME ~Empty
        PROVE  Mode(Fresh, Go("lb", <<>>, 0), a)
    <2>1. StartsWith(a.key, <<>>)
      BY StartsWithEmpty DEF AskOK
    <2>2. LbAt(Fresh, <<>>, a)
      BY <1>2, <2>1, FreshIs, FreshDown DEF LbAt, Down
    <2> QED
      BY <2>2, FreshIs DEF Mode, Go
  <1> QED
    BY <1>1, <1>2

LEMMA BeginOK ==
  ASSUME Trunk, NEW a, a = [op |-> "begin", key |-> Past]
  PROVE  Mode(IF Empty THEN EndIt ELSE Descend(Fresh, <<>>),
              IF Empty \/ IsLeaf(tree, <<>>) THEN Rests ELSE Go("seek", <<>>, 0), a)
  <1>1. /\ AskOK(a) /\ a.op = "begin" /\ a.op \in Fore /\ Erased(a)
        /\ \A z : Wanted(a, z)
    BY DEF AskOK, Bounds, Fore, Erased, Wanted
  <1>2. CASE Empty
    BY <1>1, <1>2, EmptyOK
  <1>3. CASE ~Empty /\ IsLeaf(tree, <<>>)
    <2>1. Down(Fresh, <<>>, 0) /\ \A z \in TSet : Under(<<>>, z)
      BY <1>3, FreshDown, AtRoot
    <2>2. Mode(Emit(Fresh, <<>>, 0), Landing(Emit(Fresh, <<>>, 0), a), a)
      BY <1>1, <1>3, <2>1, FreshIs, LeafLands
    <2>3. Landing(Emit(Fresh, <<>>, 0), a) = Rests
      BY <1>1 DEF Landing
    <2>4. Descend(Fresh, <<>>) = Emit(Fresh, <<>>, 0)
      BY <1>3 DEF Descend
    <2> QED
      BY <1>3, <2>2, <2>3, <2>4
  <1>4. CASE ~Empty /\ ~IsLeaf(tree, <<>>)
    <2> DEFINE cur == IF IsPn(tree, <<>>) THEN 0 ELSE -1
               y == Enter(Fresh, <<>>, cur, 0)
    <2>1. Down(Fresh, <<>>, 0) /\ (\A z \in TSet : Under(<<>>, z)) /\ <<>> \in DOMAIN tree
      BY <1>4, FreshDown, AtRoot
    <2>2. cur \in Int
      OBVIOUS
    <2>3. Descend(Fresh, <<>>) = y
      BY <1>4 DEF Descend
    <2>4. \A z \in TSet : Pends(Frame(<<>>, cur, 0, 0), z)
      BY <1>4, <2>1, PendsAll
    <2> HIDE DEF cur, y
    <2>5. /\ y \in Iter /\ Persists(Fresh, y) /\ y.stk # <<>> /\ Stack(y.stk) /\ Kept(y, AtTop(y))
          /\ Top(y).node = <<>> /\ Top(y).cur = cur
      BY <1>4, <2>1, <2>2, FreshIs, Entered DEF y
    <2>6. \A z : Ahead(y.stk, z) <=> AheadIn(y.stk, Below(y), z) \/ Pends(Top(y), z)
      BY <2>5, TopSplit
    <2>7. \A z : Pends(Top(y), z) <=> Pends(Frame(<<>>, cur, 0, 0), z)
      BY <2>5, FrameLike
    <2>8. Seeking(y, a)
      BY <1>1, <2>4, <2>5, <2>6, <2>7, FreshIs DEF Seeking, Persists
    <2> QED
      BY <1>1, <1>4, <2>3, <2>5, <2>8, FreshIs DEF Mode, Go, Persists
  <1> QED
    BY <1>2, <1>3, <1>4

\* Where an iterator stands, its key is kept as seek_ and retreat_ need it.
LEMMA SeatedKept ==
  ASSUME Trunk, NEW x \in Iter, Seated(x), KeyRest(x)
  PROVE  Kept(x, AtTop(x))
  <1>1. x.at \in TSet /\ Stack(x.stk) /\ x.key \in Path
    BY IterIs DEF Seated
  <1>2. /\ x.at \in DOMAIN tree /\ x.at \in Path /\ Key(x.at) \in Path /\ StartsWith(Key(x.at), x.at)
        /\ IsLeaf(tree, x.at) \/ IsRouter(tree, x.at)
        /\ IsRouter(tree, x.at) => Key(x.at) = At(tree, x.at) /\ ~IsLeaf(tree, x.at)
    BY <1>1, TerminalIs, KindIs
  <1>3. AtTop(x) \in Path /\ StartsWith(IF Full(x.at) THEN x.at ELSE Key(x.at), AtTop(x))
    <2>1. CASE x.stk = <<>>
      BY <1>2, <2>1, EmptyPath, StartsWithEmpty DEF AtTop
    <2>2. CASE x.stk # <<>> /\ IsLeaf(tree, x.at)
      <3>1. Inner(Top(x)) /\ Aims(Top(x), x.at) /\ AtTop(x) = At(tree, Top(x).node)
        <4>1. Len(x.stk) \in 1 .. Len(x.stk)
          BY <2>2, IterIs
        <4> QED
          BY <1>1, <2>2, <4>1 DEF Seated, Stack, Trail, Top, AtTop
      <3>2. StartsWith(x.at, AtTop(x)) /\ AtTop(x) \in Path
        BY <1>2, <3>1, AimsUnder, InnerIs
      <3>3. StartsWith(Key(x.at), AtTop(x))
        BY <1>2, <3>2, StartsTrans
      <3> QED
        BY <3>2, <3>3
    <2>3. CASE x.stk # <<>> /\ ~IsLeaf(tree, x.at)
      <3>1. AtTop(x) = Key(x.at)
        BY <1>2, <2>3 DEF Seated, AtTop
      <3>2. ~Full(x.at)
        BY <2>3 DEF Full
      <3> QED
        BY <1>2, <3>1, <3>2, StartsRefl
    <2> QED
      BY <2>1, <2>2, <2>3
  <1> QED
    BY <1>3 DEF Kept, KeyRest

\* An iterator at the end keeps an empty stack.
LEMMA EndKept ==
  ASSUME NEW x \in Iter, AtEnd(x)
  PROVE  /\ x.end /\ x.stk = <<>> /\ Stack(x.stk) /\ Kept(x, AtTop(x)) /\ Place(x) = Past
         /\ \A z : ~Ahead(x.stk, z)
  <1>1. x.stk = <<>> /\ Len(x.stk) = 0 /\ x.key \in Path
    BY IterIs DEF AtEnd
  <1>2. Stack(x.stk) /\ Lens(x.stk) /\ \A z : ~Ahead(x.stk, z)
    BY <1>1 DEF Stack, Lens, Ahead
  <1>3. AtTop(x) = <<>> /\ StartsWith(x.key, <<>>)
    BY <1>1, StartsWithEmpty DEF AtTop
  <1> QED
    BY <1>1, <1>2, <1>3 DEF AtEnd, Kept, Place

LEMMA PlaceIs ==
  ASSUME Trunk, NEW x \in Iter, Seated(x)
  PROVE  Place(x) = Key(x.at) /\ Key(x.at) \in Path /\ Key(x.at) # Past
  BY TerminalIs, PastIs DEF Place, Seated, Key

LEMMA IncrementOK ==
  ASSUME Trunk, NEW x \in Iter, x.live, (Seated(x) /\ KeyRest(x)) \/ AtEnd(x),
         NEW a, a = [op |-> "next", key |-> Place(x)]
  PROVE  Mode(x, Go("seek", <<>>, 0), a)
  <1>1. a.op = "next" /\ a.op \in Fore /\ Erased(a) /\ a.key = Place(x)
        /\ \A z : Wanted(a, z) <=> a.key # Past /\ Ord!Less(a.key, Key(z))
    BY DEF Fore, Erased, Wanted
  <1>2. CASE Seated(x) /\ KeyRest(x)
    <2>1. a.key = Key(x.at) /\ a.key \in Path /\ a.key # Past
      BY <1>1, <1>2, PlaceIs
    <2>2. \A z \in TSet : Wanted(a, z) <=> Ahead(x.stk, z)
      BY <1>1, <1>2, <2>1, SeatedSides
    <2>3. Kept(x, AtTop(x)) /\ Stack(x.stk) /\ ~x.end
      BY <1>2, SeatedKept DEF Seated
    <2>4. Seeking(x, a)
      BY <1>1, <2>2, <2>3 DEF Seeking
    <2>5. AskOK(a)
      BY <1>1, <2>1 DEF AskOK, Bounds
    <2> QED
      BY <2>4, <2>5 DEF Mode, Go
  <1>3. CASE AtEnd(x)
    <2>1. /\ x.end /\ x.stk = <<>> /\ Stack(x.stk) /\ Kept(x, AtTop(x)) /\ Place(x) = Past
          /\ \A z : ~Ahead(x.stk, z)
      BY <1>3, EndKept
    <2>2. Seeking(x, a)
      BY <1>1, <2>1 DEF Seeking
    <2>3. AskOK(a)
      BY <1>1, <2>1 DEF AskOK, Bounds
    <2> QED
      BY <2>2, <2>3 DEF Mode, Go
  <1> QED
    BY <1>2, <1>3

LEMMA DecrementOK ==
  ASSUME Trunk, NEW x \in Iter, x.live, Seated(x), KeyRest(x),
         NEW a, a = [op |-> "prev", key |-> Place(x)]
  PROVE  Mode(x, Go("retreat", <<>>, 0), a)
  <1>1. a.op = "prev" /\ a.key = Place(x)
    OBVIOUS
  <1>2. a.key = Key(x.at) /\ a.key \in Path /\ a.key # Past
    BY <1>1, PlaceIs
  <1>3. \A z : Wanted(a, z) <=> Ord!Less(Key(z), a.key)
    BY <1>1, <1>2 DEF Wanted
  <1>4. \A z \in TSet : Wanted(a, z) <=> Behind(x.stk, z)
    BY <1>2, <1>3, SeatedSides
  <1>5. Kept(x, AtTop(x)) /\ Stack(x.stk) /\ ~x.end
    BY SeatedKept DEF Seated
  <1>6. Retreating(x, a)
    BY <1>1, <1>4, <1>5 DEF Retreating
  <1>7. AskOK(a)
    BY <1>1, <1>2 DEF AskOK, Bounds
  <1> QED
    BY <1>6, <1>7 DEF Mode, Go

LEMMA LastOK ==
  ASSUME Trunk, NEW x \in Iter, x.live, AtEnd(x), NEW a, a = [op |-> "prev", key |-> Place(x)]
  PROVE  /\ Empty => Mode(x, Rests, a)
         /\ ~Empty => Mode([x EXCEPT !.end = FALSE, !.stk = <<>>, !.key = <<>>],
                           Go("max", <<>>, 0), a)
  <1>1. a.op = "prev" /\ a.key = Past /\ Place(x) = Past /\ Erased(a)
    BY EndKept DEF Erased
  <1>2. AskOK(a) /\ \A z : Wanted(a, z)
    BY <1>1 DEF AskOK, Bounds, Wanted
  <1>3. ASSUME Empty
        PROVE  Mode(x, Rests, a)
    <2>1. AnswerTo(a) = Past
      BY <1>1, <1>2, <1>3, EmptyOK
    <2>2. Done(x, a)
      BY <1>1, <2>1 DEF Done
    <2> QED
      BY <1>2, <2>2 DEF Mode, Rests, Go
  <1>4. ASSUME ~Empty
        PROVE  Mode([x EXCEPT !.end = FALSE, !.stk = <<>>, !.key = <<>>], Go("max", <<>>, 0), a)
    <2> DEFINE y == [x EXCEPT !.end = FALSE, !.stk = <<>>, !.key = <<>>]
    <2>1. /\ y.end = FALSE /\ y.stk = <<>> /\ y.key = <<>> /\ y.live = x.live /\ y.maintain = x.maintain
          /\ y \in Iter
      BY EmptyPath, EmptySeq DEF Iter
    <2> HIDE DEF y
    <2>2. /\ <<>> \in DOMAIN tree /\ Stack(<<>>) /\ Trail(<<>>, 0, <<>>) /\ Lens(<<>>)
          /\ \A z \in TSet : Under(<<>>, z)
      BY <1>4, AtRoot
    <2>3. Len(<<>>) = 0 /\ StartsWith(<<>>, <<>>)
      BY EmptyPath, StartsRefl
    <2>4. Down(y, <<>>, 0)
      BY <2>1, <2>2, <2>3 DEF Down, WayTo, Kept
    <2>5. MaxAt(y, <<>>, 0, a)
      BY <1>1, <1>2, <2>2, <2>4 DEF MaxAt
    <2> QED
      BY <1>2, <2>1, <2>5 DEF Mode, Go, y
  <1> QED
    BY <1>3, <1>4

LEMMA ReadsOK ==
  ASSUME Trunk, NEW x \in Iter, x.live, Seated(x), KeyRest(x), NEW op, op \in {"read", "erase"},
         NEW a, a = [op |-> op, key |-> Place(x)]
  PROVE  Mode(StartRead(x), Go("read", <<>>, 0), a)
  <1>1. a.op = op /\ a.key = Key(x.at) /\ a.key \in Path
    BY PlaceIs
  <1>2. AskOK(a)
    BY <1>1 DEF AskOK
  <1>3. StartRead(x) = x
    <2>1. CASE Known(x)
      BY <2>1 DEF StartRead, Known
    <2>2. CASE ~Known(x)
      <3>1. x.key = <<>>
        BY <2>2 DEF Known, KeyRest
      <3>2. StartRead(x) = [x EXCEPT !.key = x.key]
        BY <2>2, <3>1 DEF StartRead, Known
      <3> QED
        BY <3>2 DEF Iter
    <2> QED
      BY <2>1, <2>2
  <1>4. ~Known(x) => Replayed(x, 0)
    BY ReplayStarts DEF Known, KeyRest
  <1>5. ReadAt(x, 0, a)
    BY <1>1, <1>4 DEF ReadAt
  <1> QED
    BY <1>2, <1>3, <1>5 DEF Mode, Go

-----------------------------------------------------------------------------
(* What a step that leaves the tree alone leaves alone.                    *)

Steady == tree' = tree /\ req' = req

LEMMA CarryStack ==
  ASSUME Steady
  PROVE  /\ \A s : Stack(s)' <=> Stack(s)
         /\ \A s, m, q : Trail(s, m, q)' <=> Trail(s, m, q)
         /\ \A s, z : Ahead(s, z)' <=> Ahead(s, z)
         /\ \A s, z : Behind(s, z)' <=> Behind(s, z)
         /\ \A s : Lens(s)' <=> Lens(s)
  <1>1. tree' = tree
    BY DEF Steady
  <1>2. \A p, e : Taken(p, e)' = Taken(p, e)
    BY <1>1 DEF Taken
  <1>3. \A p, e : ChildOf(p, e)' = ChildOf(p, e)
    BY <1>1 DEF ChildOf
  <1>4. \A fr, q : Aims(fr, q)' <=> Aims(fr, q)
    BY <1>1, <1>2, <1>3 DEF Aims
  <1>5. \A s, m, q : Trail(s, m, q)' <=> Trail(s, m, q)
    BY <1>1, <1>4 DEF Trail
  <1>6. \A fr : Inner(fr)' <=> Inner(fr)
    BY <1>1 DEF Inner
  <1>7. \A s : Stack(s)' <=> Stack(s)
    BY <1>5, <1>6 DEF Stack
  <1>8. \A fr, z : Pends(fr, z)' <=> Pends(fr, z)
    BY <1>1, <1>2, <1>3 DEF Pends
  <1>9. \A fr, z : Passed(fr, z)' <=> Passed(fr, z)
    BY <1>1, <1>2, <1>3 DEF Passed
  <1>10. \A s, z : Ahead(s, z)' <=> Ahead(s, z)
    BY <1>8 DEF Ahead
  <1>11. \A s, z : Behind(s, z)' <=> Behind(s, z)
    BY <1>9 DEF Behind
  <1>12. \A s : Lens(s)' <=> Lens(s)
    BY <1>1 DEF Lens
  <1> QED
    BY <1>5, <1>7, <1>10, <1>11, <1>12

LEMMA CarryKeys ==
  ASSUME Steady
  PROVE  /\ TSet' = TSet /\ Stored' = Stored
         /\ \A z : Key(z)' = Key(z)
         /\ \A p : Full(p)' <=> Full(p)
         /\ \A a : AnswerTo(a)' = AnswerTo(a)
         /\ \A a, z : Wanted(a, z)' <=> Wanted(a, z)
         /\ \A a, z : FirstWanted(a, z)' <=> FirstWanted(a, z)
         /\ \A x : Place(x)' = Place(x)
         /\ \A a : Erased(a)' <=> Erased(a)
  <1>1. tree' = tree /\ req' = req
    BY DEF Steady
  <1>2. TSet' = TSet
    BY <1>1 DEF TSet
  <1>3. Stored' = Stored
    BY <1>1 DEF Stored
  <1>4. \A z : Key(z)' = Key(z)
    BY <1>1 DEF Key
  <1>5. \A p : Full(p)' <=> Full(p)
    BY <1>1 DEF Full
  <1>6. \A a : AnswerTo(a)' = AnswerTo(a)
    BY <1>3 DEF AnswerTo
  <1>7. \A a, z : Wanted(a, z)' <=> Wanted(a, z)
    BY <1>4 DEF Wanted
  <1>8. \A a, z : FirstWanted(a, z)' <=> FirstWanted(a, z)
    BY <1>2, <1>4, <1>7 DEF FirstWanted
  <1>9. \A x : Place(x)' = Place(x)
    BY <1>1 DEF Place
  <1>10. \A a : Erased(a)' <=> Erased(a)
    BY <1>1, <1>3 DEF Erased
  <1> QED
    BY <1>2, <1>3, <1>4, <1>5, <1>6, <1>7, <1>8, <1>9, <1>10

LEMMA CarryPlaces ==
  ASSUME Steady
  PROVE  /\ \A x, q : Kept(x, q)' <=> Kept(x, q)
         /\ \A x : KeyRest(x)' <=> KeyRest(x)
         /\ \A x, q : WayTo(x, q)' <=> WayTo(x, q)
         /\ \A x : Seated(x)' <=> Seated(x)
         /\ \A x : AtTop(x)' = AtTop(x)
         /\ \A x : Known(x)' <=> Known(x)
         /\ \A x, m : Replayed(x, m)' <=> Replayed(x, m)
  <1>1. tree' = tree
    BY DEF Steady
  <1>2. /\ \A s : Stack(s)' <=> Stack(s)
        /\ \A s, m, q : Trail(s, m, q)' <=> Trail(s, m, q)
        /\ \A s : Lens(s)' <=> Lens(s)
    BY CarryStack
  <1>3. /\ TSet' = TSet
        /\ \A z : Key(z)' = Key(z)
        /\ \A p : Full(p)' <=> Full(p)
    BY CarryKeys
  <1>4. \A x, q : Kept(x, q)' <=> Kept(x, q)
    BY <1>2 DEF Kept
  <1>5. \A x : KeyRest(x)' <=> KeyRest(x)
    BY <1>2, <1>3 DEF KeyRest
  <1>6. \A x, q : WayTo(x, q)' <=> WayTo(x, q)
    BY <1>1, <1>2 DEF WayTo
  <1>7. \A x : Seated(x)' <=> Seated(x)
    BY <1>1, <1>2, <1>3 DEF Seated, Top
  <1>8. \A x : AtTop(x)' = AtTop(x)
    BY <1>1 DEF AtTop, Top
  <1>9. \A x : Known(x)' <=> Known(x)
    BY <1>3 DEF Known
  <1>10. \A x, m : Upto(x, m)' = Upto(x, m)
    BY <1>1 DEF Upto
  <1>11. \A x, m : Replayed(x, m)' <=> Replayed(x, m)
    BY <1>1, <1>9, <1>10 DEF Replayed
  <1> QED
    BY <1>4, <1>5, <1>6, <1>7, <1>8, <1>9, <1>11

LEMMA CarryMode ==
  ASSUME Steady, NEW x, NEW g, NEW a, Mode(x, g, a)
  PROVE  Mode(x, g, a)'
  <1>1. /\ \A s : Stack(s)' <=> Stack(s)
        /\ \A s, z : Ahead(s, z)' <=> Ahead(s, z)
        /\ \A s, z : Behind(s, z)' <=> Behind(s, z)
    BY CarryStack
  <1>2. /\ TSet' = TSet
        /\ \A z : Key(z)' = Key(z)
        /\ \A b : AnswerTo(b)' = AnswerTo(b)
        /\ \A b, z : Wanted(b, z)' <=> Wanted(b, z)
        /\ \A b, z : FirstWanted(b, z)' <=> FirstWanted(b, z)
        /\ \A y : Place(y)' = Place(y)
        /\ \A b : Erased(b)' <=> Erased(b)
    BY CarryKeys
  <1>3. /\ \A y, q : Kept(y, q)' <=> Kept(y, q)
        /\ \A y : KeyRest(y)' <=> KeyRest(y)
        /\ \A y, q : WayTo(y, q)' <=> WayTo(y, q)
        /\ \A y : Seated(y)' <=> Seated(y)
        /\ \A y : AtTop(y)' = AtTop(y)
        /\ \A y : Known(y)' <=> Known(y)
        /\ \A y, m : Replayed(y, m)' <=> Replayed(y, m)
    BY CarryPlaces
  <1>4. Done(x, a)' <=> Done(x, a)
    BY <1>2, <1>3 DEF Done, AtEnd
  <1>5. Seeking(x, a)' <=> Seeking(x, a)
    BY <1>1, <1>2, <1>3 DEF Seeking
  <1>6. Retreating(x, a)' <=> Retreating(x, a)
    BY <1>1, <1>2, <1>3 DEF Retreating
  <1>7. \A q, c : Down(x, q, c)' <=> Down(x, q, c)
    BY <1>3 DEF Down
  <1>8. \A q, c : MinAt(x, q, c, a)' <=> MinAt(x, q, c, a)
    BY <1>1, <1>2, <1>7 DEF MinAt, Under
  <1>9. \A q, c : MaxAt(x, q, c, a)' <=> MaxAt(x, q, c, a)
    BY <1>1, <1>2, <1>7 DEF MaxAt, Under
  <1>10. \A q : LbAt(x, q, a)' <=> LbAt(x, q, a)
    BY <1>2, <1>3 DEF LbAt
  <1>11. \A m : ReadAt(x, m, a)' <=> ReadAt(x, m, a)
    BY <1>2, <1>3 DEF ReadAt
  <1> QED
    BY <1>4, <1>5, <1>6, <1>8, <1>9, <1>10, <1>11 DEF Mode, AskOK

-----------------------------------------------------------------------------
(* The steps of the loops.                                                 *)

\* The next iterator, loop and operation are in the mode the tree asks for.
Lasts == \A y, g, a : y = it' /\ g = go' /\ a = ask' => Mode(y, g, a)

LEMMA ArriveIs ==
  ASSUME NEW y, Arrive(y), ask' = ask, Mode(y, Landing(y, ask), ask)
  PROVE  Lasts
  BY DEF Arrive, Landing, Lasts

LEMMA ModeIs ==
  ASSUME NEW x, NEW g, NEW a, Mode(x, g, a)
  PROVE  /\ x \in Iter /\ x.live /\ AskOK(a)
         /\ g.do = "rest" => Done(x, a)
         /\ g.do = "seek" => Seeking(x, a)
         /\ g.do = "retreat" => Retreating(x, a)
         /\ g.do = "min" => MinAt(x, g.p, g.m, a)
         /\ g.do = "max" => MaxAt(x, g.p, g.m, a)
         /\ g.do = "lb" => LbAt(x, g.p, a)
         /\ g.do = "read" => ReadAt(x, g.m, a)
         /\ g.do # "remove"
  BY DEF Mode

LEMMA MinStep ==
  ASSUME Trunk, Mode(it, go, ask), MinLeaf \/ MinPn \/ MinTerm \/ MinEdgeDown
  PROVE  Lasts
  <1> DEFINE x == it
             a == ask
             q == go.p
             c == go.m
  <1>1. go.do = "min" /\ ask' = ask
    BY DEF MinLeaf, MinPn, MinTerm, MinEdgeDown, Through, In
  <1>2. x \in Iter /\ x.live /\ AskOK(a) /\ MinAt(x, q, c, a)
    BY <1>1, ModeIs
  <1>3. CASE MinLeaf
    <2>1. IsLeaf(tree, q) /\ Arrive(Emit(x, q, c))
      BY <1>3 DEF MinLeaf
    <2>2. Mode(Emit(x, q, c), Landing(Emit(x, q, c), a), a)
      BY <1>2, <2>1, MinLeafOK
    <2> QED
      BY <1>1, <2>1, <2>2, ArriveIs
  <1>4. CASE MinPn
    <2> DEFINE y == Enter(x, q, 1, c)
    <2>1. IsPn(tree, q) /\ it' = y /\ go' = Go("min", At(tree, q), Top(it').cbase)
      BY <1>4 DEF MinPn, Through
    <2>2. Mode(y, Go("min", At(tree, q), Top(y).cbase), a)
      BY <1>2, <2>1, MinPnOK
    <2> QED
      BY <1>1, <2>1, <2>2 DEF Lasts
  <1>5. CASE MinTerm
    <2> DEFINE y == EmitTerm(Enter(x, q, 0, c))
    <2>1. IsRouter(tree, q) /\ tree[q].term # NoVal /\ Arrive(y)
      BY <1>5 DEF MinTerm
    <2>2. Mode(y, Landing(y, a), a)
      BY <1>2, <2>1, MinTermOK
    <2> QED
      BY <1>1, <2>1, <2>2, ArriveIs
  <1>6. CASE MinEdgeDown
    <2> DEFINE y == Enter(x, q, 0, c)
               e == MinEdge(tree[q].edges)
    <2>1. IsRouter(tree, q) /\ tree[q].term = NoVal /\ it' = Take(y, e)
          /\ go' = Go("min", ChildOf(Top(y).node, e), Len(it'.key))
      BY <1>6 DEF MinEdgeDown, Along
    <2>2. Mode(Take(y, e), Go("min", ChildOf(q, e), Len(Take(y, e).key)), a)
      BY <1>2, <2>1, MinEdgeDownOK
    <2>3. Top(y).node = q
      BY <1>2, <2>1, RouterDown DEF MinAt
    <2> QED
      BY <1>1, <2>1, <2>2, <2>3 DEF Lasts
  <1> QED
    BY <1>3, <1>4, <1>5, <1>6

LEMMA MaxStep ==
  ASSUME Trunk, Mode(it, go, ask), MaxLeaf \/ MaxPn \/ MaxTerm \/ MaxEdgeDown
  PROVE  Lasts
  <1> DEFINE x == it
             a == ask
             q == go.p
             c == go.m
  <1>1. go.do = "max" /\ ask' = ask
    BY DEF MaxLeaf, MaxPn, MaxTerm, MaxEdgeDown, Through, In
  <1>2. x \in Iter /\ x.live /\ AskOK(a) /\ MaxAt(x, q, c, a)
    BY <1>1, ModeIs
  <1>3. CASE MaxLeaf
    <2>1. IsLeaf(tree, q) /\ Arrive(Emit(x, q, c))
      BY <1>3 DEF MaxLeaf
    <2>2. Mode(Emit(x, q, c), Landing(Emit(x, q, c), a), a)
      BY <1>2, <2>1, MaxLeafOK
    <2> QED
      BY <1>1, <2>1, <2>2, ArriveIs
  <1>4. CASE MaxPn
    <2> DEFINE y == Enter(x, q, 1, c)
    <2>1. IsPn(tree, q) /\ it' = y /\ go' = Go("max", At(tree, q), Top(it').cbase)
      BY <1>4 DEF MaxPn, Through
    <2>2. Mode(y, Go("max", At(tree, q), Top(y).cbase), a)
      BY <1>2, <2>1, MaxPnOK
    <2> QED
      BY <1>1, <2>1, <2>2 DEF Lasts
  <1>5. CASE MaxTerm
    <2> DEFINE y == EmitTerm(Enter(x, q, 0, c))
    <2>1. IsRouter(tree, q) /\ tree[q].edges = {} /\ Arrive(y)
      BY <1>5 DEF MaxTerm
    <2>2. Mode(y, Landing(y, a), a)
      BY <1>2, <2>1, MaxTermOK
    <2> QED
      BY <1>1, <2>1, <2>2, ArriveIs
  <1>6. CASE MaxEdgeDown
    <2> DEFINE y == Enter(x, q, 0, c)
               e == MaxEdge(tree[q].edges)
    <2>1. IsRouter(tree, q) /\ tree[q].edges # {} /\ it' = Take(y, e)
          /\ go' = Go("max", ChildOf(Top(y).node, e), Len(it'.key))
      BY <1>6 DEF MaxEdgeDown, Along
    <2>2. Mode(Take(y, e), Go("max", ChildOf(q, e), Len(Take(y, e).key)), a)
      BY <1>2, <2>1, MaxEdgeDownOK
    <2>3. Top(y).node = q
      BY <1>2, <2>1, RouterDown DEF MaxAt
    <2> QED
      BY <1>1, <2>1, <2>2, <2>3 DEF Lasts
  <1> QED
    BY <1>3, <1>4, <1>5, <1>6

LEMMA SeekStep ==
  ASSUME Trunk, Mode(it, go, ask), SeekEnd \/ SeekPn \/ SeekTerm \/ SeekEdge \/ SeekPop
  PROVE  Lasts
  <1> DEFINE x == it
             a == ask
             p == Top(it).node
             cur == Top(it).cur
  <1>1. go.do = "seek" /\ ask' = ask
    BY DEF SeekEnd, SeekPn, SeekTerm, SeekEdge, SeekPop, In
  <1>2. x \in Iter /\ x.live /\ AskOK(a) /\ Seeking(x, a)
    BY <1>1, ModeIs
  <1>3. CASE SeekEnd
    <2>1. x.stk = <<>> /\ Arrive(Off(x))
      BY <1>3 DEF SeekEnd
    <2>2. Mode(Off(x), Landing(Off(x), a), a)
      BY <1>2, <2>1, SeekEndOK
    <2> QED
      BY <1>1, <2>1, <2>2, ArriveIs
  <1>4. CASE SeekPn
    <2>1. /\ x.stk # <<>> /\ IsPn(tree, p) /\ cur = 0 /\ it' = SetTop(x, 1)
          /\ go' = Go("min", At(tree, p), Top(x).cbase)
      BY <1>4 DEF SeekPn, top
    <2>2. Mode(SetTop(x, 1), Go("min", At(tree, p), Top(x).cbase), a)
      BY <1>2, <2>1, SeekPnOK
    <2> QED
      BY <1>1, <2>1, <2>2 DEF Lasts
  <1>5. CASE SeekTerm
    <2>1. /\ x.stk # <<>> /\ IsRouter(tree, p) /\ cur = -1 /\ tree[p].term # NoVal
          /\ Arrive(EmitTerm(x))
      BY <1>5 DEF SeekTerm, TermPending, top
    <2>2. Mode(EmitTerm(x), Landing(EmitTerm(x), a), a)
      BY <1>2, <2>1, SeekTermOK
    <2> QED
      BY <1>1, <2>1, <2>2, ArriveIs
  <1>6. CASE SeekEdge
    <2> DEFINE e == MinEdge(EdgesFrom(p, cur))
    <2>1. /\ x.stk # <<>> /\ IsRouter(tree, p) /\ ~(cur = -1 /\ tree[p].term # NoVal)
          /\ EdgesFrom(p, cur) # {} /\ it' = Take(x, e)
          /\ go' = Go("min", ChildOf(p, e), Len(it'.key))
      BY <1>6 DEF SeekEdge, TermPending, top, Along
    <2>2. Mode(Take(x, e), Go("min", ChildOf(p, e), Len(Take(x, e).key)), a)
      BY <1>2, <2>1, SeekEdgeOK
    <2> QED
      BY <1>1, <2>1, <2>2 DEF Lasts
  <1>7. CASE SeekPop
    <2>1. /\ x.stk # <<>>
          /\ IsPn(tree, p) => cur # 0
          /\ IsRouter(tree, p) =>
               /\ ~(cur = -1 /\ tree[p].term # NoVal)
               /\ EdgesFrom(p, cur) = {}
          /\ it' = PopTop(x) /\ go' = go
      BY <1>7 DEF SeekPop, TermPending, top
    <2>2. Mode(PopTop(x), go, a)
      BY <1>1, <1>2, <2>1, SeekPopOK
    <2> QED
      BY <1>1, <2>1, <2>2 DEF Lasts
  <1> QED
    BY <1>3, <1>4, <1>5, <1>6, <1>7

LEMMA RetreatStep ==
  ASSUME Trunk, Mode(it, go, ask), RetreatEnd \/ RetreatEdge \/ RetreatTerm \/ RetreatPop
  PROVE  Lasts
  <1> DEFINE x == it
             a == ask
             p == Top(it).node
             cur == Top(it).cur
  <1>1. go.do = "retreat" /\ ask' = ask
    BY DEF RetreatEnd, RetreatEdge, RetreatTerm, RetreatPop, In
  <1>2. x \in Iter /\ x.live /\ AskOK(a) /\ Retreating(x, a)
    BY <1>1, ModeIs
  <1>3. CASE RetreatEnd
    <2>1. x.stk = <<>> /\ Arrive(Off(x))
      BY <1>3 DEF RetreatEnd
    <2>2. Mode(Off(x), Landing(Off(x), a), a)
      BY <1>2, <2>1, SeekEndOK
    <2> QED
      BY <1>1, <2>1, <2>2, ArriveIs
  <1>4. CASE RetreatEdge
    <2> DEFINE e == MaxEdge(EdgesBefore(p, cur))
    <2>1. /\ x.stk # <<>> /\ IsRouter(tree, p) /\ EdgesBefore(p, cur) # {}
          /\ it' = Take(x, e) /\ go' = Go("max", ChildOf(p, e), Len(it'.key))
      BY <1>4 DEF RetreatEdge, top, Along
    <2>2. Mode(Take(x, e), Go("max", ChildOf(p, e), Len(Take(x, e).key)), a)
      BY <1>2, <2>1, RetreatEdgeOK
    <2> QED
      BY <1>1, <2>1, <2>2 DEF Lasts
  <1>5. CASE RetreatTerm
    <2>1. /\ x.stk # <<>> /\ IsRouter(tree, p) /\ EdgesBefore(p, cur) = {} /\ cur >= 1
          /\ tree[p].term # NoVal /\ Arrive(EmitTerm(x))
      BY <1>5 DEF RetreatTerm, top
    <2>2. Mode(EmitTerm(x), Landing(EmitTerm(x), a), a)
      BY <1>2, <2>1, RetreatTermOK
    <2> QED
      BY <1>1, <2>1, <2>2, ArriveIs
  <1>6. CASE RetreatPop
    <2>1. /\ x.stk # <<>>
          /\ IsRouter(tree, p) =>
               /\ EdgesBefore(p, cur) = {}
               /\ cur < 1 \/ tree[p].term = NoVal
          /\ it' = PopTop(x) /\ go' = go
      BY <1>6 DEF RetreatPop, NothingBehind, top
    <2>2. Mode(PopTop(x), go, a)
      BY <1>1, <1>2, <2>1, RetreatPopOK
    <2> QED
      BY <1>1, <2>1, <2>2 DEF Lasts
  <1> QED
    BY <1>3, <1>4, <1>5, <1>6

LEMMA LbStep ==
  ASSUME Trunk, Mode(it, go, ask), LbLeaf \/ LbParts \/ LbPn \/ LbTerm \/ LbEdge \/ LbNoEdge
  PROVE  Lasts
  <1> DEFINE x == it
             a == ask
             q == go.p
  <1>1. go.do = "lb" /\ ask' = ask
    BY DEF LbLeaf, LbParts, LbPn, LbTerm, LbEdge, LbNoEdge, In
  <1>2. x \in Iter /\ x.live /\ AskOK(a) /\ LbAt(x, q, a)
    BY <1>1, ModeIs
  <1>3. /\ sought = a.key /\ a.op \in Bounds /\ q \in DOMAIN tree
        /\ kr = Rest(a.key, q) /\ kq = Rest(a.key, At(tree, q))
    <2>1. a.op \in Bounds /\ Erased(a) /\ q \in DOMAIN tree
      BY <1>2 DEF LbAt, WayTo
    <2>2. sought = a.key
      BY <2>1 DEF Erased, sought
    <2> QED
      BY <2>1, <2>2 DEF kr, kq
  <1>4. CASE LbLeaf
    <2>1. IsLeaf(tree, q) /\ q \in TSet
      BY <1>3, <1>4 DEF LbLeaf, TSet, Terminals
    <2>2. Qualifies(KeyAt(tree, q)) <=> Wanted(a, q)
      BY <1>3 DEF Qualifies, Upper, Wanted, Bounds, Key
    <2>3. CASE Wanted(a, q)
      <3>1. Arrive(Emit(x, q, 0))
        BY <1>4, <2>2, <2>3 DEF LbLeaf
      <3>2. Mode(Emit(x, q, 0), Landing(Emit(x, q, 0), a), a)
        BY <1>2, <2>1, <2>3, LbLeafOK
      <3> QED
        BY <1>1, <3>1, <3>2, ArriveIs
    <2>4. CASE ~Wanted(a, q)
      <3>1. it' = x /\ go' = Go("seek", <<>>, 0)
        BY <1>4, <2>2, <2>4 DEF LbLeaf, SeekOn
      <3>2. Mode(x, Go("seek", <<>>, 0), a)
        BY <1>2, <2>1, <2>4, LbLeafPastOK
      <3> QED
        BY <1>1, <3>1, <3>2 DEF Lasts
    <2> QED
      BY <2>3, <2>4
  <1>5. CASE LbParts
    <2>1. ~IsLeaf(tree, q) /\ ~StartsWith(kr, tree[q].pfx) /\ go' = Go("seek", <<>>, 0)
      BY <1>5 DEF LbParts, Parts, SeekOn
    <2>2. it' = IF Greater(tree[q].pfx, kr) THEN Descend(x, q)
                ELSE Push(x, q, IF IsPn(tree, q) THEN 1 ELSE MaxByte + 1)
      BY <1>5 DEF LbParts
    <2>3. /\ Greater(tree[q].pfx, kr) => Mode(Descend(x, q), Go("seek", <<>>, 0), a)
          /\ ~Greater(tree[q].pfx, kr) =>
               Mode(Push(x, q, IF IsPn(tree, q) THEN 1 ELSE MaxByte + 1), Go("seek", <<>>, 0), a)
      BY <1>2, <1>3, <2>1, LbPartsOK
    <2> QED
      BY <1>1, <2>1, <2>2, <2>3 DEF Lasts
  <1>6. CASE LbPn
    <2>1. IsPn(tree, q) /\ StartsWith(kr, tree[q].pfx) /\ it' = Push(x, q, 1)
          /\ go' = Go("lb", At(tree, q), 0)
      BY <1>6 DEF LbPn, Matches
    <2>2. Mode(Push(x, q, 1), Go("lb", At(tree, q), 0), a)
      BY <1>2, <1>3, <2>1, LbPnOK
    <2> QED
      BY <1>1, <2>1, <2>2 DEF Lasts
  <1>7. CASE LbTerm
    <2> DEFINE cur == IF a.op = "upper" THEN 0 ELSE -1
    <2>1. IsRouter(tree, q) /\ StartsWith(kr, tree[q].pfx) /\ kq = <<>> /\ it' = Push(x, q, cur)
          /\ go' = Go("seek", <<>>, 0)
      BY <1>7 DEF LbTerm, Matches, Upper, SeekOn
    <2>2. Mode(Push(x, q, cur), Go("seek", <<>>, 0), a)
      BY <1>2, <1>3, <2>1, LbTermOK
    <2> QED
      BY <1>1, <2>1, <2>2 DEF Lasts
  <1>8. CASE LbEdge
    <2>1. IsRouter(tree, q) /\ StartsWith(kr, tree[q].pfx) /\ kq # <<>> /\ ke \in tree[q].edges
          /\ it' = Push(x, q, Taken(q, ke)) /\ go' = Go("lb", ChildOf(q, ke), 0)
      BY <1>8 DEF LbEdge, Matches
    <2>2. ke = Stem(q, kq)
      BY DEF ke, Stem
    <2>3. Mode(Push(x, q, Taken(q, ke)), Go("lb", ChildOf(q, ke), 0), a)
      BY <1>2, <1>3, <2>1, <2>2, LbEdgeOK
    <2> QED
      BY <1>1, <2>1, <2>3 DEF Lasts
  <1>9. CASE LbNoEdge
    <2> DEFINE cur == IF tree[q].kind = "u16" THEN StemCursor(q, kq) ELSE kq[1]
    <2>1. IsRouter(tree, q) /\ StartsWith(kr, tree[q].pfx) /\ kq # <<>> /\ ke \notin tree[q].edges
          /\ it' = Push(x, q, cur) /\ go' = Go("seek", <<>>, 0)
      BY <1>9 DEF LbNoEdge, Matches, SeekOn
    <2>2. ke = Stem(q, kq)
      BY DEF ke, Stem
    <2>3. Mode(Push(x, q, cur), Go("seek", <<>>, 0), a)
      BY <1>2, <1>3, <2>1, <2>2, LbNoEdgeOK
    <2> QED
      BY <1>1, <2>1, <2>3 DEF Lasts
  <1> QED
    BY <1>4, <1>5, <1>6, <1>7, <1>8, <1>9

LEMMA ReadStep ==
  ASSUME Trunk, Mode(it, go, ask), ReadFrame \/ ReadSuffix \/ ReadEnd \/ FindEnd
  PROVE  Lasts
  <1> DEFINE x == it
             a == ask
             m == go.m
  <1>1. go.do = "read" /\ ask' = ask
    BY DEF ReadFrame, ReadSuffix, ReadEnd, FindEnd, Reading, In
  <1>2. x \in Iter /\ x.live /\ AskOK(a) /\ ReadAt(x, m, a)
    BY <1>1, ModeIs
  <1>3. HasKey <=> Known(x)
    BY DEF HasKey, Known
  <1>4. CASE ReadFrame
    <2>1. ~Known(x) /\ m < Len(x.stk) /\ it' = Primed(x, m + 1) /\ go' = Go("read", <<>>, m + 1)
      BY <1>3, <1>4 DEF ReadFrame, Reading
    <2>2. Mode(Primed(x, m + 1), Go("read", <<>>, m + 1), a)
      BY <1>2, <2>1, ReadFrameOK
    <2> QED
      BY <1>1, <2>1, <2>2 DEF Lasts
  <1>5. CASE ReadSuffix
    <2> DEFINE y == [x EXCEPT !.key = @ \o Sfx(x.at), !.maintain = TRUE]
    <2>1. ~Known(x) /\ m >= Len(x.stk) /\ it' = y /\ go' = go
      BY <1>3, <1>5 DEF ReadSuffix, Reading
    <2>2. Mode(y, go, a)
      BY <1>1, <1>2, <2>1, ReadSuffixOK
    <2> QED
      BY <1>1, <2>1, <2>2 DEF Lasts
  <1>6. CASE ReadEnd
    <2>1. Known(x) /\ a.op = "read" /\ it' = x /\ go' = Rests
      BY <1>3, <1>6 DEF ReadEnd
    <2>2. Mode(x, Rests, a)
      BY <1>2, <2>1, ReadEndOK
    <2> QED
      BY <1>1, <2>1, <2>2 DEF Lasts
  <1>7. CASE FindEnd
    <2>1. Known(x) /\ a.op = "find" /\ it' = (IF KeyBytes = sought THEN x ELSE EndIt) /\ go' = Rests
      BY <1>3, <1>7 DEF FindEnd
    <2>2. KeyBytes = BytesOf(x) /\ sought = a.key
      BY <2>1 DEF KeyBytes, BytesOf, sought
    <2>3. Mode(IF BytesOf(x) = a.key THEN x ELSE EndIt, Rests, a)
      BY <1>2, <2>1, FindEndOK
    <2> QED
      BY <1>1, <2>1, <2>2, <2>3 DEF Lasts
  <1> QED
    BY <1>4, <1>5, <1>6, <1>7

\* A bound is looked for, or erase(pos) looks for what followed.
LEMMA BoundStep ==
  ASSUME Trunk, Bound, AskOK(ask'), ask'.op \in Bounds,
         ask'.op = "erase" => ask'.key \notin Stored /\ req.key = ask'.key
  PROVE  Lasts
  <1> DEFINE a == ask'
  <1>1. Erased(a)
    BY DEF Erased
  <1>2. /\ Empty => Mode(EndIt, Rests, a)
        /\ ~Empty => Mode(Fresh, Go("lb", <<>>, 0), a)
    BY <1>1, BoundOK
  <1> QED
    BY <1>2 DEF Bound, Lasts

LEMMA NewStep ==
  ASSUME Trunk, \/ Begin \/ End
                \/ \E k \in Probes : LowerBound(k) \/ UpperBound(k) \/ Find(k)
  PROVE  Lasts
  <1>1. CASE Begin
    <2>1. ask' = [op |-> "begin", key |-> Past]
      BY <1>1 DEF Begin, New, Starts
    <2>2. /\ it' = IF Empty THEN EndIt ELSE Descend(Fresh, <<>>)
          /\ go' = IF Empty \/ IsLeaf(tree, <<>>) THEN Rests ELSE Go("seek", <<>>, 0)
      BY <1>1 DEF Begin
    <2>3. Mode(IF Empty THEN EndIt ELSE Descend(Fresh, <<>>),
               IF Empty \/ IsLeaf(tree, <<>>) THEN Rests ELSE Go("seek", <<>>, 0),
               [op |-> "begin", key |-> Past])
      BY BeginOK
    <2> QED
      BY <2>1, <2>2, <2>3 DEF Lasts
  <1>2. CASE End
    <2>1. ask' = [op |-> "end", key |-> Past] /\ it' = EndIt /\ go' = Rests
      BY <1>2 DEF End, New, Starts
    <2> QED
      BY <2>1, EndOK DEF Lasts
  <1>3. ASSUME NEW k \in Probes, LowerBound(k) \/ UpperBound(k) \/ Find(k)
        PROVE  Lasts
    <2>1. PICK op \in {"lower", "upper", "find"} : Bound /\ ask' = [op |-> op, key |-> k]
      BY <1>3 DEF LowerBound, UpperBound, Find, New, Starts
    <2>2. k \in Path
      BY ProbesAssumption
    <2>3. ask'.op = op /\ ask'.key = k
      BY <2>1
    <2>4. AskOK(ask') /\ ask'.op \in Bounds /\ ask'.op # "erase"
      BY <2>2, <2>3 DEF AskOK, Bounds
    <2> QED
      BY <2>1, <2>4, BoundStep
  <1> QED
    BY <1>1, <1>2, <1>3

LEMMA MoveStep ==
  ASSUME Trunk, it.live => Mode(it, go, ask), Increment \/ Decrement \/ Read \/ Erase
  PROVE  Lasts
  <1> DEFINE x == it
  <1>1. x.live /\ go.do = "rest" /\ ask'.key = Place(x)
    BY DEF Increment, Decrement, Read, Erase, Reads, Moves, Starts
  <1>2. x \in Iter /\ ((Seated(x) /\ KeyRest(x)) \/ AtEnd(x))
    BY <1>1, ModeIs DEF Done
  <1>3. CASE Increment
    <2>1. it' = x /\ go' = Go("seek", <<>>, 0) /\ ask' = [op |-> "next", key |-> Place(x)]
      BY <1>3 DEF Increment, Moves, Starts
    <2>2. Mode(x, Go("seek", <<>>, 0), [op |-> "next", key |-> Place(x)])
      BY <1>1, <1>2, IncrementOK
    <2> QED
      BY <2>1, <2>2 DEF Lasts
  <1>4. CASE Decrement
    <2>1. ask' = [op |-> "prev", key |-> Place(x)]
      BY <1>4 DEF Decrement, Moves, Starts
    <2>2. CASE ~x.end
      <3>1. it' = x /\ go' = Go("retreat", <<>>, 0)
        BY <1>4, <2>2 DEF Decrement
      <3>2. Seated(x) /\ KeyRest(x)
        BY <1>2, <2>2 DEF AtEnd
      <3>3. Mode(x, Go("retreat", <<>>, 0), [op |-> "prev", key |-> Place(x)])
        BY <1>1, <1>2, <3>2, DecrementOK
      <3> QED
        BY <2>1, <3>1, <3>3 DEF Lasts
    <2>3. CASE x.end
      <3> DEFINE y == [x EXCEPT !.end = FALSE, !.stk = <<>>, !.key = <<>>]
      <3>1. /\ Empty => it' = x /\ go' = Rests
            /\ ~Empty => it' = y /\ go' = Go("max", <<>>, 0)
        BY <1>4, <2>3 DEF Decrement
      <3>2. AtEnd(x)
        BY <1>2, <2>3 DEF Seated
      <3>3. /\ Empty => Mode(x, Rests, [op |-> "prev", key |-> Place(x)])
            /\ ~Empty => Mode(y, Go("max", <<>>, 0), [op |-> "prev", key |-> Place(x)])
        BY <1>1, <1>2, <3>2, LastOK
      <3> QED
        BY <2>1, <3>1, <3>3 DEF Lasts
    <2> QED
      BY <2>2, <2>3
  <1>5. CASE Read \/ Erase
    <2>1. PICK op \in {"read", "erase"} :
            /\ ~x.end /\ ask' = [op |-> op, key |-> Place(x)]
            /\ it' = StartRead(x) /\ go' = Go("read", <<>>, 0)
      BY <1>5 DEF Read, Erase, Reads, Moves, Starts
    <2>2. Seated(x) /\ KeyRest(x)
      BY <1>2, <2>1 DEF AtEnd
    <2>3. Mode(StartRead(x), Go("read", <<>>, 0), [op |-> op, key |-> Place(x)])
      BY <1>1, <1>2, <2>2, ReadsOK
    <2> QED
      BY <2>1, <2>3 DEF Lasts
  <1> QED
    BY <1>3, <1>4, <1>5

=============================================================================
