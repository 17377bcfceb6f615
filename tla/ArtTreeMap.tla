------------------------------ MODULE ArtTreeMap ------------------------------
(***************************************************************************)
(* The tree of ArtTree implements the dictionary of MapSpec: proofs.       *)
(*                                                                         *)
(* A tree is looked at as the set of its facts: the key and the value that *)
(* every leaf and every term holds.  What a step does to the facts follows *)
(* from the few nodes it rebuilds; that a lookup which ends without a hit  *)
(* has missed nothing follows from the tree being a trie.                  *)
(***************************************************************************)
EXTENDS ArtTreeProofs

-----------------------------------------------------------------------------
(* Facts.                                                                  *)

\* What a node x at slot p holds.
Own(p, x) ==
  CASE x.kind = "leaf" -> {<<p \o x.suf, x.val>>}
    [] x.kind \in RouterKinds /\ x.term # NoVal -> {<<p \o x.pfx, x.term>>}
    [] OTHER -> {}

Facts(t) == UNION {Own(p, t[p]) : p \in DOMAIN t}

LEMMA OwnIs ==
  ASSUME NEW p, NEW x
  PROVE  /\ x.kind = "leaf" => Own(p, x) = {<<p \o x.suf, x.val>>}
         /\ x.kind = "pn" => Own(p, x) = {}
         /\ x.kind \in RouterKinds /\ x.term = NoVal => Own(p, x) = {}
         /\ x.kind \in RouterKinds /\ x.term # NoVal => Own(p, x) = {<<p \o x.pfx, x.term>>}
  <1>1. "leaf" \notin RouterKinds /\ "pn" \notin RouterKinds
    BY DEF RouterKinds, CnodeKinds
  <1> QED
    BY <1>1 DEF Own

LEMMA FactsAre ==
  ASSUME NEW t, NEW f
  PROVE  f \in Facts(t) <=> \E p \in DOMAIN t : f \in Own(p, t[p])
  BY DEF Facts

\* The facts of a tree that is put together from two.
LEMMA FactsOver ==
  ASSUME NEW t, NEW u, \A p \in DOMAIN t \cap DOMAIN u : Own(p, t[p]) = {}
  PROVE  Facts(Over(t, u)) = Facts(t) \cup Facts(u)
  <1> DEFINE w == Over(t, u)
  <1>1. /\ DOMAIN w = DOMAIN t \cup DOMAIN u
        /\ \A q \in DOMAIN u : w[q] = u[q]
        /\ \A q \in DOMAIN t \ DOMAIN u : w[q] = t[q]
    BY DEF Over
  <1> HIDE DEF w
  <1>2. ASSUME NEW f \in Facts(w)
        PROVE  f \in Facts(t) \cup Facts(u)
    <2>1. PICK p \in DOMAIN w : f \in Own(p, w[p])
      BY FactsAre
    <2>2. CASE p \in DOMAIN u
      BY <1>1, <2>1, <2>2, FactsAre
    <2>3. CASE p \notin DOMAIN u
      BY <1>1, <2>1, <2>3, FactsAre
    <2> QED
      BY <2>2, <2>3
  <1>3. ASSUME NEW f \in Facts(u)
        PROVE  f \in Facts(w)
    <2>1. PICK p \in DOMAIN u : f \in Own(p, u[p])
      BY FactsAre
    <2> QED
      BY <1>1, <2>1, FactsAre
  <1>4. ASSUME NEW f \in Facts(t)
        PROVE  f \in Facts(w)
    <2>1. PICK p \in DOMAIN t : f \in Own(p, t[p])
      BY FactsAre
    <2>2. p \notin DOMAIN u
      BY <2>1
    <2> QED
      BY <1>1, <2>1, <2>2, FactsAre
  <1> QED
    BY <1>2, <1>3, <1>4 DEF w

\* One node more, or one in the place of a node that held nothing.
LEMMA FactsUpd ==
  ASSUME NEW t, NEW p, NEW x, p \in DOMAIN t => Own(p, t[p]) = {}
  PROVE  Facts(Upd(t, p, x)) = Facts(t) \cup Own(p, x)
  <1> DEFINE w == Upd(t, p, x)
  <1>1. /\ DOMAIN w = DOMAIN t \cup {p} /\ w[p] = x
        /\ \A q \in DOMAIN t \ {p} : w[q] = t[q]
    BY DEF Upd
  <1> HIDE DEF w
  <1>2. ASSUME NEW f \in Facts(w)
        PROVE  f \in Facts(t) \cup Own(p, x)
    <2>1. PICK q \in DOMAIN w : f \in Own(q, w[q])
      BY FactsAre
    <2>2. CASE q = p
      BY <1>1, <2>1, <2>2
    <2>3. CASE q # p
      BY <1>1, <2>1, <2>3, FactsAre
    <2> QED
      BY <2>2, <2>3
  <1>3. ASSUME NEW f \in Facts(t)
        PROVE  f \in Facts(w)
    <2>1. PICK q \in DOMAIN t : f \in Own(q, t[q])
      BY FactsAre
    <2> QED
      BY <1>1, <2>1, FactsAre
  <1>4. ASSUME NEW f \in Own(p, x)
        PROVE  f \in Facts(w)
    BY <1>1, <1>4, FactsAre
  <1> QED
    BY <1>2, <1>3, <1>4 DEF w

\* One node less.
LEMMA FactsDrop ==
  ASSUME NEW t, NEW p \in DOMAIN t
  PROVE  Facts(t) = Facts(Drop(t, {p})) \cup Own(p, t[p])
  <1> DEFINE w == Drop(t, {p})
  <1>1. DOMAIN w = DOMAIN t \ {p} /\ \A q \in DOMAIN w : w[q] = t[q]
    BY DEF Drop
  <1> HIDE DEF w
  <1>2. ASSUME NEW f \in Facts(w)
        PROVE  f \in Facts(t)
    <2>1. PICK q \in DOMAIN w : f \in Own(q, w[q])
      BY FactsAre
    <2> QED
      BY <1>1, <2>1, FactsAre
  <1>3. ASSUME NEW f \in Facts(t)
        PROVE  f \in Facts(w) \cup Own(p, t[p])
    <2>1. PICK q \in DOMAIN t : f \in Own(q, t[q])
      BY FactsAre
    <2> QED
      BY <1>1, <2>1, FactsAre
  <1>4. Own(p, t[p]) \subseteq Facts(t)
    BY FactsAre
  <1> QED
    BY <1>2, <1>3, <1>4 DEF w

\* Nodes of t that hold nothing go.
LEMMA FactsDropNone ==
  ASSUME NEW t, NEW S, \A p \in S \cap DOMAIN t : Own(p, t[p]) = {}
  PROVE  Facts(Drop(t, S)) = Facts(t)
  <1> DEFINE w == Drop(t, S)
  <1>1. DOMAIN w = DOMAIN t \ S /\ \A q \in DOMAIN w : w[q] = t[q]
    BY DEF Drop
  <1> HIDE DEF w
  <1>2. ASSUME NEW f \in Facts(w)
        PROVE  f \in Facts(t)
    <2>1. PICK q \in DOMAIN w : f \in Own(q, w[q])
      BY FactsAre
    <2> QED
      BY <1>1, <2>1, FactsAre
  <1>3. ASSUME NEW f \in Facts(t)
        PROVE  f \in Facts(w)
    <2>1. PICK q \in DOMAIN t : f \in Own(q, t[q])
      BY FactsAre
    <2> QED
      BY <1>1, <2>1, FactsAre
  <1> QED
    BY <1>2, <1>3 DEF w

\* Nodes that changed without changing what they hold.
LEMMA FactsSame ==
  ASSUME NEW t, NEW u, DOMAIN u = DOMAIN t, \A p \in DOMAIN t : Own(p, u[p]) = Own(p, t[p])
  PROVE  Facts(u) = Facts(t)
  <1>1. \A f : f \in Facts(u) <=> f \in Facts(t)
    BY FactsAre
  <1> QED
    BY <1>1

-----------------------------------------------------------------------------
(* The dictionary of a tree.                                               *)

\* No two nodes of t hold the same key.
Uniq(t) == \A p, q \in Terminals(t) : KeyAt(t, p) = KeyAt(t, q) => p = q

LEMMA TerminalOwn ==
  ASSUME NEW t, NEW p \in DOMAIN t
  PROVE  /\ p \in Terminals(t) => Own(p, t[p]) = {<<KeyAt(t, p), ValAt(t, p)>>}
         /\ p \notin Terminals(t) => Own(p, t[p]) = {}
  <1>1. "leaf" \notin RouterKinds
    BY DEF RouterKinds, CnodeKinds
  <1>2. CASE t[p].kind = "leaf"
    BY <1>1, <1>2, OwnIs DEF Terminals, KeyAt, ValAt, IsLeaf, IsRouter
  <1>3. CASE t[p].kind \in RouterKinds
    BY <1>1, <1>3, OwnIs DEF Terminals, KeyAt, ValAt, IsLeaf, IsRouter, At
  <1>4. CASE t[p].kind # "leaf" /\ t[p].kind \notin RouterKinds
    BY <1>4 DEF Own, Terminals, IsLeaf, IsRouter
  <1> QED
    BY <1>2, <1>3, <1>4

LEMMA FactIs ==
  ASSUME NEW t, NEW k, NEW v
  PROVE  <<k, v>> \in Facts(t) <=> \E p \in Terminals(t) : k = KeyAt(t, p) /\ v = ValAt(t, p)
  <1>1. Terminals(t) \subseteq DOMAIN t
    BY DEF Terminals
  <1>2. ASSUME NEW p \in DOMAIN t, <<k, v>> \in Own(p, t[p])
        PROVE  p \in Terminals(t) /\ k = KeyAt(t, p) /\ v = ValAt(t, p)
    BY <1>2, TerminalOwn
  <1>3. ASSUME NEW p \in Terminals(t), k = KeyAt(t, p), v = ValAt(t, p)
        PROVE  <<k, v>> \in Own(p, t[p])
    BY <1>1, <1>3, TerminalOwn
  <1> QED
    BY <1>1, <1>2, <1>3, FactsAre

LEMMA ContentIs ==
  ASSUME NEW t, Uniq(t)
  PROVE  /\ \A k : k \in DOMAIN Content(t) <=> \E v : <<k, v>> \in Facts(t)
         /\ \A k, v : <<k, v>> \in Facts(t) => Content(t)[k] = v
         /\ \A k \in DOMAIN Content(t) : <<k, Content(t)[k]>> \in Facts(t)
  <1>1. DOMAIN Content(t) = {KeyAt(t, p) : p \in Terminals(t)}
    BY DEF Content
  <1>2. ASSUME NEW p \in Terminals(t)
        PROVE  Content(t)[KeyAt(t, p)] = ValAt(t, p)
    <2> DEFINE k == KeyAt(t, p)
               q == CHOOSE x \in Terminals(t) : KeyAt(t, x) = k
    <2>1. q \in Terminals(t) /\ KeyAt(t, q) = k
      OBVIOUS
    <2>2. q = p
      BY <2>1 DEF Uniq
    <2>3. Content(t)[k] = ValAt(t, q)
      BY DEF Content
    <2> QED
      BY <2>2, <2>3
  <1>3. \A k : k \in DOMAIN Content(t) <=> \E v : <<k, v>> \in Facts(t)
    BY <1>1, FactIs
  <1>4. \A k, v : <<k, v>> \in Facts(t) => Content(t)[k] = v
    BY <1>2, FactIs
  <1> QED
    BY <1>3, <1>4

LEMMA ContentFcn ==
  ASSUME NEW t
  PROVE  Content(t) = [k \in DOMAIN Content(t) |-> Content(t)[k]]
  BY DEF Content

-----------------------------------------------------------------------------
(* Two trees and their dictionaries.                                       *)

LEMMA SameContent ==
  ASSUME NEW t, NEW u, Uniq(t), Uniq(u), Facts(u) = Facts(t)
  PROVE  Content(u) = Content(t)
  <1>1. DOMAIN Content(u) = DOMAIN Content(t)
    <2>1. \A k : k \in DOMAIN Content(u) <=> k \in DOMAIN Content(t)
      BY ContentIs
    <2>2. DOMAIN Content(u) = {KeyAt(u, p) : p \in Terminals(u)}
          /\ DOMAIN Content(t) = {KeyAt(t, p) : p \in Terminals(t)}
      BY DEF Content
    <2> QED
      BY <2>1, <2>2
  <1>2. \A k \in DOMAIN Content(t) : Content(u)[k] = Content(t)[k]
    BY ContentIs
  <1> QED
    BY <1>1, <1>2, ContentFcn

\* A tree u with the fact that k maps to v, and otherwise those of t about other keys.
Assigns(t, u, k, v) ==
  /\ <<k, v>> \in Facts(u)
  /\ \A x, w : x # k => (<<x, w>> \in Facts(u) <=> <<x, w>> \in Facts(t))

LEMMA WithContent ==
  ASSUME NEW t, NEW u, Uniq(t), Uniq(u), NEW k, NEW v, Assigns(t, u, k, v)
  PROVE  Content(u) = Abs!With(Content(t), k, v)
  <1> DEFINE d == Abs!With(Content(t), k, v)
  <1>1. /\ DOMAIN d = DOMAIN Content(t) \cup {k}
        /\ \A x \in DOMAIN d : d[x] = IF x = k THEN v ELSE Content(t)[x]
        /\ d = [x \in DOMAIN d |-> d[x]]
    BY DEF Abs!With
  <1> HIDE DEF d
  <1>2. \A x : x \in DOMAIN Content(u) <=> x \in DOMAIN d
    <2>1. \A x : x # k => (x \in DOMAIN Content(u) <=> x \in DOMAIN Content(t))
      BY ContentIs DEF Assigns
    <2>2. k \in DOMAIN Content(u)
      BY ContentIs DEF Assigns
    <2> QED
      BY <1>1, <2>1, <2>2
  <1>3. ASSUME NEW x \in DOMAIN d
        PROVE  Content(u)[x] = d[x]
    <2>1. CASE x = k
      BY <1>1, <2>1, ContentIs DEF Assigns
    <2>2. CASE x # k
      <3>1. <<x, Content(t)[x]>> \in Facts(t)
        BY <1>1, <2>2, ContentIs
      <3>2. <<x, Content(t)[x]>> \in Facts(u)
        BY <2>2, <3>1 DEF Assigns
      <3> QED
        BY <1>1, <2>2, <3>2, ContentIs
    <2> QED
      BY <2>1, <2>2
  <1>4. DOMAIN Content(u) = DOMAIN d
    <2>1. DOMAIN Content(u) = {KeyAt(u, p) : p \in Terminals(u)}
      BY DEF Content
    <2>2. DOMAIN d = {x \in DOMAIN d : TRUE}
      OBVIOUS
    <2> QED
      BY <1>1, <1>2, <2>1, <2>2
  <1>5. Content(u) = [x \in DOMAIN d |-> d[x]]
    BY <1>3, <1>4, ContentFcn
  <1> QED
    BY <1>1, <1>5 DEF d

\* A tree u with the facts of t about keys other than k.
Removes(t, u, k) ==
  /\ \A w : <<k, w>> \notin Facts(u)
  /\ \A x, w : x # k => (<<x, w>> \in Facts(u) <=> <<x, w>> \in Facts(t))

LEMMA WithoutContent ==
  ASSUME NEW t, NEW u, Uniq(t), Uniq(u), NEW k, Removes(t, u, k)
  PROVE  Content(u) = Abs!Without(Content(t), k)
  <1> DEFINE d == Abs!Without(Content(t), k)
  <1>1. /\ DOMAIN d = DOMAIN Content(t) \ {k}
        /\ \A x \in DOMAIN d : d[x] = Content(t)[x]
        /\ d = [x \in DOMAIN d |-> d[x]]
    BY DEF Abs!Without
  <1> HIDE DEF d
  <1>2. \A x : x \in DOMAIN Content(u) <=> x \in DOMAIN d
    <2>1. \A x : x # k => (x \in DOMAIN Content(u) <=> x \in DOMAIN Content(t))
      BY ContentIs DEF Removes
    <2>2. k \notin DOMAIN Content(u)
      BY ContentIs DEF Removes
    <2> QED
      BY <1>1, <2>1, <2>2
  <1>3. ASSUME NEW x \in DOMAIN d
        PROVE  Content(u)[x] = d[x]
    <2>1. x # k /\ <<x, Content(t)[x]>> \in Facts(t)
      BY <1>1, ContentIs
    <2>2. <<x, Content(t)[x]>> \in Facts(u)
      BY <2>1 DEF Removes
    <2> QED
      BY <1>1, <2>2, ContentIs
  <1>4. DOMAIN Content(u) = DOMAIN d
    <2>1. DOMAIN Content(u) = {KeyAt(u, p) : p \in Terminals(u)}
      BY DEF Content
    <2> QED
      BY <1>1, <1>2, <2>1
  <1>5. Content(u) = [x \in DOMAIN d |-> d[x]]
    BY <1>3, <1>4, ContentFcn
  <1> QED
    BY <1>1, <1>5 DEF d

-----------------------------------------------------------------------------
(* Where the key of a lookup can be.                                       *)

\* A slot on the way of key k: where a node may stand, and nothing above it
\* that holds k.
LEMMA KeyIsBelow ==
  ASSUME NEW t, TreeOK(t), Good(Kids(t)), NEW s \in Path, Hung(Kids(t), s),
         NEW k \in Path, StartsWith(k, s), NEW p \in Terminals(t), KeyAt(t, p) = k
  PROVE  p \in DOMAIN t /\ p \in Path /\ StartsWith(p, s) /\ s \in DOMAIN t
  <1> DEFINE g == Kids(t)
  <1>1. /\ DOMAIN g = DOMAIN t /\ (\A q \in DOMAIN t : g[q] = KidsOf(q, t[q])) /\ Good(g)
        /\ ShapeOK(g) /\ Trie(g) /\ Hung(g, s)
    BY KidsIs DEF Good
  <1>2. /\ p \in DOMAIN t /\ p \in Path /\ StartsWith(k, p)
        /\ \A f \in KidsOf(p, t[p]) : f \in Path /\ StartsWith(f, k) /\ f # k
    BY KeyFacts
  <1> HIDE DEF g
  <1>3. StartsWith(p, s)
    <2> SUFFICES ASSUME ~StartsWith(p, s)
                 PROVE  FALSE
      OBVIOUS
    <2>1. StartsWith(s, p) /\ p # s
      BY <1>2, StartsEither, StartsRefl
    <2>2. PICK c \in g[p] : StartsWith(s, c)
      BY <1>1, <1>2, <2>1, HungUnder
    <2>3. c \in Path /\ StartsWith(c, k) /\ c # k
      BY <1>1, <1>2, <2>2
    <2>4. StartsWith(k, c)
      BY <2>2, <2>3, StartsTrans
    <2> QED
      BY <2>3, <2>4, StartsSame
  <1>4. s \in DOMAIN t
    BY <1>1, <1>2, <1>3, NothingBelow
  <1> QED
    BY <1>2, <1>3, <1>4

\* Nothing holds k when the node at a slot on its way does not and has no edge
\* that k goes over.
LEMMA NotHeld ==
  ASSUME NEW t, TreeOK(t), Good(Kids(t)), NEW s \in Path, Hung(Kids(t), s),
         NEW k \in Path, StartsWith(k, s),
         s \in DOMAIN t => /\ \A c \in KidsOf(s, t[s]) : ~StartsWith(k, c)
                           /\ \A v : <<k, v>> \notin Own(s, t[s])
  PROVE  \A v : <<k, v>> \notin Facts(t)
  <1> SUFFICES ASSUME NEW v, <<k, v>> \in Facts(t)
               PROVE  FALSE
    OBVIOUS
  <1>1. PICK p \in Terminals(t) : k = KeyAt(t, p) /\ v = ValAt(t, p)
    BY FactIs
  <1>2. p \in DOMAIN t /\ p \in Path /\ StartsWith(p, s) /\ s \in DOMAIN t
    BY <1>1, KeyIsBelow
  <1>3. <<k, v>> \in Own(p, t[p])
    BY <1>1, <1>2, TerminalOwn
  <1>4. p # s
    BY <1>2, <1>3
  <1>5. PICK c \in KidsOf(s, t[s]) : StartsWith(p, c)
    BY <1>2, <1>4, KidsIs DEF Good, Trie
  <1>6. StartsWith(k, p) /\ c \in Path
    <2>1. StartsWith(k, p)
      BY <1>1, KeyFacts
    <2>2. NodeOK(t[s])
      BY <1>2 DEF TreeOK
    <2>3. KidsOK(s, KidsOf(s, t[s]))
      BY <2>2, NodeKidsOK
    <2> QED
      BY <1>5, <2>1, <2>3 DEF KidsOK
  <1>7. StartsWith(k, c)
    BY <1>2, <1>5, <1>6, StartsTrans
  <1> QED
    BY <1>2, <1>7

-----------------------------------------------------------------------------
(* Keys and slots.                                                         *)

LEMMA GoesOn ==
  ASSUME NEW k \in Path, NEW p \in Path, NEW x \in Path, StartsWith(k, p \o x)
  PROVE  StartsWith(k, p) /\ StartsWith(Rest(k, p), x)
  <1> DEFINE a == p \o x
  <1>1. a \in Path /\ StartsWith(a, p) /\ Len(a) = Len(p) + Len(x)
    BY StartsConcat
  <1>2. \A i \in 1 .. Len(p) + Len(x) : a[i] = IF i <= Len(p) THEN p[i] ELSE x[i - Len(p)]
    BY ConcatFacts
  <1> HIDE DEF a
  <1>3. StartsWith(k, a)
    BY DEF a
  <1>4. StartsWith(k, p)
    BY <1>1, <1>3, StartsTrans
  <1>5. /\ Len(p) \in Nat /\ Len(x) \in Nat /\ Len(k) \in Nat /\ Len(a) <= Len(k)
        /\ \A i \in 1 .. Len(a) : k[i] = a[i]
    BY <1>1, <1>3, PathFacts, StartsWithIff
  <1>6. /\ Rest(k, p) \in Path /\ Len(Rest(k, p)) = Len(k) - Len(p)
        /\ \A i \in 1 .. Len(k) - Len(p) : Rest(k, p)[i] = k[Len(p) + i]
    <2>1. Len(p) <= Len(k)
      BY <1>1, <1>5
    <2> QED
      BY <2>1, RestFacts
  <1>7. ASSUME NEW i \in 1 .. Len(x)
        PROVE  Rest(k, p)[i] = x[i]
    <2>1. /\ i \in 1 .. Len(k) - Len(p) /\ Len(p) + i \in 1 .. Len(p) + Len(x)
          /\ Len(p) + i \in 1 .. Len(a) /\ ~(Len(p) + i <= Len(p)) /\ (Len(p) + i) - Len(p) = i
      BY <1>1, <1>5
    <2>2. Rest(k, p)[i] = k[Len(p) + i]
      BY <1>6, <2>1
    <2>3. k[Len(p) + i] = a[Len(p) + i]
      BY <1>5, <2>1
    <2>4. a[Len(p) + i] = x[(Len(p) + i) - Len(p)]
      BY <1>2, <2>1
    <2> QED
      BY <2>1, <2>2, <2>3, <2>4
  <1>8. Len(x) <= Len(Rest(k, p))
    BY <1>1, <1>5, <1>6
  <1>9. StartsWith(Rest(k, p), x)
    BY <1>6, <1>7, <1>8, StartsWithIff
  <1> QED
    BY <1>4, <1>9

\* The byte or bytes by which a key goes on from a.
LEMMA NextBytes ==
  ASSUME NEW k \in Path, NEW a \in Path, NEW e \in Path, StartsWith(k, a \o e)
  PROVE  SubSeq(k, Len(a) + 1, Len(a) + Len(e)) = e /\ Len(a) + Len(e) <= Len(k)
  <1> DEFINE m == Len(a) + Len(e)
             d == SubSeq(k, Len(a) + 1, m)
  <1>1. a \o e \in Path /\ Len(a \o e) = m /\ StartsWith(k, a)
    BY StartsConcat, GoesOn
  <1>2. Len(a) \in Nat /\ Len(e) \in Nat /\ Len(k) \in Nat /\ m <= Len(k)
    BY <1>1, PathFacts, StartsWithIff
  <1>3. m \in Len(a) .. Len(k) /\ m - Len(a) = Len(e)
    BY <1>2
  <1> HIDE DEF m
  <1>4. d \in Path /\ Len(d) = m - Len(a) /\ StartsWith(k, a \o d)
    BY <1>1, <1>3, PassEdge
  <1> HIDE DEF d
  <1>5. a \o d \in Path /\ Len(a \o d) = Len(a) + Len(d)
    BY <1>4, StartsConcat
  <1>6. Len(a \o d) = Len(a \o e)
    BY <1>1, <1>3, <1>4, <1>5 DEF m
  <1>7. a \o d = a \o e
    <2>1. StartsWith(a \o d, a \o e) \/ StartsWith(a \o e, a \o d)
      BY <1>1, <1>4, <1>5, StartsEither
    <2> QED
      BY <1>1, <1>5, <1>6, <2>1, StartsLen
  <1>8. d = e
    BY <1>4, <1>7, ConcatCancel
  <1> QED
    BY <1>2, <1>8 DEF d, m

-----------------------------------------------------------------------------
(* A lookup that ends.                                                     *)

\* The slot a lookup is at is a slot of the tree, on the way of the key.
LEMMA LookFacts ==
  ASSUME IInv, Shape, pc \in {"put", "get", "rem"}
  PROVE  /\ TreeOK(tree) /\ Good(Kids(tree)) /\ slot \in Path /\ req.key \in Path
         /\ Hung(Kids(tree), slot) /\ StartsWith(req.key, slot)
         /\ R \in Path /\ slot \o R = req.key
  <1>1. /\ TreeOK(tree) /\ Good(Kids(tree)) /\ slot \in Path /\ req.key \in Path
        /\ Hung(Kids(tree), slot) /\ StartsWith(req.key, slot)
    BY StateFacts DEF Shape, Hanging, PutLive
  <1> QED
    BY <1>1, RestJoin DEF R

\* Nothing holds key k.
Absent(t, k) == \A v : <<k, v>> \notin Facts(t)

\* The lookup stops at a node that is not the key's: the key is not stored.
LEMMA MissIsRight ==
  ASSUME IInv, Shape, pc \in {"put", "get", "rem"}, ~Passes, ~Holds
  PROVE  Absent(tree, req.key)
  <1> DEFINE k == req.key
  <1>1. /\ TreeOK(tree) /\ Good(Kids(tree)) /\ slot \in Path /\ k \in Path
        /\ Hung(Kids(tree), slot) /\ StartsWith(k, slot) /\ R \in Path /\ slot \o R = k
    BY LookFacts
  <1>2. ASSUME slot \in DOMAIN tree
        PROVE  /\ \A c \in KidsOf(slot, tree[slot]) : ~StartsWith(k, c)
               /\ \A v : <<k, v>> \notin Own(slot, tree[slot])
    <2>0. NodeOK(nd) /\ nd = tree[slot]
      BY <1>1, <1>2 DEF TreeOK, nd
    <2>1. CASE nd.kind = "leaf"
      <3>1. KidsOf(slot, nd) = {} /\ Own(slot, nd) = {<<slot \o nd.suf, nd.val>>}
        BY <2>1, KidsOfIs, OwnIs
      <3>2. slot \o nd.suf # k
        <4>1. nd.suf \in Path /\ nd.suf # R
          BY <1>2, <2>0, <2>1, NodeFields DEF Holds
        <4> QED
          BY <1>1, <4>1, ConcatCancel
      <3> QED
        BY <2>0, <3>1, <3>2
    <2>2. CASE nd.kind = "pn"
      <3>1. KidsOf(slot, nd) = {slot \o nd.pfx} /\ Own(slot, nd) = {} /\ nd.pfx \in Path
        BY <2>0, <2>2, KidsOfIs, OwnIs, NodeFields
      <3>2. ~StartsWith(R, nd.pfx)
        BY <1>2, <2>2 DEF Passes, PastPrefix, RouterKinds, CnodeKinds
      <3>3. ~StartsWith(k, slot \o nd.pfx)
        BY <1>1, <3>1, <3>2, GoesOn DEF R
      <3> QED
        BY <2>0, <3>1, <3>3
    <2>3. CASE nd.kind \in RouterKinds
      <3>1. /\ nd.pfx \in Path /\ nd.edges \subseteq Path /\ nd.kind # "leaf" /\ nd.kind # "pn"
            /\ \A e \in nd.edges : Len(e) = StemLen(nd.kind)
        BY <2>0, <2>3, NodeFields DEF RouterKinds, CnodeKinds
      <3>2. here = slot \o nd.pfx /\ here \in Path /\ Len(here) \in Nat
        BY <1>1, <2>0, <3>1, ConcatFacts, PathFacts DEF here, At
      <3>3. KidsOf(slot, nd) = {here \o e : e \in nd.edges}
        <4>1. KidsOf(slot, nd) = {(slot \o nd.pfx) \o e : e \in nd.edges}
          BY <2>3, KidsOfIs
        <4> QED
          BY <3>2, <4>1
      <3>4. ASSUME StartsWith(k, here)
            PROVE  PastPrefix
        BY <1>1, <3>1, <3>2, <3>4, GoesOn DEF PastPrefix, R
      <3>5. ASSUME NEW e \in nd.edges, StartsWith(k, here \o e)
            PROVE  FALSE
        <4>1. e \in Path /\ Len(e) = StemLen(nd.kind) /\ Len(e) \in {1, 2}
          BY <3>1 DEF StemLen
        <4>2. /\ SubSeq(k, Len(here) + 1, Len(here) + Len(e)) = e
              /\ Len(here) + Len(e) <= Len(k) /\ StartsWith(k, here)
          <5> HIDE DEF k
          <5>1. StartsWith(k, here \o e) /\ k \in Path /\ here \in Path /\ e \in Path
            BY <1>1, <3>2, <3>5, <4>1
          <5>2. SubSeq(k, Len(here) + 1, Len(here) + Len(e)) = e /\ Len(here) + Len(e) <= Len(k)
            BY <5>1, NextBytes
          <5>3. StartsWith(k, here)
            BY <5>1, GoesOn
          <5> QED
            BY <5>2, <5>3
        <4>3. Len(k) \in Nat /\ k # here
          BY <1>1, <3>2, <4>1, <4>2, PathFacts
        <4>4. Edge = e
          <5>1. CASE nd.kind = "u16"
            <6>1. Min2(Len(here) + 2, Len(k)) = Len(here) + Len(e)
              BY <3>2, <4>1, <4>2, <4>3, <5>1 DEF Min2, StemLen
            <6> QED
              BY <4>2, <5>1, <6>1 DEF Edge
          <5>2. CASE nd.kind # "u16"
            BY <4>1, <4>2, <5>2 DEF Edge, StemLen
          <5> QED
            BY <5>1, <5>2
        <4> QED
          BY <1>2, <3>4, <3>5, <4>2, <4>3, <4>4 DEF Passes, KeyEnds
      <3>6. \A v : <<k, v>> \notin Own(slot, nd)
        <4>1. CASE nd.term = NoVal
          BY <2>3, <4>1, OwnIs
        <4>2. CASE nd.term # NoVal
          <5>1. Own(slot, nd) = {<<here, nd.term>>}
            BY <2>3, <3>2, <4>2, OwnIs
          <5>2. here # k
            BY <1>2, <2>3, <4>2 DEF Holds, KeyEnds
          <5> QED
            BY <5>1, <5>2
        <4> QED
          BY <4>1, <4>2
      <3>7. \A c \in KidsOf(slot, nd) : ~StartsWith(k, c)
        BY <3>3, <3>5
      <3> QED
        BY <2>0, <3>6, <3>7
    <2> QED
      BY <2>0, <2>1, <2>2, <2>3, NodeFields
  <1> HIDE DEF k
  <1>3. \A v : <<k, v>> \notin Facts(tree)
    BY <1>1, <1>2, NotHeld
  <1> QED
    BY <1>3 DEF Absent, k

\* The node that holds the key holds its fact.
LEMMA HoldsFact ==
  ASSUME IInv, Shape, pc \in {"put", "get", "rem"}, Holds
  PROVE  /\ slot \in DOMAIN tree /\ nd = tree[slot]
         /\ nd.kind = "leaf" => Own(slot, nd) = {<<req.key, nd.val>>}
         /\ nd.kind # "leaf" => /\ nd.kind \in RouterKinds /\ nd.term # NoVal
                                /\ Own(slot, nd) = {<<req.key, nd.term>>}
  <1>1. slot \o R = req.key /\ slot \in DOMAIN tree /\ nd = tree[slot]
    BY LookFacts DEF Holds, nd
  <1>2. ASSUME nd.kind = "leaf"
        PROVE  Own(slot, nd) = {<<req.key, nd.val>>}
    <2>1. nd.suf = R
      BY <1>2 DEF Holds, RouterKinds, CnodeKinds
    <2>2. Own(slot, nd) = {<<slot \o nd.suf, nd.val>>}
      BY <1>2, OwnIs
    <2> QED
      BY <1>1, <2>1, <2>2
  <1>3. ASSUME nd.kind # "leaf"
        PROVE  /\ nd.kind \in RouterKinds /\ nd.term # NoVal
               /\ Own(slot, nd) = {<<req.key, nd.term>>}
    <2>1. nd.kind \in RouterKinds /\ nd.term # NoVal /\ req.key = here
      BY <1>3 DEF Holds, KeyEnds
    <2>2. here = slot \o nd.pfx
      BY <1>1 DEF here, At
    <2> QED
      BY <2>1, <2>2, OwnIs
  <1> QED
    BY <1>1, <1>2, <1>3

-----------------------------------------------------------------------------
(* What the trees that insert_ builds hold.                                *)

LEMMA FactsBeside ==
  ASSUME NEW t, NEW u, \A p \in DOMAIN u : p \notin DOMAIN t
  PROVE  Facts(Over(t, u)) = Facts(t) \cup Facts(u)
  BY FactsOver

LEMMA LeafFacts ==
  ASSUME NEW p, NEW suf, NEW v
  PROVE  Own(p, Leaf(suf, v)) = {<<p \o suf, v>>}
  <1>1. Leaf(suf, v).kind = "leaf" /\ Leaf(suf, v).suf = suf /\ Leaf(suf, v).val = v
    BY DEF Leaf
  <1> HIDE DEF Leaf
  <1> QED
    BY <1>1, OwnIs

LEMMA PnFacts ==
  ASSUME NEW p, NEW pfx
  PROVE  Own(p, Pn(pfx)) = {}
  <1>1. Pn(pfx).kind = "pn"
    BY DEF Pn
  <1> QED
    BY <1>1, OwnIs

\* The fact of a term v at a, if there is one.
Term(a, v) == IF v = NoVal THEN {} ELSE {<<a, v>>}

LEMMA RouterFacts ==
  \A p, pfx, E, tm : \A kind \in RouterKinds :
    Own(p, Router(kind, pfx, E, tm)) = Term(p \o pfx, tm)
  <1> TAKE p, pfx, E, tm
  <1> TAKE kind \in RouterKinds
  <1> DEFINE x == Router(kind, pfx, E, tm)
  <1>1. x.kind = kind /\ x.pfx = pfx /\ x.term = tm
    BY DEF Router
  <1> HIDE DEF x
  <1>2. tm = NoVal => Own(p, x) = {}
    BY <1>1, OwnIs
  <1>3. tm # NoVal => Own(p, x) = {<<p \o pfx, tm>>}
    BY <1>1, OwnIs
  <1> QED
    BY <1>2, <1>3 DEF x, Term

\* The fork that apply_prefix hangs at p.
LEMMA ApplyFacts ==
  \A p, common \in Path : \A E, tm :
    /\ DOMAIN ApplyPrefix(p, common, Router("setlist", <<>>, E, tm)) \subseteq {p, p \o common}
    /\ Facts(ApplyPrefix(p, common, Router("setlist", <<>>, E, tm)))
         = Term(p \o common, tm)
  <1> TAKE p, common \in Path
  <1> TAKE E, tm
  <1> DEFINE r == Router("setlist", <<>>, E, tm)
             u == ApplyPrefix(p, common, r)
             a == p \o common
             X == Term(a, tm)
  <1>0. a \in Path
    BY ConcatFacts
  <1>3. \A q, x : Own(q, Router("setlist", x, E, tm)) = Term(q \o x, tm)
    <2> TAKE q, x
    <2>1. "setlist" \in RouterKinds
      BY DEF RouterKinds
    <2> QED
      BY <2>1, RouterFacts, Zenon
  <1>1. CASE Len(common) <= PrefixCap
    <2>1. u = [q \in {p} |-> [r EXCEPT !.pfx = common]]
      BY <1>1 DEF ApplyPrefix
    <2>2. [r EXCEPT !.pfx = common] = Router("setlist", common, E, tm)
      BY DEF Router
    <2>3. DOMAIN u = {p} /\ u[p] = Router("setlist", common, E, tm)
      BY <2>1, <2>2
    <2>4. Own(p, Router("setlist", common, E, tm)) = X
      BY <1>3
    <2> HIDE DEF u, X
    <2>5. \A f : f \in Facts(u) <=> f \in X
      BY <2>3, <2>4, FactsAre
    <2>6. Facts(u) = X
      BY <2>5
    <2> QED
      BY <2>3, <2>6 DEF u, X
  <1>2. CASE ~(Len(common) <= PrefixCap)
    <2>0. common # <<>>
      BY <1>2, EmptyPath, CapAssumption
    <2>1. u = [q \in {p, a} |-> IF q = p THEN Pn(common) ELSE r]
      BY <1>2 DEF ApplyPrefix
    <2>2. a # p
      BY <2>0, StartsConcat
    <2>3. DOMAIN u = {p, a} /\ u[p] = Pn(common) /\ u[a] = r
      BY <2>1, <2>2
    <2>4. Own(p, Pn(common)) = {}
      BY PnFacts
    <2>5. Own(a, r) = X
      <3>1. Own(a, r) = Term(a \o <<>>, tm)
        BY <1>3
      <3>2. a \o <<>> = a
        BY <1>0, ConcatEmpty
      <3> QED
        BY <3>1, <3>2
    <2> HIDE DEF u, X, r
    <2>6. \A f : f \in Facts(u) <=> f \in X
      BY <2>3, <2>4, <2>5, FactsAre
    <2>7. Facts(u) = X
      BY <2>6
    <2> QED
      BY <2>3, <2>7 DEF u, X, r
  <1> QED
    BY <1>1, <1>2

LEMMA ForkLeafFacts ==
  ASSUME NEW p \in Path, NEW s \in Path, NEW v, NEW c \in 0 .. Len(s)
  PROVE  /\ \A q \in DOMAIN ForkLeaf(p, s, v, c) : c < Len(s) /\ q = p \o Front(s, c + 1)
         /\ Facts(ForkLeaf(p, s, v, c)) = IF c < Len(s) THEN {<<p \o s, v>>} ELSE {}
  <1> DEFINE u == ForkLeaf(p, s, v, c)
             b == p \o Front(s, c + 1)
             x == Leaf(Back(s, c + 1), v)
  <1>1. CASE c < Len(s)
    <2>1. DOMAIN u = {b} /\ u[b] = x
      BY <1>1 DEF ForkLeaf
    <2>2. b \o Back(s, c + 1) = p \o s
      <3> DEFINE f == Front(s, c + 1)
                 r == Back(s, c + 1)
      <3>1. c + 1 \in 0 .. Len(s)
        BY <1>1, PathFacts
      <3>2. f \in Path /\ r \in Path /\ s = f \o r
        BY <3>1, FrontFacts, BackFacts, FrontBack
      <3> HIDE DEF f, r
      <3>3. p \o (f \o r) = (p \o f) \o r
        BY <3>2, ConcatAssoc
      <3> QED
        BY <3>2, <3>3 DEF f, r
    <2>3. Own(b, x) = {<<b \o Back(s, c + 1), v>>}
      BY LeafFacts
    <2> HIDE DEF u, x
    <2>4. \A f : f \in Facts(u) <=> f \in {<<b \o Back(s, c + 1), v>>}
      BY <2>1, <2>3, FactsAre
    <2>5. Facts(u) = {<<p \o s, v>>}
      BY <2>2, <2>4
    <2> QED
      BY <1>1, <2>1, <2>5 DEF u
  <1>2. CASE ~(c < Len(s))
    <2>1. DOMAIN u = {}
      BY <1>2 DEF ForkLeaf
    <2> HIDE DEF u
    <2>2. \A f : f \notin Facts(u)
      BY <2>1, FactsAre
    <2>3. Facts(u) = {}
      BY <2>2
    <2> QED
      BY <1>2, <2>1, <2>3 DEF u
  <1> QED
    BY <1>1, <1>2

\* A leaf that moves into or out of its parent's line.
LEMMA InlFacts ==
  ASSUME NEW p, NEW x, NodeOK(x), x.kind = "leaf", NEW b
  PROVE  Own(p, [x EXCEPT !.inl = b]) = Own(p, x)
  <1> DEFINE y == [x EXCEPT !.inl = b]
  <1>1. x \in LeafNode
    BY NodeFields
  <1>2. y.kind = "leaf" /\ y.suf = x.suf /\ y.val = x.val
    BY <1>1 DEF LeafNode
  <1> HIDE DEF y
  <1>3. Own(p, y) = {<<p \o y.suf, y.val>>} /\ Own(p, x) = {<<p \o x.suf, x.val>>}
    BY <1>2, OwnIs
  <1> QED
    BY <1>2, <1>3 DEF y

LEMMA CompactFacts ==
  ASSUME NEW t, TreeOK(t), NEW p, NEW fits
  PROVE  Facts(InlineCompact(t, p, fits)) = Facts(t)
  <1> DEFINE u == InlineCompact(t, p, fits)
  <1>1. DOMAIN u = DOMAIN t
    BY DEF InlineCompact
  <1>2. \A q \in DOMAIN t : u[q] = t[q] \/ (t[q].kind = "leaf" /\ u[q] = [t[q] EXCEPT !.inl = TRUE])
    BY DEF InlineCompact, IsValuePtr
  <1> HIDE DEF u
  <1>3. ASSUME NEW q \in DOMAIN t
        PROVE  Own(q, u[q]) = Own(q, t[q])
    <2>1. NodeOK(t[q])
      BY DEF TreeOK
    <2>2. t[q].kind = "leaf" => Own(q, [t[q] EXCEPT !.inl = TRUE]) = Own(q, t[q])
      BY <2>1, InlFacts
    <2> QED
      BY <1>2, <2>2
  <1> QED
    BY <1>1, <1>3, FactsSame DEF u

LEMMA ExternalizeFacts ==
  ASSUME NEW t, TreeOK(t), NEW p, NEW S \in SUBSET InlineKids(t, p)
  PROVE  Facts(Externalize(t, S)) = Facts(t)
  <1> DEFINE u == Externalize(t, S)
  <1>1. DOMAIN u = DOMAIN t
    BY DEF Externalize
  <1>2. \A q \in DOMAIN t : u[q] = t[q] \/ (t[q].kind = "leaf" /\ u[q] = [t[q] EXCEPT !.inl = FALSE])
    BY DEF Externalize, InlineKids, IsLeaf
  <1> HIDE DEF u
  <1>3. ASSUME NEW q \in DOMAIN t
        PROVE  Own(q, u[q]) = Own(q, t[q])
    <2>1. NodeOK(t[q])
      BY DEF TreeOK
    <2>2. t[q].kind = "leaf" => Own(q, [t[q] EXCEPT !.inl = FALSE]) = Own(q, t[q])
      BY <2>1, InlFacts
    <2> QED
      BY <1>2, <2>2
  <1> QED
    BY <1>1, <1>3, FactsSame DEF u

\* What is not below p is at none of the places that a fork of p takes.
LEMMA ForkPlaces ==
  ASSUME NEW p \in Path, NEW s \in Path, NEW c \in 0 .. Len(s), c < Len(s)
  PROVE  /\ p \o Front(s, c + 1) = (p \o Front(s, c)) \o <<s[c + 1]>>
         /\ p \o Front(s, c + 1) \in Path /\ StartsWith(p \o Front(s, c + 1), p)
         /\ p \o Front(s, c + 1) # p /\ p \o Front(s, c + 1) # p \o Front(s, c)
  <1>1. /\ p \o Front(s, c + 1) = (p \o Front(s, c)) \o <<s[c + 1]>>
        /\ p \o Front(s, c) \in Path /\ <<s[c + 1]>> \in Path /\ Len(<<s[c + 1]>>) = 1
    BY ForkEdge
  <1> DEFINE a == p \o Front(s, c)
             e == <<s[c + 1]>>
  <1>2. a \in Path /\ e \in Path /\ e # <<>> /\ p \o Front(s, c + 1) = a \o e
    BY <1>1, EmptyPath
  <1> HIDE DEF e
  <1>3. StartsWith(a, p)
    BY FrontFacts, StartsConcat
  <1> HIDE DEF a
  <1>4. a \o e \in Path /\ StartsWith(a \o e, a) /\ a \o e # a
    BY <1>2, StartsConcat
  <1>5. StartsWith(a \o e, p)
    BY <1>2, <1>3, <1>4, StartsTrans
  <1>6. a \o e # p
    BY <1>2, <1>3, <1>4, StartsSame
  <1> QED
    BY <1>2, <1>4, <1>5, <1>6 DEF a, e

LEMMA SplitLeafFacts ==
  ASSUME TreeOK(tree), Good(Kids(tree)), slot \in DOMAIN tree, nd.kind = "leaf", nd.suf # R,
         R \in Path, req.val \in Values, NEW fits
  PROVE  Facts(SplitLeafTree(fits)) = Facts(tree) \cup {<<slot \o R, req.val>>}
  <1> DEFINE S        == nd.suf
             c        == Lcp(S, R)
             common   == Front(R, c)
             oldEdges == IF c < Len(S) THEN {<<S[c + 1]>>} ELSE {}
             oldTerm  == IF c = Len(S) THEN nd.val ELSE NoVal
             r        == ForkRouter(R, req.val, c, oldEdges, oldTerm)
             E        == oldEdges \cup IF c < Len(R) THEN {<<R[c + 1]>>} ELSE {}
             tm       == IF c = Len(R) THEN req.val ELSE oldTerm
             u1       == ApplyPrefix(slot, common, r)
             u2       == ForkLeaf(slot, R, req.val, c)
             u3       == ForkLeaf(slot, S, nd.val, c)
             t0       == Drop(tree, {slot})
             t1       == Over(t0, u1)
             t2       == Over(t1, u2)
             t3       == Over(t2, u3)
             a        == slot \o common
             X1       == Term(a, tm)
             X2       == IF c < Len(R) THEN {<<slot \o R, req.val>>} ELSE {}
             X3       == IF c < Len(S) THEN {<<slot \o S, nd.val>>} ELSE {}
  <1>1. slot \in Path /\ S \in Path /\ nd.val \in Values
    BY NodeFields DEF TreeOK, nd
  <1>2. /\ c \in 0 .. Len(S) /\ c \in 0 .. Len(R) /\ Len(S) \in Nat /\ Len(R) \in Nat
        /\ ~(c = Len(S) /\ c = Len(R))
    BY <1>1, LcpFacts, PathFacts
  <1>3. /\ Front(S, c) = common
        /\ c < Len(S) /\ c < Len(R) => S[c + 1] # R[c + 1]
    BY <1>1, LcpFacts
  <1>4. common \in Path /\ a \in Path /\ StartsWith(a, slot)
    BY <1>1, <1>2, FrontFacts, StartsConcat
  <1>5. r = Router("setlist", <<>>, E, tm)
    BY DEF ForkRouter
  <1>6. \A q \in DOMAIN t0 : q \in DOMAIN tree /\ ~StartsWith(q, slot)
    <2>1. ASSUME NEW q \in DOMAIN tree, q # slot, StartsWith(q, slot)
          PROVE  FALSE
      <3>1. KidsOf(slot, tree[slot]) = {}
        BY KidsOfIs DEF nd
      <3>2. \E f \in Kids(tree)[slot] : StartsWith(q, f)
        BY <2>1, KidsIs DEF Good, Trie
      <3> QED
        BY <3>1, <3>2, KidsIs
    <2> QED
      BY <2>1 DEF Drop
  <1>7. Facts(tree) = Facts(t0) \cup {<<slot \o S, nd.val>>}
    <2>1. Own(slot, tree[slot]) = {<<slot \o S, nd.val>>}
      BY OwnIs DEF nd
    <2> QED
      BY <2>1, FactsDrop
  <1> HIDE DEF c, S, common, r, E, tm, t0
  <1>8. DOMAIN u1 \subseteq {slot, a} /\ Facts(u1) = X1
    <2> HIDE DEF X1, u1, a
    <2>1. /\ DOMAIN ApplyPrefix(slot, common, Router("setlist", <<>>, E, tm)) \subseteq {slot, slot \o common}
          /\ Facts(ApplyPrefix(slot, common, Router("setlist", <<>>, E, tm)))
               = Term(slot \o common, tm)
      BY <1>1, <1>4, ApplyFacts
    <2> QED
      BY <1>5, <2>1 DEF X1, u1, a
  <1>9. /\ \A q \in DOMAIN u2 : c < Len(R) /\ q = slot \o Front(R, c + 1)
        /\ Facts(u2) = X2
    BY <1>1, <1>2, ForkLeafFacts
  <1>10. /\ \A q \in DOMAIN u3 : c < Len(S) /\ q = slot \o Front(S, c + 1)
         /\ Facts(u3) = X3
    BY <1>1, <1>2, ForkLeafFacts
  <1>11. ASSUME c < Len(R)
         PROVE  /\ slot \o Front(R, c + 1) = a \o <<R[c + 1]>>
                /\ StartsWith(slot \o Front(R, c + 1), slot)
                /\ slot \o Front(R, c + 1) # slot /\ slot \o Front(R, c + 1) # a
    <2>1. slot \in Path /\ R \in Path /\ c \in 0 .. Len(R) /\ c < Len(R)
      BY <1>1, <1>2, <1>11
    <2> HIDE DEF a, u1, u2, u3, t1, t2, t3, X1, X2, X3, oldEdges, oldTerm
    <2>2. /\ slot \o Front(R, c + 1) = (slot \o Front(R, c)) \o <<R[c + 1]>>
          /\ StartsWith(slot \o Front(R, c + 1), slot)
          /\ slot \o Front(R, c + 1) # slot /\ slot \o Front(R, c + 1) # slot \o Front(R, c)
      BY <2>1, ForkPlaces
    <2> QED
      BY <2>2 DEF common, a
  <1>12. ASSUME c < Len(S)
         PROVE  /\ slot \o Front(S, c + 1) = a \o <<S[c + 1]>>
                /\ StartsWith(slot \o Front(S, c + 1), slot)
                /\ slot \o Front(S, c + 1) # slot /\ slot \o Front(S, c + 1) # a
    <2>1. slot \in Path /\ S \in Path /\ c \in 0 .. Len(S) /\ c < Len(S)
      BY <1>1, <1>2, <1>12
    <2> HIDE DEF a, u1, u2, u3, t1, t2, t3, X1, X2, X3, oldEdges, oldTerm
    <2>2. /\ slot \o Front(S, c + 1) = (slot \o Front(S, c)) \o <<S[c + 1]>>
          /\ StartsWith(slot \o Front(S, c + 1), slot)
          /\ slot \o Front(S, c + 1) # slot /\ slot \o Front(S, c + 1) # slot \o Front(S, c)
      BY <2>1, ForkPlaces
    <2> QED
      BY <2>2, <1>3 DEF a
  <1>13. c < Len(R) /\ c < Len(S) => slot \o Front(R, c + 1) # slot \o Front(S, c + 1)
    <2> SUFFICES ASSUME c < Len(R), c < Len(S), a \o <<R[c + 1]>> = a \o <<S[c + 1]>>
                 PROVE  FALSE
      BY <1>11, <1>12
    <2>1. <<R[c + 1]>> \in Path /\ <<S[c + 1]>> \in Path
      BY <1>1, <1>2, ForkEdge
    <2>2. <<R[c + 1]>> = <<S[c + 1]>>
      BY <1>4, <2>1, ConcatCancel
    <2> QED
      BY <1>3, <2>2
  <1> HIDE DEF u1, u2, u3, a
  <1>14. Facts(t1) = Facts(t0) \cup Facts(u1) /\ DOMAIN t1 = DOMAIN t0 \cup DOMAIN u1
    <2>1. \A q \in DOMAIN u1 : q \notin DOMAIN t0
      BY <1>1, <1>4, <1>6, <1>8, StartsRefl
    <2> QED
      BY <2>1, FactsBeside, OverIs
  <1> HIDE DEF t1
  <1>15. Facts(t2) = Facts(t1) \cup Facts(u2) /\ DOMAIN t2 = DOMAIN t1 \cup DOMAIN u2
    <2>1. \A q \in DOMAIN u2 : q \notin DOMAIN t1
      BY <1>6, <1>8, <1>9, <1>11, <1>14
    <2> QED
      BY <2>1, FactsBeside, OverIs
  <1> HIDE DEF t2
  <1>16. Facts(t3) = Facts(t2) \cup Facts(u3)
    <2>1. \A q \in DOMAIN u3 : q \notin DOMAIN t2
      BY <1>6, <1>8, <1>9, <1>10, <1>12, <1>13, <1>14, <1>15
    <2> QED
      BY <2>1, FactsBeside
  <1>17. X1 \cup X2 \cup X3 = {<<slot \o S, nd.val>>, <<slot \o R, req.val>>}
    <2>0. nd.val # NoVal /\ req.val # NoVal
      BY <1>1, NoValAssumption
    <2>1. c = Len(S) => a = slot \o S
      <3>1. Front(S, Len(S)) = S
        BY <1>1 DEF Front, Path
      <3> QED
        BY <1>3, <3>1 DEF a
    <2>2. c = Len(R) => a = slot \o R
      <3>1. Front(R, Len(R)) = R
        BY DEF Front, Path
      <3> QED
        BY <3>1 DEF a, common
    <2>3. CASE c = Len(S)
      <3>1. c < Len(R) /\ ~(c < Len(S)) /\ c # Len(R) /\ tm = nd.val
        BY <1>2, <2>3 DEF tm
      <3> QED
        BY <2>0, <2>1, <2>3, <3>1 DEF Term
    <2>4. CASE c = Len(R)
      <3>1. c < Len(S) /\ ~(c < Len(R)) /\ tm = req.val
        BY <1>2, <2>4 DEF tm
      <3> QED
        BY <2>0, <2>2, <2>4, <3>1 DEF Term
    <2>5. CASE c # Len(S) /\ c # Len(R)
      <3>1. c < Len(S) /\ c < Len(R) /\ tm = NoVal
        BY <1>2, <2>5 DEF tm
      <3> QED
        BY <3>1 DEF Term
    <2> QED
      BY <2>3, <2>4, <2>5
  <1>18. Facts(t3) = Facts(tree) \cup {<<slot \o R, req.val>>}
    BY <1>7, <1>8, <1>9, <1>10, <1>14, <1>15, <1>16, <1>17
  <1>19. SplitLeafTree(fits) = InlineCompact(t3, ForkSlot(slot, common), fits)
    BY DEF SplitLeafTree, t2, t1, t0, u1, u2, u3, r, common, c, S
  <1>20. TreeOK(t3)
    <2>1. TreeOK(t0)
      BY DropOK DEF t0
    <2>2. TreeOK(u1)
      <3>1. oldEdges \in SUBSET Path /\ (\A e \in oldEdges : Len(e) = 1) /\ oldTerm \in Values \cup {NoVal}
        BY <1>1, <1>2, ForkEdge
      <3> HIDE DEF oldEdges, oldTerm
      <3>2. TreeOK(ApplyPrefix(slot, common, ForkRouter(R, req.val, c, oldEdges, oldTerm)))
        BY <1>1, <1>2, <1>4, <3>1, ForkOK
      <3> QED
        BY <3>2 DEF u1, r
    <2>3. TreeOK(u2) /\ TreeOK(u3)
      BY <1>1, <1>2, ForkLeafOK DEF u2, u3
    <2>4. TreeOK(t1)
      BY <2>1, <2>2, OverOK DEF t1
    <2>5. TreeOK(t2)
      BY <2>3, <2>4, OverOK DEF t2
    <2> QED
      BY <2>3, <2>5, OverOK
  <1> HIDE DEF t3
  <1> QED
    BY <1>18, <1>19, <1>20, CompactFacts

\* Routers that stand at one place after their prefixes and have the same term.
SameTerm(p, x, q, y) ==
  /\ x.kind \in RouterKinds /\ y.kind \in RouterKinds
  /\ p \o x.pfx = q \o y.pfx /\ x.term = y.term

LEMMA SameOwn ==
  ASSUME NEW p, NEW x, NEW q, NEW y, SameTerm(p, x, q, y)
  PROVE  Own(p, x) = Own(q, y)
  <1>1. CASE x.term = NoVal
    BY <1>1, OwnIs DEF SameTerm
  <1>2. CASE x.term # NoVal
    <2>1. Own(p, x) = {<<p \o x.pfx, x.term>>} /\ Own(q, y) = {<<q \o y.pfx, y.term>>}
      BY <1>2, OwnIs DEF SameTerm
    <2> QED
      BY <2>1 DEF SameTerm
  <1> QED
    BY <1>1, <1>2

LEMMA MakePrefixFacts ==
  ASSUME NEW t, TreeOK(t), NEW p \in Path, NEW pfx \in Path,
         pfx # <<>> /\ p \in DOMAIN t => Own(p, t[p]) = {}
  PROVE  Facts(MakePrefix(t, p, pfx)) = Facts(t)
  <1> DEFINE c == p \o pfx
  <1>1. CASE pfx = <<>>
    BY <1>1, MakePrefixOK
  <1>2. CASE pfx # <<>> /\ FusesInto(t, c, pfx)
    <2> DEFINE x == [t[c] EXCEPT !.kind = "pfxd", !.pfx = pfx \o t[c].pfx]
               d == Drop(t, {c})
    <2>1. MakePrefix(t, p, pfx) = Upd(d, p, x)
      BY <1>2 DEF MakePrefix
    <2>2. c \in Path /\ c # p /\ c \in DOMAIN t /\ t[c].kind \in {"full", "pfxd"}
      BY <1>2, StartsConcat DEF FusesInto
    <2>3. DOMAIN d = DOMAIN t \ {c} /\ \A q \in DOMAIN d : d[q] = t[q]
      BY DEF Drop
    <2> HIDE DEF c, x, d
    <2>4. /\ x.kind \in RouterKinds /\ x.pfx = pfx \o t[c].pfx /\ t[c].pfx \in Path
          /\ t[c].kind \in RouterKinds
      BY <1>2, <2>2, FusedNode DEF x
    <2>5. x.term = t[c].term
      BY <2>2, NodeFields DEF x, TreeOK, RouterNode, RouterKinds
    <2>6. p \o x.pfx = c \o t[c].pfx
      <3>1. p \o (pfx \o t[c].pfx) = (p \o pfx) \o t[c].pfx
        BY <2>4, ConcatAssoc
      <3> QED
        BY <2>4, <3>1 DEF c
    <2>7. Own(p, x) = Own(c, t[c])
      <3>1. SameTerm(p, x, c, t[c])
        BY <2>4, <2>5, <2>6 DEF SameTerm
      <3> QED
        BY <3>1, SameOwn
    <2>8. p \in DOMAIN d => Own(p, d[p]) = {}
      BY <1>2, <2>3
    <2>9. Facts(Upd(d, p, x)) = Facts(d) \cup Own(p, x)
      BY <2>8, FactsUpd
    <2>10. Facts(t) = Facts(d) \cup Own(c, t[c])
      BY <2>2, FactsDrop DEF d
    <2> QED
      BY <2>1, <2>7, <2>9, <2>10
  <1>3. CASE pfx # <<>> /\ ~FusesInto(t, c, pfx)
    <2>1. MakePrefix(t, p, pfx) = Upd(t, p, Pn(pfx))
      BY <1>3 DEF MakePrefix
    <2>2. Own(p, Pn(pfx)) = {}
      BY PnFacts
    <2>3. Facts(Upd(t, p, Pn(pfx))) = Facts(t) \cup Own(p, Pn(pfx))
      BY <1>3, FactsUpd
    <2> QED
      BY <2>1, <2>2, <2>3
  <1> QED
    BY <1>1, <1>2, <1>3

\* What is below a node is below its prefix.
LEMMA BelowPrefix ==
  ASSUME NEW t, TreeOK(t), Good(Kids(t)), NEW p \in DOMAIN t, t[p].kind # "leaf",
         NEW y \in DOMAIN t, y # p, StartsWith(y, p)
  PROVE  StartsWith(y, At(t, p))
  <1>1. p \in Path /\ y \in Path /\ NodeOK(t[p])
    BY DEF TreeOK
  <1>2. PICK f \in KidsOf(p, t[p]) : StartsWith(y, f)
    BY KidsIs DEF Good, Trie
  <1>3. At(t, p) \in Path
    BY AtOK
  <1>4. CASE t[p].kind = "pn"
    BY <1>2, <1>4, KidsOfIs DEF At
  <1>5. CASE t[p].kind \in RouterKinds
    <2>1. f \in Path /\ StartsWith(f, p \o t[p].pfx)
      BY <1>1, <1>2, <1>5, BelowHere
    <2> QED
      BY <1>1, <1>2, <1>3, <2>1, StartsTrans DEF At
  <1> QED
    BY <1>1, <1>4, <1>5, NodeFields

LEMMA SplitPrefixFacts ==
  ASSUME TreeOK(tree), Good(Kids(tree)), slot \in DOMAIN tree, nd.kind # "leaf", R \in Path,
         req.val \in Values, ~StartsWith(R, nd.pfx), NEW fits
  PROVE  Facts(SplitPrefixTree(fits)) = Facts(tree) \cup {<<slot \o R, req.val>>}
  <1> DEFINE pfx    == nd.pfx
             c      == Lcp(pfx, R)
             common == Front(pfx, c)
             rest   == Back(pfx, c + 1)
             q      == slot \o Front(pfx, c + 1)
             old    == Drop(tree, {slot})
             kind   == IF rest = <<>> THEN "full" ELSE "pfxd"
             kept   == CASE nd.kind = "pn"      -> MakePrefix(old, q, rest)
                         [] nd.kind = "setlist" -> Upd(old, q, [nd EXCEPT !.pfx = rest])
                         [] nd.kind = "pfxd"    -> Upd(old, q, [nd EXCEPT !.kind = kind, !.pfx = rest])
             r      == ForkRouter(R, req.val, c, {<<pfx[c + 1]>>}, NoVal)
             E      == {<<pfx[c + 1]>>} \cup IF c < Len(R) THEN {<<R[c + 1]>>} ELSE {}
             tm     == IF c = Len(R) THEN req.val ELSE NoVal
             u1     == ApplyPrefix(slot, common, r)
             u2     == ForkLeaf(slot, R, req.val, c)
             t1     == Over(kept, u1)
             t2     == Over(t1, u2)
             a      == slot \o common
             b      == slot \o Front(R, c + 1)
             X2     == IF c < Len(R) THEN {<<slot \o R, req.val>>} ELSE {}
  <1>1. slot \in Path /\ pfx \in Path /\ NodeOK(nd) /\ nd = tree[slot]
    BY NodeFields DEF TreeOK, nd
  <1>2. /\ c \in 0 .. Len(pfx) /\ c \in 0 .. Len(R) /\ c < Len(pfx)
        /\ Len(R) \in Nat
    BY <1>1, LcpFacts, PathFacts
  <1>3. common = Front(R, c) /\ (c < Len(R) => pfx[c + 1] # R[c + 1])
    BY <1>1, <1>2, LcpFacts
  <1>4. nd.kind \in {"pn", "setlist", "pfxd"}
    <2>1. pfx # <<>>
      BY <1>1, StartsWithEmpty
    <2> QED
      BY <1>1, <2>1, NodeFields
  <1> HIDE DEF c, pfx
  <1>5. /\ q = a \o <<pfx[c + 1]>> /\ q \in Path /\ a \in Path /\ common \in Path
        /\ StartsWith(a, slot)
        /\ <<pfx[c + 1]>> \in Path /\ Len(<<pfx[c + 1]>>) = 1
    <2>1. /\ q = (slot \o Front(pfx, c)) \o <<pfx[c + 1]>> /\ q \in Path
          /\ slot \o Front(pfx, c) \in Path
          /\ <<pfx[c + 1]>> \in Path /\ Len(<<pfx[c + 1]>>) = 1
      BY <1>1, <1>2, ForkEdge
    <2>2. common \in Path
      BY <1>1, <1>2, FrontFacts
    <2> HIDE DEF common, q
    <2>3. StartsWith(a, slot)
      BY <1>1, <2>2, StartsConcat
    <2> QED
      BY <2>1, <2>2, <2>3 DEF common
  <1>6. StartsWith(q, a) /\ q # a /\ StartsWith(q, slot) /\ q # slot
    <2>1. <<pfx[c + 1]>> # <<>>
      BY <1>5, EmptyPath
    <2> HIDE DEF q, a
    <2>2. StartsWith(q, a) /\ q # a
      BY <1>5, <2>1, StartsConcat
    <2>3. StartsWith(q, slot)
      BY <1>1, <1>5, <2>2, StartsTrans
    <2> QED
      BY <1>1, <1>5, <2>2, <2>3, StartsSame
  <1>7. /\ rest \in Path /\ q \o rest = slot \o pfx /\ slot \o pfx \in Path
        /\ StartsWith(slot \o pfx, q) /\ (rest # <<>> => slot \o pfx # q)
    <2> DEFINE f == Front(pfx, c + 1)
    <2>1. c + 1 \in 0 .. Len(pfx) /\ c + 1 # 0
      BY <1>1, <1>2, PathFacts
    <2>2. f \in Path /\ rest \in Path /\ pfx = f \o rest
      BY <1>1, <2>1, FrontFacts, BackFacts, FrontBack
    <2> HIDE DEF f, rest
    <2>4. slot \o (f \o rest) = (slot \o f) \o rest
      BY <1>1, <2>2, ConcatAssoc
    <2>5. slot \o f \in Path
      BY <1>1, <2>2, StartsConcat
    <2>6. /\ (slot \o f) \o rest \in Path /\ StartsWith((slot \o f) \o rest, slot \o f)
          /\ rest # <<>> => (slot \o f) \o rest # slot \o f
      BY <2>2, <2>5, StartsConcat
    <2> QED
      BY <2>2, <2>4, <2>5, <2>6 DEF f
  <1> HIDE DEF rest, q
  <1>8. \A y \in DOMAIN old : /\ y \in Path /\ y \in DOMAIN tree
                              /\ StartsWith(y, slot) => StartsWith(y, slot \o pfx)
    <2>1. DOMAIN old = DOMAIN tree \ {slot} /\ DOMAIN tree \subseteq Path
      BY DEF Drop, TreeOK
    <2>2. \A y \in DOMAIN tree : y # slot /\ StartsWith(y, slot) => StartsWith(y, At(tree, slot))
      BY <1>1, BelowPrefix
    <2> QED
      BY <1>1, <2>1, <2>2 DEF At, pfx
  <1>9. TreeOK(old) /\ Facts(tree) = Facts(old) \cup Own(slot, nd)
    BY <1>1, DropOK, FactsDrop
  <1> HIDE DEF old
  <1>10. /\ Facts(kept) = Facts(tree) /\ TreeOK(kept)
         /\ \A y \in DOMAIN kept : y = q \/ y \in DOMAIN old
    <2>1. CASE nd.kind = "pn"
      <3>1. kept = MakePrefix(old, q, rest)
        BY <2>1
      <3>2. rest # <<>> => q \notin DOMAIN old
        BY <1>5, <1>6, <1>7, <1>8, StartsSame
      <3>3. Facts(MakePrefix(old, q, rest)) = Facts(old)
        BY <1>5, <1>7, <1>9, <3>2, MakePrefixFacts
      <3>4. /\ TreeOK(MakePrefix(old, q, rest))
            /\ DOMAIN MakePrefix(old, q, rest) \subseteq DOMAIN old \cup {q}
        <4>1. q \in Path /\ rest \in Path /\ TreeOK(old)
          BY <1>5, <1>7, <1>9
        <4> QED
          BY <4>1, MakePrefixOK
      <3>5. Own(slot, nd) = {}
        BY <2>1, OwnIs
      <3> HIDE DEF kept
      <3> QED
        BY <1>9, <3>1, <3>3, <3>4, <3>5
    <2>2. CASE nd.kind \in {"setlist", "pfxd"}
      <3> DEFINE k == IF nd.kind = "setlist" THEN "setlist" ELSE kind
                 x == Router(k, rest, nd.edges, nd.term)
      <3>1. /\ nd \in RouterNode /\ nd.edges \in SUBSET Path
            /\ nd.term \in Values \cup {NoVal} /\ \A e \in nd.edges : Len(e) = 1
            /\ nd.kind \in RouterKinds
        BY <1>1, <2>2, NodeFields DEF StemLen, RouterKinds
      <3>2. k \in RouterKinds /\ k # "u16" /\ (k = "pfxd" => rest # <<>>)
            /\ (k \notin {"setlist", "pfxd"} => rest = <<>>)
        BY DEF RouterKinds
      <3>3. NodeOK(x)
        <4> HIDE DEF k
        <4> QED
          BY <1>7, <3>1, <3>2, RouterOK DEF StemLen
      <3>4. x.kind = k /\ x.pfx = rest /\ x.term = nd.term
        BY DEF Router
      <3>5. kept = Upd(old, q, x)
        <4>1. [nd EXCEPT !.pfx = rest] = Router(nd.kind, rest, nd.edges, nd.term)
          BY <3>1, RouterIs
        <4>2. [nd EXCEPT !.kind = kind, !.pfx = rest] = Router(kind, rest, nd.edges, nd.term)
          BY <3>1, RouterIs
        <4>4. CASE nd.kind = "setlist"
          BY <4>1, <4>4
        <4>5. CASE nd.kind = "pfxd"
          BY <4>2, <4>5
        <4> QED
          BY <2>2, <4>4, <4>5
      <3> HIDE DEF x, kept, k
      <3>6. Own(q, x) = Own(slot, nd)
        <4>1. SameTerm(q, x, slot, nd)
          BY <1>7, <3>1, <3>2, <3>4 DEF SameTerm, pfx
        <4> QED
          BY <4>1, SameOwn
      <3>7. q \notin DOMAIN old
        <4> SUFFICES ASSUME q \in DOMAIN old
                     PROVE  FALSE
          OBVIOUS
        <4>1. q \in DOMAIN tree /\ StartsWith(q, slot \o pfx)
          BY <1>6, <1>8
        <4>2. q = slot \o pfx
          BY <1>5, <1>7, <4>1, StartsSame
        <4>3. PICK f \in KidsOf(slot, tree[slot]) : StartsWith(q, f)
          BY <1>6, <4>1, KidsIs DEF Good, Trie
        <4>4. f \in Path /\ StartsWith(f, slot \o pfx) /\ f # slot \o pfx
          BY <1>1, <3>1, <4>3, BelowHere DEF pfx
        <4> QED
          BY <1>5, <4>2, <4>3, <4>4, StartsSame
      <3>8. Facts(Upd(old, q, x)) = Facts(old) \cup Own(q, x)
        BY <3>7, FactsUpd
      <3>9. TreeOK(Upd(old, q, x)) /\ DOMAIN Upd(old, q, x) = DOMAIN old \cup {q}
        <4>1. q \in Path /\ TreeOK(old)
          BY <1>5, <1>9
        <4>2. TreeOK(Upd(old, q, x))
          BY <3>3, <4>1, UpdOK
        <4> QED
          BY <4>2 DEF Upd
      <3> QED
        BY <1>9, <3>5, <3>6, <3>8, <3>9
    <2> QED
      BY <1>4, <2>1, <2>2
  <1> HIDE DEF kept
  \* Nothing that is kept is at a place of the fork.
  <1>11. ASSUME NEW z \in Path, StartsWith(z, slot), ~StartsWith(z, q)
         PROVE  z \notin DOMAIN kept
    <2>1. z # q
      BY <1>5, <1>11, StartsRefl
    <2>2. z \in DOMAIN old => StartsWith(z, q)
      BY <1>5, <1>7, <1>8, <1>11, StartsTrans
    <2> QED
      BY <1>10, <1>11, <2>1, <2>2
  <1>12. ~StartsWith(slot, q) /\ ~StartsWith(a, q)
    BY <1>1, <1>5, <1>6, StartsSame
  <1>13. r = Router("setlist", <<>>, E, tm)
    BY DEF ForkRouter
  <1>14. ASSUME c < Len(R)
         PROVE  /\ b \in Path /\ StartsWith(b, slot) /\ b # slot /\ b # a /\ ~StartsWith(b, q)
    <2>1. /\ b = (slot \o Front(R, c)) \o <<R[c + 1]>>
          /\ b \in Path /\ StartsWith(b, slot)
          /\ b # slot /\ b # slot \o Front(R, c)
      BY <1>1, <1>2, <1>14, ForkPlaces
    <2>2. b = a \o <<R[c + 1]>> /\ b # a
      BY <1>3, <2>1
    <2>3. <<R[c + 1]>> \in Path /\ Len(<<R[c + 1]>>) = 1
      BY <1>1, <1>2, <1>14, ForkEdge
    <2> HIDE DEF a, b
    <2>4. Len(b) = Len(q)
      BY <1>5, <2>2, <2>3, StartsConcat
    <2>5. b # q
      <3> SUFFICES ASSUME a \o <<R[c + 1]>> = a \o <<pfx[c + 1]>>
                   PROVE  FALSE
        BY <1>5, <2>2
      <3>1. <<R[c + 1]>> = <<pfx[c + 1]>>
        BY <1>5, <2>3, ConcatCancel
      <3> QED
        BY <1>3, <1>14, <3>1
    <2>6. ~StartsWith(b, q)
      BY <1>5, <2>1, <2>4, <2>5, StartsLen
    <2> QED
      BY <2>1, <2>2, <2>6
  <1> HIDE DEF E, tm, r
  <1>15. DOMAIN u1 \subseteq {slot, a} /\ Facts(u1) = Term(a, tm)
    <2> HIDE DEF u1, a, common
    <2>1. /\ DOMAIN ApplyPrefix(slot, common, Router("setlist", <<>>, E, tm)) \subseteq {slot, slot \o common}
          /\ Facts(ApplyPrefix(slot, common, Router("setlist", <<>>, E, tm)))
               = Term(slot \o common, tm)
      BY <1>1, <1>5, ApplyFacts
    <2> QED
      BY <1>13, <2>1 DEF u1, a
  <1>16. /\ \A y \in DOMAIN u2 : c < Len(R) /\ y = b
         /\ Facts(u2) = X2
    BY <1>1, <1>2, ForkLeafFacts
  <1> HIDE DEF u1, u2, a, b, X2
  <1>17. Facts(t1) = Facts(kept) \cup Facts(u1) /\ DOMAIN t1 = DOMAIN kept \cup DOMAIN u1
    <2>1. \A y \in DOMAIN u1 : y \notin DOMAIN kept
      BY <1>1, <1>5, <1>11, <1>12, <1>15, StartsRefl
    <2> QED
      BY <2>1, FactsBeside, OverIs
  <1> HIDE DEF t1
  <1>18. Facts(t2) = Facts(t1) \cup Facts(u2)
    <2>1. \A y \in DOMAIN u2 : y \notin DOMAIN t1
      BY <1>11, <1>14, <1>15, <1>16, <1>17
    <2> QED
      BY <2>1, FactsBeside
  <1>19. Term(a, tm) \cup X2 = {<<slot \o R, req.val>>}
    <2>0. req.val # NoVal
      BY NoValAssumption
    <2>1. CASE c = Len(R)
      <3>1. Front(R, Len(R)) = R
        BY DEF Front, Path
      <3>2. a = slot \o R
        BY <1>3, <2>1, <3>1 DEF a
      <3>3. tm = req.val /\ ~(c < Len(R))
        BY <1>2, <2>1 DEF tm
      <3> QED
        BY <2>0, <3>2, <3>3 DEF Term, X2
    <2>2. CASE c # Len(R)
      <3>1. c < Len(R) /\ tm = NoVal
        BY <1>2, <2>2 DEF tm
      <3> QED
        BY <3>1 DEF Term, X2
    <2> QED
      BY <2>1, <2>2
  <1>20. Facts(t2) = Facts(tree) \cup {<<slot \o R, req.val>>}
    BY <1>10, <1>15, <1>16, <1>17, <1>18, <1>19
  <1>21. TreeOK(t2)
    <2>1. TreeOK(u1)
      <3>1. /\ {<<pfx[c + 1]>>} \in SUBSET Path /\ (\A e \in {<<pfx[c + 1]>>} : Len(e) = 1)
            /\ NoVal \in Values \cup {NoVal}
        BY <1>5
      <3> DEFINE D == {<<pfx[c + 1]>>}
      <3> HIDE DEF D, common
      <3>2. TreeOK(ApplyPrefix(slot, common, ForkRouter(R, req.val, c, D, NoVal)))
        BY <1>1, <1>2, <1>5, <3>1, ForkOK DEF D
      <3> QED
        BY <3>2 DEF u1, r, D
    <2>2. TreeOK(u2)
      BY <1>1, <1>2, ForkLeafOK DEF u2
    <2>3. TreeOK(t1)
      BY <1>10, <2>1, OverOK DEF t1
    <2> QED
      BY <2>2, <2>3, OverOK
  <1>22. SplitPrefixTree(fits) = InlineCompact(t2, ForkSlot(slot, common), fits)
    BY DEF SplitPrefixTree, t1, u1, u2, r, kept, old, rest, q, c, pfx
  <1> HIDE DEF t2, common
  <1> QED
    BY <1>20, <1>21, <1>22, CompactFacts

-----------------------------------------------------------------------------
(* Edits of one node.                                                      *)

\* A router with another kind or other edges, or another term, and a leaf with
\* another value.
LEMMA RouterEdits ==
  ASSUME NEW p, NEW x, NodeOK(x), x.kind \in RouterKinds
  PROVE  /\ \A k \in RouterKinds : Own(p, [x EXCEPT !.kind = k]) = Own(p, x)
         /\ \A E : Own(p, [x EXCEPT !.edges = E]) = Own(p, x)
         /\ \A v : Own(p, [x EXCEPT !.term = v]) = Term(p \o x.pfx, v)
         /\ Own(p, x) = Term(p \o x.pfx, x.term)
  <1> DEFINE F(k, E, v) == Router(k, x.pfx, E, v)
  <1>1. /\ x \in RouterNode /\ x = F(x.kind, x.edges, x.term)
        /\ \A k : [x EXCEPT !.kind = k] = F(k, x.edges, x.term)
        /\ \A E : [x EXCEPT !.edges = E] = F(x.kind, E, x.term)
        /\ \A v : [x EXCEPT !.term = v] = F(x.kind, x.edges, v)
    <2>1. x \in RouterNode
      BY NodeFields
    <2>2. x = F(x.kind, x.edges, x.term)
      BY <2>1, RouterIs
    <2>3. ASSUME NEW k
          PROVE  [x EXCEPT !.kind = k] = F(k, x.edges, x.term)
      BY <2>1, RouterIs
    <2>4. ASSUME NEW E
          PROVE  [x EXCEPT !.edges = E] = F(x.kind, E, x.term)
      BY <2>1, RouterIs
    <2>5. ASSUME NEW v
          PROVE  [x EXCEPT !.term = v] = F(x.kind, x.edges, v)
      BY <2>1, RouterIs
    <2> QED
      BY <2>1, <2>2, <2>3, <2>4, <2>5
  <1>2. \A k \in RouterKinds : \A E, v : Own(p, F(k, E, v)) = Term(p \o x.pfx, v)
    BY RouterFacts
  <1> HIDE DEF F
  <1>3. Own(p, x) = Term(p \o x.pfx, x.term)
    <2>1. Own(p, F(x.kind, x.edges, x.term)) = Term(p \o x.pfx, x.term)
      BY <1>2
    <2> QED
      BY <1>1, <2>1
  <1>4. ASSUME NEW k \in RouterKinds
        PROVE  Own(p, [x EXCEPT !.kind = k]) = Own(p, x)
    <2>1. Own(p, F(k, x.edges, x.term)) = Term(p \o x.pfx, x.term)
      BY <1>2
    <2> QED
      BY <1>1, <1>3, <2>1
  <1>5. ASSUME NEW E
        PROVE  Own(p, [x EXCEPT !.edges = E]) = Own(p, x)
    <2>1. Own(p, F(x.kind, E, x.term)) = Term(p \o x.pfx, x.term)
      BY <1>2
    <2> QED
      BY <1>1, <1>3, <2>1
  <1>6. ASSUME NEW v
        PROVE  Own(p, [x EXCEPT !.term = v]) = Term(p \o x.pfx, v)
    <2>1. Own(p, F(x.kind, x.edges, v)) = Term(p \o x.pfx, v)
      BY <1>2
    <2> QED
      BY <1>1, <2>1
  <1> QED
    BY <1>3, <1>4, <1>5, <1>6

LEMMA LeafEdit ==
  ASSUME NEW p, NEW x, NodeOK(x), x.kind = "leaf", NEW v
  PROVE  Own(p, [x EXCEPT !.val = v]) = {<<p \o x.suf, v>>}
  <1> DEFINE y == [x EXCEPT !.val = v]
  <1>1. x \in LeafNode
    BY NodeFields
  <1>2. y.kind = "leaf" /\ y.suf = x.suf /\ y.val = v
    BY <1>1 DEF LeafNode
  <1> HIDE DEF y
  <1>3. Own(p, y) = {<<p \o y.suf, y.val>>}
    BY <1>2, OwnIs
  <1> QED
    BY <1>2, <1>3 DEF y

\* Two trees that differ in the node at p.
But(t, u, p) ==
  /\ p \in DOMAIN t /\ DOMAIN u = DOMAIN t
  /\ \A q \in DOMAIN t \ {p} : u[q] = t[q]

LEMMA ButFacts ==
  ASSUME NEW t, NEW u, NEW p, But(t, u, p)
  PROVE  /\ Facts(t) = Facts(Drop(t, {p})) \cup Own(p, t[p])
         /\ Facts(u) = Facts(Drop(t, {p})) \cup Own(p, u[p])
         /\ Own(p, u[p]) = Own(p, t[p]) => Facts(u) = Facts(t)
  <1>1. Drop(u, {p}) = Drop(t, {p}) /\ p \in DOMAIN t /\ p \in DOMAIN u
    BY DEF Drop, But
  <1>2. Facts(t) = Facts(Drop(t, {p})) \cup Own(p, t[p])
    BY <1>1, FactsDrop
  <1>3. Facts(u) = Facts(Drop(u, {p})) \cup Own(p, u[p])
    BY <1>1, FactsDrop
  <1> QED
    BY <1>1, <1>2, <1>3

-----------------------------------------------------------------------------
(* What a step does to the dictionary.                                     *)

\* A key that is not there gets a value.
LEMMA GainAssigns ==
  ASSUME NEW t, NEW u, NEW k, NEW v, Absent(t, k), Facts(u) = Facts(t) \cup {<<k, v>>}
  PROVE  Assigns(t, u, k, v)
  BY DEF Absent, Assigns

\* A key that is there gets another value.
LEMMA SwapAssigns ==
  ASSUME NEW t, NEW u, NEW p, But(t, u, p), NEW k, NEW v, NEW w,
         Own(p, t[p]) = {<<k, w>>}, Own(p, u[p]) = {<<k, v>>}
  PROVE  Assigns(t, u, k, v)
  <1>1. /\ Facts(t) = Facts(Drop(t, {p})) \cup {<<k, w>>}
        /\ Facts(u) = Facts(Drop(t, {p})) \cup {<<k, v>>}
    BY ButFacts
  <1> QED
    BY <1>1 DEF Assigns

\* The node at p was the only one with key k.
LEMMA LossRemoves ==
  ASSUME NEW t, Uniq(t), NEW p \in DOMAIN t, NEW u, NEW k, NEW w,
         Own(p, t[p]) = {<<k, w>>}, Facts(u) = Facts(Drop(t, {p}))
  PROVE  Removes(t, u, k)
  <1> DEFINE d == Drop(t, {p})
  <1>1. Facts(t) = Facts(d) \cup {<<k, w>>}
    BY FactsDrop
  <1>2. DOMAIN d = DOMAIN t \ {p} /\ \A q \in DOMAIN d : d[q] = t[q]
    BY DEF Drop
  <1> HIDE DEF d
  <1>3. p \in Terminals(t) /\ KeyAt(t, p) = k
    <2>1. p \in Terminals(t)
      BY TerminalOwn
    <2>2. {<<k, w>>} = {<<KeyAt(t, p), ValAt(t, p)>>}
      BY <2>1, TerminalOwn
    <2>3. <<k, w>> = <<KeyAt(t, p), ValAt(t, p)>>
      BY <2>2
    <2> QED
      BY <2>1, <2>3
  <1>4. ASSUME NEW v, <<k, v>> \in Facts(d)
        PROVE  FALSE
    <2>1. PICK q \in DOMAIN d : <<k, v>> \in Own(q, d[q])
      BY <1>4, FactsAre
    <2>2. q \in DOMAIN t /\ q # p /\ <<k, v>> \in Own(q, t[q])
      BY <1>2, <2>1
    <2>3. q \in Terminals(t)
      BY <2>2, TerminalOwn
    <2>4. <<k, v>> = <<KeyAt(t, q), ValAt(t, q)>>
      BY <2>2, <2>3, TerminalOwn
    <2>5. KeyAt(t, q) = KeyAt(t, p)
      BY <1>3, <2>4
    <2> QED
      BY <1>3, <2>2, <2>3, <2>5 DEF Uniq
  <1>5. Facts(u) = Facts(d)
    BY DEF d
  <1> QED
    BY <1>1, <1>4, <1>5 DEF Removes

-----------------------------------------------------------------------------
(* The other trees.                                                        *)

LEMMA LinkFacts ==
  ASSUME NEW t, TreeOK(t), NEW p \in DOMAIN t, t[p].kind \in RouterKinds,
         NEW e, NEW suf, At(t, p) \o e \notin DOMAIN t
  PROVE  Facts(Link(t, p, e, suf)) = Facts(t) \cup {<<(At(t, p) \o e) \o suf, req.val>>}
  <1> DEFINE u == [t EXCEPT ![p].edges = @ \cup {e}]
             c == At(t, p) \o e
             x == Leaf(suf, req.val)
  <1>1. DOMAIN u = DOMAIN t /\ u[p] = [t[p] EXCEPT !.edges = t[p].edges \cup {e}]
        /\ \A q \in DOMAIN t \ {p} : u[q] = t[q]
    OBVIOUS
  <1>2. Link(t, p, e, suf) = Upd(u, c, x)
    BY DEF Link
  <1>3. Own(c, x) = {<<c \o suf, req.val>>}
    BY LeafFacts
  <1> HIDE DEF u, c, x
  <1>4. Own(p, u[p]) = Own(p, t[p])
    <2>1. NodeOK(t[p])
      BY DEF TreeOK
    <2>2. \A E : Own(p, [t[p] EXCEPT !.edges = E]) = Own(p, t[p])
      BY <2>1, RouterEdits
    <2> QED
      BY <1>1, <2>2
  <1>5. Facts(u) = Facts(t)
    <2>1. But(t, u, p)
      BY <1>1 DEF But
    <2> QED
      BY <1>4, <2>1, ButFacts
  <1>6. Facts(Upd(u, c, x)) = Facts(u) \cup Own(c, x)
    <2>1. c \notin DOMAIN u
      BY <1>1 DEF c
    <2> QED
      BY <2>1, FactsUpd
  <1> QED
    BY <1>2, <1>3, <1>5, <1>6 DEF c

\* Below a node is below one of its edges.
LEMMA Deeper ==
  ASSUME NEW t, Good(Kids(t)), NEW p \in DOMAIN t, NEW q \in DOMAIN t, q # p, StartsWith(q, p)
  PROVE  \E f \in KidsOf(p, t[p]) : StartsWith(q, f)
  <1>1. DOMAIN Kids(t) = DOMAIN t /\ Kids(t)[p] = KidsOf(p, t[p])
    BY KidsIs
  <1> QED
    BY <1>1 DEF Good, Trie

\* A re-stride puts routers without a term between the stems and their router.
LEMMA RestrideFacts ==
  ASSUME TreeOK(tree), Good(Kids(tree)), slot \in DOMAIN tree, nd.kind = "u16"
  PROVE  Facts(RestrideTree) = Facts(tree)
  <1> DEFINE his    == {Front(e, 1) : e \in nd.edges}
             los(q) == {Back(e, 1) : e \in {x \in nd.edges : slot \o Front(x, 1) = q}}
             group  == [q \in {slot \o a : a \in his} |-> Router("setlist", <<>>, los(q), NoVal)]
             top    == Router("setlist", <<>>, his, nd.term)
             t1     == Upd(tree, slot, top)
  <1>1. /\ slot \in Path /\ NodeOK(nd) /\ nd = tree[slot] /\ nd.kind \in RouterKinds
        /\ nd.pfx = <<>> /\ nd.edges \subseteq Path /\ \A e \in nd.edges : Len(e) = 2
    <2>1. slot \in Path /\ NodeOK(nd) /\ nd = tree[slot] /\ nd.kind \in RouterKinds
      BY DEF TreeOK, nd, RouterKinds
    <2> QED
      BY <2>1, NodeFields DEF StemLen
  <1>2. RestrideTree = Over(t1, group)
    BY DEF RestrideTree
  <1>3. Facts(t1) = Facts(tree)
    <2>1. top.kind = "setlist" /\ top.pfx = <<>> /\ top.term = nd.term
      BY DEF Router
    <2> HIDE DEF top
    <2>2. SameTerm(slot, top, slot, nd)
      BY <1>1, <2>1 DEF SameTerm, RouterKinds
    <2>3. Own(slot, top) = Own(slot, nd)
      BY <2>2, SameOwn
    <2>4. But(tree, t1, slot) /\ t1[slot] = top
      BY DEF Upd, But
    <2> HIDE DEF t1
    <2> QED
      BY <1>1, <2>3, <2>4, ButFacts
  <1>4. ASSUME NEW q \in DOMAIN group
        PROVE  q \notin DOMAIN t1 /\ Own(q, group[q]) = {}
    <2>1. PICK e \in nd.edges : q = slot \o Front(e, 1)
      OBVIOUS
    <2>2. /\ e \in Path /\ Len(e) = 2 /\ Front(e, 1) \in Path /\ Len(Front(e, 1)) = 1
          /\ q \in Path /\ Len(q) = Len(slot) + 1 /\ Front(e, 1) # <<>>
      BY <1>1, <2>1, StemHalves, EmptyPath
    <2>3. StartsWith(q, slot) /\ q # slot
      BY <1>1, <2>1, <2>2, StartsConcat
    <2>4. ASSUME q \in DOMAIN tree
          PROVE  FALSE
      <3>1. PICK f \in KidsOf(slot, tree[slot]) : StartsWith(q, f)
        BY <2>3, <2>4, Deeper
      <3>2. PICK d \in nd.edges : f = (slot \o nd.pfx) \o d
        <4>1. KidsOf(slot, nd) = {(slot \o nd.pfx) \o e1 : e1 \in nd.edges}
          BY <1>1, KidsOfIs
        <4> QED
          BY <1>1, <4>1, <3>1
      <3>3. f = slot \o d /\ d \in Path /\ Len(d) = 2
        BY <1>1, <3>2, ConcatEmpty
      <3>4. Len(f) = Len(slot) + 2
        <4>1. slot \in Path /\ d \in Path
          BY <1>1, <3>3
        <4>2. Len(slot \o d) = Len(slot) + Len(d)
          BY <4>1, ConcatFacts
        <4> QED
          BY <3>3, <4>2
      <3>5. Len(f) <= Len(q) /\ Len(slot) \in Nat
        BY <1>1, <3>1, PathFacts DEF StartsWith
      <3> QED
        BY <2>2, <3>4, <3>5
    <2>5. group[q] = Router("setlist", <<>>, los(q), NoVal) /\ "setlist" \in RouterKinds
      BY DEF RouterKinds
    <2>6. Own(q, group[q]) = Term(q \o <<>>, NoVal)
      <3> DEFINE L == los(q)
      <3>1. group[q] = Router("setlist", <<>>, L, NoVal)
        BY <2>5
      <3> HIDE DEF L, group
      <3>2. Own(q, Router("setlist", <<>>, L, NoVal)) = Term(q \o <<>>, NoVal)
        BY <2>5, RouterFacts
      <3> QED
        BY <3>1, <3>2
    <2>7. DOMAIN t1 = DOMAIN tree \cup {slot}
      BY DEF Upd
    <2> HIDE DEF group, t1
    <2> QED
      BY <2>3, <2>4, <2>6, <2>7 DEF Term
  <1> HIDE DEF t1, group
  <1>5. Facts(Over(t1, group)) = Facts(t1) \cup Facts(group)
    BY <1>4, FactsBeside
  <1>6. Facts(group) = {}
    BY <1>4, FactsAre
  <1> QED
    BY <1>2, <1>3, <1>5, <1>6

\* Nothing stands where a router ends its own prefix.
LEMMA HereIsFree ==
  ASSUME NEW t, TreeOK(t), Good(Kids(t)), NEW p \in DOMAIN t, t[p].kind \in RouterKinds,
         t[p].pfx # <<>>
  PROVE  At(t, p) \notin DOMAIN t /\ At(t, p) # p
  <1> DEFINE x == t[p].pfx
             b == p \o x
  <1>1. p \in Path /\ NodeOK(t[p]) /\ x \in Path /\ x # <<>>
    BY NodeFields DEF TreeOK
  <1> HIDE DEF x
  <1>2. b \in Path /\ StartsWith(b, p) /\ b # p
    BY <1>1, StartsConcat
  <1>3. ASSUME b \in DOMAIN t
        PROVE  FALSE
    <2>1. PICK f \in KidsOf(p, t[p]) : StartsWith(b, f)
      BY <1>2, <1>3, Deeper
    <2>2. f \in Path /\ StartsWith(f, b) /\ f # b
      BY <1>1, <2>1, BelowHere DEF x
    <2> QED
      BY <1>2, <2>1, <2>2, StartsSame
  <1> QED
    BY <1>2, <1>3 DEF At, x

\* A node x moves below a prefix node that takes its place.
Lift(t, p, b, pfx, x) == Over(t, [q \in {p, b} |-> IF q = p THEN Pn(pfx) ELSE x])

LEMMA LiftFacts ==
  ASSUME NEW t, NEW p \in DOMAIN t, NEW b, b \notin DOMAIN t, NEW pfx, NEW x,
         Own(b, x) = Own(p, t[p])
  PROVE  Facts(Lift(t, p, b, pfx, x)) = Facts(t)
  <1> DEFINE u == Lift(t, p, b, pfx, x)
  <1>1. /\ DOMAIN u = DOMAIN t \cup {b} /\ u[p] = Pn(pfx) /\ u[b] = x
        /\ \A q \in DOMAIN t \ {p} : u[q] = t[q]
    BY DEF Lift, Over
  <1>2. Own(p, Pn(pfx)) = {}
    BY PnFacts
  <1> HIDE DEF u
  <1>3. ASSUME NEW f \in Facts(u)
        PROVE  f \in Facts(t)
    <2>1. PICK q \in DOMAIN u : f \in Own(q, u[q])
      BY FactsAre
    <2>2. CASE q = b
      BY <1>1, <2>1, <2>2, FactsAre
    <2>3. CASE q # b
      BY <1>1, <1>2, <2>1, <2>3, FactsAre
    <2> QED
      BY <2>2, <2>3
  <1>4. ASSUME NEW f \in Facts(t)
        PROVE  f \in Facts(u)
    <2>1. PICK q \in DOMAIN t : f \in Own(q, t[q])
      BY FactsAre
    <2>2. CASE q = p
      BY <1>1, <2>1, <2>2, FactsAre
    <2>3. CASE q # p
      BY <1>1, <2>1, <2>3, FactsAre
    <2> QED
      BY <2>2, <2>3
  <1> QED
    BY <1>3, <1>4 DEF u

\* The routers that a fusion takes in hold nothing.
LEMMA FuseFacts ==
  ASSUME NEW t, TreeOK(t), Good(Kids(t)), NEW p \in DOMAIN t, Fusable(t, p)
  PROVE  Facts(FuseTree(t, p)) = Facts(t)
  <1> DEFINE C == Children(t, p)
             x == Router("u16", <<>>, Grandedges(t, p), t[p].term)
             s == Drop(t, C)
  <1>1. t[p].kind = "setlist" /\ t[p].pfx = <<>> /\ t[p].kind \in RouterKinds
        /\ C = KidsOf(p, t[p])
    BY ChildrenAre DEF Fusable, RouterKinds
  <1>2. \A c \in C : c \in DOMAIN t /\ Own(c, t[c]) = {}
    <2> SUFFICES ASSUME NEW c \in C
                 PROVE  c \in DOMAIN t /\ Own(c, t[c]) = {}
      OBVIOUS
    <2>1. Absorbable(t, c)
      BY DEF Fusable
    <2>2. c \in DOMAIN t /\ t[c].kind \in RouterKinds /\ t[c].term = NoVal
      BY <2>1 DEF Absorbable
    <2> QED
      BY <2>2, OwnIs
  <1>3. p \notin C
    <2>1. NodeOK(t[p]) /\ p \in Path
      BY DEF TreeOK
    <2>2. KidsOK(p, KidsOf(p, t[p]))
      BY <2>1, NodeKidsOK
    <2> QED
      BY <1>1, <2>2 DEF KidsOK
  <1>4. Own(p, x) = Own(p, t[p])
    <2>1. x.kind \in RouterKinds /\ x.pfx = <<>> /\ x.term = t[p].term
      BY DEF Router, RouterKinds
    <2> HIDE DEF x
    <2>2. SameTerm(p, x, p, t[p])
      BY <1>1, <2>1 DEF SameTerm
    <2> QED
      BY <2>2, SameOwn
  <1>5. FuseTree(t, p) = Upd(s, p, x)
    BY DEF FuseTree
  <1> HIDE DEF C, x
  <1>6. Facts(s) = Facts(t)
    BY <1>2, FactsDropNone
  <1>7. p \in DOMAIN s /\ s[p] = t[p]
    BY <1>3 DEF Drop
  <1> HIDE DEF s
  <1>8. But(s, Upd(s, p, x), p) /\ Upd(s, p, x)[p] = x
    BY <1>7 DEF But, Upd
  <1>9. Facts(Upd(s, p, x)) = Facts(s)
    <2> DEFINE w == Upd(s, p, x)
    <2> HIDE DEF w
    <2>1. But(s, w, p) /\ Own(p, w[p]) = Own(p, s[p])
      BY <1>4, <1>7, <1>8 DEF w
    <2>2. Facts(w) = Facts(s)
      BY <2>1, ButFacts
    <2> QED
      BY <2>2 DEF w
  <1> QED
    BY <1>5, <1>6, <1>9

\* The only child of a router without a term takes the router's place.
LEMMA CollapseFacts ==
  ASSUME NEW t, TreeOK(t), Good(Kids(t)), NEW p \in DOMAIN t, t[p].kind \in RouterKinds,
         Cardinality(t[p].edges) = 1, t[p].term = NoVal
  PROVE  Facts(CollapseTree(t, p)) = Facts(t)
  <1> DEFINE e   == CHOOSE x \in t[p].edges : TRUE
             c   == At(t, p) \o e
             pfx == t[p].pfx \o e
  <1>1. e \in t[p].edges
    <2>1. IsFiniteSet(t[p].edges)
      BY EdgesFinite DEF TreeOK
    <2>2. \E x : t[p].edges = {x}
      BY <2>1, FS_Singleton
    <2> QED
      BY <2>2
  <1> HIDE DEF e
  <1>2. p \in Path /\ NodeOK(t[p]) /\ t[p].pfx \in Path /\ e \in Path /\ e # <<>>
    <2>1. p \in Path /\ NodeOK(t[p])
      BY DEF TreeOK
    <2>2. t[p].pfx \in Path /\ e \in Path /\ Len(e) = StemLen(t[p].kind)
      BY <1>1, <2>1, NodeFields
    <2>3. StemLen(t[p].kind) # 0
      BY DEF StemLen
    <2>4. e # <<>>
      BY <2>2, <2>3, EmptyPath
    <2> QED
      BY <2>1, <2>2, <2>4
  <1>3. c = p \o pfx /\ pfx \in Path /\ pfx # <<>> /\ c # p
    <2> DEFINE z == t[p].pfx
    <2>1. p \in Path /\ z \in Path /\ e \in Path /\ e # <<>>
      BY <1>2
    <2> HIDE DEF z
    <2>3. p \o (z \o e) = (p \o z) \o e
      BY <2>1, ConcatAssoc
    <2>4. z \o e \in Path /\ z \o e # <<>>
      BY <2>1, ConcatNonEmpty
    <2>5. p \o (z \o e) # p
      BY <2>1, <2>4, StartsConcat
    <2> QED
      BY <2>3, <2>4, <2>5 DEF At, z
  <1>4. Own(p, t[p]) = {}
    BY OwnIs
  <1>5. CASE c \in DOMAIN t /\ t[c].kind = "setlist" /\ Len(t[c].pfx) + Len(pfx) <= PrefixCap
    <2> DEFINE x == [t[c] EXCEPT !.pfx = pfx \o t[c].pfx]
               s == Drop(t, {c})
    <2>1. CollapseTree(t, p) = Upd(s, p, x)
      BY <1>5 DEF CollapseTree, c, pfx, e
    <2>2. NodeOK(t[c]) /\ t[c].kind = "setlist" /\ t[c].kind \in RouterKinds
      BY <1>5 DEF TreeOK, RouterKinds
    <2>3. t[c] \in RouterNode /\ t[c].pfx \in Path
      BY <2>2, NodeFields
    <2> DEFINE y == pfx \o t[c].pfx
    <2>4. x = Router("setlist", y, t[c].edges, t[c].term)
      <3>1. x = Router(t[c].kind, y, t[c].edges, t[c].term)
        BY <2>3, RouterIs
      <3> QED
        BY <2>2, <3>1
    <2>5. x.kind = "setlist" /\ x.pfx = y /\ x.term = t[c].term
      BY <2>4 DEF Router
    <2>6. p \o y = c \o t[c].pfx
      <3> DEFINE w == t[c].pfx
      <3>1. w \in Path
        BY <2>3
      <3> HIDE DEF w, pfx
      <3>2. p \o (pfx \o w) = (p \o pfx) \o w
        BY <1>2, <1>3, <3>1, ConcatAssoc
      <3> QED
        BY <1>3, <3>2 DEF w
    <2> HIDE DEF x, y, c
    <2>7. Own(p, x) = Own(c, t[c])
      <3>1. SameTerm(p, x, c, t[c])
        BY <2>2, <2>5, <2>6 DEF SameTerm
      <3> QED
        BY <3>1, SameOwn
    <2>8. Facts(t) = Facts(s) \cup Own(c, t[c])
      BY <1>5, FactsDrop
    <2>9. p \in DOMAIN s /\ s[p] = t[p]
      BY <1>3 DEF Drop
    <2> HIDE DEF s
    <2>10. Facts(Upd(s, p, x)) = Facts(s) \cup Own(p, x)
      BY <1>4, <2>9, FactsUpd
    <2> QED
      BY <2>1, <2>7, <2>8, <2>10
  <1>6. CASE ~(c \in DOMAIN t /\ t[c].kind = "setlist" /\ Len(t[c].pfx) + Len(pfx) <= PrefixCap)
    <2>1. CollapseTree(t, p) = MakePrefix(t, p, pfx)
      BY <1>6 DEF CollapseTree, c, pfx, e
    <2> HIDE DEF c, pfx
    <2>3. Facts(MakePrefix(t, p, pfx)) = Facts(t)
      BY <1>2, <1>3, <1>4, MakePrefixFacts
    <2> QED
      BY <2>1, <2>3
  <1> QED
    BY <1>5, <1>6

-----------------------------------------------------------------------------
(* What a step of a call does, told by the facts.                          *)

\* The keys stored, as far as count_ goes: a split that has yet to look at its
\* parent has not counted its key.
Owed == count + IF pc = "fuse" THEN 1 ELSE 0

\* What each part of the code serves, and the answer it gives.
Served ==
  /\ pc \in {"put", "grow", "fuse"} => req.op \in {"insert", "emplace"}
  /\ pc = "get" => req.op \in {"update", "find"}
  /\ pc \in {"rem", "unlink", "shrink"} => req.op = "remove"
  /\ pc = "clear" => req.op = "clear"
  /\ pc \in {"fuse", "unlink", "shrink"} => ret = "true"

Quiet   == Facts(tree') = Facts(tree) /\ Owed' = Owed /\ req' = req
Decides == phase = "called" /\ phase' \in {"applied", "idle"} /\ req' = req

Stays   == Quiet /\ ret' = ret /\ phase' = phase
Returns == Quiet /\ ret' = ret /\ phase = "applied" /\ phase' = "idle"
Throws  == /\ Quiet /\ phase = "called" /\ phase' = "idle" /\ ret' = "throw"
           /\ req.op \in {"insert", "emplace"}
Answers ==
  /\ Quiet /\ Decides
  /\ \/ /\ req.op \in {"update", "remove", "find"} /\ Absent(tree, req.key)
        /\ ret' = "false"
     \/ req.op = "emplace" /\ ~Absent(tree, req.key) /\ ret' = "false"
     \/ req.op = "find" /\ <<req.key, ret'>> \in Facts(tree)
Gains ==
  /\ Decides /\ req.op \in {"insert", "emplace"} /\ ret' = "true" /\ Owed' = Owed + 1
  /\ Absent(tree, req.key) /\ Facts(tree') = Facts(tree) \cup {<<req.key, req.val>>}
Swaps ==
  /\ Decides /\ Owed' = Owed /\ ~Absent(tree, req.key)
  /\ Assigns(tree, tree', req.key, req.val)
  /\ \/ req.op = "insert" /\ ret' = "false"
     \/ req.op = "update" /\ ret' = "true"
Loses ==
  /\ Decides /\ req.op = "remove" /\ ret' = "true" /\ Owed' = Owed - 1
  /\ ~Absent(tree, req.key) /\ Removes(tree, tree', req.key)
Clears ==
  /\ Decides /\ req.op = "clear" /\ ret' = "true" /\ Owed' = 0 /\ Facts(tree') = {}
Calls ==
  /\ phase = "idle" /\ phase' = "called" /\ ret' = "pending"
  /\ req' \in [op : Ops, key : Keys, val : Values]
  /\ tree' = tree /\ Owed' = Owed

Outcome ==
  \/ Stays \/ Returns \/ Throws \/ Answers \/ Gains \/ Swaps \/ Loses \/ Clears \/ Calls

\* Whatever the outcome, it is a step of the dictionary or none.
LEMMA OutcomeMaps ==
  ASSUME UniqueKeys, UniqueKeys', Outcome
  PROVE  Abs!AbsNext \/ UNCHANGED Abs!absVars
  <1> DEFINE d == Content(tree)
             e == Content(tree')
             k == req.key
  <1>1. Uniq(tree) /\ Uniq(tree')
    BY DEF UniqueKeys, Uniq
  <1>2. /\ Absent(tree, k) <=> k \notin DOMAIN d
        /\ \A v : <<k, v>> \in Facts(tree) => k \in DOMAIN d /\ d[k] = v
    BY <1>1, ContentIs DEF Absent
  <1>3. Facts(tree') = Facts(tree) => e = d
    BY <1>1, SameContent
  <1>4. Assigns(tree, tree', k, req.val) => e = Abs!With(d, k, req.val)
    BY <1>1, WithContent
  <1>5. Removes(tree, tree', k) => e = Abs!Without(d, k)
    BY <1>1, WithoutContent
  <1>6. Absent(tree, k) /\ Facts(tree') = Facts(tree) \cup {<<k, req.val>>}
          => Assigns(tree, tree', k, req.val)
    BY GainAssigns
  <1>7. Facts(tree') = {} => e = [x \in {} |-> 0]
    <2> SUFFICES ASSUME Facts(tree') = {}
                 PROVE  e = [x \in {} |-> 0]
      OBVIOUS
    <2>1. \A x : x \notin DOMAIN e
      BY <1>1, ContentIs
    <2>2. e = [x \in DOMAIN e |-> e[x]]
      BY ContentFcn
    <2>3. DOMAIN e = {}
      BY <2>1
    <2> HIDE DEF e
    <2> QED
      BY <2>2, <2>3
  <1>8. CASE Stays
    BY <1>3, <1>8 DEF Stays, Quiet, Abs!absVars
  <1>9. CASE Returns
    BY <1>3, <1>9 DEF Returns, Quiet, Abs!AbsNext, Abs!Return
  <1>10. CASE Throws
    BY <1>3, <1>10 DEF Throws, Quiet, Abs!AbsNext, Abs!Throw
  <1>11. CASE Calls
    BY <1>11 DEF Calls, Abs!AbsNext, Abs!Call, Abs!Requests, Abs!Ops, Ops
  <1> HIDE DEF d, e, k
  <1>12. ASSUME Decides, e = Abs!Effect(d, req), ret' = Abs!Answer(d, req)
         PROVE  Abs!AbsNext
    BY <1>12 DEF Decides, Abs!AbsNext, Abs!Apply, d, e
  <1>13. CASE Answers
    <2>1. Decides /\ e = d
      BY <1>3, <1>13 DEF Answers, Quiet
    <2>2. CASE req.op \in {"update", "remove", "find"} /\ Absent(tree, k) /\ ret' = "false"
      <3>1. k \notin DOMAIN d
        BY <1>2, <2>2
      <3>2. Abs!Effect(d, req) = d
        <4>1. CASE req.op \in {"update", "find"}
          BY <3>1, <4>1 DEF Abs!Effect, k
        <4>2. CASE req.op = "remove"
          <5>1. Abs!Effect(d, req) = Abs!Without(d, k)
            BY <4>2 DEF Abs!Effect, k
          <5>2. Abs!Without(d, k) = d
            <6>1. DOMAIN d \ {k} = DOMAIN d
              BY <3>1
            <6>2. d = [x \in DOMAIN d |-> d[x]]
              BY ContentFcn DEF d
            <6> QED
              BY <6>1, <6>2 DEF Abs!Without
          <5> QED
            BY <5>1, <5>2
        <4> QED
          BY <2>2, <4>1, <4>2
      <3>3. Abs!Answer(d, req) = "false"
        BY <2>2, <3>1 DEF Abs!Answer, k
      <3> QED
        BY <1>12, <2>1, <2>2, <3>2, <3>3
    <2>3. CASE req.op = "emplace" /\ ~Absent(tree, k) /\ ret' = "false"
      <3>1. k \in DOMAIN d
        BY <1>2, <2>3
      <3>2. Abs!Effect(d, req) = d /\ Abs!Answer(d, req) = "false"
        BY <2>3, <3>1 DEF Abs!Effect, Abs!Answer, k
      <3> QED
        BY <1>12, <2>1, <2>3, <3>2
    <2>4. CASE req.op = "find" /\ <<k, ret'>> \in Facts(tree)
      <3>1. k \in DOMAIN d /\ d[k] = ret'
        BY <1>2, <2>4
      <3>2. Abs!Effect(d, req) = d /\ Abs!Answer(d, req) = d[k]
        BY <2>4, <3>1 DEF Abs!Effect, Abs!Answer, k
      <3> QED
        BY <1>12, <2>1, <3>1, <3>2
    <2> QED
      BY <1>13, <2>2, <2>3, <2>4 DEF Answers, k
  <1>14. CASE Gains
    <2>1. Decides /\ e = Abs!With(d, k, req.val) /\ k \notin DOMAIN d
          /\ req.op \in {"insert", "emplace"} /\ ret' = "true"
      BY <1>2, <1>4, <1>6, <1>14 DEF Gains, k
    <2>2. Abs!Effect(d, req) = Abs!With(d, k, req.val) /\ Abs!Answer(d, req) = "true"
      BY <2>1 DEF Abs!Effect, Abs!Answer, k
    <2> QED
      BY <1>12, <2>1, <2>2
  <1>15. CASE Swaps
    <2>1. Decides /\ e = Abs!With(d, k, req.val) /\ k \in DOMAIN d
          /\ \/ req.op = "insert" /\ ret' = "false"
             \/ req.op = "update" /\ ret' = "true"
      BY <1>2, <1>4, <1>15 DEF Swaps, k
    <2>2. Abs!Effect(d, req) = Abs!With(d, k, req.val) /\ Abs!Answer(d, req) = ret'
      BY <2>1 DEF Abs!Effect, Abs!Answer, k
    <2> QED
      BY <1>12, <2>1, <2>2
  <1>16. CASE Loses
    <2>1. Decides /\ e = Abs!Without(d, k) /\ k \in DOMAIN d /\ req.op = "remove" /\ ret' = "true"
      BY <1>2, <1>5, <1>16 DEF Loses, k
    <2>2. Abs!Effect(d, req) = Abs!Without(d, k) /\ Abs!Answer(d, req) = "true"
      BY <2>1 DEF Abs!Effect, Abs!Answer, k
    <2> QED
      BY <1>12, <2>1, <2>2
  <1>17. CASE Clears
    <2>1. Decides /\ e = [x \in {} |-> 0] /\ req.op = "clear" /\ ret' = "true"
      BY <1>7, <1>17 DEF Clears
    <2>2. Abs!Effect(d, req) = [x \in {} |-> 0] /\ Abs!Answer(d, req) = "true"
      BY <2>1 DEF Abs!Effect, Abs!Answer
    <2> QED
      BY <1>12, <2>1, <2>2
  <1> QED
    BY <1>8, <1>9, <1>10, <1>11, <1>13, <1>14, <1>15, <1>16, <1>17 DEF Outcome

\* The number of stored keys.
Sized ==
  /\ IsFiniteSet(DOMAIN Content(tree))
  /\ Cardinality(DOMAIN Content(tree)) = Owed

\* ... and count_ keeps up with it.
LEMMA OutcomeCounts ==
  ASSUME UniqueKeys, UniqueKeys', Outcome, Sized
  PROVE  Sized'
  <1> DEFINE D == DOMAIN Content(tree)
             E == DOMAIN Content(tree')
             k == req.key
  <1>1. Uniq(tree) /\ Uniq(tree')
    BY DEF UniqueKeys, Uniq
  <1>2. /\ \A x : x \in D <=> \E v : <<x, v>> \in Facts(tree)
        /\ \A x : x \in E <=> \E v : <<x, v>> \in Facts(tree')
    BY <1>1, ContentIs
  <1>3. IsFiniteSet(D) /\ Cardinality(D) = Owed
    BY DEF Sized
  <1> HIDE DEF D, E, k
  <1>4. ASSUME E = D, Owed' = Owed
        PROVE  IsFiniteSet(E) /\ Cardinality(E) = Owed'
    BY <1>3, <1>4
  <1>5. Facts(tree') = Facts(tree) => E = D
    BY <1>2
  <1>6. CASE Stays \/ Returns \/ Throws \/ Answers
    BY <1>4, <1>5, <1>6 DEF Stays, Returns, Throws, Answers, Quiet, Sized, E
  <1>7. CASE Calls
    BY <1>4, <1>7 DEF Calls, Sized, D, E
  <1>8. CASE Swaps
    <2>1. Assigns(tree, tree', k, req.val) /\ ~Absent(tree, k) /\ Owed' = Owed
      BY <1>8 DEF Swaps, k
    <2>2. E = D
      BY <1>2, <2>1 DEF Assigns, Absent
    <2> QED
      BY <1>4, <2>1, <2>2 DEF Sized, E
  <1>9. CASE Gains
    <2>1. /\ k \notin D /\ Owed' = Owed + 1
          /\ Facts(tree') = Facts(tree) \cup {<<k, req.val>>}
      BY <1>2, <1>9 DEF Gains, Absent, k
    <2>2. \A x, v : <<x, v>> \in Facts(tree') <=> <<x, v>> \in Facts(tree) \/ (x = k /\ v = req.val)
      BY <2>1
    <2>3. E = D \cup {k}
      BY <1>2, <2>2
    <2>4. IsFiniteSet(E) /\ Cardinality(E) = Cardinality(D) + 1
      BY <1>3, <2>1, <2>3, FS_AddElement
    <2> QED
      BY <1>3, <2>1, <2>4 DEF Sized, E
  <1>10. CASE Loses
    <2>1. k \in D /\ Owed' = Owed - 1 /\ Removes(tree, tree', k)
      BY <1>2, <1>10 DEF Loses, Absent, k
    <2>2. E = D \ {k}
      BY <1>2, <2>1 DEF Removes
    <2>3. IsFiniteSet(E) /\ Cardinality(E) = Cardinality(D) - 1
      BY <1>3, <2>1, <2>2, FS_RemoveElement
    <2> QED
      BY <1>3, <2>1, <2>3 DEF Sized, E
  <1>11. CASE Clears
    <2>1. E = {} /\ Owed' = 0
      BY <1>2, <1>11 DEF Clears
    <2> QED
      BY <2>1, FS_EmptySet DEF Sized, E
  <1> QED
    BY <1>6, <1>7, <1>8, <1>9, <1>10, <1>11 DEF Outcome

\* Between calls that is count_: a key has one node, so that there are as many
\* nodes with a key as there are keys.
LEMMA SizedCounts ==
  ASSUME IInv, UniqueKeys, Sized
  PROVE  CountMatches
  <1> SUFFICES ASSUME pc = "idle"
               PROVE  count = Cardinality(Terminals(tree))
    BY DEF CountMatches
  <1> DEFINE T == Terminals(tree)
             D == DOMAIN Content(tree)
             f == [p \in T |-> KeyAt(tree, p)]
  <1>1. D = {KeyAt(tree, p) : p \in T}
    BY DEF Content
  <1>2. f \in Injection(T, D)
    <2>1. f \in [T -> D]
      BY <1>1
    <2>2. \A p, q \in T : f[p] = f[q] => p = q
      BY DEF UniqueKeys
    <2> HIDE DEF f, T, D
    <2> QED
      BY <2>1, <2>2 DEF Injection, IsInjective
  <1>3. f \in Surjection(T, D)
    <2>1. f \in [T -> D] /\ \A k \in D : \E p \in T : f[p] = k
      BY <1>1
    <2> HIDE DEF f, T, D
    <2> QED
      BY <2>1 DEF Surjection
  <1>4. IsFiniteSet(D) /\ Cardinality(D) = count
    <2>1. Owed = count
      BY StateFacts DEF Owed
    <2> QED
      BY <2>1 DEF Sized
  <1> HIDE DEF f, T, D
  <1>5. Cardinality(T) = Cardinality(D)
    BY <1>2, <1>3, <1>4, FS_Injection
  <1> QED
    BY <1>4, <1>5 DEF T

\* The phase, before and after a step.
LEMMA PhaseIs ==
  /\ pc = "idle" => phase = "idle"
  /\ pc \in {"put", "get", "rem", "grow", "clear"} => phase = "called"
  /\ pc \in {"fuse", "unlink", "shrink"} => phase = "applied"
  /\ pc # "fuse" => Owed = count + 0
  /\ pc = "fuse" => Owed = count + 1
  BY DEF phase, Owed

LEMMA PhaseWillBe ==
  /\ pc' = "idle" => phase' = "idle"
  /\ pc' \in {"put", "get", "rem", "grow", "clear"} => phase' = "called"
  /\ pc' \in {"fuse", "unlink", "shrink"} => phase' = "applied"
  /\ pc' # "fuse" => Owed' = count' + 0
  /\ pc' = "fuse" => Owed' = count' + 1
  BY DEF phase, Owed

\* A call that is served goes on being served.
LEMMA ServedInit == Init => Served
  BY DEF Init, Served

LEMMA ServedStays ==
  ASSUME IInv, Served, [Next]_vars
  PROVE  Served'
  <1>1. ASSUME pc' = "idle"
        PROVE  Served'
    BY <1>1 DEF Served
  <1>2. ASSUME NEW r, Finish(r)
        PROVE  Served'
    BY <1>1, <1>2 DEF Finish
  <1>3. ASSUME NEW i, Freed(i), pc \in {"rem", "unlink", "shrink"}
        PROVE  Served'
    <2>1. CASE i = 0 \/ n - i >= RmLvn
      BY <1>2, <1>3, <2>1 DEF Freed
    <2>2. CASE ~(i = 0 \/ n - i >= RmLvn)
      BY <1>3, <2>2 DEF Freed, Served
    <2> QED
      BY <2>1, <2>2
  <1>4. ASSUME NEW op \in Ops, NEW k \in Keys, NEW v \in Values, Call(op, k, v)
        PROVE  Served'
    <2>1. pc' = Entry(op) /\ req'.op = op
      BY <1>4 DEF Call
    <2> QED
      BY <2>1 DEF Served, Entry, Ops
  <1>5. ASSUME Put
        PROVE  Served'
    <2>1. CASE PutNull \/ PutSameLeaf \/ PutSplitPrefix \/ PutTerm \/ GrowLink \/ FuseParent
      BY <1>2, <2>1 DEF PutNull, PutSameLeaf, PutSplitPrefix, PutTerm, GrowLink, FuseParent, Throw
    <2>2. CASE PutLazyFuse \/ PutDescend \/ PutExternalizeAll \/ PutRestride \/ GrowLift \/ GrowWiden
      BY <1>2, <2>2 DEF PutLazyFuse, PutDescend, PutExternalizeAll, PutRestride, GrowLift, GrowWiden,
                        Throw, Served
    <2>3. CASE PutAdd \/ PutAddStem \/ PutSplitLeaf
      BY <1>2, <2>3 DEF PutAdd, PutAddStem, PutSplitLeaf, Throw, Served, Putting
    <2> QED
      BY <1>5, <2>1, <2>2, <2>3 DEF Put
  <1>6. ASSUME Get
        PROVE  Served'
    BY <1>2, <1>6 DEF Get, GetDescend, GetMiss, GetHit, Served
  <1>7. ASSUME Rem
        PROVE  Served'
    <2>1. CASE RemDescend \/ RemMiss
      BY <1>2, <2>1 DEF RemDescend, RemMiss, Served
    <2>2. CASE RemLeaf \/ UnlinkPn \/ ShrinkEmpty
      BY <1>3, <2>2 DEF RemLeaf, UnlinkPn, ShrinkEmpty, Removing, Shrinking
    <2>3. CASE RemTerm \/ RemInline
      BY <2>3 DEF RemTerm, RemInline, ToShrink, Removing, Served
    <2>4. CASE UnlinkEdge \/ ShrinkDewiden
      BY <1>2, <2>4 DEF UnlinkEdge, ShrinkDewiden, Survives, Shrinking, Served
    <2>5. CASE ShrinkToTerm \/ ShrinkLone \/ ShrinkStands
      BY <1>2, <2>5 DEF ShrinkToTerm, ShrinkLone, ShrinkStands, Survives
    <2> QED
      BY <1>7, <2>1, <2>2, <2>3, <2>4, <2>5 DEF Rem
  <1>8. CASE Clear
    BY <1>2, <1>8 DEF Clear
  <1>9. CASE UNCHANGED vars
    BY <1>9 DEF vars, Served
  <1> QED
    BY <1>4, <1>5, <1>6, <1>7, <1>8, <1>9 DEF Next, Step

-----------------------------------------------------------------------------
(* The outcome of every step of insert_.                                   *)

\* A step within a call that leaves the facts as they are.
LEMMA AgainOutcome ==
  ASSUME Facts(tree') = Facts(tree), UNCHANGED <<count, pc, req, ret>>
  PROVE  Outcome
  <1>1. phase' = phase /\ Owed' = Owed
    BY DEF phase, Owed
  <1> QED
    BY <1>1 DEF Outcome, Stays, Quiet

LEMMA ThrowOutcome ==
  ASSUME Served, pc \in {"put", "grow"}, Facts(tree') = Facts(tree), count' = count,
         Finish("throw")
  PROVE  Outcome
  <1>1. phase = "called" /\ Owed = count + 0 /\ req.op \in {"insert", "emplace"}
    BY PhaseIs DEF Served
  <1>2. /\ pc' = "idle" /\ ret' = "throw" /\ req' = req
        /\ phase' = "idle" /\ Owed' = count' + 0
    BY PhaseWillBe DEF Finish
  <1>3. Throws
    BY <1>1, <1>2 DEF Throws, Quiet
  <1> QED
    BY <1>3 DEF Outcome

\* The key was not there: it is now.
LEMMA GainOutcome ==
  ASSUME IInv, Served, pc \in {"put", "grow"}, Absent(tree, req.key),
         Facts(tree') = Facts(tree) \cup {<<req.key, req.val>>},
         \/ Finish("true") /\ count' = count + 1
         \/ pc' = "fuse" /\ ret' = "true" /\ UNCHANGED <<count, req>>
  PROVE  Outcome
  <1>1. phase = "called" /\ Owed = count + 0 /\ req.op \in {"insert", "emplace"} /\ count \in Int
    BY PhaseIs, StateFacts DEF Served
  <1>2. /\ ret' = "true" /\ req' = req /\ phase' \in {"idle", "applied"} /\ Owed' = Owed + 1
    <2>1. CASE Finish("true") /\ count' = count + 1
      BY <1>1, <2>1, PhaseWillBe DEF Finish
    <2>2. CASE pc' = "fuse" /\ ret' = "true" /\ UNCHANGED <<count, req>>
      BY <1>1, <2>2, PhaseWillBe
    <2> QED
      BY <2>1, <2>2
  <1>3. Gains
    BY <1>1, <1>2 DEF Gains, Decides
  <1> QED
    BY <1>3 DEF Outcome

\* The key is at the node at slot, which gets the new value.
LEMMA SwapOutcome ==
  ASSUME IInv, Served, pc \in {"put", "get"}, But(tree, tree', slot), NEW w,
         Own(slot, tree[slot]) = {<<req.key, w>>},
         Own(slot, tree'[slot]) = {<<req.key, req.val>>},
         NEW r, Finish(r), count' = count,
         \/ req.op = "insert" /\ r = "false"
         \/ req.op = "update" /\ r = "true"
  PROVE  Outcome
  <1>1. phase = "called" /\ Owed = count + 0
    BY PhaseIs
  <1>2. ret' = r /\ req' = req /\ phase' = "idle" /\ Owed' = count' + 0
    BY PhaseWillBe DEF Finish
  <1>3. Assigns(tree, tree', req.key, req.val)
    BY SwapAssigns
  <1>4. ~Absent(tree, req.key)
    <2>1. <<req.key, w>> \in Facts(tree)
      BY FactsAre DEF But
    <2> QED
      BY <2>1 DEF Absent
  <1>5. Swaps
    BY <1>1, <1>2, <1>3, <1>4 DEF Swaps, Decides
  <1> QED
    BY <1>5 DEF Outcome

\* The key is there, and the call leaves it at that or reads it.
LEMMA KnownOutcome ==
  ASSUME IInv, Served, pc \in {"put", "get"}, Facts(tree') = Facts(tree), count' = count,
         NEW w, <<req.key, w>> \in Facts(tree),
         NEW r, Finish(r),
         \/ req.op = "emplace" /\ r = "false"
         \/ req.op = "find" /\ r = w
  PROVE  Outcome
  <1>1. phase = "called" /\ Owed = count + 0
    BY PhaseIs
  <1>2. ret' = r /\ req' = req /\ phase' = "idle" /\ Owed' = count' + 0
    BY PhaseWillBe DEF Finish
  <1>3. ~Absent(tree, req.key)
    BY DEF Absent
  <1>4. Answers
    BY <1>1, <1>2, <1>3 DEF Answers, Quiet, Decides
  <1> QED
    BY <1>4 DEF Outcome

\* The key is not there, and that is the answer.
LEMMA MissOutcome ==
  ASSUME IInv, Served, pc \in {"get", "rem"}, UNCHANGED <<tree, count>>,
         Absent(tree, req.key), Finish("false")
  PROVE  Outcome
  <1>1. phase = "called" /\ Owed = count + 0 /\ req.op \in {"update", "remove", "find"}
    BY PhaseIs DEF Served
  <1>2. ret' = "false" /\ req' = req /\ phase' = "idle" /\ Owed' = count' + 0
    BY PhaseWillBe DEF Finish
  <1>3. Answers
    BY <1>1, <1>2 DEF Answers, Quiet, Decides
  <1> QED
    BY <1>3 DEF Outcome

LEMMA PutNullOutcome ==
  ASSUME IInv, Shape, Served, PutNull
  PROVE  Outcome
  <1>1. pc = "put" /\ slot \notin DOMAIN tree
    BY DEF PutNull, Putting
  <1>2. CASE Throw
    BY <1>1, <1>2, ThrowOutcome DEF Throw
  <1>3. CASE tree' = Upd(tree, slot, Leaf(R, req.val)) /\ count' = count + 1 /\ Finish("true")
    <2>1. Absent(tree, req.key)
      BY <1>1, MissIsRight DEF Passes, Holds
    <2>2. slot \o R = req.key
      BY <1>1, LookFacts
    <2>3. Facts(Upd(tree, slot, Leaf(R, req.val))) = Facts(tree) \cup Own(slot, Leaf(R, req.val))
      BY <1>1, FactsUpd
    <2>4. Own(slot, Leaf(R, req.val)) = {<<slot \o R, req.val>>}
      BY LeafFacts
    <2> QED
      BY <1>1, <1>3, <2>1, <2>2, <2>3, <2>4, GainOutcome
  <1> QED
    BY <1>2, <1>3 DEF PutNull

\* The leaf at slot with another value.
LEMMA NewVal ==
  ASSUME TreeOK(tree), slot \in DOMAIN tree, nd.kind = "leaf", nd.suf = R, slot \o R = req.key,
         tree' = [tree EXCEPT ![slot].val = req.val]
  PROVE  But(tree, tree', slot) /\ Own(slot, tree'[slot]) = {<<req.key, req.val>>}
  <1>1. NodeOK(tree[slot]) /\ tree[slot].kind = "leaf" /\ slot \o tree[slot].suf = req.key
    BY DEF TreeOK, nd
  <1>2. \A v : Own(slot, [tree[slot] EXCEPT !.val = v]) = {<<slot \o tree[slot].suf, v>>}
    BY <1>1, LeafEdit
  <1>3. tree'[slot] = [tree[slot] EXCEPT !.val = req.val]
    OBVIOUS
  <1>4. But(tree, tree', slot)
    BY DEF But
  <1> QED
    BY <1>1, <1>2, <1>3, <1>4

\* The router at slot with another term.
LEMMA NewTerm ==
  ASSUME TreeOK(tree), slot \in DOMAIN tree, nd.kind \in RouterKinds,
         NEW v, tree' = [tree EXCEPT ![slot].term = v]
  PROVE  But(tree, tree', slot) /\ Own(slot, tree'[slot]) = Term(here, v)
  <1>1. NodeOK(tree[slot]) /\ tree[slot].kind \in RouterKinds /\ here = slot \o tree[slot].pfx
    BY DEF TreeOK, nd, here, At
  <1>2. \A w : Own(slot, [tree[slot] EXCEPT !.term = w]) = Term(slot \o tree[slot].pfx, w)
    BY <1>1, RouterEdits
  <1>3. tree'[slot] = [tree[slot] EXCEPT !.term = v]
    OBVIOUS
  <1>4. But(tree, tree', slot)
    BY DEF But
  <1> QED
    BY <1>1, <1>2, <1>3, <1>4

LEMMA PutSameLeafOutcome ==
  ASSUME IInv, Shape, Served, PutSameLeaf
  PROVE  Outcome
  <1>1. /\ pc = "put" /\ slot \in DOMAIN tree /\ nd.kind = "leaf" /\ nd.suf = R
        /\ Finish("false") /\ count' = count /\ nd = tree[slot]
        /\ tree' = IF req.op = "insert" THEN [tree EXCEPT ![slot].val = req.val] ELSE tree
    BY DEF PutSameLeaf, Putting, nd
  <1>2. Own(slot, tree[slot]) = {<<req.key, nd.val>>}
    BY <1>1, HoldsFact DEF Holds
  <1>3. <<req.key, nd.val>> \in Facts(tree)
    BY <1>1, <1>2, FactsAre
  <1>4. req.op \in {"insert", "emplace"} /\ TreeOK(tree) /\ slot \o R = req.key
    BY <1>1, LookFacts DEF Served
  <1>5. CASE req.op = "insert"
    <2>1. But(tree, tree', slot) /\ Own(slot, tree'[slot]) = {<<req.key, req.val>>}
      BY <1>1, <1>4, <1>5, NewVal
    <2> QED
      BY <1>1, <1>2, <1>5, <2>1, SwapOutcome
  <1>6. CASE req.op = "emplace"
    BY <1>1, <1>3, <1>6, KnownOutcome
  <1> QED
    BY <1>4, <1>5, <1>6

LEMMA PutSplitLeafOutcome ==
  ASSUME IInv, Shape, Served, PutSplitLeaf
  PROVE  Outcome
  <1>1. pc = "put" /\ slot \in DOMAIN tree /\ nd.kind = "leaf" /\ nd.suf # R
    BY DEF PutSplitLeaf, Putting
  <1>2. CASE Throw
    BY <1>1, <1>2, ThrowOutcome DEF Throw
  <1>3. ASSUME NEW fits \in BOOLEAN, tree' = SplitLeafTree(fits),
               \/ Finish("true") /\ count' = count + 1
               \/ pc' = "fuse" /\ ret' = "true" /\ UNCHANGED <<count, req>>
        PROVE  Outcome
    <2>1. Absent(tree, req.key)
      <3>1. ~Passes /\ ~Holds
        BY <1>1 DEF Passes, PastPrefix, Holds, RouterKinds, CnodeKinds
      <3> QED
        BY <1>1, <3>1, MissIsRight
    <2>2. Facts(SplitLeafTree(fits)) = Facts(tree) \cup {<<slot \o R, req.val>>}
      BY <1>1, LookFacts, StateFacts, SplitLeafFacts
    <2>3. Facts(tree') = Facts(tree) \cup {<<req.key, req.val>>}
      BY <1>1, <1>3, <2>2, LookFacts
    <2> QED
      BY <1>1, <1>3, <2>1, <2>3, GainOutcome
  <1> QED
    BY <1>2, <1>3 DEF PutSplitLeaf

LEMMA PutLazyFuseOutcome ==
  ASSUME IInv, Shape, Served, PutLazyFuse
  PROVE  Outcome
  <1>1. /\ pc = "put" /\ slot \in DOMAIN tree /\ tree[slot].kind = "pn" /\ nd = tree[slot]
        /\ tree' = MakePrefix(tree, slot, nd.pfx) /\ UNCHANGED <<count, pc, req, ret>>
    BY DEF PutLazyFuse, Putting, nd
  <1>2. NodeOK(nd) /\ nd.pfx \in Path /\ slot \in Path /\ TreeOK(tree) /\ Own(slot, tree[slot]) = {}
    BY <1>1, StateFacts, NodeFields, OwnIs DEF TreeOK
  <1>3. Facts(MakePrefix(tree, slot, nd.pfx)) = Facts(tree)
    BY <1>2, MakePrefixFacts
  <1> QED
    BY <1>1, <1>3, AgainOutcome

LEMMA PutSplitPrefixOutcome ==
  ASSUME IInv, Shape, Served, PutSplitPrefix
  PROVE  Outcome
  <1>1. pc = "put" /\ slot \in DOMAIN tree /\ nd.kind # "leaf" /\ ~StartsWith(R, nd.pfx)
    BY DEF PutSplitPrefix, Putting
  <1>2. CASE Throw
    BY <1>1, <1>2, ThrowOutcome DEF Throw
  <1>3. ASSUME NEW fits \in BOOLEAN, tree' = SplitPrefixTree(fits),
               Finish("true"), count' = count + 1
        PROVE  Outcome
    <2>1. Absent(tree, req.key)
      <3>1. ~Passes
        BY <1>1 DEF Passes, PastPrefix
      <3>2. req.key # here
        <4> SUFFICES ASSUME req.key = slot \o nd.pfx
                     PROVE  FALSE
          BY DEF here, At, nd
        <4>1. nd.pfx \in Path /\ slot \in Path /\ req.key \in Path
          BY <1>1, LookFacts, NodeFields DEF TreeOK, nd
        <4>2. StartsWith(req.key, slot \o nd.pfx)
          BY <4>1, StartsRefl
        <4>3. StartsWith(Rest(req.key, slot), nd.pfx)
          BY <4>1, <4>2, GoesOn
        <4> QED
          BY <1>1, <4>3 DEF R
      <3>3. ~Holds
        BY <1>1, <3>2 DEF Holds, KeyEnds
      <3> QED
        BY <1>1, <3>1, <3>3, MissIsRight
    <2>2. Facts(SplitPrefixTree(fits)) = Facts(tree) \cup {<<slot \o R, req.val>>}
      BY <1>1, LookFacts, StateFacts, SplitPrefixFacts
    <2>3. Facts(tree') = Facts(tree) \cup {<<req.key, req.val>>}
      BY <1>1, <1>3, <2>2, LookFacts
    <2> QED
      BY <1>1, <1>3, <2>1, <2>3, GainOutcome
  <1> QED
    BY <1>2, <1>3 DEF PutSplitPrefix

LEMMA PutTermOutcome ==
  ASSUME IInv, Shape, Served, PutTerm
  PROVE  Outcome
  <1>1. /\ pc = "put" /\ slot \in DOMAIN tree /\ nd.kind \in RouterKinds /\ PastPrefix /\ KeyEnds
        /\ nd.kind # "leaf" /\ nd = tree[slot] /\ here = req.key
    BY DEF PutTerm, Putting, PastPrefix, KeyEnds, nd
  <1>2. /\ TreeOK(tree) /\ req.op \in {"insert", "emplace"} /\ req.val \in Values
        /\ req.val # NoVal
    BY <1>1, StateFacts, NoValAssumption DEF Served
  <1>3. CASE nd.term = NoVal
    <2>1. CASE Throw
      BY <1>1, <2>1, ThrowOutcome DEF Throw
    <2>2. CASE tree' = [tree EXCEPT ![slot].term = req.val] /\ count' = count + 1 /\ Finish("true")
      <3>1. Absent(tree, req.key)
        <4>1. ~Passes /\ ~Holds
          BY <1>1, <1>3 DEF Passes, Holds
        <4> QED
          BY <1>1, <4>1, MissIsRight
      <3>2. But(tree, tree', slot) /\ Own(slot, tree'[slot]) = {<<req.key, req.val>>}
        <4>1. But(tree, tree', slot) /\ Own(slot, tree'[slot]) = Term(here, req.val)
          BY <1>1, <1>2, <2>2, NewTerm
        <4> QED
          BY <1>1, <1>2, <4>1 DEF Term
      <3>3. Own(slot, tree[slot]) = {}
        BY <1>1, <1>3, OwnIs
      <3>4. Facts(tree) = Facts(Drop(tree, {slot})) \cup Own(slot, tree[slot])
        BY <3>2, ButFacts
      <3>5. Facts(tree') = Facts(Drop(tree, {slot})) \cup Own(slot, tree'[slot])
        BY <3>2, ButFacts
      <3>6. Facts(tree') = Facts(tree) \cup {<<req.key, req.val>>}
        BY <3>2, <3>3, <3>4, <3>5
      <3> QED
        BY <1>1, <2>2, <3>1, <3>6, GainOutcome
    <2> QED
      BY <1>3, <2>1, <2>2 DEF PutTerm
  <1>4. CASE nd.term # NoVal
    <2>1. /\ tree' = IF req.op = "insert" THEN [tree EXCEPT ![slot].term = req.val] ELSE tree
          /\ Finish("false") /\ count' = count
      BY <1>4 DEF PutTerm
    <2>2. Own(slot, tree[slot]) = {<<req.key, nd.term>>}
      <3>1. Holds
        BY <1>1, <1>4 DEF Holds
      <3> QED
        BY <1>1, <3>1, HoldsFact
    <2>3. CASE req.op = "insert"
      <3>1. But(tree, tree', slot) /\ Own(slot, tree'[slot]) = {<<req.key, req.val>>}
        <4>1. But(tree, tree', slot) /\ Own(slot, tree'[slot]) = Term(here, req.val)
          BY <1>1, <1>2, <2>1, <2>3, NewTerm
        <4> QED
          BY <1>1, <1>2, <4>1 DEF Term
      <3> QED
        BY <1>1, <2>1, <2>2, <2>3, <3>1, SwapOutcome
    <2>4. CASE req.op = "emplace"
      <3>1. <<req.key, nd.term>> \in Facts(tree)
        BY <1>1, <2>2, FactsAre
      <3> QED
        BY <1>1, <2>1, <2>4, <3>1, KnownOutcome
    <2> QED
      BY <1>2, <2>3, <2>4
  <1> QED
    BY <1>3, <1>4

LEMMA PutDescendOutcome ==
  ASSUME IInv, Shape, Served, PutDescend
  PROVE  Outcome
  <1> DEFINE S == {NextSlot} \cap InlineKids(tree, slot)
  <1>1. pc = "put"
    BY DEF PutDescend, Putting
  <1>2. CASE Throw
    BY <1>1, <1>2, ThrowOutcome DEF Throw
  <1>3. CASE tree' = Externalize(tree, S) /\ UNCHANGED <<count, pc, req, ret>>
    <2>1. S \in SUBSET InlineKids(tree, slot)
      OBVIOUS
    <2> HIDE DEF S
    <2>2. Facts(tree') = Facts(tree)
      BY <1>3, <2>1, StateFacts, ExternalizeFacts
    <2> QED
      BY <1>3, <2>2, AgainOutcome
  <1> QED
    BY <1>2, <1>3 DEF PutDescend, NextSlot

LEMMA PutExternalizeAllOutcome ==
  ASSUME IInv, Shape, Served, PutExternalizeAll
  PROVE  Outcome
  <1>1. ASSUME NEW S \in SUBSET InlineKids(tree, slot), tree' = Externalize(tree, S)
        PROVE  Facts(tree') = Facts(tree)
    BY <1>1, StateFacts, ExternalizeFacts
  <1>2. CASE /\ tree' = Externalize(tree, InlineKids(tree, slot))
             /\ UNCHANGED <<count, pc, req, ret>>
    <2>1. Facts(tree') = Facts(tree)
      BY <1>1, <1>2
    <2> QED
      BY <1>2, <2>1, AgainOutcome
  <1>3. ASSUME NEW c \in InlineKids(tree, slot), Finish("throw"), count' = count,
               tree' = Externalize(tree, {d \in InlineKids(tree, slot) : d[Len(d)] < c[Len(c)]})
        PROVE  Outcome
    <2>1. Facts(tree') = Facts(tree)
      BY <1>1, <1>3
    <2>2. pc = "put"
      BY DEF PutExternalizeAll, Putting
    <2> QED
      BY <1>3, <2>1, <2>2, ThrowOutcome
  <1> QED
    BY <1>2, <1>3 DEF PutExternalizeAll

\* The key goes out of the router at slot over a new edge.
LEMMA NewChild ==
  ASSUME IInv, Shape, Putting, NoChild, Len(Edge) = StemLen(nd.kind)
  PROVE  /\ Absent(tree, req.key)
         /\ Facts(Link(tree, slot, Edge, Rest(req.key, here \o Edge)))
              = Facts(tree) \cup {<<req.key, req.val>>}
  <1> DEFINE suf == Rest(req.key, here \o Edge)
             c   == At(tree, slot) \o Edge
  <1>1. /\ pc = "put" /\ slot \in DOMAIN tree /\ tree[slot].kind \in RouterKinds
        /\ Edge \in Path /\ Len(Edge) = StemLen(tree[slot].kind) /\ suf \in Path
        /\ Edge \notin tree[slot].edges /\ PastPrefix /\ ~KeyEnds /\ nd.kind # "leaf"
    BY NoChildFacts DEF Putting, nd, NoChild, PastPrefix
  <1>2. Absent(tree, req.key)
    <2>1. ~Passes /\ ~Holds
      BY <1>1 DEF Passes, Holds, nd
    <2> QED
      BY <1>1, <2>1, MissIsRight
  <1>3. c = here \o Edge /\ c \in Path /\ StartsWith(req.key, c)
    BY <1>1, PastFacts, PutFacts DEF here, Putting
  <1>4. c \o suf = req.key
    <2>1. c \o Rest(req.key, c) = req.key
      <3> HIDE DEF c
      <3> QED
        BY <1>3, StateFacts, RestJoin
    <2> QED
      BY <1>3, <2>1
  <1> HIDE DEF suf
  <1>5. c \notin DOMAIN tree
    BY <1>1, StateFacts, LinkShape DEF Shape
  <1>6. \A e : At(tree, slot) \o e \notin DOMAIN tree =>
              Facts(Link(tree, slot, e, suf))
                = Facts(tree) \cup {<<(At(tree, slot) \o e) \o suf, req.val>>}
    BY <1>1, StateFacts, LinkFacts
  <1>7. Facts(Link(tree, slot, Edge, suf)) = Facts(tree) \cup {<<c \o suf, req.val>>}
    BY <1>5, <1>6
  <1> QED
    BY <1>2, <1>4, <1>7 DEF suf

LEMMA PutAddOutcome ==
  ASSUME IInv, Shape, Served, PutAdd
  PROVE  Outcome
  <1> DEFINE suf == Rest(req.key, here \o Edge)
  <1>1. Putting /\ pc = "put" /\ NoChild /\ Len(Edge) = StemLen(nd.kind)
    BY NoChildFacts DEF PutAdd, StemLen, Putting
  <1>2. CASE Throw
    BY <1>1, <1>2, ThrowOutcome DEF Throw
  <1>3. CASE tree' = Link(tree, slot, Edge, suf) /\ Finish("true") /\ count' = count + 1
    BY <1>1, <1>3, NewChild, GainOutcome
  <1>4. CASE pc' = "grow" /\ UNCHANGED <<tree, count, req, ret>>
    <2>1. phase = "called" /\ Owed = count + 0
      BY <1>1, PhaseIs
    <2>2. phase' = "called" /\ Owed' = count' + 0
      BY <1>4, PhaseWillBe
    <2>3. Stays
      BY <1>4, <2>1, <2>2 DEF Stays, Quiet
    <2> QED
      BY <2>3 DEF Outcome
  <1> QED
    BY <1>2, <1>3, <1>4 DEF PutAdd

LEMMA PutAddStemOutcome ==
  ASSUME IInv, Shape, Served, PutAddStem
  PROVE  Outcome
  <1> DEFINE suf == Rest(req.key, here \o Edge)
  <1>1. Putting /\ pc = "put" /\ NoChild /\ Len(Edge) = StemLen(nd.kind)
    BY NoChildFacts DEF PutAddStem, StemLen, Putting
  <1>2. CASE Throw
    BY <1>1, <1>2, ThrowOutcome DEF Throw
  <1>3. CASE tree' = Link(tree, slot, Edge, suf) /\ Finish("true") /\ count' = count + 1
    BY <1>1, <1>3, NewChild, GainOutcome
  <1> QED
    BY <1>2, <1>3 DEF PutAddStem

LEMMA PutRestrideOutcome ==
  ASSUME IInv, Shape, Served, PutRestride
  PROVE  Outcome
  <1>1. pc = "put" /\ slot \in DOMAIN tree /\ nd.kind = "u16"
    BY DEF PutRestride, Putting, NoChild
  <1>2. CASE Throw
    BY <1>1, <1>2, ThrowOutcome DEF Throw
  <1>3. CASE tree' = RestrideTree /\ UNCHANGED <<count, pc, req, ret>>
    <2>1. Facts(tree') = Facts(tree)
      BY <1>1, <1>3, StateFacts, RestrideFacts DEF Shape
    <2> QED
      BY <1>3, <2>1, AgainOutcome
  <1> QED
    BY <1>2, <1>3 DEF PutRestride

LEMMA GrowLiftOutcome ==
  ASSUME IInv, Shape, Served, GrowLift
  PROVE  Outcome
  <1> DEFINE b == At(tree, gnode)
             x == [gnd EXCEPT !.pfx = <<>>]
  <1>1. gnd.kind = "setlist" /\ gnd.pfx # <<>> /\ pc = "grow" /\ gnd = tree[gnode]
    BY DEF GrowLift, gnd
  <1>2. CASE Throw
    BY <1>1, <1>2, ThrowOutcome DEF Throw
  <1>3. CASE /\ tree' = Over(tree, [q \in {gnode, b} |-> IF q = gnode THEN Pn(gnd.pfx) ELSE x])
             /\ UNCHANGED <<count, pc, req, ret>>
    <2>1. /\ gnode \in Path /\ gnd.pfx \in Path /\ b = gnode \o gnd.pfx /\ gnd \in RouterNode
          /\ gnode \in DOMAIN tree /\ gnd.kind \in RouterKinds /\ b \in Path
      BY <1>1, GrowFacts DEF At
    <2>2. x.kind \in RouterKinds /\ x.pfx = <<>> /\ x.term = gnd.term
      <3>1. [gnd EXCEPT !.pfx = <<>>] = Router(gnd.kind, <<>>, gnd.edges, gnd.term)
        BY <2>1, RouterIs
      <3> QED
        BY <2>1, <3>1 DEF Router
    <2> HIDE DEF x
    <2>3. SameTerm(b, x, gnode, gnd)
      <3>1. b \o x.pfx = b
        BY <2>1, <2>2, ConcatEmpty
      <3> QED
        BY <2>1, <2>2, <3>1 DEF SameTerm
    <2>4. b \notin DOMAIN tree
      BY <1>1, <2>1, StateFacts, HereIsFree DEF Shape
    <2> HIDE DEF b
    <2>5. Own(b, x) = Own(gnode, tree[gnode])
      BY <1>1, <2>3, SameOwn
    <2>6. Facts(Lift(tree, gnode, b, gnd.pfx, x)) = Facts(tree)
      BY <2>1, <2>4, <2>5, LiftFacts
    <2>7. Facts(tree') = Facts(tree)
      BY <1>3, <2>6 DEF Lift
    <2> QED
      BY <1>3, <2>7, AgainOutcome
  <1> QED
    BY <1>2, <1>3 DEF GrowLift

LEMMA GrowWidenOutcome ==
  ASSUME IInv, Shape, Served, GrowWiden
  PROVE  Outcome
  <1>1. /\ gnode \in DOMAIN tree /\ gnd.kind \in RouterKinds \ {"u16"} /\ gnd = tree[gnode]
        /\ NodeOK(gnd) /\ pc = "grow"
    BY GrowFacts DEF GrowWiden, gnd
  <1>2. CASE Throw
    BY <1>1, <1>2, ThrowOutcome DEF Throw
  <1>3. CASE tree' = [tree EXCEPT ![gnode].kind = WidenTo(@)] /\ UNCHANGED <<count, pc, req, ret>>
    <2>1. gnd.kind \in {"setlist", "c2", "c4", "c8"}
      BY <1>1 DEF GrowWiden, Fits, RouterKinds, CnodeKinds
    <2>2. WidenTo(gnd.kind) \in RouterKinds
      BY <2>1 DEF WidenTo, RouterKinds, CnodeKinds
    <2>3. \A k \in RouterKinds : Own(gnode, [tree[gnode] EXCEPT !.kind = k]) = Own(gnode, tree[gnode])
      BY <1>1, RouterEdits
    <2>4. tree'[gnode] = [tree[gnode] EXCEPT !.kind = WidenTo(gnd.kind)]
      BY <1>1, <1>3
    <2>5. But(tree, tree', gnode)
      BY <1>1, <1>3 DEF But
    <2>6. Own(gnode, tree'[gnode]) = Own(gnode, tree[gnode])
      BY <2>2, <2>3, <2>4
    <2>7. Facts(tree') = Facts(tree)
      BY <2>5, <2>6, ButFacts
    <2> QED
      BY <1>3, <2>7, AgainOutcome
  <1> QED
    BY <1>2, <1>3 DEF GrowWiden

\* The key that a router is widened for is not in the tree: its byte has no
\* edge there.
LEMMA GrowMiss ==
  ASSUME IInv, Shape, pc = "grow"
  PROVE  Absent(tree, req.key)
  <1> DEFINE k == req.key
             a == At(tree, gnode)
  <1>1. /\ gnode \in DOMAIN tree /\ gnd.kind \in RouterKinds \ {"u16"}
        /\ gnd = tree[gnode] /\ gnode \in Path /\ NodeOK(gnd) /\ gnd.pfx \in Path
        /\ a \in Path /\ StartsWith(k, a) /\ k # a /\ k \in Path /\ a = gnode \o gnd.pfx
    BY GrowFacts, StateFacts DEF gnd, At
  <1>2. GEdge \notin gnd.edges /\ TreeOK(tree) /\ Good(Kids(tree))
    BY StateFacts DEF Shape, Hanging
  <1>3. Hung(Kids(tree), gnode)
    BY <1>1, <1>2, KidsIs DEF Good
  <1>4. ASSUME NEW f \in KidsOf(gnode, tree[gnode]), StartsWith(k, f)
        PROVE  FALSE
    <2>1. KidsOf(gnode, tree[gnode]) = {a \o e : e \in gnd.edges}
      <3>1. KidsOf(gnode, tree[gnode]) = {(gnode \o gnd.pfx) \o e : e \in gnd.edges}
        BY <1>1, KidsOfIs
      <3> QED
        BY <1>1, <3>1
    <2>2. PICK e \in gnd.edges : f = a \o e
      BY <2>1
    <2>3. e \in Path /\ Len(e) = 1
      BY <1>1, NodeFields DEF StemLen
    <2> HIDE DEF k, a
    <2>4. SubSeq(k, Len(a) + 1, Len(a) + Len(e)) = e
      <3>1. StartsWith(k, a \o e) /\ k \in Path /\ a \in Path
        BY <1>1, <1>4, <2>2
      <3> QED
        BY <2>3, <3>1, NextBytes
    <2>5. SubSeq(k, Len(a) + 1, Len(a) + 1) = e
      BY <2>3, <2>4
    <2> QED
      BY <1>2, <2>5 DEF GEdge, a, k
  <1>5. \A v : <<k, v>> \notin Own(gnode, tree[gnode])
    <2>1. CASE gnd.term = NoVal
      BY <1>1, <2>1, OwnIs
    <2>2. CASE gnd.term # NoVal
      <3>1. Own(gnode, tree[gnode]) = {<<a, gnd.term>>}
        BY <1>1, <2>2, OwnIs
      <3> QED
        BY <1>1, <3>1
    <2> QED
      BY <2>1, <2>2
  <1>6. StartsWith(k, gnode)
    <2> HIDE DEF k, a
    <2> QED
      BY <1>1, GoesOn
  <1> HIDE DEF k
  <1>7. \A v : <<k, v>> \notin Facts(tree)
    BY <1>1, <1>2, <1>3, <1>4, <1>5, <1>6, NotHeld
  <1> QED
    BY <1>7 DEF Absent, k

LEMMA GrowLinkOutcome ==
  ASSUME IInv, Shape, Served, GrowLink
  PROVE  Outcome
  <1> DEFINE b   == At(tree, gnode)
             c   == b \o GEdge
             suf == Rest(req.key, b \o GEdge)
             t   == Link(tree, gnode, GEdge, suf)
             pfx == tree[slot].pfx
  <1>1. /\ gnode \in DOMAIN tree /\ gnd.kind \in RouterKinds \ {"u16"}
        /\ gnd = tree[gnode] /\ gnode \in Path /\ pc = "grow"
        /\ b \in Path /\ StartsWith(req.key, b) /\ req.key # b /\ req.key \in Path
        /\ gnode # slot => slot \in DOMAIN tree /\ IsPn(tree, slot)
    BY GrowFacts, StateFacts DEF GrowLink, gnd
  <1>2. GEdge \in Path /\ Len(GEdge) = 1 /\ suf \in Path
    BY GrowEdgeOK DEF GrowLink
  <1>3. Len(GEdge) = StemLen(tree[gnode].kind) /\ tree[gnode].kind \in RouterKinds
    BY <1>1, <1>2 DEF StemLen
  <1>4. GEdge \notin tree[gnode].edges
    BY <1>1 DEF GrowLink, Shape, Hanging
  <1>5. c \notin DOMAIN tree
    BY <1>1, <1>2, <1>3, <1>4, StateFacts, LinkShape DEF Shape
  <1>6. TreeOK(t)
    <2> HIDE DEF suf
    <2> QED
      BY <1>1, <1>2, <1>3, StateFacts, LinkOK
  <1>7. c \o suf = req.key
    <2>1. Len(b) \in Nat /\ Len(req.key) \in Nat /\ Len(b) + 1 <= Len(req.key)
      BY <1>1, Longer, PathFacts
    <2>2. StartsWith(req.key, c)
      <3>1. StartsWith(req.key, b \o SubSeq(req.key, Len(b) + 1, Len(b) + 1))
        BY <1>1, <2>1, PassEdge
      <3> QED
        BY <3>1 DEF GEdge
    <2>3. c \in Path
      BY <1>1, <1>2, ConcatFacts
    <2>4. c \o Rest(req.key, c) = req.key
      <3> HIDE DEF c
      <3> QED
        BY <1>1, <2>2, <2>3, RestJoin
    <2> QED
      BY <2>4
  <1>8. Facts(t) = Facts(tree) \cup {<<req.key, req.val>>}
    <2> HIDE DEF suf
    <2>1. \A e : b \o e \notin DOMAIN tree =>
              Facts(Link(tree, gnode, e, suf))
                = Facts(tree) \cup {<<(b \o e) \o suf, req.val>>}
      BY <1>1, <1>3, StateFacts, LinkFacts
    <2>2. Facts(t) = Facts(tree) \cup {<<c \o suf, req.val>>}
      BY <1>5, <2>1
    <2> QED
      BY <1>7, <2>2
  <1>9. ASSUME gnode # slot
        PROVE  Facts(MakePrefix(t, slot, pfx)) = Facts(t)
    <2>1. slot \in DOMAIN tree /\ tree[slot].kind = "pn" /\ slot \in Path /\ pfx \in Path
      <3>1. slot \in DOMAIN tree /\ tree[slot].kind = "pn"
        BY <1>1, <1>9 DEF IsPn
      <3>2. NodeOK(tree[slot]) /\ slot \in Path
        BY <3>1, StateFacts DEF TreeOK
      <3> QED
        BY <3>1, <3>2, NodeFields
    <2>2. t[slot] = tree[slot]
      <3>1. t = Upd([tree EXCEPT ![gnode].edges = @ \cup {GEdge}], c, Leaf(suf, req.val))
        BY DEF Link
      <3>2. slot # c /\ slot # gnode /\ slot \in DOMAIN tree
        BY <1>5, <1>9, <2>1
      <3> HIDE DEF t, c, suf
      <3> QED
        BY <3>1, <3>2 DEF Upd
    <2>3. Own(slot, t[slot]) = {}
      BY <2>1, <2>2, OwnIs
    <2> HIDE DEF t, pfx
    <2> QED
      BY <1>6, <2>1, <2>3, MakePrefixFacts
  <1>10. Facts(tree') = Facts(tree) \cup {<<req.key, req.val>>}
    <2>1. tree' = t \/ (gnode # slot /\ tree' = MakePrefix(t, slot, pfx))
      BY DEF GrowLink
    <2> HIDE DEF t, pfx
    <2> QED
      BY <1>8, <1>9, <2>1
  <1>11. Finish("true") /\ count' = count + 1
    BY DEF GrowLink
  <1> QED
    BY <1>1, <1>10, <1>11, GrowMiss, GainOutcome

LEMMA FuseParentOutcome ==
  ASSUME IInv, Shape, Served, FuseParent
  PROVE  Outcome
  <1>1. pc = "fuse" /\ pslot \in DOMAIN tree /\ Finish(ret) /\ count' = count + 1
    BY StateFacts DEF FuseParent, PutLive
  <1>2. Fusable(tree, pslot) => Facts(FuseTree(tree, pslot)) = Facts(tree)
    BY <1>1, StateFacts, FuseFacts DEF Shape
  <1>3. Facts(tree') = Facts(tree)
    BY <1>2 DEF FuseParent
  <1>4. phase = "applied" /\ Owed = count + 1 /\ phase' = "idle" /\ Owed' = count' + 0
    BY <1>1, PhaseIs, PhaseWillBe DEF Finish
  <1>5. Owed' = Owed
    BY <1>1, <1>4, StateFacts
  <1>6. Returns
    BY <1>1, <1>3, <1>4, <1>5 DEF Returns, Quiet, Finish
  <1> QED
    BY <1>6 DEF Outcome

-----------------------------------------------------------------------------
(* The outcome of every step of find, update, remove and clear.            *)

LEMMA GetDescendOutcome ==
  ASSUME GetDescend
  PROVE  Outcome
  <1>1. UNCHANGED <<tree, count, pc, req, ret>>
    BY DEF GetDescend
  <1>2. Facts(tree') = Facts(tree)
    BY <1>1
  <1> QED
    BY <1>1, <1>2, AgainOutcome

LEMMA GetMissOutcome ==
  ASSUME IInv, Shape, Served, GetMiss
  PROVE  Outcome
  <1>1. pc = "get" /\ ~Passes /\ ~Holds /\ Finish("false") /\ UNCHANGED <<tree, count>>
    BY DEF GetMiss, Getting
  <1>2. Absent(tree, req.key)
    BY <1>1, MissIsRight
  <1> QED
    BY <1>1, <1>2, MissOutcome

LEMMA GetHitOutcome ==
  ASSUME IInv, Shape, Served, GetHit
  PROVE  Outcome
  <1> DEFINE w == IF nd.kind = "leaf" THEN nd.val ELSE nd.term
  <1>1. pc = "get" /\ Holds /\ count' = count
    BY DEF GetHit, Getting
  <1>2. slot \in DOMAIN tree /\ nd = tree[slot] /\ Own(slot, tree[slot]) = {<<req.key, w>>}
    <2>1. slot \in DOMAIN tree /\ nd = tree[slot]
      BY <1>1, HoldsFact
    <2>2. CASE nd.kind = "leaf"
      <3>1. Own(slot, nd) = {<<req.key, nd.val>>}
        BY <1>1, <2>2, HoldsFact
      <3> QED
        BY <2>1, <2>2, <3>1
    <2>3. CASE nd.kind # "leaf"
      <3>1. Own(slot, nd) = {<<req.key, nd.term>>}
        BY <1>1, <2>3, HoldsFact
      <3> QED
        BY <2>1, <2>3, <3>1
    <2> QED
      BY <2>2, <2>3
  <1>3. CASE req.op = "find"
    <2>1. tree' = tree /\ Finish(w)
      BY <1>3 DEF GetHit
    <2> HIDE DEF w
    <2>2. <<req.key, w>> \in Facts(tree) /\ Facts(tree') = Facts(tree)
      BY <1>2, <2>1, FactsAre
    <2> QED
      BY <1>1, <1>3, <2>1, <2>2, KnownOutcome
  <1>4. CASE req.op = "update"
    <2>1. /\ tree' = IF nd.kind = "leaf" THEN [tree EXCEPT ![slot].val = req.val]
                                         ELSE [tree EXCEPT ![slot].term = req.val]
          /\ Finish("true")
      BY <1>4 DEF GetHit
    <2>2. TreeOK(tree) /\ slot \o R = req.key /\ req.val # NoVal
      BY <1>1, LookFacts, StateFacts, NoValAssumption
    <2>3. But(tree, tree', slot) /\ Own(slot, tree'[slot]) = {<<req.key, req.val>>}
      <3>1. CASE nd.kind = "leaf"
        <4>1. nd.suf = R /\ tree' = [tree EXCEPT ![slot].val = req.val]
          BY <1>1, <2>1, <3>1 DEF Holds, RouterKinds, CnodeKinds
        <4> QED
          BY <1>2, <2>2, <3>1, <4>1, NewVal
      <3>2. CASE nd.kind # "leaf"
        <4>1. /\ nd.kind \in RouterKinds /\ here = req.key
              /\ tree' = [tree EXCEPT ![slot].term = req.val]
          BY <1>1, <2>1, <3>2 DEF Holds, KeyEnds
        <4>2. But(tree, tree', slot) /\ Own(slot, tree'[slot]) = Term(here, req.val)
          BY <1>2, <2>2, <4>1, NewTerm
        <4> QED
          BY <2>2, <4>1, <4>2 DEF Term
      <3> QED
        BY <3>1, <3>2
    <2> HIDE DEF w
    <2> QED
      BY <1>1, <1>2, <1>4, <2>1, <2>3, SwapOutcome
  <1> QED
    BY <1>1, <1>3, <1>4 DEF Served

LEMMA RemDescendOutcome ==
  ASSUME RemDescend
  PROVE  Outcome
  <1>1. UNCHANGED <<tree, count, pc, req, ret>>
    BY DEF RemDescend
  <1>2. Facts(tree') = Facts(tree)
    BY <1>1
  <1> QED
    BY <1>1, <1>2, AgainOutcome

\* The inline leaf that the lookup comes to.
LEMMA InlineLeaf ==
  ASSUME IInv, Shape, pc = "rem", Passes, NextSlot \in InlineKids(tree, slot)
  PROVE  /\ NextSlot \in DOMAIN tree /\ tree[NextSlot].kind = "leaf" /\ NextSlot \in Path
         /\ tree[NextSlot].suf \in Path /\ Hung(Kids(tree), NextSlot)
         /\ StartsWith(req.key, NextSlot)
         /\ Own(NextSlot, tree[NextSlot])
              = {<<NextSlot \o tree[NextSlot].suf, tree[NextSlot].val>>}
         /\ Rest(req.key, NextSlot) \in Path /\ NextSlot \o Rest(req.key, NextSlot) = req.key
  <1>1. NextSlot \in DOMAIN tree /\ tree[NextSlot].kind = "leaf"
    BY DEF InlineKids, IsLeaf
  <1>2. NextSlot \in Path /\ StartsWith(req.key, NextSlot) /\ req.key \in Path
    BY StateFacts, LookFacts, PassFacts
  <1>3. Hung(Kids(tree), NextSlot)
    BY <1>1, KidsIs DEF Shape, Good
  <1>4. tree[NextSlot].suf \in Path
    BY <1>1, StateFacts, NodeFields DEF TreeOK
  <1>5. Own(NextSlot, tree[NextSlot]) = {<<NextSlot \o tree[NextSlot].suf, tree[NextSlot].val>>}
    BY <1>1, OwnIs
  <1>6. NextSlot \o Rest(req.key, NextSlot) = req.key
    BY <1>2, RestJoin
  <1>7. Rest(req.key, NextSlot) \in Path
    BY <1>2, RestFacts, StartsLen
  <1> QED
    BY <1>1, <1>2, <1>3, <1>4, <1>5, <1>6, <1>7

LEMMA RemMissOutcome ==
  ASSUME IInv, Shape, Served, RemMiss
  PROVE  Outcome
  <1>1. pc = "rem" /\ Finish("false") /\ UNCHANGED <<tree, count>>
    BY DEF RemMiss, Removing
  <1>2. CASE ~Passes
    <2>1. ~Holds
      BY <1>2 DEF RemMiss
    <2>2. Absent(tree, req.key)
      BY <1>1, <1>2, <2>1, MissIsRight
    <2> QED
      BY <1>1, <2>2, MissOutcome
  <1>3. CASE Passes
    <2> DEFINE c == NextSlot
               k == req.key
    <2>1. c \in InlineKids(tree, slot) /\ tree[c].suf # Rest(k, c)
      BY <1>3 DEF RemMiss
    <2>2. /\ c \in DOMAIN tree /\ tree[c].kind = "leaf" /\ c \in Path
          /\ tree[c].suf \in Path /\ Hung(Kids(tree), c) /\ StartsWith(k, c)
          /\ Own(c, tree[c]) = {<<c \o tree[c].suf, tree[c].val>>}
          /\ Rest(k, c) \in Path /\ c \o Rest(k, c) = k
      BY <1>1, <1>3, <2>1, InlineLeaf
    <2>3. TreeOK(tree) /\ Good(Kids(tree)) /\ k \in Path
      BY <1>1, LookFacts
    <2> HIDE DEF c, k
    <2>4. c \o tree[c].suf # k
      BY <2>1, <2>2, ConcatCancel
    <2>5. KidsOf(c, tree[c]) = {} /\ \A v : <<k, v>> \notin Own(c, tree[c])
      BY <2>2, <2>4, KidsOfIs
    <2>6. \A v : <<k, v>> \notin Facts(tree)
      BY <2>2, <2>3, <2>5, NotHeld
    <2>7. Absent(tree, req.key)
      BY <2>6 DEF Absent, k
    <2> QED
      BY <1>1, <2>7, MissOutcome
  <1> QED
    BY <1>2, <1>3

\* The key's node gives it up, and the unwind begins.
LEMMA LoseOutcome ==
  ASSUME IInv, Shape, Served, pc = "rem", NEW p \in DOMAIN tree, NEW w,
         Own(p, tree[p]) = {<<req.key, w>>}, Facts(tree') = Facts(Drop(tree, {p})),
         count' = count - 1, ret' = "true", req' = req,
         pc' \in {"idle", "unlink", "shrink"}
  PROVE  Outcome
  <1>1. phase = "called" /\ Owed = count + 0 /\ req.op = "remove" /\ count \in Int
    BY PhaseIs, StateFacts DEF Served
  <1>2. phase' \in {"idle", "applied"} /\ Owed' = count' + 0
    BY PhaseWillBe
  <1>3. Uniq(tree)
    BY ShapeUnique DEF UniqueKeys, Uniq
  <1>4. Removes(tree, tree', req.key)
    BY <1>3, LossRemoves
  <1>5. ~Absent(tree, req.key)
    <2>1. <<req.key, w>> \in Facts(tree)
      BY FactsAre
    <2> QED
      BY <2>1 DEF Absent
  <1>6. Loses
    BY <1>1, <1>2, <1>4, <1>5 DEF Loses, Decides
  <1> QED
    BY <1>6 DEF Outcome

\* A step of the unwind leaves the facts as they are.
LEMMA UnwindOutcome ==
  ASSUME IInv, Served, pc \in {"unlink", "shrink"}, Facts(tree') = Facts(tree),
         count' = count, ret' = "true", req' = req, pc' \in {"idle", "unlink", "shrink"}
  PROVE  Outcome
  <1>1. phase = "applied" /\ Owed = count + 0 /\ ret = "true"
    BY PhaseIs DEF Served
  <1>2. phase' \in {"idle", "applied"} /\ Owed' = count' + 0
    BY PhaseWillBe
  <1>3. Quiet
    BY <1>1, <1>2 DEF Quiet
  <1> QED
    BY <1>1, <1>2, <1>3 DEF Outcome, Stays, Returns

LEMMA FreedGoes ==
  ASSUME NEW i, Freed(i)
  PROVE  ret' = "true" /\ req' = req /\ pc' \in {"idle", "unlink", "shrink"}
  BY DEF Freed, Finish

LEMMA RemLeafOutcome ==
  ASSUME IInv, Shape, Served, RemLeaf
  PROVE  Outcome
  <1>1. pc = "rem" /\ Holds /\ nd.kind = "leaf" /\ tree' = Drop(tree, {slot})
        /\ count' = count - 1 /\ Freed(n - 1)
    BY DEF RemLeaf, Removing
  <1>2. slot \in DOMAIN tree /\ Own(slot, tree[slot]) = {<<req.key, nd.val>>}
    BY <1>1, HoldsFact
  <1>3. ret' = "true" /\ req' = req /\ pc' \in {"idle", "unlink", "shrink"}
    BY <1>1, FreedGoes
  <1>4. Facts(tree') = Facts(Drop(tree, {slot}))
    BY <1>1
  <1> QED
    BY <1>1, <1>2, <1>3, <1>4, LoseOutcome

LEMMA RemTermOutcome ==
  ASSUME IInv, Shape, Served, RemTerm
  PROVE  Outcome
  <1>1. pc = "rem" /\ Holds /\ nd.kind \in RouterKinds /\ nd.kind # "leaf"
        /\ tree' = [tree EXCEPT ![slot].term = NoVal] /\ count' = count - 1 /\ ToShrink
    BY DEF RemTerm, Removing, RouterKinds, CnodeKinds
  <1>2. slot \in DOMAIN tree /\ Own(slot, tree[slot]) = {<<req.key, nd.term>>} /\ TreeOK(tree)
    BY <1>1, HoldsFact, StateFacts
  <1>3. But(tree, tree', slot) /\ Own(slot, tree'[slot]) = {}
    <2>1. But(tree, tree', slot) /\ Own(slot, tree'[slot]) = Term(here, NoVal)
      BY <1>1, <1>2, NewTerm
    <2> QED
      BY <2>1 DEF Term
  <1>4. Facts(tree') = Facts(Drop(tree, {slot})) \cup Own(slot, tree'[slot])
    BY <1>3, ButFacts
  <1>5. Facts(tree') = Facts(Drop(tree, {slot}))
    BY <1>3, <1>4
  <1>6. ret' = "true" /\ req' = req /\ pc' \in {"idle", "unlink", "shrink"}
    BY <1>1 DEF ToShrink
  <1> QED
    BY <1>1, <1>2, <1>5, <1>6, LoseOutcome

LEMMA RemInlineOutcome ==
  ASSUME IInv, Shape, Served, RemInline
  PROVE  Outcome
  <1> DEFINE c == NextSlot
             t == Drop(tree, {c})
             u == [t EXCEPT ![slot].edges = @ \ {Edge}]
  <1>1. /\ pc = "rem" /\ Removing /\ Passes /\ ToShrink /\ c \in InlineKids(tree, slot)
        /\ tree' = u /\ tree[c].suf = Rest(req.key, c) /\ count' = count - 1
    BY DEF RemInline, Removing
  <1>2. /\ c \in DOMAIN tree
        /\ Own(c, tree[c]) = {<<c \o tree[c].suf, tree[c].val>>}
        /\ c \o Rest(req.key, c) = req.key
    BY <1>1, InlineLeaf
  <1>3. Own(c, tree[c]) = {<<req.key, tree[c].val>>}
    BY <1>1, <1>2
  <1>4. slot \in DOMAIN tree /\ tree[slot].kind = "setlist" /\ NodeOK(tree[slot]) /\ slot # c
    <2>1. slot \in DOMAIN tree /\ tree[slot].kind = "setlist"
      BY <1>1 DEF InlineKids, Passes
    <2>2. Len(slot) \in Nat /\ Len(c) \in Nat /\ Len(slot) < Len(c)
      BY <1>1, RemFacts, PassFacts, PathFacts
    <2>3. slot # c
      BY <2>2
    <2> QED
      BY <2>1, <2>3, StateFacts DEF TreeOK
  <1> HIDE DEF c
  <1>5. slot \in DOMAIN t /\ t[slot] = tree[slot]
    BY <1>4 DEF Drop
  <1> HIDE DEF t
  <1>6. \A E : Own(slot, [t[slot] EXCEPT !.edges = E]) = Own(slot, t[slot])
    <2>1. \A E : Own(slot, [tree[slot] EXCEPT !.edges = E]) = Own(slot, tree[slot])
      BY <1>4, RouterEdits DEF RouterKinds
    <2> QED
      BY <1>5, <2>1
  <1>7. u[slot] = [t[slot] EXCEPT !.edges = t[slot].edges \ {Edge}] /\ But(t, u, slot)
    BY <1>5 DEF But
  <1> HIDE DEF u
  <1>8. Own(slot, u[slot]) = Own(slot, t[slot])
    BY <1>6, <1>7
  <1>9. Facts(u) = Facts(t)
    BY <1>7, <1>8, ButFacts
  <1>10. Facts(tree') = Facts(Drop(tree, {c}))
    BY <1>1, <1>9 DEF t
  <1>11. ret' = "true" /\ req' = req /\ pc' \in {"idle", "unlink", "shrink"}
    BY <1>1 DEF ToShrink
  <1> QED
    BY <1>1, <1>2, <1>3, <1>10, <1>11, LoseOutcome

LEMMA UnlinkPnOutcome ==
  ASSUME IInv, Shape, Served, UnlinkPn
  PROVE  Outcome
  <1>1. pc = "unlink" /\ Freed(j) /\ lnd.kind = "pn" /\ tree' = Drop(tree, {lp}) /\ count' = count
    BY DEF UnlinkPn
  <1>2. \A p \in {lp} \cap DOMAIN tree : Own(p, tree[p]) = {}
    BY <1>1, OwnIs DEF lnd
  <1>3. Facts(Drop(tree, {lp})) = Facts(tree)
    BY <1>2, FactsDropNone
  <1>4. ret' = "true" /\ req' = req /\ pc' \in {"idle", "unlink", "shrink"}
    BY <1>1, FreedGoes
  <1> QED
    BY <1>1, <1>3, <1>4, UnwindOutcome

LEMMA UnlinkEdgeOutcome ==
  ASSUME IInv, Shape, Served, UnlinkEdge
  PROVE  Outcome
  <1> DEFINE e == Rest(lvl[(j + 1) % RmLvn], At(tree, lp))
  <1>1. /\ pc = "unlink" /\ pc' = "shrink" /\ tree' = [tree EXCEPT ![lp].edges = @ \ {e}]
        /\ UNCHANGED <<count, req, ret>>
    BY DEF UnlinkEdge
  <1>2. lp \in DOMAIN tree /\ NodeOK(tree[lp]) /\ tree[lp].kind \in RouterKinds
    BY <1>1, LevelFacts DEF UnlinkEdge, lnd
  <1> HIDE DEF e
  <1>3. \A E : Own(lp, [tree[lp] EXCEPT !.edges = E]) = Own(lp, tree[lp])
    BY <1>2, RouterEdits
  <1>4. tree'[lp] = [tree[lp] EXCEPT !.edges = tree[lp].edges \ {e}] /\ But(tree, tree', lp)
    BY <1>1, <1>2 DEF But
  <1>5. Own(lp, tree'[lp]) = Own(lp, tree[lp])
    BY <1>3, <1>4
  <1>6. Facts(tree') = Facts(tree)
    BY <1>4, <1>5, ButFacts
  <1>7. ret' = "true"
    BY <1>1 DEF Served
  <1> QED
    BY <1>1, <1>6, <1>7, UnwindOutcome

LEMMA ShrinkEmptyOutcome ==
  ASSUME IInv, Shape, Served, ShrinkEmpty
  PROVE  Outcome
  <1>1. /\ pc = "shrink" /\ Freed(j) /\ lnd.term = NoVal /\ tree' = Drop(tree, {lp})
        /\ count' = count
    BY DEF ShrinkEmpty, Shrinking
  <1>2. \A p \in {lp} \cap DOMAIN tree : Own(p, tree[p]) = {}
    BY <1>1, LevelFacts, OwnIs DEF lnd
  <1>3. Facts(Drop(tree, {lp})) = Facts(tree)
    BY <1>2, FactsDropNone
  <1>4. ret' = "true" /\ req' = req /\ pc' \in {"idle", "unlink", "shrink"}
    BY <1>1, FreedGoes
  <1> QED
    BY <1>1, <1>3, <1>4, UnwindOutcome

\* The unwind is done.
LEMMA SurvivesOutcome ==
  ASSUME IInv, Served, pc = "shrink", Facts(tree') = Facts(tree), Survives
  PROVE  Outcome
  <1>1. ret = "true"
    BY DEF Served
  <1>2. count' = count /\ ret' = "true" /\ req' = req /\ pc' \in {"idle", "unlink", "shrink"}
    BY <1>1 DEF Survives, Finish
  <1> QED
    BY <1>2, UnwindOutcome

LEMMA ShrinkToTermOutcome ==
  ASSUME IInv, Shape, Served, ShrinkToTerm
  PROVE  Outcome
  <1> DEFINE value == Leaf(<<>>, lnd.term)
             b     == At(tree, lp)
  <1>1. pc = "shrink" /\ Shrinking /\ Survives /\ lnd.term # NoVal
    BY DEF ShrinkToTerm, Shrinking
  <1>2. /\ lp \in DOMAIN tree /\ lp \in Path /\ lnd = tree[lp] /\ lnd.pfx \in Path
        /\ lnd.kind \in RouterKinds /\ b = lp \o lnd.pfx /\ b \in Path
    BY <1>1, ShrinkFacts DEF lnd, At
  <1>3. Own(lp, tree[lp]) = {<<b, lnd.term>>}
    BY <1>1, <1>2, OwnIs
  <1>4. \A p \in Path : Own(p, value) = {<<p, lnd.term>>}
    <2> TAKE p \in Path
    <2>1. Own(p, Leaf(<<>>, lnd.term)) = {<<p \o <<>>, lnd.term>>}
      BY LeafFacts
    <2>2. p \o <<>> = p
      BY ConcatEmpty
    <2> QED
      BY <2>1, <2>2
  <1>5. CASE lnd.pfx = <<>> /\ tree' = Upd(tree, lp, value)
    <2>1. Own(lp, value) = Own(lp, tree[lp])
      <3>1. b = lp
        BY <1>2, <1>5, ConcatEmpty
      <3> QED
        BY <1>2, <1>3, <1>4, <3>1
    <2> HIDE DEF value, b
    <2>2. But(tree, tree', lp) /\ tree'[lp] = value
      BY <1>2, <1>5 DEF But, Upd
    <2>3. Facts(tree') = Facts(tree)
      BY <2>1, <2>2, ButFacts
    <2> QED
      BY <1>1, <2>3, SurvivesOutcome
  <1>6. CASE lnd.pfx # <<>> /\ tree' = Lift(tree, lp, b, lnd.pfx, value)
    <2>1. b \notin DOMAIN tree
      BY <1>2, <1>6, StateFacts, HereIsFree DEF Shape
    <2>2. Own(b, value) = Own(lp, tree[lp])
      BY <1>2, <1>3, <1>4
    <2> HIDE DEF value, b
    <2>3. Facts(tree') = Facts(tree)
      BY <1>2, <1>6, <2>1, <2>2, LiftFacts
    <2> QED
      BY <1>1, <2>3, SurvivesOutcome
  <1>7. CASE tree' = tree
    <2>1. Facts(tree') = Facts(tree)
      BY <1>7
    <2> QED
      BY <1>1, <2>1, SurvivesOutcome
  <1> QED
    BY <1>5, <1>6, <1>7 DEF ShrinkToTerm, Lift

LEMMA ShrinkLoneOutcome ==
  ASSUME IInv, Shape, Served, ShrinkLone
  PROVE  Outcome
  <1>1. pc = "shrink" /\ Shrinking /\ Survives /\ tree' \in {tree, CollapseTree(tree, lp)}
    BY DEF ShrinkLone, Shrinking
  <1>2. /\ lp \in DOMAIN tree /\ tree[lp].kind \in RouterKinds
        /\ Cardinality(tree[lp].edges) = 1 /\ tree[lp].term = NoVal
    BY <1>1, ShrinkFacts DEF ShrinkLone, lnd, Deg
  <1>3. Facts(CollapseTree(tree, lp)) = Facts(tree)
    BY <1>2, StateFacts, CollapseFacts DEF Shape
  <1>4. Facts(tree') = Facts(tree)
    BY <1>1, <1>3
  <1> QED
    BY <1>1, <1>4, SurvivesOutcome

LEMMA ShrinkDewidenOutcome ==
  ASSUME IInv, Shape, Served, ShrinkDewiden
  PROVE  Outcome
  <1>1. /\ pc = "shrink" /\ lp \in DOMAIN tree /\ tree[lp].kind \in RouterKinds
        /\ NodeOK(tree[lp])
    BY LevelFacts DEF ShrinkDewiden, Shrinking, lnd
  <1>2. CASE tree' = tree /\ Survives
    <2>1. Facts(tree') = Facts(tree)
      BY <1>2
    <2> QED
      BY <1>1, <1>2, <2>1, SurvivesOutcome
  <1>3. CASE tree' = [tree EXCEPT ![lp].kind = "setlist"] /\ UNCHANGED <<count, pc, req, ret>>
    <2>1. \A k \in RouterKinds : Own(lp, [tree[lp] EXCEPT !.kind = k]) = Own(lp, tree[lp])
      BY <1>1, RouterEdits
    <2>2. /\ tree'[lp] = [tree[lp] EXCEPT !.kind = "setlist"] /\ But(tree, tree', lp)
          /\ "setlist" \in RouterKinds
      BY <1>1, <1>3 DEF But, RouterKinds
    <2>3. Own(lp, tree'[lp]) = Own(lp, tree[lp])
      BY <2>1, <2>2
    <2>4. Facts(tree') = Facts(tree)
      BY <2>2, <2>3, ButFacts
    <2> QED
      BY <1>3, <2>4, AgainOutcome
  <1> QED
    BY <1>2, <1>3 DEF ShrinkDewiden

LEMMA ShrinkStandsOutcome ==
  ASSUME IInv, Served, ShrinkStands
  PROVE  Outcome
  <1>1. pc = "shrink" /\ Survives /\ tree' = tree
    BY DEF ShrinkStands, Shrinking
  <1>2. Facts(tree') = Facts(tree)
    BY <1>1
  <1> QED
    BY <1>1, <1>2, SurvivesOutcome

LEMMA ClearOutcome ==
  ASSUME Served, Clear
  PROVE  Outcome
  <1>1. pc = "clear" /\ tree' = [q \in {} |-> Pn(<<>>)] /\ count' = 0 /\ Finish("true")
    BY DEF Clear
  <1>2. Facts(tree') = {}
    BY <1>1, FactsAre
  <1>3. phase = "called" /\ phase' = "idle" /\ Owed' = 0 + 0 /\ req.op = "clear"
    BY <1>1, PhaseIs, PhaseWillBe DEF Finish, Served
  <1>4. Clears
    BY <1>1, <1>2, <1>3 DEF Clears, Decides, Finish
  <1> QED
    BY <1>4 DEF Outcome

LEMMA CallOutcome ==
  ASSUME NEW op \in Ops, NEW k \in Keys, NEW v \in Values, Call(op, k, v)
  PROVE  Outcome
  <1>1. /\ pc = "idle" /\ pc' = Entry(op) /\ req' = [op |-> op, key |-> k, val |-> v]
        /\ ret' = "pending" /\ UNCHANGED <<tree, count>>
    BY DEF Call
  <1>2. pc' \in {"put", "get", "rem", "clear"}
    BY <1>1 DEF Entry, Ops
  <1>3. phase = "idle" /\ phase' = "called" /\ Owed' = count' + 0 /\ Owed = count + 0
    BY <1>1, <1>2, PhaseIs, PhaseWillBe
  <1>4. Calls
    BY <1>1, <1>3 DEF Calls
  <1> QED
    BY <1>4 DEF Outcome

-----------------------------------------------------------------------------
(* Every step.                                                             *)

LEMMA PutStepOutcome ==
  ASSUME IInv, Shape, Served, Put
  PROVE  Outcome
  BY PutNullOutcome, PutSameLeafOutcome, PutSplitLeafOutcome, PutLazyFuseOutcome,
     PutSplitPrefixOutcome, PutTermOutcome, PutDescendOutcome, PutExternalizeAllOutcome,
     PutAddOutcome, PutAddStemOutcome, PutRestrideOutcome, GrowLiftOutcome, GrowWidenOutcome,
     GrowLinkOutcome, FuseParentOutcome
  DEF Put

LEMMA RemStepOutcome ==
  ASSUME IInv, Shape, Served, Rem
  PROVE  Outcome
  BY RemDescendOutcome, RemMissOutcome, RemLeafOutcome, RemTermOutcome, RemInlineOutcome,
     UnlinkPnOutcome, UnlinkEdgeOutcome, ShrinkEmptyOutcome, ShrinkToTermOutcome,
     ShrinkLoneOutcome, ShrinkDewidenOutcome, ShrinkStandsOutcome
  DEF Rem

LEMMA StepOutcome ==
  ASSUME IInv, Shape, Served, Next
  PROVE  Outcome
  BY PutStepOutcome, GetDescendOutcome, GetMissOutcome, GetHitOutcome, RemStepOutcome,
     ClearOutcome, CallOutcome
  DEF Next, Step, Get

LEMMA ServedHolds == Spec => []Served
  <1>1. Init => Served
    BY ServedInit
  <1>2. IInv /\ Shape /\ Served /\ [Next]_vars => Served'
    BY ServedStays
  <1> QED
    BY <1>1, <1>2, ShapeHolds, PTL DEF Spec

LEMMA EmptyContent ==
  ASSUME Init
  PROVE  Content(tree) = [x \in {} |-> 0]
  <1>1. Facts(tree) = {} /\ Uniq(tree)
    BY FactsAre DEF Init, Uniq, Terminals
  <1>2. \A x : x \notin DOMAIN Content(tree)
    BY <1>1, ContentIs
  <1>3. Content(tree) = [x \in DOMAIN Content(tree) |-> Content(tree)[x]]
    BY ContentFcn
  <1> QED
    BY <1>2, <1>3

LEMMA MapInit ==
  ASSUME Init
  PROVE  Abs!AbsInit /\ Sized
  <1>1. Content(tree) = [x \in {} |-> 0]
    BY EmptyContent
  <1>2. phase = "idle" /\ Owed = 0 + 0
    BY PhaseIs DEF Init
  <1>3. req \in Abs!Requests /\ ret = "pending"
    BY DEF Init, Abs!Requests, Abs!Ops
  <1>4. Sized
    BY <1>1, <1>2, FS_EmptySet DEF Sized
  <1> QED
    BY <1>1, <1>2, <1>3, <1>4 DEF Abs!AbsInit

LEMMA MapStutter ==
  ASSUME UNCHANGED vars
  PROVE  UNCHANGED Abs!absVars /\ (Sized => Sized')
  <1>1. UNCHANGED <<tree, count, pc, req, ret>>
    BY DEF vars
  <1>2. Content(tree)' = Content(tree) /\ phase' = phase /\ Owed' = Owed
    BY <1>1 DEF phase, Owed, Content, Terminals, KeyAt, ValAt, At, IsLeaf, IsRouter
  <1> QED
    BY <1>1, <1>2 DEF Abs!absVars, Sized

LEMMA MapStep ==
  ASSUME IInv, Shape, Served, UniqueKeys, UniqueKeys', [Next]_vars
  PROVE  [Abs!AbsNext]_(Abs!absVars) /\ (Sized => Sized')
  <1>1. CASE Next
    <2>1. Outcome
      BY <1>1, StepOutcome
    <2> QED
      BY <2>1, OutcomeMaps, OutcomeCounts
  <1>2. CASE UNCHANGED vars
    BY <1>2, MapStutter
  <1> QED
    BY <1>1, <1>2

\* The radix tree implements the dictionary of MapSpec: whatever the keys, the
\* capacities and the allocations that fail, a call takes effect in one step,
\* answers what the dictionary answers, and is otherwise invisible; a call that
\* throws leaves the stored keys and values as they were.
THEOREM MapImplemented == Spec => ImplementsMap
  <1>1. Init => Abs!AbsInit
    BY MapInit
  <1>2. IInv /\ Shape /\ Served /\ UniqueKeys /\ UniqueKeys' /\ [Next]_vars
          => [Abs!AbsNext]_(Abs!absVars)
    BY MapStep
  <1> QED
    BY <1>1, <1>2, ShapeHolds, ServedHolds, KeysStayUnique, PTL
    DEF Spec, ImplementsMap, Abs!AbsSpec

\* size() is the number of stored keys whenever no call runs, also after calls
\* that threw: no path through insert_, split_leaf, grow_router_ or
\* remove_bytes_ forgets to count or counts twice.
THEOREM CountStaysRight == Spec => []CountMatches
  <1>1. Init => Sized
    BY MapInit
  <1>2. IInv /\ Shape /\ Served /\ UniqueKeys /\ UniqueKeys' /\ Sized /\ [Next]_vars => Sized'
    BY MapStep
  <1>3. IInv /\ UniqueKeys /\ Sized => CountMatches
    BY SizedCounts
  <1> QED
    BY <1>1, <1>2, <1>3, ShapeHolds, ServedHolds, KeysStayUnique, PTL DEF Spec

=============================================================================
