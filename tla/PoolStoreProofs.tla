--------------------------- MODULE PoolStoreProofs ---------------------------
(***************************************************************************)
(* Proofs about PoolStore, for every set of keys and every capacity: what  *)
(* a checkpoint keeps, under the two rules that a program is given.        *)
(***************************************************************************)
EXTENDS PoolStore, FiniteSetTheorems, WellFoundedInduction, TLAPS

\* The values of a carving.
Store == [f : [Regions -> 0 .. Cap], h : [Regions -> Link], m : [Regions -> [Unit -> Cells]]]

-----------------------------------------------------------------------------
(* The free list of a region is a stack: q[n] is its head, q[1] its last   *)
(* block.                                                                  *)

Split(s, r, H, n, q) ==
  /\ \A i, j \in 1 .. n : q[i] = q[j] => i = j
  /\ s.h[r] = IF n = 0 THEN NIL ELSE q[n]
  /\ \A i \in 1 .. n : s.m[r][q[i]] = FreeCell(IF i = 1 THEN NIL ELSE q[i - 1])
  /\ \A i \in 1 .. n : q[i] \notin H
  /\ H \cup {q[i] : i \in 1 .. n} = 0 .. s.f[r] - 1

\* In region r of s the blocks in H and those on the free list share out all
\* that lies below the frontier.
Fits(s, r, H) == \E n \in Nat : \E q \in [1 .. n -> Unit] : Split(s, r, H, n, q)

LEMMA UnitFacts ==
  /\ Cap \in Nat /\ Cap >= 2 /\ Cardinality(Keys) \in Nat /\ Cap > Cardinality(Keys) + 1
  /\ Unit \subseteq Nat /\ NIL \notin Unit /\ 0 \in Unit /\ 1 \in Unit
  /\ \A H \in SUBSET Unit : IsFiniteSet(H) /\ Cardinality(H) \in Nat
  <1>1. Cap \in Nat /\ Cap > Cardinality(Keys) + 1 /\ Cardinality(Keys) \in Nat
    BY CapAssumption, KeysAssumption, FS_CardinalityType
  <1>2. IsFiniteSet(Unit)
    BY <1>1, FS_Interval DEF Unit
  <1>3. ASSUME NEW H \in SUBSET Unit
        PROVE  IsFiniteSet(H) /\ Cardinality(H) \in Nat
    <2>1. IsFiniteSet(H)
      BY <1>2, FS_Subset
    <2> QED
      BY <2>1, FS_CardinalityType
  <1>4. Unit \subseteq Nat /\ NIL \notin Unit /\ 0 \in Unit /\ 1 \in Unit
    BY <1>1, NILAssumption DEF Unit
  <1> QED
    BY <1>1, <1>3, <1>4

LEMMA StoreFields ==
  ASSUME NEW s \in Store
  PROVE  /\ s.f \in [Regions -> 0 .. Cap] /\ s.h \in [Regions -> Link]
         /\ s.m \in [Regions -> [Unit -> Cells]]
  BY DEF Store

LEMMA WriteBlocks ==
  ASSUME NEW s \in Store, NEW x \in [Regions -> [Unit -> Cells]]
  PROVE  LET t == [s EXCEPT !.m = x]
         IN  t \in Store /\ t.f = s.f /\ t.h = s.h /\ t.m = x
  BY DEF Store

LEMMA WriteHeads ==
  ASSUME NEW s \in Store, NEW y \in [Regions -> Link]
  PROVE  LET t == [s EXCEPT !.h = y]
         IN  t \in Store /\ t.f = s.f /\ t.h = y /\ t.m = s.m
  BY DEF Store

\* What Fits says of a region depends on that region only.
LEMMA FitsElsewhere ==
  ASSUME NEW s, NEW t, NEW r, NEW H, Fits(s, r, H),
         t.f[r] = s.f[r], t.h[r] = s.h[r], t.m[r] = s.m[r]
  PROVE  Fits(t, r, H)
  <1>1. ASSUME NEW n, NEW q, Split(s, r, H, n, q)
        PROVE  Split(t, r, H, n, q)
    BY <1>1 DEF Split
  <1> QED
    BY <1>1 DEF Fits

\* From s to t block u, one of H, got this cell.
Written(s, t, r, H, u, cell) ==
  /\ t \in Store /\ Fits(t, r, H)
  /\ t.m[r][u] = cell /\ \A w \in Unit : w # u => t.m[r][w] = s.m[r][w]
  /\ \A d \in Regions : d # r => t.m[d] = s.m[d]
  /\ t.f = s.f /\ t.h = s.h

\* ... and not on what the blocks in H say.
LEMMA FitsWritten ==
  ASSUME NEW s \in Store, NEW r \in Regions, NEW H \in SUBSET Unit, Fits(s, r, H),
         NEW u \in H, NEW cell \in Cells
  PROVE  Written(s, [s EXCEPT !.m[r][u] = cell], r, H, u, cell)
  <1> DEFINE t == [s EXCEPT !.m[r][u] = cell]
             x == [s.m EXCEPT ![r] = [s.m[r] EXCEPT ![u] = cell]]
  <1>1. x \in [Regions -> [Unit -> Cells]]
    BY StoreFields
  <1>2. t \in Store /\ t.f = s.f /\ t.h = s.h /\ t.m = x
    BY <1>1, WriteBlocks
  <1>3. /\ x[r][u] = cell /\ \A w \in Unit : w # u => x[r][w] = s.m[r][w]
        /\ \A d \in Regions : d # r => x[d] = s.m[d]
    BY StoreFields
  <1> HIDE DEF t, x
  <1> PICK n \in Nat : \E q \in [1 .. n -> Unit] : Split(s, r, H, n, q)
    BY DEF Fits
  <1> PICK q \in [1 .. n -> Unit] : Split(s, r, H, n, q)
    OBVIOUS
  <1>4. \A i \in 1 .. n : q[i] \in Unit /\ q[i] # u
    BY DEF Split
  <1>5. Split(t, r, H, n, q)
    BY <1>2, <1>3, <1>4 DEF Split
  <1>6. Fits(t, r, H)
    BY <1>5 DEF Fits
  <1> QED
    BY <1>2, <1>3, <1>6 DEF t, Written

\* From s to t block u of region r was taken into use and got this cell.
Taken(s, t, r, H, u, cell) ==
  /\ u \in Unit \ H /\ t \in Store /\ Fits(t, r, H \cup {u})
  /\ t.m[r][u] = cell /\ \A w \in Unit : w # u => t.m[r][w] = s.m[r][w]
  /\ \A d \in Regions : d # r => t.m[d] = s.m[d] /\ t.h[d] = s.h[d] /\ t.f[d] = s.f[d]

\* ... or was given back.
Given(s, t, r, H, u) ==
  /\ t \in Store /\ Fits(t, r, H \ {u})
  /\ \A w \in Unit : w # u => t.m[r][w] = s.m[r][w]
  /\ \A d \in Regions : d # r => t.m[d] = s.m[d] /\ t.h[d] = s.h[d] /\ t.f[d] = s.f[d]

\* A block from the free list, or the next one of the frontier, is in no use;
\* the region has it counted once it is in H.
LEMMA AllocFacts ==
  ASSUME NEW s \in Store, NEW r \in Regions, NEW H \in SUBSET Unit, Fits(s, r, H),
         NEW cell \in Cells, Cardinality(H) < Cap
  PROVE  Taken(s, Alloc(s, r, cell), r, H, NextUnit(s, r), cell)
  <1> DEFINE u == NextUnit(s, r)
             t == Alloc(s, r, cell)
  <1> PICK n \in Nat : \E q \in [1 .. n -> Unit] : Split(s, r, H, n, q)
    BY DEF Fits
  <1> PICK q \in [1 .. n -> Unit] : Split(s, r, H, n, q)
    OBVIOUS
  <1>1. /\ t.f = IF s.h[r] # NIL THEN s.f ELSE [s.f EXCEPT ![r] = @ + 1]
        /\ t.h = IF s.h[r] # NIL THEN [s.h EXCEPT ![r] = s.m[r][u].next] ELSE s.h
        /\ t.m = [s.m EXCEPT ![r][u] = cell]
        /\ t = [f |-> t.f, h |-> t.h, m |-> t.m]
    BY DEF Alloc
  <1>2. s.f[r] \in Nat /\ s.f[r] <= Cap /\ Cap \in Nat
    BY StoreFields, UnitFacts
  <1>3. CASE n = 0
    <2>1. s.h[r] = NIL /\ u = s.f[r] /\ H = 0 .. s.f[r] - 1
      <3>1. s.h[r] = NIL
        BY <1>3 DEF Split
      <3>2. {q[i] : i \in 1 .. n} = {}
        BY <1>3
      <3> QED
        BY <3>1, <3>2 DEF NextUnit, Split
    <2>2. Cardinality(H) = s.f[r]
      <3>1. 0 \in Int /\ s.f[r] - 1 \in Int
        BY <1>2
      <3>2. Cardinality(0 .. s.f[r] - 1) = IF 0 > s.f[r] - 1 THEN 0 ELSE (s.f[r] - 1) - 0 + 1
        BY <3>1, FS_Interval
      <3> QED
        BY <1>2, <2>1, <3>2
    <2>3. u \in Unit \ H
      BY <1>2, <2>1, <2>2 DEF Unit
    <2>4. /\ t.f \in [Regions -> 0 .. Cap] /\ t.f[r] = s.f[r] + 1
          /\ \A d \in Regions : d # r => t.f[d] = s.f[d]
      BY <1>1, <1>2, <2>1, <2>2, StoreFields
    <2>5. t.h = s.h
      BY <1>1, <2>1
    <2>6. /\ t.m \in [Regions -> [Unit -> Cells]]
          /\ t.m[r][u] = cell /\ \A w \in Unit : w # u => t.m[r][w] = s.m[r][w]
          /\ \A d \in Regions : d # r => t.m[d] = s.m[d]
      BY <1>1, <2>3, StoreFields
    <2> HIDE DEF t, u
    <2>7. t \in Store
      BY <1>1, <2>4, <2>5, <2>6, StoreFields DEF Store
    <2>8. H \cup {u} = 0 .. t.f[r] - 1
      BY <1>2, <2>1, <2>4
    <2>9. Split(t, r, H \cup {u}, n, q)
      BY <1>3, <2>1, <2>5, <2>8 DEF Split
    <2>10. Fits(t, r, H \cup {u})
      BY <2>9 DEF Fits
    <2> QED
      BY <2>3, <2>4, <2>5, <2>6, <2>7, <2>10 DEF Taken, t, u
  <1>4. CASE n # 0
    <2>1. n \in 1 .. n /\ s.h[r] = q[n] /\ q[n] \in Unit /\ q[n] # NIL
      BY <1>4, UnitFacts DEF Split
    <2>2. u = q[n] /\ u \in Unit \ H
      BY <2>1 DEF NextUnit, Split
    <2> DEFINE p == [i \in 1 .. n - 1 |-> q[i]]
               next == IF n = 1 THEN NIL ELSE q[n - 1]
    <2>3. s.m[r][u].next = next /\ next \in Link
      <3>1. s.m[r][q[n]] = FreeCell(next)
        BY <2>1 DEF Split
      <3>2. n = 1 \/ n - 1 \in 1 .. n
        BY <1>4
      <3> QED
        BY <2>2, <3>1, <3>2 DEF FreeCell, Link
    <2>4. t.f = s.f
      BY <1>1, <2>1
    <2>5. /\ t.h \in [Regions -> Link] /\ t.h[r] = next
          /\ \A d \in Regions : d # r => t.h[d] = s.h[d]
      BY <1>1, <2>1, <2>3, StoreFields
    <2>6. /\ t.m \in [Regions -> [Unit -> Cells]]
          /\ t.m[r][u] = cell /\ \A w \in Unit : w # u => t.m[r][w] = s.m[r][w]
          /\ \A d \in Regions : d # r => t.m[d] = s.m[d]
      BY <1>1, <2>2, StoreFields
    <2> HIDE DEF t, u
    <2>7. t \in Store
      BY <1>1, <2>4, <2>5, <2>6, StoreFields DEF Store
    <2>8. p \in [1 .. n - 1 -> Unit] /\ n - 1 \in Nat
          /\ \A i \in 1 .. n - 1 : i \in 1 .. n /\ p[i] = q[i] /\ q[i] # u
      <3>1. \A i \in 1 .. n - 1 : i \in 1 .. n /\ i # n
        BY <1>4
      <3> QED
        BY <1>4, <2>1, <2>2, <3>1 DEF Split
    <2>9. t.h[r] = IF n - 1 = 0 THEN NIL ELSE p[n - 1]
      BY <1>4, <2>5
    <2>10. \A i \in 1 .. n - 1 : t.m[r][p[i]] = FreeCell(IF i = 1 THEN NIL ELSE p[i - 1])
      <3> SUFFICES ASSUME NEW i \in 1 .. n - 1
                   PROVE  t.m[r][p[i]] = FreeCell(IF i = 1 THEN NIL ELSE p[i - 1])
        OBVIOUS
      <3>1. t.m[r][p[i]] = s.m[r][q[i]]
        BY <2>6, <2>8
      <3>2. s.m[r][q[i]] = FreeCell(IF i = 1 THEN NIL ELSE q[i - 1])
        BY <2>8 DEF Split
      <3>3. i = 1 \/ p[i - 1] = q[i - 1]
        BY <1>4
      <3> QED
        BY <3>1, <3>2, <3>3
    <2>11. (H \cup {u}) \cup {p[i] : i \in 1 .. n - 1} = H \cup {q[i] : i \in 1 .. n}
      <3>1. 1 .. n = (1 .. n - 1) \cup {n}
        BY <1>4
      <3> QED
        BY <2>2, <2>8, <3>1
    <2> HIDE DEF p
    <2>12. Split(t, r, H \cup {u}, n - 1, p)
      BY <2>4, <2>8, <2>9, <2>10, <2>11 DEF Split
    <2>13. Fits(t, r, H \cup {u})
      BY <2>8, <2>12 DEF Fits
    <2> QED
      BY <2>2, <2>4, <2>5, <2>6, <2>7, <2>13 DEF Taken, t, u
  <1> QED
    BY <1>3, <1>4

\* What free writes.
LEMMA GiveWrites ==
  ASSUME NEW s \in Store, NEW x \in Handle
  PROVE  LET r == RegionOf(x)
             t == Give(s, x)
         IN  /\ t \in Store /\ t.f = s.f
             /\ t.h[r] = x.u /\ \A d \in Regions : d # r => t.h[d] = s.h[d]
             /\ t.m[r][x.u] = FreeCell(s.h[r])
             /\ \A w \in Unit : w # x.u => t.m[r][w] = s.m[r][w]
             /\ \A d \in Regions : d # r => t.m[d] = s.m[d]
  <1> DEFINE r == RegionOf(x)
             t == Give(s, x)
             y == [s.m EXCEPT ![r] = [s.m[r] EXCEPT ![x.u] = FreeCell(s.h[r])]]
             z == [s.h EXCEPT ![r] = x.u]
             w == [s EXCEPT !.m = y]
  <1>1. r \in Regions /\ x.u \in Unit
    BY DEF RegionOf, Regions, Handle
  <1>2. s.h[r] \in Link /\ FreeCell(s.h[r]) \in Cells
    BY <1>1, StoreFields DEF FreeCell, Cells
  <1>3. /\ y \in [Regions -> [Unit -> Cells]] /\ y[r][x.u] = FreeCell(s.h[r])
        /\ \A v \in Unit : v # x.u => y[r][v] = s.m[r][v]
        /\ \A d \in Regions : d # r => y[d] = s.m[d]
        /\ z \in [Regions -> Link] /\ z[r] = x.u /\ \A d \in Regions : d # r => z[d] = s.h[d]
    BY <1>1, <1>2, StoreFields DEF Link
  <1>4. w \in Store /\ w.f = s.f /\ w.h = s.h /\ w.m = y
    BY <1>3, WriteBlocks
  <1>5. t = [w EXCEPT !.h = z]
    BY <1>4 DEF Give
  <1> HIDE DEF w, y, z, t, r
  <1>6. t \in Store /\ t.f = s.f /\ t.h = z /\ t.m = y
    BY <1>3, <1>4, <1>5, WriteHeads
  <1> QED
    BY <1>3, <1>6 DEF t, r

\* A block given back leaves H and heads the list.
LEMMA GiveFacts ==
  ASSUME NEW s \in Store, NEW x \in Handle, NEW H \in SUBSET Unit,
         Fits(s, RegionOf(x), H), x.u \in H
  PROVE  Given(s, Give(s, x), RegionOf(x), H, x.u)
  <1> DEFINE r == RegionOf(x)
             t == Give(s, x)
  <1>1. r \in Regions /\ x.u \in Unit
    BY DEF RegionOf, Regions, Handle
  <1>3. /\ t.m[r][x.u] = FreeCell(s.h[r])
        /\ \A w \in Unit : w # x.u => t.m[r][w] = s.m[r][w]
        /\ \A d \in Regions : d # r => t.m[d] = s.m[d]
        /\ t.h[r] = x.u /\ \A d \in Regions : d # r => t.h[d] = s.h[d]
    BY GiveWrites
  <1>4. t \in Store /\ t.f = s.f
    BY GiveWrites
  <1> HIDE DEF t, r
  <1> PICK n \in Nat : \E q \in [1 .. n -> Unit] : Split(s, r, H, n, q)
    BY DEF Fits, r
  <1> PICK q \in [1 .. n -> Unit] : Split(s, r, H, n, q)
    OBVIOUS
  <1> DEFINE p == [i \in 1 .. n + 1 |-> IF i = n + 1 THEN x.u ELSE q[i]]
  <1>5. /\ p \in [1 .. n + 1 -> Unit] /\ n + 1 \in Nat /\ p[n + 1] = x.u
        /\ \A i \in 1 .. n : i \in 1 .. n + 1 /\ p[i] = q[i] /\ q[i] # x.u /\ q[i] \in Unit
        /\ \A i \in 1 .. n + 1 : i = n + 1 \/ i \in 1 .. n
    <2>1. \A i \in 1 .. n + 1 : i = n + 1 \/ i \in 1 .. n
      OBVIOUS
    <2>2. n + 1 \in 1 .. n + 1 /\ \A i \in 1 .. n : i \in 1 .. n + 1 /\ i # n + 1
      OBVIOUS
    <2>3. \A i \in 1 .. n : q[i] # x.u /\ q[i] \in Unit
      BY DEF Split
    <2> QED
      BY <1>1, <2>1, <2>2, <2>3
  <1>6. \A i, j \in 1 .. n + 1 : p[i] = p[j] => i = j
    BY <1>5 DEF Split
  <1>7. t.h[r] = IF n + 1 = 0 THEN NIL ELSE p[n + 1]
    BY <1>3, <1>4, <1>5
  <1>8. \A i \in 1 .. n + 1 : t.m[r][p[i]] = FreeCell(IF i = 1 THEN NIL ELSE p[i - 1])
    <2> SUFFICES ASSUME NEW i \in 1 .. n + 1
                 PROVE  t.m[r][p[i]] = FreeCell(IF i = 1 THEN NIL ELSE p[i - 1])
      OBVIOUS
    <2>1. i = 1 \/ (i - 1 \in 1 .. n /\ p[i - 1] = q[i - 1])
      BY <1>5
    <2>2. CASE i = n + 1
      <3>1. t.m[r][p[i]] = FreeCell(s.h[r])
        BY <1>3, <1>4, <1>5, <2>2
      <3>2. s.h[r] = IF n = 0 THEN NIL ELSE q[n]
        BY DEF Split
      <3> QED
        BY <2>1, <2>2, <3>1, <3>2
    <2>3. CASE i \in 1 .. n
      <3>1. t.m[r][p[i]] = s.m[r][q[i]]
        BY <1>3, <1>4, <1>5, <2>3
      <3>2. s.m[r][q[i]] = FreeCell(IF i = 1 THEN NIL ELSE q[i - 1])
        BY <2>3 DEF Split
      <3> QED
        BY <2>1, <3>1, <3>2
    <2> QED
      BY <1>5, <2>2, <2>3
  <1>9. /\ \A i \in 1 .. n + 1 : p[i] \notin H \ {x.u}
        /\ (H \ {x.u}) \cup {p[i] : i \in 1 .. n + 1} = 0 .. t.f[r] - 1
    <2>1. {p[i] : i \in 1 .. n + 1} = {q[i] : i \in 1 .. n} \cup {x.u}
      BY <1>5
    <2>2. H \cup {q[i] : i \in 1 .. n} = 0 .. t.f[r] - 1
      BY <1>4 DEF Split
    <2> QED
      BY <1>5, <2>1, <2>2 DEF Split
  <1> HIDE DEF p
  <1>10. Split(t, r, H \ {x.u}, n + 1, p)
    BY <1>6, <1>7, <1>8, <1>9 DEF Split
  <1>11. Fits(t, r, H \ {x.u})
    BY <1>5, <1>10 DEF Fits
  <1> QED
    BY <1>1, <1>3, <1>4, <1>11 DEF Given, t, r

-----------------------------------------------------------------------------
(* The map in a carving.                                                   *)

\* The leaves of the keys in K stand where loc says, and nothing else.
Leaves(s, K, loc) ==
  /\ \A k \in K : s.m["terms"][loc[k]] = LeafCell(k)
  /\ Fits(s, "terms", {loc[k] : k \in K})

\* A node's children over these leaves.
Over(K, loc) == [k \in K |-> LeafOf(loc[k])]

\* Where the leaves stand once k's is at u, and once k's is gone.
With(K, loc, k, u) == [x \in K \cup {k} |-> IF x = k THEN u ELSE loc[x]]
Without(K, loc, k) == [x \in K \ {k} |-> loc[x]]

\* Handle x leads to these leaves: it is null, one of them, or a node over all.
Top(s, x, K, loc) ==
  \/ x = Null /\ K = {} /\ Fits(s, "nodes", {})
  \/ \E k \in K : K = {k} /\ x = LeafOf(loc[k]) /\ Fits(s, "nodes", {})
  \/ \E v \in Unit : /\ x = NodeOf(v) /\ K # {}
                     /\ s.m["nodes"][v] = NodeCell(Over(K, loc))
                     /\ Fits(s, "nodes", {v})

\* Handle x is a sound map of the keys in K, in a carving that fits it.
Holds(s, x, K) == \E loc \in [K -> Unit] : Leaves(s, K, loc) /\ Top(s, x, K, loc)

SavedCarving == [f |-> sb.frontier, h |-> sb.head, m |-> mem]

IInv ==
  /\ TypeOK
  /\ stamp # "image" => image = "none"
  /\ proc = "opening" => stamp = "zeros" /\ mem = NoBlocks
  /\ proc \in {"created", "restored", "mapped", "released"} => stamp = "image"
  /\ proc = "created" => /\ image = "stamped"
                         /\ frontier = NoFrontier /\ head = NoHeads /\ mem = NoBlocks
  /\ proc = "restored" => frontier = sb.frontier /\ head = sb.head
  /\ proc = "mapped" => \E K \in SUBSET Keys : Holds(Carving, root, K) /\ count = Cardinality(K)
  /\ proc = "mapped" /\ image = "stamped" => root = Null
  /\ proc = "mapped" /\ image = "saved" =>
       /\ frontier = sb.frontier /\ head = sb.head
       /\ root = sb.root /\ count = sb.count
  /\ image = "stamped" => saved = {}
  /\ image = "saved" => Holds(SavedCarving, sb.root, saved) /\ sb.count = Cardinality(saved)

-----------------------------------------------------------------------------
(* Reading the map.                                                        *)

LEMMA Cellar ==
  /\ \A k \in Keys : LeafCell(k) \in Cells
  /\ \A u \in Unit : LeafOf(u) \in Handle /\ NodeOf(u) \in Handle
  /\ \A u \in Unit : RegionOf(LeafOf(u)) = "terms" /\ RegionOf(NodeOf(u)) = "nodes"
                     /\ LeafOf(u).u = u /\ NodeOf(u).u = u
                     /\ LeafOf(u).tag = "leaf" /\ NodeOf(u).tag = "node"
  /\ Null.tag = "null" /\ "terms" \in Regions /\ "nodes" \in Regions
  /\ \A a, b : LeafCell(a) = LeafCell(b) => a = b
  BY DEF LeafCell, Cells, LeafOf, NodeOf, Handle, RegionOf, Null, Regions

LEMMA NodeCells ==
  ASSUME NEW K \in SUBSET Keys, NEW kids \in [K -> Handle]
  PROVE  NodeCell(kids) \in Cells /\ NodeCell(kids).kids = kids /\ NodeCell(kids).kind = "node"
  BY DEF NodeCell, Cells

\* The keys that a walk from the handle finds are the keys of the map.
LEMMA KeysFound ==
  ASSUME NEW K \in SUBSET Keys, NEW x, Holds(Carving, x, K)
  PROVE  /\ KeysBelow(x) = K /\ x \in Handle \cup {Null}
         /\ x.tag = "null" <=> K = {}
  <1> PICK loc \in [K -> Unit] : Leaves(Carving, K, loc) /\ Top(Carving, x, K, loc)
    BY DEF Holds
  <1>1. Carving.m = mem
    BY DEF Carving
  <1> USE DEF Over
  <1>2. \A k \in K : Cell(LeafOf(loc[k])) = LeafCell(k) /\ LeafOf(loc[k]) \in Handle
    BY <1>1, Cellar DEF Leaves, Cell
  <1>3. \A k \in K : Cell(LeafOf(loc[k])).kind = "leaf" /\ Cell(LeafOf(loc[k])).key = k
    BY <1>2 DEF LeafCell
  <1>4. CASE x = Null /\ K = {}
    BY <1>4, Cellar DEF KeysBelow
  <1>5. ASSUME NEW k \in K, K = {k}, x = LeafOf(loc[k])
        PROVE  KeysBelow(x) = K /\ x \in Handle /\ x.tag = "leaf"
    <2>1. x.tag = "leaf"
      BY <1>5, Cellar
    <2> QED
      BY <1>2, <1>3, <1>5, <2>1 DEF KeysBelow
  <1>6. ASSUME NEW v \in Unit, x = NodeOf(v),
               Carving.m["nodes"][v] = NodeCell(Over(K, loc))
        PROVE  KeysBelow(x) = K /\ x \in Handle /\ x.tag = "node"
    <2>1. x.tag = "node" /\ x \in Handle /\ Cell(x) = NodeCell(Over(K, loc))
      BY <1>1, <1>6, Cellar DEF Cell
    <2>2. Cell(x).kind = "node" /\ Cell(x).kids = [k \in K |-> LeafOf(loc[k])]
      BY <2>1 DEF NodeCell
    <2>3. /\ DOMAIN Cell(x).kids = K
          /\ \A k \in K : Cell(x).kids[k] = LeafOf(loc[k])
      BY <2>2
    <2> QED
      BY <1>3, <2>1, <2>2, <2>3 DEF KeysBelow
  <1> QED
    BY <1>4, <1>5, <1>6, Cellar DEF Top

-----------------------------------------------------------------------------
(* Changing the map.                                                       *)

LEMMA StoreIs ==
  ASSUME NEW t \in Store, Becomes(t)
  PROVE  Carving' = t
  <1>1. frontier' = t.f /\ head' = t.h /\ mem' = t.m
    BY DEF Becomes
  <1>2. Carving' \in Store /\ Carving'.f = t.f /\ Carving'.h = t.h /\ Carving'.m = t.m
    BY <1>1, StoreFields DEF Carving, Store
  <1>3. \A a, b \in Store : a.f = b.f /\ a.h = b.h /\ a.m = b.m => a = b
    BY DEF Store
  <1> QED
    BY <1>2, <1>3

LEMMA LeavesElsewhere ==
  ASSUME NEW s, NEW t, NEW K, NEW loc, Leaves(s, K, loc),
         t.f["terms"] = s.f["terms"], t.h["terms"] = s.h["terms"], t.m["terms"] = s.m["terms"]
  PROVE  Leaves(t, K, loc)
  BY FitsElsewhere DEF Leaves

\* One unit per key at most: there is room for the leaf of another key.
LEMMA RoomForLeaf ==
  ASSUME NEW K \in SUBSET Keys, NEW loc \in [K -> Unit]
  PROVE  /\ {loc[k] : k \in K} \in SUBSET Unit
         /\ Cardinality({loc[k] : k \in K}) < Cap
  <1> DEFINE I == {loc[k] : k \in K}
  <1>1. IsFiniteSet(K) /\ Cardinality(K) <= Cardinality(Keys) /\ Cardinality(K) \in Nat
    BY KeysAssumption, FS_Subset, FS_CardinalityType
  <1>2. loc \in Surjection(K, I)
    BY DEF Surjection
  <1>3. I \in SUBSET Unit
    OBVIOUS
  <1> HIDE DEF I
  <1>4. Cardinality(I) <= Cardinality(K) /\ Cardinality(I) \in Nat
    BY <1>1, <1>2, <1>3, FS_Surjection, UnitFacts
  <1> QED
    BY <1>1, <1>3, <1>4, UnitFacts DEF I

LEMMA LeafAdded ==
  ASSUME NEW s \in Store, NEW K \in SUBSET Keys, NEW loc \in [K -> Unit], Leaves(s, K, loc),
         NEW k \in Keys \ K
  PROVE  LET u == NextUnit(s, "terms")
             t == Alloc(s, "terms", LeafCell(k))
             new == With(K, loc, k, u)
         IN  /\ u \in Unit /\ t \in Store /\ new \in [K \cup {k} -> Unit]
             /\ Leaves(t, K \cup {k}, new)
             /\ t.m["nodes"] = s.m["nodes"] /\ t.h["nodes"] = s.h["nodes"]
             /\ t.f["nodes"] = s.f["nodes"]
  <1> DEFINE u == NextUnit(s, "terms")
             t == Alloc(s, "terms", LeafCell(k))
             H == {loc[x] : x \in K}
             new == With(K, loc, k, u)
  <1>1. "terms" \in Regions /\ "nodes" \in Regions /\ "nodes" # "terms"
    BY Cellar
  <1>2. H \in SUBSET Unit /\ Cardinality(H) < Cap /\ Fits(s, "terms", H) /\ LeafCell(k) \in Cells
    BY RoomForLeaf, Cellar DEF Leaves
  <1> HIDE DEF t, u, H
  <1>3. /\ u \in Unit \ H /\ t \in Store /\ Fits(t, "terms", H \cup {u})
        /\ t.m["terms"][u] = LeafCell(k)
        /\ \A w \in Unit : w # u => t.m["terms"][w] = s.m["terms"][w]
        /\ \A d \in Regions : d # "terms" =>
             t.m[d] = s.m[d] /\ t.h[d] = s.h[d] /\ t.f[d] = s.f[d]
    <2>1. Taken(s, t, "terms", H, u, LeafCell(k))
      BY <1>1, <1>2, AllocFacts DEF t, u
    <2> QED
      BY <2>1 DEF Taken
  <1>4. /\ new \in [K \cup {k} -> Unit] /\ new[k] = u
        /\ \A x \in K : x # k /\ new[x] = loc[x] /\ loc[x] \in H
    BY <1>3 DEF H, With
  <1>5. {new[x] : x \in K \cup {k}} = H \cup {u}
    BY <1>4 DEF H
  <1>6. \A x \in K \cup {k} : t.m["terms"][new[x]] = LeafCell(x)
    BY <1>3, <1>4 DEF Leaves
  <1>7. Leaves(t, K \cup {k}, new)
    BY <1>3, <1>5, <1>6 DEF Leaves
  <1> QED
    BY <1>1, <1>3, <1>4, <1>7 DEF t, u

\* From s to t the leaf of k was given back.
LeafGone(s, t, K, loc, k) ==
  /\ t \in Store /\ Without(K, loc, k) \in [K \ {k} -> Unit]
  /\ Leaves(t, K \ {k}, Without(K, loc, k))
  /\ t.m["nodes"] = s.m["nodes"] /\ t.h["nodes"] = s.h["nodes"] /\ t.f["nodes"] = s.f["nodes"]

LEMMA LeafTaken ==
  ASSUME NEW s \in Store, NEW K \in SUBSET Keys, NEW loc \in [K -> Unit], Leaves(s, K, loc),
         NEW k \in K, NEW u, u = loc[k]
  PROVE  LeafGone(s, Give(s, LeafOf(u)), K, loc, k)
  <1> DEFINE x == LeafOf(u)
             t == Give(s, x)
             H == {loc[y] : y \in K}
             new == Without(K, loc, k)
  <1>1. /\ "terms" \in Regions /\ "nodes" \in Regions /\ "nodes" # "terms"
        /\ x \in Handle /\ RegionOf(x) = "terms" /\ x.u = u /\ u \in Unit
    BY Cellar
  <1>2. H \in SUBSET Unit /\ Fits(s, "terms", H) /\ x.u \in H
    BY <1>1, RoomForLeaf DEF Leaves
  <1> HIDE DEF t, x, H
  <1>3. /\ t \in Store /\ Fits(t, "terms", H \ {u})
        /\ \A w \in Unit : w # u => t.m["terms"][w] = s.m["terms"][w]
        /\ \A d \in Regions : d # "terms" =>
             t.m[d] = s.m[d] /\ t.h[d] = s.h[d] /\ t.f[d] = s.f[d]
    <2>1. Given(s, t, "terms", H, u)
      <3>1. Given(s, Give(s, x), RegionOf(x), H, x.u)
        BY <1>1, <1>2, GiveFacts
      <3> QED
        BY <3>1, <1>1 DEF t
    <2> QED
      BY <2>1 DEF Given
  <1>4. \A y \in K \ {k} : loc[y] # u
    BY Cellar DEF Leaves
  <1>5. {new[y] : y \in K \ {k}} = H \ {u}
    BY <1>4 DEF H, Without
  <1>6. \A y \in K \ {k} : t.m["terms"][new[y]] = LeafCell(y)
    BY <1>3, <1>4 DEF Leaves, Without
  <1>7. Leaves(t, K \ {k}, new) /\ new \in [K \ {k} -> Unit]
    BY <1>3, <1>5, <1>6 DEF Leaves, Without
  <1> QED
    BY <1>1, <1>3, <1>7 DEF LeafGone, t, x

\* A node over the leaves is made beside the blocks in H.
LEMMA NodeMade ==
  ASSUME NEW s \in Store, NEW K \in SUBSET Keys, NEW loc \in [K -> Unit], Leaves(s, K, loc),
         NEW H, H = {} \/ (\E w \in Unit : H = {w}), Fits(s, "nodes", H)
  PROVE  LET v == NextUnit(s, "nodes")
             t == Alloc(s, "nodes", NodeCell(Over(K, loc)))
         IN  /\ v \in Unit \ H /\ t \in Store /\ Leaves(t, K, loc)
             /\ t.m["nodes"][v] = NodeCell(Over(K, loc))
             /\ Fits(t, "nodes", H \cup {v})
  <1> DEFINE v == NextUnit(s, "nodes")
             kids == Over(K, loc)
             t == Alloc(s, "nodes", NodeCell(kids))
  <1>1. "terms" \in Regions /\ "nodes" \in Regions /\ "nodes" # "terms"
    BY Cellar
  <1>2. NodeCell(kids) \in Cells
    <2>1. kids \in [K -> Handle]
      BY Cellar DEF Over
    <2> QED
      BY <2>1, NodeCells
  <1>3. H \in SUBSET Unit /\ Cardinality(H) < Cap
    <2>1. Cardinality({}) = 0 /\ \A w \in Unit : Cardinality({w}) = 1
      BY FS_EmptySet, FS_Singleton
    <2> QED
      BY <2>1, UnitFacts
  <1> HIDE DEF t, v, kids
  <1>4. /\ v \in Unit \ H /\ t \in Store /\ Fits(t, "nodes", H \cup {v})
        /\ t.m["nodes"][v] = NodeCell(kids)
        /\ \A d \in Regions : d # "nodes" =>
             t.m[d] = s.m[d] /\ t.h[d] = s.h[d] /\ t.f[d] = s.f[d]
    <2>1. Taken(s, t, "nodes", H, v, NodeCell(kids))
      BY <1>1, <1>2, <1>3, AllocFacts DEF t, v
    <2> QED
      BY <2>1 DEF Taken
  <1>5. Leaves(t, K, loc)
    BY <1>1, <1>4, LeavesElsewhere
  <1> QED
    BY <1>4, <1>5 DEF t, v, kids

\* A node is given back.
LEMMA NodeTaken ==
  ASSUME NEW s \in Store, NEW K, NEW loc, Leaves(s, K, loc),
         NEW H \in SUBSET Unit, NEW w \in H, Fits(s, "nodes", H)
  PROVE  LET t == Give(s, NodeOf(w))
         IN  /\ t \in Store /\ Leaves(t, K, loc) /\ Fits(t, "nodes", H \ {w})
             /\ \A v \in Unit : v # w => t.m["nodes"][v] = s.m["nodes"][v]
  <1> DEFINE x == NodeOf(w)
             t == Give(s, x)
  <1>1. /\ "terms" \in Regions /\ "nodes" \in Regions /\ "nodes" # "terms"
        /\ x \in Handle /\ RegionOf(x) = "nodes" /\ x.u = w
    BY Cellar
  <1> HIDE DEF t, x
  <1>2. /\ t \in Store /\ Fits(t, "nodes", H \ {w})
        /\ \A v \in Unit : v # w => t.m["nodes"][v] = s.m["nodes"][v]
        /\ \A d \in Regions : d # "nodes" =>
             t.m[d] = s.m[d] /\ t.h[d] = s.h[d] /\ t.f[d] = s.f[d]
    <2>1. Given(s, t, "nodes", H, w)
      <3>1. Given(s, Give(s, x), RegionOf(x), H, x.u)
        BY <1>1, GiveFacts
      <3> QED
        BY <3>1, <1>1 DEF t
    <2> QED
      BY <2>1 DEF Given
  <1>3. Leaves(t, K, loc)
    BY <1>1, <1>2, LeavesElsewhere
  <1> QED
    BY <1>2, <1>3 DEF t, x

\* What the root is tells what holds of the map.
OfNull(s, K) == K = {} /\ Fits(s, "nodes", {})
OfLeaf(s, x, K, loc) == (\E k \in K : K = {k} /\ x = LeafOf(loc[k])) /\ Fits(s, "nodes", {})
OfNode(s, x, K, loc) ==
  /\ x.u \in Unit /\ x = NodeOf(x.u) /\ K # {} /\ Fits(s, "nodes", {x.u})
  /\ s.m["nodes"][x.u] = NodeCell(Over(K, loc))

LEMMA TopCases ==
  ASSUME NEW s, NEW x, NEW K, NEW loc, Top(s, x, K, loc)
  PROVE  \/ x.tag = "null" /\ x = Null /\ OfNull(s, K)
         \/ x.tag = "leaf" /\ x # Null /\ OfLeaf(s, x, K, loc)
         \/ x.tag = "node" /\ x # Null /\ OfNode(s, x, K, loc)
  <1>1. CASE x = Null /\ K = {} /\ Fits(s, "nodes", {})
    BY <1>1, Cellar DEF OfNull
  <1>2. CASE \E k \in K : K = {k} /\ x = LeafOf(loc[k]) /\ Fits(s, "nodes", {})
    <2>1. x.tag = "leaf" /\ x # Null
      BY <1>2 DEF LeafOf, Null
    <2> QED
      BY <1>2, <2>1 DEF OfLeaf
  <1>3. CASE \E v \in Unit : /\ x = NodeOf(v) /\ K # {}
                             /\ s.m["nodes"][v] = NodeCell(Over(K, loc))
                             /\ Fits(s, "nodes", {v})
    <2> PICK v \in Unit : /\ x = NodeOf(v) /\ K # {}
                          /\ s.m["nodes"][v] = NodeCell(Over(K, loc))
                          /\ Fits(s, "nodes", {v})
      BY <1>3
    <2>1. x.tag = "node" /\ x.u = v /\ x # Null
      BY Cellar
    <2> QED
      BY <2>1 DEF OfNode
  <1> QED
    BY <1>1, <1>2, <1>3 DEF Top

\* The node is made anew over these leaves, and the old one given back.
LEMMA NodeReplaced ==
  ASSUME NEW s \in Store, NEW K \in SUBSET Keys, K # {}, NEW loc \in [K -> Unit],
         Leaves(s, K, loc), NEW w \in Unit, Fits(s, "nodes", {w})
  PROVE  LET t == Give(Alloc(s, "nodes", NodeCell(Over(K, loc))), NodeOf(w))
         IN  t \in Store /\ Holds(t, NodeOf(NextUnit(s, "nodes")), K)
  <1> DEFINE v  == NextUnit(s, "nodes")
             t1 == Alloc(s, "nodes", NodeCell(Over(K, loc)))
             t  == Give(t1, NodeOf(w))
  <1>1. /\ v \in Unit \ {w} /\ t1 \in Store /\ Leaves(t1, K, loc)
        /\ t1.m["nodes"][v] = NodeCell(Over(K, loc)) /\ Fits(t1, "nodes", {w} \cup {v})
    BY NodeMade
  <1> HIDE DEF t1, v
  <1>2. /\ t \in Store /\ Leaves(t, K, loc) /\ Fits(t, "nodes", ({w} \cup {v}) \ {w})
        /\ t.m["nodes"][v] = t1.m["nodes"][v]
    <2>1. {w} \cup {v} \in SUBSET Unit /\ w \in {w} \cup {v}
      BY <1>1
    <2> QED
      BY <1>1, <2>1, NodeTaken
  <1>3. ({w} \cup {v}) \ {w} = {v}
    BY <1>1
  <1>4. Top(t, NodeOf(v), K, loc)
    BY <1>1, <1>2, <1>3 DEF Top
  <1> QED
    BY <1>2, <1>4 DEF Holds, v, t1

\* ... or it is written in place.
LEMMA NodeRewritten ==
  ASSUME NEW s \in Store, NEW K \in SUBSET Keys, K # {}, NEW loc \in [K -> Unit],
         Leaves(s, K, loc), NEW w \in Unit, Fits(s, "nodes", {w})
  PROVE  LET t == [s EXCEPT !.m["nodes"][w] = NodeCell(Over(K, loc))]
         IN  t \in Store /\ Holds(t, NodeOf(w), K)
  <1> DEFINE kids == Over(K, loc)
             t == [s EXCEPT !.m["nodes"][w] = NodeCell(kids)]
  <1>1. NodeCell(kids) \in Cells
    <2>1. kids \in [K -> Handle]
      BY Cellar DEF Over
    <2> QED
      BY <2>1, NodeCells
  <1> HIDE DEF kids
  <1>2. /\ t \in Store /\ Fits(t, "nodes", {w}) /\ t.m["nodes"][w] = NodeCell(kids)
        /\ \A d \in Regions : d # "nodes" => t.m[d] = s.m[d]
        /\ t.f = s.f /\ t.h = s.h
    <2>1. {w} \in SUBSET Unit /\ w \in {w} /\ "nodes" \in Regions
      BY Cellar
    <2>2. Written(s, t, "nodes", {w}, w, NodeCell(kids))
      BY <1>1, <2>1, FitsWritten
    <2> QED
      BY <2>2 DEF Written
  <1> HIDE DEF t
  <1>3. Leaves(t, K, loc)
    BY <1>2, LeavesElsewhere, Cellar
  <1>4. Top(t, NodeOf(w), K, loc)
    BY <1>2 DEF Top, kids
  <1> QED
    BY <1>2, <1>3, <1>4 DEF Holds, t, kids

\* insert leaves a sound map of one more key, whichever of its four shapes
\* the map had.
LEMMA InsertHolds ==
  ASSUME Carving \in Store, NEW K \in SUBSET Keys, Holds(Carving, root, K),
         NEW k \in Keys \ K, Insert(k)
  PROVE  Carving' \in Store /\ Holds(Carving', root', K \cup {k})
  <1> DEFINE s  == Carving
             L  == K \cup {k}
             u  == NextUnit(s, "terms")
             s1 == Alloc(s, "terms", LeafCell(k))
             v  == NextUnit(s1, "nodes")
             More(kids) == [x \in DOMAIN kids \cup {k} |-> IF x = k THEN LeafOf(u) ELSE kids[x]]
  <1> PICK loc \in [K -> Unit] : Leaves(s, K, loc) /\ Top(s, root, K, loc)
    BY DEF Holds
  <1> DEFINE new == With(K, loc, k, u)
             kids2 == Over(L, new)
  <1>0. \/ root.tag = "null" /\ root = Null /\ OfNull(s, K)
        \/ root.tag = "leaf" /\ root # Null /\ OfLeaf(s, root, K, loc)
        \/ root.tag = "node" /\ root # Null /\ OfNode(s, root, K, loc)
    BY TopCases
  <1>1. \/ /\ root = Null
           /\ root' = LeafOf(u)
           /\ Becomes(s1)
        \/ /\ root.tag = "leaf"
           /\ root' = NodeOf(v)
           /\ Becomes(Alloc(s1, "nodes", NodeCell(More([x \in {Cell(root).key} |-> root]))))
        \/ /\ root.tag = "node"
           /\ root' = NodeOf(v)
           /\ Becomes(Give(Alloc(s1, "nodes", NodeCell(More(Kids))), root))
        \/ /\ root.tag = "node"
           /\ root' = root
           /\ Becomes([s1 EXCEPT !.m["nodes"][root.u] = NodeCell(More(Kids))])
    BY DEF Insert
  <1>2. /\ u \in Unit /\ s1 \in Store /\ new \in [L -> Unit] /\ Leaves(s1, L, new)
        /\ s1.m["nodes"] = s.m["nodes"] /\ s1.h["nodes"] = s.h["nodes"]
        /\ s1.f["nodes"] = s.f["nodes"]
    BY LeafAdded
  <1>3. /\ s.m = mem /\ L \in SUBSET Keys /\ L # {} /\ new[k] = u
        /\ \A x \in K : x # k /\ x \in L /\ new[x] = loc[x]
    BY DEF Carving, With
  <1>4. \A H : Fits(s, "nodes", H) => Fits(s1, "nodes", H)
    BY <1>2, FitsElsewhere
  <1>5. /\ root.tag = "leaf" => More([x \in {Cell(root).key} |-> root]) = kids2
        /\ root.tag = "node" => More(Kids) = kids2
    <2>1. ASSUME NEW kids, DOMAIN kids = K, \A x \in K : kids[x] = LeafOf(loc[x])
          PROVE  More(kids) = kids2
      BY <1>3, <2>1 DEF Over
    <2>2. CASE OfLeaf(s, root, K, loc)
      <3> HIDE DEF s, More, kids2
      <3> PICK k0 \in K : K = {k0} /\ root = LeafOf(loc[k0])
        BY <2>2 DEF OfLeaf
      <3>1. Cell(root) = LeafCell(k0)
        BY <1>3, Cellar DEF Cell, Leaves
      <3>2. Cell(root).key = k0
        BY <3>1 DEF LeafCell
      <3> QED
        BY <2>1, <2>2, <3>2, Cellar
    <2>3. CASE OfNode(s, root, K, loc)
      <3> HIDE DEF s, More, kids2
      <3>1. /\ root.u \in Unit /\ root = NodeOf(root.u)
            /\ s.m["nodes"][root.u] = NodeCell(Over(K, loc))
        BY <2>3 DEF OfNode
      <3>2. Cell(root) = NodeCell(Over(K, loc))
        BY <1>3, <3>1, Cellar DEF Cell
      <3>3. Kids = Over(K, loc)
        BY <3>2 DEF Kids, NodeCell
      <3> QED
        BY <2>1, <2>3, <3>1, <3>3, Cellar DEF Over
    <2> QED
      BY <1>0, <2>2, <2>3
  <1> HIDE DEF s, s1, u, v, L, new, More
  <1>6. CASE root.tag = "null" /\ root = Null /\ OfNull(s, K)
    <2>1. root = Null /\ K = {} /\ Fits(s, "nodes", {})
      BY <1>6 DEF OfNull
    <2>2. root' = LeafOf(u) /\ Becomes(s1)
      BY <1>1, <1>6
    <2>3. L = {k} /\ Top(s1, LeafOf(u), L, new)
      BY <1>3, <1>4, <2>1 DEF Top, L
    <2> QED
      BY <1>2, <2>2, <2>3, StoreIs DEF Holds, L
  <1>7. CASE root.tag = "leaf" /\ root # Null /\ OfLeaf(s, root, K, loc)
    <2> DEFINE t == Alloc(s1, "nodes", NodeCell(kids2))
    <2>1. root' = NodeOf(v) /\ Becomes(t)
      BY <1>1, <1>5, <1>7, Cellar
    <2>2. Fits(s1, "nodes", {})
      BY <1>4, <1>7 DEF OfLeaf
    <2>3. /\ v \in Unit /\ t \in Store /\ Leaves(t, L, new)
          /\ t.m["nodes"][v] = NodeCell(kids2) /\ Fits(t, "nodes", {} \cup {v})
      BY <1>2, <1>3, <2>2, NodeMade DEF v
    <2> HIDE DEF t
    <2>4. {} \cup {v} = {v}
      OBVIOUS
    <2>5. Top(t, NodeOf(v), L, new)
      BY <1>3, <2>3, <2>4 DEF Top
    <2> QED
      BY <1>2, <2>1, <2>3, <2>5, StoreIs DEF Holds, L
  <1>8. CASE root.tag = "node" /\ root # Null /\ OfNode(s, root, K, loc)
    <2> DEFINE w == root.u
    <2>1. w \in Unit /\ root = NodeOf(w) /\ Fits(s1, "nodes", {w})
      BY <1>4, <1>8 DEF OfNode
    <2>2. \/ root' = NodeOf(v) /\ Becomes(Give(Alloc(s1, "nodes", NodeCell(kids2)), NodeOf(w)))
          \/ root' = root /\ Becomes([s1 EXCEPT !.m["nodes"][w] = NodeCell(kids2)])
      BY <1>1, <1>5, <1>8, <2>1, Cellar
    <2> HIDE DEF w
    <2> DEFINE t1 == Give(Alloc(s1, "nodes", NodeCell(kids2)), NodeOf(w))
               t2 == [s1 EXCEPT !.m["nodes"][w] = NodeCell(kids2)]
    <2>3. t1 \in Store /\ Holds(t1, NodeOf(v), L) /\ t2 \in Store /\ Holds(t2, NodeOf(w), L)
      BY <1>2, <1>3, <2>1, NodeReplaced, NodeRewritten DEF v
    <2> HIDE DEF t1, t2
    <2>4. \/ root' = NodeOf(v) /\ Carving' = t1
          \/ root' = NodeOf(w) /\ Carving' = t2
      BY <2>1, <2>2, <2>3, StoreIs DEF t1, t2
    <2> QED
      BY <2>3, <2>4 DEF L
  <1> QED
    BY <1>0, <1>6, <1>7, <1>8

\* erase leaves a sound map without the key.
LEMMA RemoveHolds ==
  ASSUME Carving \in Store, NEW K \in SUBSET Keys, Holds(Carving, root, K),
         NEW k \in K, RemoveKey(k)
  PROVE  Carving' \in Store /\ Holds(Carving', root', K \ {k})
  <1> DEFINE s    == Carving
             L    == K \ {k}
             rest == [x \in DOMAIN Kids \ {k} |-> Kids[x]]
             s1   == Give(s, Kids[k])
             v    == NextUnit(s1, "nodes")
  <1> PICK loc \in [K -> Unit] : Leaves(s, K, loc) /\ Top(s, root, K, loc)
    BY DEF Holds
  <1> PICK u : u = loc[k]
    OBVIOUS
  <1> DEFINE new == Without(K, loc, k)
             s2  == Give(s, LeafOf(u))
  <1>0. \/ root.tag = "null" /\ root = Null /\ OfNull(s, K)
        \/ root.tag = "leaf" /\ root # Null /\ OfLeaf(s, root, K, loc)
        \/ root.tag = "node" /\ root # Null /\ OfNode(s, root, K, loc)
    BY TopCases
  <1>1. \/ /\ root.tag = "leaf"
           /\ root' = Null
           /\ Becomes(Give(s, root))
        \/ /\ root.tag = "node"
           /\ \/ /\ root' = Null
                 /\ Becomes(Give(s1, root))
              \/ /\ Cardinality(DOMAIN rest) = 1
                 /\ root' = NodeOf(v)
                 /\ Becomes(Give(Alloc(s1, "nodes", NodeCell(rest)), root))
              \/ /\ Cardinality(DOMAIN rest) > 1
                 /\ root' = root
                 /\ Becomes([s1 EXCEPT !.m["nodes"][root.u] = NodeCell(rest)])
           /\ root' = Null => DOMAIN rest = {}
    BY DEF RemoveKey, NodeOf, Null
  <1>2. /\ s2 \in Store /\ new \in [L -> Unit] /\ Leaves(s2, L, new)
        /\ s2.m["nodes"] = s.m["nodes"] /\ s2.h["nodes"] = s.h["nodes"]
        /\ s2.f["nodes"] = s.f["nodes"]
    <2>1. LeafGone(s, s2, K, loc, k)
      BY LeafTaken
    <2> QED
      BY <2>1 DEF LeafGone
  <1>3. s.m = mem /\ L \in SUBSET Keys
    BY DEF Carving
  <1>4. \A H : Fits(s, "nodes", H) => Fits(s2, "nodes", H)
    BY <1>2, FitsElsewhere
  <1>5. CASE root.tag = "leaf" /\ root # Null /\ OfLeaf(s, root, K, loc)
    <2>1. K = {k} /\ root = LeafOf(u) /\ Fits(s2, "nodes", {})
      BY <1>4, <1>5 DEF OfLeaf
    <2>2. L = {} /\ root' = Null /\ Becomes(s2)
      BY <1>1, <1>5, <2>1
    <2> HIDE DEF s2, L, new
    <2>3. Top(s2, Null, L, new)
      BY <2>1, <2>2 DEF Top
    <2> QED
      BY <1>2, <2>2, <2>3, StoreIs DEF Holds, L
  <1>6. CASE root.tag = "node" /\ root # Null /\ OfNode(s, root, K, loc)
    <2> DEFINE w == root.u
    <2>1. w \in Unit /\ root = NodeOf(w) /\ Fits(s2, "nodes", {w})
      BY <1>4, <1>6 DEF OfNode
    <2>2. Kids = Over(K, loc)
      <3>1. s.m["nodes"][root.u] = NodeCell(Over(K, loc))
        BY <1>6 DEF OfNode
      <3>2. Cell(root) = NodeCell(Over(K, loc))
        BY <1>3, <2>1, <3>1, Cellar DEF Cell
      <3> QED
        BY <3>2 DEF Kids, NodeCell
    <2>3. rest = Over(L, new) /\ DOMAIN rest = L /\ s1 = s2
      BY <2>2 DEF Over, Without
    <2>4. L # {} \/ Cardinality(L) = 0
      BY FS_EmptySet
    <2> HIDE DEF s1, s2, L, new, rest, s
    <2>5. CASE root' = Null
      <3> DEFINE t == Give(s2, NodeOf(w))
      <3>1. L = {} /\ Becomes(t)
        BY <1>1, <1>6, <2>1, <2>3, <2>5, Cellar DEF NodeOf, Null
      <3>2. t \in Store /\ Leaves(t, L, new) /\ Fits(t, "nodes", {w} \ {w})
        BY <1>2, <2>1, NodeTaken
      <3>3. {w} \ {w} = {}
        OBVIOUS
      <3> HIDE DEF t
      <3>4. Top(t, Null, L, new)
        BY <3>1, <3>2, <3>3 DEF Top
      <3> QED
        BY <1>2, <2>5, <3>1, <3>2, <3>4, StoreIs DEF Holds, L
    <2>6. CASE root' # Null
      <3>1. L # {} /\ \/ root' = NodeOf(v)
                         /\ Becomes(Give(Alloc(s2, "nodes", NodeCell(Over(L, new))), NodeOf(w)))
                      \/ root' = root
                         /\ Becomes([s2 EXCEPT !.m["nodes"][w] = NodeCell(Over(L, new))])
        BY <1>1, <1>6, <2>1, <2>3, <2>4, <2>6, Cellar
      <3>2. v = NextUnit(s2, "nodes")
        BY <2>3
      <3> HIDE DEF w, v
      <3> DEFINE t1 == Give(Alloc(s2, "nodes", NodeCell(Over(L, new))), NodeOf(w))
                 t2 == [s2 EXCEPT !.m["nodes"][w] = NodeCell(Over(L, new))]
      <3>3. t1 \in Store /\ Holds(t1, NodeOf(v), L) /\ t2 \in Store /\ Holds(t2, NodeOf(w), L)
        BY <1>2, <1>3, <2>1, <3>1, <3>2, NodeReplaced, NodeRewritten
      <3> HIDE DEF t1, t2
      <3>4. \/ root' = NodeOf(v) /\ Carving' = t1
            \/ root' = NodeOf(w) /\ Carving' = t2
        BY <2>1, <3>1, <3>3, StoreIs DEF t1, t2
      <3> QED
        BY <3>3, <3>4 DEF L
    <2> QED
      BY <2>5, <2>6
  <1> QED
    BY <1>0, <1>5, <1>6 DEF OfNull

-----------------------------------------------------------------------------
(* ~map.                                                                   *)

\* What the blocks below the node come to, freed one after the other.
GivenAll(G) ==
  G = [S \in SUBSET Keys |->
         IF S = {} THEN Carving
         ELSE LET k == CHOOSE x \in S : TRUE IN Give(G[S \ {k}], Kids[k])]

\* The recursive function in DestroyMap is well defined.
LEMMA GivenAllExists == \E G : GivenAll(G)
  <1> DEFINE Upto(n, G) ==
               G = [S \in {T \in SUBSET Keys : Cardinality(T) <= n} |->
                      IF S = {} THEN Carving
                      ELSE LET k == CHOOSE x \in S : TRUE IN Give(G[S \ {k}], Kids[k])]
             Bad == {n \in Nat : ~\E G : Upto(n, G)}
  <1>1. ASSUME NEW T \in SUBSET Keys
        PROVE  /\ Cardinality(T) \in Nat /\ Cardinality(T) <= Cardinality(Keys)
               /\ Cardinality(T) = 0 <=> T = {}
               /\ \A x \in T : Cardinality(T \ {x}) = Cardinality(T) - 1
    <2>1. IsFiniteSet(T) /\ Cardinality(T) <= Cardinality(Keys)
      BY KeysAssumption, FS_Subset
    <2> QED
      BY <2>1, FS_CardinalityType, FS_EmptySet, FS_RemoveElement
  <1>2. SUFFICES Bad = {}
    <2>1. Cardinality(Keys) \in Nat
      BY UnitFacts
    <2>2. PICK G : Upto(Cardinality(Keys), G)
      BY <1>2, <2>1
    <2>3. {T \in SUBSET Keys : Cardinality(T) <= Cardinality(Keys)} = SUBSET Keys
      BY <1>1
    <2>4. GivenAll(G)
      BY <2>2, <2>3 DEF GivenAll
    <2> QED
      BY <2>4
  <1> SUFFICES ASSUME Bad # {} PROVE FALSE
    OBVIOUS
  <1>3. \E n \in Bad : \A m \in Bad : ~(<<m, n>> \in {ss \in Nat \X Nat : ss[1] < ss[2]})
    <2>1. IsWellFoundedOn({ss \in Nat \X Nat : ss[1] < ss[2]}, Nat)
      BY NatLessThanWellFounded DEF OpToRel
    <2>2. Bad \subseteq Nat
      OBVIOUS
    <2> HIDE DEF Bad
    <2> QED
      BY <2>1, <2>2, WFMin
  <1>4. PICK n \in Bad : \A m \in Bad : ~(m < n)
    <2>1. Bad \subseteq Nat
      OBVIOUS
    <2> HIDE DEF Bad
    <2> QED
      BY <1>3, <2>1
  <1>5. n \in Nat
    OBVIOUS
  <1>6. CASE n = 0
    <2> DEFINE D == {T \in SUBSET Keys : Cardinality(T) <= 0}
               R == [S \in D |-> Carving]
    <2>1. \A S \in D : S = {}
      BY <1>1
    <2>2. Upto(0, R)
      BY <2>1
    <2> QED
      BY <1>6, <2>2
  <1>7. CASE n # 0
    <2>1. n - 1 \in Nat /\ n - 1 < n /\ n - 1 \notin Bad
      <3> HIDE DEF Bad
      <3> QED
        BY <1>4, <1>5, <1>7
    <2>2. PICK Q : Upto(n - 1, Q)
      BY <2>1
    <2> DEFINE C == {T \in SUBSET Keys : Cardinality(T) <= n - 1}
               D == {T \in SUBSET Keys : Cardinality(T) <= n}
               Pick(S) == CHOOSE x \in S : TRUE
               Fill(S) == Give(Q[S \ {Pick(S)}], Kids[Pick(S)])
               R == [S \in D |-> IF Cardinality(S) = n THEN Fill(S) ELSE Q[S]]
    <2>3. \A S \in C : Q[S] = IF S = {} THEN Carving ELSE Fill(S)
      BY <2>2
    <2>4. \A S \in D : /\ Cardinality(S) # n => S \in C
                       /\ S # {} => /\ S \ {Pick(S)} \in C /\ S \ {Pick(S)} \in D
                                    /\ Cardinality(S \ {Pick(S)}) # n
                       /\ Cardinality(S) = n => S # {}
      <3> SUFFICES ASSUME NEW S \in D
                   PROVE  /\ Cardinality(S) # n => S \in C
                          /\ S # {} => /\ S \ {Pick(S)} \in C /\ S \ {Pick(S)} \in D
                                       /\ Cardinality(S \ {Pick(S)}) # n
                          /\ Cardinality(S) = n => S # {}
        OBVIOUS
      <3>1. /\ S \in SUBSET Keys /\ Cardinality(S) \in Nat /\ Cardinality(S) <= n
            /\ Cardinality(S) = 0 <=> S = {}
        BY <1>1
      <3>2. ASSUME S # {}
            PROVE  Cardinality(S \ {Pick(S)}) = Cardinality(S) - 1 /\ S \ {Pick(S)} \in SUBSET Keys
        <4>1. Pick(S) \in S
          BY <3>2
        <4> QED
          BY <1>1, <3>1, <4>1
      <3> HIDE DEF Pick
      <3> QED
        BY <1>5, <1>7, <3>1, <3>2
    <2>5. \A S \in D : R[S] = IF S = {} THEN Carving ELSE Give(R[S \ {Pick(S)}], Kids[Pick(S)])
      <3> SUFFICES ASSUME NEW S \in D
                   PROVE  R[S] = IF S = {} THEN Carving
                                 ELSE Give(R[S \ {Pick(S)}], Kids[Pick(S)])
        OBVIOUS
      <3>1. S # {} => R[S \ {Pick(S)}] = Q[S \ {Pick(S)}]
        BY <2>4
      <3>2. R[S] = IF S = {} THEN Carving ELSE Fill(S)
        <4>1. CASE Cardinality(S) = n
          BY <2>4, <4>1
        <4>2. CASE Cardinality(S) # n
          BY <2>3, <2>4, <4>2
        <4> QED
          BY <4>1, <4>2
      <3> HIDE DEF R, Pick
      <3> QED
        BY <3>1, <3>2
    <2>6. Upto(n, R)
      BY <2>5
    <2> QED
      BY <2>6
  <1> QED
    BY <1>6, <1>7

\* Whatever it frees, the carving keeps its type.
LEMMA GivenAllType ==
  ASSUME Carving \in Store, NEW G, GivenAll(G), NEW K \in SUBSET Keys,
         \A k \in K : Kids[k] \in Handle
  PROVE  G[K] \in Store
  <1> DEFINE Bad == {n \in Nat : \E S \in SUBSET K : Cardinality(S) = n /\ G[S] \notin Store}
  <1>1. ASSUME NEW T \in SUBSET K
        PROVE  /\ T \in SUBSET Keys /\ Cardinality(T) \in Nat
               /\ \A x \in T : Cardinality(T \ {x}) = Cardinality(T) - 1
    <2>1. IsFiniteSet(T)
      BY KeysAssumption, FS_Subset
    <2> QED
      BY <2>1, FS_CardinalityType, FS_RemoveElement
  <1>2. SUFFICES ASSUME Bad # {} PROVE FALSE
    BY <1>1, <1>2
  <1>3. \E n \in Bad : \A m \in Bad : ~(<<m, n>> \in {ss \in Nat \X Nat : ss[1] < ss[2]})
    <2>1. IsWellFoundedOn({ss \in Nat \X Nat : ss[1] < ss[2]}, Nat)
      BY NatLessThanWellFounded DEF OpToRel
    <2>2. Bad \subseteq Nat
      OBVIOUS
    <2> HIDE DEF Bad
    <2> QED
      BY <1>2, <2>1, <2>2, WFMin
  <1>4. PICK n \in Bad : \A m \in Bad : ~(m < n)
    <2>1. Bad \subseteq Nat
      OBVIOUS
    <2> HIDE DEF Bad
    <2> QED
      BY <1>3, <2>1
  <1>5. PICK S \in SUBSET K : Cardinality(S) = n /\ G[S] \notin Store
    OBVIOUS
  <1>6. S \in SUBSET Keys
    BY <1>1
  <1>7. CASE S = {}
    BY <1>5, <1>6, <1>7 DEF GivenAll
  <1>8. CASE S # {}
    <2> PICK k \in S : k = CHOOSE x \in S : TRUE
      BY <1>8
    <2>1. G[S] = Give(G[S \ {k}], Kids[k])
      BY <1>6, <1>8 DEF GivenAll
    <2>2. Cardinality(S \ {k}) = n - 1 /\ n - 1 \in Nat /\ n - 1 < n
      <3>1. S \in SUBSET K /\ S \ {k} \in SUBSET K /\ k \in S
        OBVIOUS
      <3>2. /\ Cardinality(S) \in Nat /\ Cardinality(S \ {k}) \in Nat
            /\ Cardinality(S \ {k}) = Cardinality(S) - 1
        BY <1>1, <3>1
      <3> QED
        BY <1>5, <3>2
    <2>3. n - 1 \notin Bad
      <3> HIDE DEF Bad
      <3> QED
        BY <1>4, <2>2
    <2>4. S \ {k} \in SUBSET K
      OBVIOUS
    <2>5. G[S \ {k}] \in Store
      BY <2>2, <2>3, <2>4
    <2>6. Kids[k] \in Handle
      OBVIOUS
    <2> QED
      BY <1>5, <2>1, <2>5, <2>6, GiveWrites
  <1> QED
    BY <1>7, <1>8

-----------------------------------------------------------------------------
(* Every step keeps the invariant.                                         *)

LEMMA CarvingStore ==
  ASSUME TypeOK
  PROVE  Carving \in Store /\ SavedCarving \in Store /\ Carving.m = mem /\ SavedCarving.m = mem
  BY DEF TypeOK, Carving, SavedCarving, Store

\* A new store: the blocks are blank, no list, nothing below the frontier.
LEMMA BlankStore ==
  /\ NoBlocks \in [Regions -> [Unit -> Cells]]
  /\ NoFrontier \in [Regions -> 0 .. Cap] /\ NoHeads \in [Regions -> Link]
  /\ Null \in Handle \cup {Null} /\ Zero \in Handle \cup {Null}
  BY UnitFacts DEF NoBlocks, NoFrontier, NoHeads, Cells, Link, Zero, Handle

\* ... which is what the map with no key needs.
LEMMA BlankHolds ==
  ASSUME NEW s, s.f = NoFrontier, s.h = NoHeads
  PROVE  Holds(s, Null, {})
  <1>1. ASSUME NEW r \in Regions
        PROVE  Fits(s, r, {})
    <2> DEFINE q == [i \in 1 .. 0 |-> 0]
    <2>1. /\ s.f[r] = 0 /\ s.h[r] = NIL
      BY DEF NoFrontier, NoHeads
    <2>2. q \in [1 .. 0 -> Unit] /\ 0 \in Nat /\ {q[i] : i \in 1 .. 0} = {} /\ 0 .. 0 - 1 = {}
      OBVIOUS
    <2> HIDE DEF q
    <2>3. Split(s, r, {}, 0, q)
      BY <2>1, <2>2 DEF Split
    <2> QED
      BY <2>2, <2>3 DEF Fits
  <1> DEFINE loc == [k \in {} |-> 0]
  <1>2. loc \in [{} -> Unit] /\ {loc[k] : k \in {}} = {}
    OBVIOUS
  <1> HIDE DEF loc
  <1>3. Leaves(s, {}, loc)
    BY <1>1, <1>2, Cellar DEF Leaves
  <1>4. Top(s, Null, {}, loc)
    BY <1>1, Cellar DEF Top
  <1> QED
    BY <1>2, <1>3, <1>4 DEF Holds

LEMMA HandleTyped ==
  ASSUME NEW s, NEW x, NEW K, Holds(s, x, K)
  PROVE  x \in Handle \cup {Null}
  <1> PICK loc \in [K -> Unit] : Top(s, x, K, loc)
    BY DEF Holds
  <1>1. x = Null \/ (\E k \in K : x = LeafOf(loc[k])) \/ (\E v \in Unit : x = NodeOf(v))
    BY DEF Top
  <1> QED
    BY <1>1, Cellar

\* The keys of the map that the process has open.
LEMMA OpenMap ==
  ASSUME IInv, proc = "mapped"
  PROVE  /\ KeysBelow(root) \in SUBSET Keys /\ Holds(Carving, root, KeysBelow(root))
         /\ count = Cardinality(KeysBelow(root)) /\ IsFiniteSet(KeysBelow(root))
         /\ count \in Nat
  <1> PICK K \in SUBSET Keys : Holds(Carving, root, K) /\ count = Cardinality(K)
    BY DEF IInv
  <1>1. KeysBelow(root) = K
    BY KeysFound
  <1>2. IsFiniteSet(K)
    BY KeysAssumption, FS_Subset
  <1>3. Cardinality(K) \in Nat
    BY <1>2, FS_CardinalityType
  <1> QED
    BY <1>1, <1>2, <1>3

LEMMA InitIInv == Init => IInv
  <1> SUFFICES ASSUME Init
               PROVE  IInv
    OBVIOUS
  <1>1. /\ sb.frontier = NoFrontier /\ sb.head = NoHeads /\ sb.root = Null /\ sb.count = 0
    BY DEF Init
  <1>2. TypeOK
    BY <1>1, BlankStore DEF Init, TypeOK
  <1> QED
    BY <1>2 DEF Init, IInv

\* Opening.
LEMMA OpenSteps ==
  ASSUME IInv, OpenFresh \/ OpenFails \/ OpenRejects \/ ReopenFails
  PROVE  IInv'
  <1>1. TypeOK'
    BY BlankStore DEF IInv, TypeOK, OpenFresh, OpenFails, OpenRejects, ReopenFails
  <1>2. CASE OpenFresh
    BY <1>1, <1>2 DEF IInv, OpenFresh
  <1>3. CASE OpenFails
    BY <1>1, <1>3 DEF IInv, OpenFails, SavedCarving
  <1>4. CASE OpenRejects
    BY <1>1, <1>4 DEF IInv, OpenRejects, SavedCarving
  <1>5. CASE ReopenFails
    BY <1>1, <1>5 DEF IInv, ReopenFails, SavedCarving, Carving
  <1> QED
    BY <1>2, <1>3, <1>4, <1>5

LEMMA StampStep ==
  ASSUME IInv, Stamp
  PROVE  IInv'
  <1>1. TypeOK'
    BY BlankStore, UnitFacts DEF IInv, TypeOK, Stamp
  <1> QED
    BY <1>1 DEF IInv, Stamp

LEMMA ReopenStep ==
  ASSUME IInv, Reopen
  PROVE  IInv'
  <1>1. TypeOK'
    BY DEF IInv, TypeOK, Reopen
  <1> QED
    BY <1>1 DEF IInv, Reopen, SavedCarving

LEMMA ConstructStep ==
  ASSUME IInv, Construct
  PROVE  IInv'
  <1>1. TypeOK'
    BY BlankStore DEF IInv, TypeOK, Construct
  <1>2. frontier' = NoFrontier /\ head' = NoHeads /\ root' = Null /\ count' = 0 /\ image' = "stamped"
    BY DEF IInv, Construct
  <1>3. Carving'.f = NoFrontier /\ Carving'.h = NoHeads
    BY <1>2 DEF Carving
  <1>4. Holds(Carving', root', {}) /\ count' = Cardinality({})
    BY <1>2, <1>3, BlankHolds, FS_EmptySet
  <1> QED
    BY <1>1, <1>2, <1>4 DEF IInv, Construct

\* An attach under the second rule: the superblock's map is the saved one.
LEMMA AttachStep ==
  ASSUME IInv, Attach, AttachesSaved
  PROVE  IInv'
  <1>1. TypeOK'
    BY DEF IInv, TypeOK, Attach
  <1>2. /\ image = "saved" /\ image' = "saved" /\ root' = sb.root /\ count' = sb.count
        /\ Carving' = SavedCarving /\ sb' = sb /\ saved' = saved /\ mem' = mem
        /\ frontier' = sb.frontier /\ head' = sb.head
    BY DEF IInv, Attach, Carving, SavedCarving
  <1>3. SavedCarving' = SavedCarving
    BY <1>2 DEF SavedCarving
  <1>4. saved \in SUBSET Keys /\ Holds(SavedCarving, sb.root, saved) /\ sb.count = Cardinality(saved)
    BY <1>2 DEF IInv, TypeOK
  <1> QED
    BY <1>1, <1>2, <1>3, <1>4 DEF IInv, Attach

\* insert and erase: the superblock is out of date, and the map has the new
\* set of keys.
LEMMA MapChanged ==
  ASSUME IInv, Mutates, NEW K \in SUBSET Keys, Carving' \in Store, Holds(Carving', root', K),
         count' = Cardinality(K)
  PROVE  IInv'
  <1>1. /\ frontier' \in [Regions -> 0 .. Cap] /\ head' \in [Regions -> Link]
        /\ mem' \in [Regions -> [Unit -> Cells]]
    <2>1. Carving'.f = frontier' /\ Carving'.h = head' /\ Carving'.m = mem'
      BY DEF Carving
    <2> QED
      BY <2>1, StoreFields
  <1>2. root' \in Handle \cup {Null}
    BY HandleTyped
  <1>3. count' \in Nat
    BY KeysAssumption, FS_Subset, FS_CardinalityType
  <1>4. TypeOK'
    BY <1>1, <1>2, <1>3 DEF IInv, TypeOK, Mutates
  <1> QED
    BY <1>4 DEF IInv, Mutates

LEMMA InsertStep ==
  ASSUME IInv, NEW k \in Keys, Insert(k)
  PROVE  IInv'
  <1> DEFINE K == KeysBelow(root)
  <1>1. Mutates /\ proc = "mapped" /\ k \notin K /\ count' = count + 1
    BY DEF Insert, Mutates
  <1>2. /\ K \in SUBSET Keys /\ Holds(Carving, root, K) /\ IsFiniteSet(K)
        /\ count = Cardinality(K)
    BY <1>1, OpenMap
  <1>3. Carving \in Store
    BY CarvingStore DEF IInv
  <1> HIDE DEF K
  <1>4. Carving' \in Store /\ Holds(Carving', root', K \cup {k})
    BY <1>1, <1>2, <1>3, InsertHolds
  <1>5. count' = Cardinality(K \cup {k}) /\ K \cup {k} \in SUBSET Keys
    BY <1>1, <1>2, FS_AddElement
  <1> QED
    BY <1>1, <1>4, <1>5, MapChanged

LEMMA RemoveStep ==
  ASSUME IInv, NEW k \in Keys, RemoveKey(k)
  PROVE  IInv'
  <1> DEFINE K == KeysBelow(root)
  <1>1. Mutates /\ proc = "mapped" /\ k \in K /\ count' = count - 1
    BY DEF RemoveKey, Mutates
  <1>2. /\ K \in SUBSET Keys /\ Holds(Carving, root, K) /\ IsFiniteSet(K)
        /\ count = Cardinality(K)
    BY <1>1, OpenMap
  <1>3. Carving \in Store
    BY CarvingStore DEF IInv
  <1> HIDE DEF K
  <1>4. Carving' \in Store /\ Holds(Carving', root', K \ {k})
    BY <1>1, <1>2, <1>3, RemoveHolds
  <1>5. count' = Cardinality(K \ {k}) /\ K \ {k} \in SUBSET Keys
    BY <1>1, <1>2, FS_RemoveElement
  <1> QED
    BY <1>1, <1>4, <1>5, MapChanged

LEMMA CheckpointStep ==
  ASSUME IInv, Checkpoint
  PROVE  IInv'
  <1> DEFINE K == KeysBelow(root)
  <1>1. /\ K \in SUBSET Keys /\ Holds(Carving, root, K) /\ count = Cardinality(K)
        /\ proc = "mapped" /\ stamp = "image"
    BY OpenMap DEF Checkpoint, IInv
  <1> HIDE DEF K
  <1>2. /\ sb'.frontier = frontier /\ sb'.head = head /\ sb'.root = root /\ sb'.count = count
        /\ image' = "saved" /\ saved' = K
    BY DEF Checkpoint, Superblock, K
  <1>3. /\ stamp' = stamp /\ mem' = mem /\ proc' = proc /\ frontier' = frontier
        /\ head' = head /\ root' = root /\ count' = count /\ leaked' = leaked
    BY DEF Checkpoint
  <1>4. TypeOK'
    BY <1>1, <1>2, <1>3 DEF IInv, TypeOK
  <1>5. Carving' = Carving /\ SavedCarving' = Carving
    BY <1>2, <1>3 DEF Carving, SavedCarving
  <1> QED
    BY <1>1, <1>2, <1>3, <1>4, <1>5 DEF IInv

LEMMA DetachStep ==
  ASSUME IInv, Detach
  PROVE  IInv'
  <1>1. TypeOK'
    BY BlankStore DEF IInv, TypeOK, Detach
  <1> QED
    BY <1>1 DEF IInv, Detach, SavedCarving

\* ~map under the first rule: it frees no block of a saved image.
LEMMA DestroyStep ==
  ASSUME IInv, DestroyMap, DetachesSaved
  PROVE  IInv'
  <1> DEFINE GiveAll == CHOOSE G : GivenAll(G)
             t == CASE root.tag = "null" -> Carving
                    [] root.tag = "leaf" -> Give(Carving, root)
                    [] root.tag = "node" -> Give(GiveAll[DOMAIN Kids], root)
  <1>1. Becomes(t)
    BY DEF DestroyMap, GivenAll
  <1>2. /\ proc = "mapped" /\ image # "saved" /\ root' = Null /\ count' = 0
        /\ proc' = "released" /\ stamp' = stamp /\ sb' = sb /\ image' = image
        /\ saved' = saved /\ leaked' = leaked
    BY DEF DestroyMap
  <1>3. GivenAll(GiveAll)
    BY GivenAllExists
  <1> HIDE DEF GiveAll
  <1> DEFINE K == KeysBelow(root)
  <1>4. K \in SUBSET Keys /\ Holds(Carving, root, K) /\ Carving \in Store
    BY <1>2, OpenMap, CarvingStore DEF IInv
  <1> HIDE DEF K
  <1> PICK loc \in [K -> Unit] : Top(Carving, root, K, loc)
    BY <1>4 DEF Holds
  <1>5. root \in Handle \cup {Null}
    BY DEF IInv, TypeOK
  <1>6. \/ root.tag = "null"
        \/ root.tag = "leaf" /\ root \in Handle
        \/ root.tag = "node" /\ root \in Handle /\ OfNode(Carving, root, K, loc)
    BY <1>5, TopCases
  <1>7. ASSUME root.tag = "node", root \in Handle, OfNode(Carving, root, K, loc)
        PROVE  GiveAll[DOMAIN Kids] \in Store
    <2>1. Cell(root) = NodeCell(Over(K, loc))
      BY <1>4, <1>7, CarvingStore, Cellar DEF OfNode, Cell, IInv
    <2>2. Kids = Over(K, loc)
      BY <2>1 DEF Kids, NodeCell
    <2>3. DOMAIN Kids = K /\ \A k \in K : Kids[k] \in Handle
      BY <2>2, Cellar DEF Over
    <2> QED
      BY <1>3, <1>4, <2>3, GivenAllType
  <1>8. t \in Store
    <2>1. CASE root.tag = "null"
      BY <1>4, <2>1
    <2>2. CASE root.tag = "leaf" /\ root \in Handle
      BY <1>4, <2>2, GiveWrites
    <2>3. CASE root.tag = "node" /\ root \in Handle /\ OfNode(Carving, root, K, loc)
      BY <1>7, <2>3, GiveWrites
    <2> QED
      BY <1>6, <2>1, <2>2, <2>3
  <1> HIDE DEF t
  <1>9. TypeOK'
    <2>1. frontier' = t.f /\ head' = t.h /\ mem' = t.m
      BY <1>1 DEF Becomes
    <2> QED
      BY <1>2, <1>8, <2>1, StoreFields DEF IInv, TypeOK
  <1> QED
    BY <1>2, <1>9 DEF IInv

LEMMA CloseStep ==
  ASSUME IInv, Close \/ Kill \/ Discard
  PROVE  IInv'
  <1>1. TypeOK'
    <2>1. CASE Close
      BY <2>1 DEF IInv, TypeOK, Close
    <2>2. CASE Kill
      BY <2>2, BlankStore DEF IInv, TypeOK, Kill
    <2>3. CASE Discard
      BY <2>3 DEF IInv, TypeOK, Discard
    <2> QED
      BY <2>1, <2>2, <2>3
  <1>2. CASE Close
    BY <1>1, <1>2 DEF IInv, Close, SavedCarving
  <1>3. CASE Kill
    BY <1>1, <1>3 DEF IInv, Kill, SavedCarving
  <1>4. CASE Discard
    BY <1>1, <1>4 DEF IInv, Discard
  <1> QED
    BY <1>2, <1>3, <1>4

LEMMA StutterStep ==
  ASSUME IInv, UNCHANGED vars
  PROVE  IInv'
  <1>1. TypeOK'
    BY DEF IInv, TypeOK, vars
  <1> QED
    BY <1>1 DEF IInv, vars, Carving, SavedCarving

LEMMA IInvHolds == DetachesSaved /\ AttachesSaved => (Spec => []IInv)
  <1> SUFFICES ASSUME DetachesSaved, AttachesSaved
               PROVE  Spec => []IInv
    OBVIOUS
  <1>1. IInv /\ [Next]_vars => IInv'
    BY OpenSteps, StampStep, ReopenStep, ConstructStep, AttachStep, InsertStep, RemoveStep,
       CheckpointStep, DetachStep, DestroyStep, CloseStep, StutterStep DEF Next
  <1> QED
    BY InitIInv, <1>1, PTL DEF Spec

-----------------------------------------------------------------------------
(* What follows from the invariant.                                        *)

\* Every variable of the store and of the process keeps its type, through
\* kills, reopens and whatever order of calls the two rules of the
\* documentation allow (line_pool::init_, checkpoint, map's attach).
THEOREM TypeCorrect == DetachesSaved /\ AttachesSaved => (Spec => []TypeOK)
  <1>1. IInv => TypeOK
    BY DEF IInv
  <1> QED
    BY <1>1, IInvHolds, PTL

\* The map over an image that nothing has changed since its checkpoint has
\* the keys and the count of the checkpointed map, also when the process was
\* killed and another one reopened the store and attached (pool.hpp,
\* checkpoint: "a later line_pool(dir) restores it").
THEOREM CheckpointKept == DetachesSaved /\ AttachesSaved => (Spec => []CheckpointSurvives)
  <1>1. ASSUME IInv
        PROVE  CheckpointSurvives
    <2> SUFFICES ASSUME proc = "mapped", image \in {"saved", "stamped"}
                 PROVE  KeysBelow(root) = saved /\ count = Cardinality(saved)
      BY DEF CheckpointSurvives
    <2>1. count = Cardinality(KeysBelow(root))
      BY <1>1, OpenMap
    <2>2. CASE image = "saved"
      <3>1. Carving = SavedCarving /\ root = sb.root
        BY <1>1, <2>2 DEF IInv, Carving, SavedCarving
      <3>2. Holds(Carving, root, saved) /\ saved \in SUBSET Keys
        BY <1>1, <2>2, <3>1 DEF IInv, TypeOK
      <3> QED
        BY <2>1, <3>2, KeysFound
    <2>3. CASE image = "stamped"
      <3>1. root = Null /\ saved = {}
        BY <1>1, <2>3 DEF IInv
      <3> QED
        BY <2>1, <3>1, Cellar DEF KeysBelow
    <2> QED
      BY <2>2, <2>3
  <1> QED
    BY <1>1, IInvHolds, PTL

\* The walk that Chain takes over the free list of region r.
Walk(r, R) ==
  R = [i \in 0 .. Cap |->
         IF i = 0 THEN {head[r]} \ {NIL}
         ELSE LET s == R[i - 1] IN s \cup ({mem[r][u].next : u \in s} \ {NIL})]

\* The recursive function in Chain is well defined.
LEMMA WalkExists == ASSUME NEW r PROVE \E R : Walk(r, R)
  <1> DEFINE Upto(n, R) ==
               R = [i \in 0 .. n |->
                      IF i = 0 THEN {head[r]} \ {NIL}
                      ELSE LET s == R[i - 1] IN s \cup ({mem[r][u].next : u \in s} \ {NIL})]
             Bad == {n \in Nat : ~\E R : Upto(n, R)}
  <1>1. SUFFICES ASSUME Bad # {} PROVE FALSE
    <2>1. Cap \notin Bad
      BY <1>1
    <2> QED
      BY <2>1, CapAssumption DEF Walk
  <1>2. \E n \in Bad : \A m \in Bad : ~(<<m, n>> \in {ss \in Nat \X Nat : ss[1] < ss[2]})
    <2>1. IsWellFoundedOn({ss \in Nat \X Nat : ss[1] < ss[2]}, Nat)
      BY NatLessThanWellFounded DEF OpToRel
    <2>2. Bad \subseteq Nat
      OBVIOUS
    <2> HIDE DEF Bad
    <2> QED
      BY <1>1, <2>1, <2>2, WFMin
  <1>3. PICK n \in Bad : \A m \in Bad : ~(m < n)
    BY <1>2
  <1>4. CASE n = 0
    <2> DEFINE R == [i \in 0 .. 0 |-> {head[r]} \ {NIL}]
    <2>1. Upto(0, R)
      OBVIOUS
    <2> QED
      BY <1>4, <2>1
  <1>5. CASE n # 0
    <2>1. n \in Nat /\ n - 1 \in Nat /\ n - 1 < n /\ n - 1 \notin Bad
      <3>1. n \in Nat
        OBVIOUS
      <3> HIDE DEF Bad
      <3> QED
        BY <1>3, <1>5, <3>1
    <2>2. PICK Q : Upto(n - 1, Q)
      BY <2>1
    <2> DEFINE s == Q[n - 1]
               R == [i \in 0 .. n |->
                       IF i = n THEN s \cup ({mem[r][u].next : u \in s} \ {NIL}) ELSE Q[i]]
    <2>3. \A i \in 0 .. n - 1 :
            Q[i] = IF i = 0 THEN {head[r]} \ {NIL}
                   ELSE LET q == Q[i - 1] IN q \cup ({mem[r][u].next : u \in q} \ {NIL})
      BY <2>2
    <2>4. \A i \in 0 .. n : i # n => i \in 0 .. n - 1 /\ R[i] = Q[i]
      BY <2>1
    <2>5. \A i \in 0 .. n : i # 0 => i - 1 \in 0 .. n /\ i - 1 # n /\ R[i - 1] = Q[i - 1]
      BY <2>1, <2>4
    <2>6. Upto(n, R)
      <3>1. ASSUME NEW i \in 0 .. n
            PROVE  R[i] = IF i = 0 THEN {head[r]} \ {NIL}
                          ELSE LET q == R[i - 1] IN q \cup ({mem[r][u].next : u \in q} \ {NIL})
        <4>1. CASE i = n
          BY <1>5, <2>1, <2>5, <4>1
        <4>2. CASE i # n
          BY <2>3, <2>4, <2>5, <4>2
        <4> QED
          BY <4>1, <4>2
      <3> QED
        BY <3>1
    <2> QED
      BY <2>6
  <1> QED
    BY <1>4, <1>5

LEMMA ChainIs ==
  ASSUME NEW r
  PROVE  \E R : Walk(r, R) /\ Chain(r) = R[Cap]
  <1> DEFINE R == CHOOSE Q : Walk(r, Q)
  <1>1. Walk(r, R)
    BY WalkExists
  <1>2. Chain(r) = R[Cap]
    BY DEF Chain, Walk
  <1> QED
    BY <1>1, <1>2

\* Different blocks of a region: there are Cap at most.
LEMMA ListShort ==
  ASSUME NEW n \in Nat, NEW q \in [1 .. n -> Unit], \A i, j \in 1 .. n : q[i] = q[j] => i = j
  PROVE  n <= Cap
  <1>1. Cap \in Nat
    BY UnitFacts
  <1>2. IsFiniteSet(Unit) /\ Cardinality(Unit) = Cap
    <2>1. 0 \in Int /\ Cap - 1 \in Int
      BY <1>1
    <2>2. /\ IsFiniteSet(0 .. Cap - 1)
          /\ Cardinality(0 .. Cap - 1) = IF 0 > Cap - 1 THEN 0 ELSE (Cap - 1) - 0 + 1
      BY <2>1, FS_Interval
    <2> QED
      BY <1>1, <2>2 DEF Unit
  <1>3. Cardinality(1 .. n) = n
    <2>1. 1 \in Int /\ n \in Int
      OBVIOUS
    <2>2. Cardinality(1 .. n) = IF 1 > n THEN 0 ELSE n - 1 + 1
      BY <2>1, FS_Interval
    <2> QED
      BY <2>2
  <1>4. q \in Injection(1 .. n, Unit)
    BY DEF Injection, IsInjective
  <1>5. Cardinality(1 .. n) <= Cardinality(Unit)
    BY <1>2, <1>4, FS_Injection
  <1> QED
    BY <1>2, <1>3, <1>5

\* The i + 1 topmost blocks of the stack.
Topmost(q, n, i) == {q[j] : j \in {k \in 1 .. n : k >= n - i}}

\* After i links the walk has these.
LEMMA WalkTakes ==
  ASSUME NEW r \in Regions, NEW H, NEW n \in Nat, NEW q \in [1 .. n -> Unit],
         Split(Carving, r, H, n, q), NEW R, Walk(r, R), NEW i \in 0 .. Cap
  PROVE  R[i] = Topmost(q, n, i)
  <1> DEFINE Tops(x) == {q[j] : j \in {k \in 1 .. n : k >= n - x}}
             Bad == {x \in 0 .. Cap : R[x] # Tops(x)}
  <1>1. SUFFICES ASSUME Bad # {} PROVE FALSE
    BY DEF Topmost
  <1>2. \E x \in Bad : \A y \in Bad : ~(<<y, x>> \in {ss \in Nat \X Nat : ss[1] < ss[2]})
    <2>1. IsWellFoundedOn({ss \in Nat \X Nat : ss[1] < ss[2]}, Nat)
      BY NatLessThanWellFounded DEF OpToRel
    <2>2. Bad \subseteq Nat
      BY UnitFacts
    <2> HIDE DEF Bad
    <2> QED
      BY <1>1, <2>1, <2>2, WFMin
  <1>3. PICK x \in Bad : \A y \in Bad : ~(y < x)
    <2>1. Bad \subseteq Nat
      BY UnitFacts
    <2> HIDE DEF Bad
    <2> QED
      BY <1>2, <2>1
  <1>4. x \in 0 .. Cap /\ x \in Nat /\ Cap \in Nat /\ R[x] # Tops(x)
    BY UnitFacts
  <1>5. /\ head[r] = IF n = 0 THEN NIL ELSE q[n]
        /\ \A j \in 1 .. n : mem[r][q[j]].next = IF j = 1 THEN NIL ELSE q[j - 1]
    <2>1. Carving.h = head /\ Carving.m = mem
      BY DEF Carving
    <2>2. \A y : FreeCell(y).next = y
      BY DEF FreeCell
    <2>3. ASSUME NEW j \in 1 .. n
          PROVE  mem[r][q[j]].next = IF j = 1 THEN NIL ELSE q[j - 1]
      <3>1. mem[r][q[j]] = FreeCell(IF j = 1 THEN NIL ELSE q[j - 1])
        BY <2>1 DEF Split
      <3> QED
        BY <2>2, <3>1
    <2>4. head[r] = IF n = 0 THEN NIL ELSE q[n]
      BY <2>1 DEF Split
    <2> QED
      BY <2>3, <2>4
  <1>6. \A j \in 1 .. n : q[j] # NIL
    BY UnitFacts
  <1>7. CASE x = 0
    <2>1. R[0] = {head[r]} \ {NIL}
      BY <1>4 DEF Walk
    <2>2. \A k \in 1 .. n : k >= n - 0 <=> k = n
      OBVIOUS
    <2>3. Tops(0) = {q[j] : j \in {k \in 1 .. n : k = n}}
      BY <2>2
    <2>4. CASE n = 0
      BY <1>4, <1>5, <1>7, <2>1, <2>3, <2>4
    <2>5. CASE n # 0
      <3>1. n \in 1 .. n
        BY <2>5
      <3> QED
        BY <1>4, <1>5, <1>6, <1>7, <2>1, <2>3, <2>5, <3>1
    <2> QED
      BY <2>4, <2>5
  <1>8. CASE x # 0
    <2>1. x - 1 \in 0 .. Cap /\ x - 1 < x
      BY <1>4, <1>8
    <2>2. R[x - 1] = Tops(x - 1)
      <3>1. x - 1 \notin Bad
        <4> HIDE DEF Bad
        <4> QED
          BY <1>3, <2>1
      <3> QED
        BY <2>1, <3>1
    <2>3. R[x] = R[x - 1] \cup ({mem[r][u].next : u \in R[x - 1]} \ {NIL})
      BY <1>4, <1>8 DEF Walk
    <2>4. ASSUME NEW u \in R[x]
          PROVE  u \in Tops(x)
      <3>1. CASE u \in Tops(x - 1)
        BY <1>4, <3>1
      <3>2. CASE u # NIL /\ u \in {mem[r][w].next : w \in Tops(x - 1)}
        <4> PICK j \in 1 .. n : j >= n - (x - 1) /\ u = mem[r][q[j]].next
          BY <3>2
        <4>1. j # 1 /\ u = q[j - 1]
          BY <1>5, <3>2
        <4>2. j - 1 \in 1 .. n /\ j - 1 >= n - x
          BY <1>4, <4>1
        <4> QED
          BY <4>1, <4>2
      <3> QED
        BY <2>2, <2>3, <3>1, <3>2
    <2>5. ASSUME NEW u \in Tops(x)
          PROVE  u \in R[x]
      <3> PICK j \in 1 .. n : j >= n - x /\ u = q[j]
        OBVIOUS
      <3>1. CASE j >= n - (x - 1)
        BY <2>2, <2>3, <3>1
      <3>2. CASE ~(j >= n - (x - 1))
        <4>1. j + 1 \in 1 .. n /\ j + 1 >= n - (x - 1) /\ j + 1 # 1 /\ (j + 1) - 1 = j
          BY <1>4, <1>8, <3>2
        <4>2. mem[r][q[j + 1]].next = q[j]
          BY <1>5, <4>1
        <4>3. q[j + 1] \in R[x - 1]
          BY <2>2, <4>1
        <4> QED
          BY <1>6, <2>3, <4>2, <4>3
      <3> QED
        BY <3>1, <3>2
    <2> QED
      BY <1>4, <2>4, <2>5
  <1> QED
    BY <1>7, <1>8

\* So the blocks on a free list are the ones that Fits says.
LEMMA ChainShares ==
  ASSUME NEW r \in Regions, NEW H, Fits(Carving, r, H)
  PROVE  H \cap Chain(r) = {} /\ H \cup Chain(r) = 0 .. frontier[r] - 1
  <1> PICK n \in Nat : \E q \in [1 .. n -> Unit] : Split(Carving, r, H, n, q)
    BY DEF Fits
  <1> PICK q \in [1 .. n -> Unit] : Split(Carving, r, H, n, q)
    OBVIOUS
  <1> PICK R : Walk(r, R) /\ Chain(r) = R[Cap]
    BY ChainIs
  <1>1. n <= Cap /\ Cap \in 0 .. Cap /\ Cap \in Nat
    <2>1. \A i, j \in 1 .. n : q[i] = q[j] => i = j
      BY DEF Split
    <2>2. n <= Cap
      BY <2>1, ListShort
    <2> QED
      BY <2>2, UnitFacts
  <1>2. Chain(r) = {q[j] : j \in {k \in 1 .. n : k >= n - Cap}}
    <2>1. R[Cap] = Topmost(q, n, Cap)
      BY <1>1, WalkTakes
    <2> QED
      BY <2>1 DEF Topmost
  <1>3. \A k \in 1 .. n : k >= n - Cap
    BY <1>1
  <1>4. Chain(r) = {q[j] : j \in 1 .. n}
    BY <1>2, <1>3
  <1> QED
    BY <1>4 DEF Split, Carving

\* In a process that has the map open, no block is both in the tree and on a
\* free list, and every block below the frontier is in one of the two: after
\* a reopen and attach as after any insert and erase (alloc_lines, free_lines,
\* commit_'s restore of the free lists).
THEOREM CarvingFits == DetachesSaved /\ AttachesSaved => (Spec => []CarvingFitsTree)
  <1>1. ASSUME IInv
        PROVE  CarvingFitsTree
    <2> SUFFICES ASSUME proc = "mapped", NEW r \in Regions
                 PROVE  /\ Held(root, r) \cap Chain(r) = {}
                        /\ Held(root, r) \cup Chain(r) = 0 .. frontier[r] - 1
      BY DEF CarvingFitsTree
    <2>1. PICK K \in SUBSET Keys : Holds(Carving, root, K)
      BY <1>1 DEF IInv
    <2> PICK loc \in [K -> Unit] : Leaves(Carving, K, loc) /\ Top(Carving, root, K, loc)
      BY <2>1 DEF Holds
    <2>2. Fits(Carving, r, Held(root, r))
      <3>1. \/ root.tag = "null" /\ root = Null /\ OfNull(Carving, K)
            \/ root.tag = "leaf" /\ root # Null /\ OfLeaf(Carving, root, K, loc)
            \/ root.tag = "node" /\ root # Null /\ OfNode(Carving, root, K, loc)
        BY TopCases
      <3>2. Fits(Carving, "terms", {loc[k] : k \in K}) /\ (r = "nodes" \/ r = "terms")
        BY DEF Leaves, Regions
      <3>3. CASE root.tag = "null" /\ root = Null /\ OfNull(Carving, K)
        <4>1. Held(root, r) = {} /\ K = {} /\ Fits(Carving, "nodes", {})
          BY <3>3 DEF Held, OfNull
        <4>2. {loc[k] : k \in K} = {}
          BY <4>1
        <4> QED
          BY <3>2, <4>1, <4>2
      <3>4. CASE root.tag = "leaf" /\ root # Null /\ OfLeaf(Carving, root, K, loc)
        <4> PICK k \in K : K = {k} /\ root = LeafOf(loc[k])
          BY <3>4 DEF OfLeaf
        <4>1. root.u = loc[k] /\ {loc[x] : x \in K} = {loc[k]}
          BY Cellar
        <4>2. Held(root, r) = IF r = "terms" THEN {loc[k]} ELSE {}
          BY <3>4, <4>1 DEF Held
        <4> QED
          BY <3>2, <3>4, <4>1, <4>2 DEF OfLeaf
      <3>5. CASE root.tag = "node" /\ root # Null /\ OfNode(Carving, root, K, loc)
        <4>1. /\ root.u \in Unit /\ root = NodeOf(root.u) /\ Fits(Carving, "nodes", {root.u})
              /\ Carving.m["nodes"][root.u] = NodeCell(Over(K, loc))
          BY <3>5 DEF OfNode
        <4>2. Cell(root) = NodeCell(Over(K, loc))
          BY <1>1, <4>1, CarvingStore, Cellar DEF Cell, IInv
        <4>3. Cell(root).kids = Over(K, loc)
          BY <4>2 DEF NodeCell
        <4>4. \A k \in K : Over(K, loc)[k].u = loc[k]
          BY Cellar DEF Over
        <4>5. DOMAIN Over(K, loc) = K
          BY DEF Over
        <4>6. {Cell(root).kids[k].u : k \in DOMAIN Cell(root).kids} = {loc[k] : k \in K}
          BY <4>3, <4>4, <4>5
        <4>7. Held(root, r) = IF r = "nodes" THEN {root.u} ELSE {loc[k] : k \in K}
          BY <3>5, <4>6 DEF Held
        <4> QED
          BY <3>2, <4>1, <4>7
      <3> QED
        BY <3>1, <3>3, <3>4, <3>5
    <2> QED
      BY <2>2, ChainShares
  <1> QED
    BY <1>1, IInvHolds, PTL

=============================================================================
