---------------------------- MODULE LinePoolProofs ----------------------------
(***************************************************************************)
(* Proofs about LinePool, for every FreeMax, Chunk, Cap and Sizes.         *)
(***************************************************************************)
EXTENDS LinePool, FiniteSetTheorems, WellFoundedInduction, TLAPS

-----------------------------------------------------------------------------
(* The helpers.                                                            *)

\* A commit rounds up: the chunks it maps cover what is needed.
LEMMA RoundUpCovers ==
  ASSUME NEW need \in Nat
  PROVE  RoundUp(need) \in Nat /\ need <= RoundUp(need)
  <1> DEFINE a == need + Chunk - 1
             q == a \div Chunk
  <1>1. Chunk \in Nat /\ Chunk > 0 /\ a \in Nat
    BY ChunkAssumption
  <1>2. q \in Nat /\ a < Chunk * (q + 1)
    BY <1>1, SMT
  <1>3. Chunk * (q + 1) = q * Chunk + Chunk
    BY <1>1, <1>2, SMT
  <1>4. q * Chunk \in Nat
    BY <1>1, <1>2, SMT
  <1> QED
    BY <1>1, <1>2, <1>3, <1>4 DEF RoundUp

\* What Extend and Remove do to the domain and to the values of a function.
LEMMA ExtendFacts ==
  ASSUME NEW f, NEW x, NEW v
  PROVE  /\ DOMAIN Extend(f, x, v) = DOMAIN f \cup {x}
         /\ Extend(f, x, v)[x] = v
         /\ \A y \in DOMAIN f : y # x => Extend(f, x, v)[y] = f[y]
  BY DEF Extend

LEMMA ExtendType ==
  ASSUME NEW S, NEW D, NEW f \in [D -> S], NEW x, NEW v \in S
  PROVE  Extend(f, x, v) \in [D \cup {x} -> S]
  BY DEF Extend

LEMMA RemoveFacts ==
  ASSUME NEW f, NEW x
  PROVE  /\ DOMAIN Remove(f, x) = DOMAIN f \ {x}
         /\ \A y \in DOMAIN f : y # x => Remove(f, x)[y] = f[y]
  BY DEF Remove

LEMMA RemoveType ==
  ASSUME NEW S, NEW D, NEW f \in [D -> S], NEW x
  PROVE  Remove(f, x) \in [D \ {x} -> S]
  BY DEF Remove

LEMMA ListOfInLists ==
  ASSUME NEW sz \in Nat
  PROVE  ListOf(sz) \in Lists
  BY FreeMaxAssumption DEF ListOf, Lists

-----------------------------------------------------------------------------
(* Type correctness.                                                       *)

LEMMA TypeInit == Init => TypeOK
  BY NILAssumption DEF Init, TypeOK, Lists

LEMMA TypeReuse ==
  ASSUME TypeOK, NEW sz \in Sizes, AllocReuse(sz)
  PROVE  TypeOK'
  <1> PICK u \in DOMAIN idle :
        /\ Unlinked(ListOf(sz), u)
        /\ live' = Extend(live, u, sz)
        /\ idle' = Remove(idle, u)
        /\ UNCHANGED <<frontier, committed>>
    BY DEF AllocReuse
  <1>1. u \in Nat /\ sz \in Nat \ {0} /\ link[u] \in Nat \cup {NIL}
    BY SizesAssumption DEF TypeOK
  <1>2. head' \in [Lists -> Nat \cup {NIL}]
    BY <1>1 DEF Unlinked, TypeOK
  <1>3. DOMAIN live' = DOMAIN live \cup {u} /\ live' \in [DOMAIN live \cup {u} -> Nat \ {0}]
    BY <1>1, ExtendFacts, ExtendType DEF TypeOK
  <1>4. DOMAIN idle' = DOMAIN idle \ {u}
    BY RemoveFacts
  <1>5. Remove(idle, u) \in [DOMAIN idle \ {u} -> Nat \ {0}]
    BY RemoveType DEF TypeOK
  <1>6. link' \in [DOMAIN idle' -> Nat \cup {NIL}]
    BY <1>1, <1>4 DEF Unlinked, TypeOK
  <1> QED
    BY <1>1, <1>2, <1>3, <1>4, <1>5, <1>6 DEF TypeOK

LEMMA TypeBump ==
  ASSUME TypeOK, NEW sz \in Sizes, AllocBump(sz)
  PROVE  TypeOK'
  <1>1. sz \in Nat \ {0} /\ frontier + sz \in Nat
    BY SizesAssumption DEF TypeOK
  <1>2. frontier' \in Nat /\ committed' \in Nat
    BY <1>1, RoundUpCovers DEF AllocBump, TypeOK
  <1>3. /\ DOMAIN live' = DOMAIN live \cup {frontier}
        /\ live' \in [DOMAIN live \cup {frontier} -> Nat \ {0}]
    BY <1>1, ExtendFacts, ExtendType DEF AllocBump, TypeOK
  <1> QED
    BY <1>2, <1>3 DEF AllocBump, TypeOK

LEMMA TypeFree ==
  ASSUME TypeOK, NEW u \in DOMAIN live, Free(u)
  PROVE  TypeOK'
  <1> DEFINE c == ListOf(live[u])
  <1>1. u \in Nat /\ live[u] \in Nat \ {0} /\ c \in Lists
    BY ListOfInLists DEF TypeOK
  <1>2. /\ link' = Extend(link, u, head[c]) /\ head' = [head EXCEPT ![c] = u]
        /\ idle' = Extend(idle, u, live[u]) /\ live' = Remove(live, u)
    BY DEF Free
  <1>3. head[c] \in Nat \cup {NIL} /\ head' \in [Lists -> Nat \cup {NIL}]
    BY <1>1, <1>2 DEF TypeOK
  <1>4. DOMAIN idle' = DOMAIN idle \cup {u} /\ DOMAIN live' = DOMAIN live \ {u}
    BY <1>2, ExtendFacts, RemoveFacts
  <1>5. Remove(live, u) \in [DOMAIN live \ {u} -> Nat \ {0}]
    BY RemoveType DEF TypeOK
  <1>6. Extend(idle, u, live[u]) \in [DOMAIN idle \cup {u} -> Nat \ {0}]
    BY <1>1, ExtendType DEF TypeOK
  <1>7. Extend(link, u, head[c]) \in [DOMAIN idle \cup {u} -> Nat \cup {NIL}]
    BY <1>3, ExtendType DEF TypeOK
  <1>8. DOMAIN idle' \subseteq Nat /\ DOMAIN live' \subseteq Nat
    BY <1>1, <1>4 DEF TypeOK
  <1> QED
    BY <1>2, <1>3, <1>4, <1>5, <1>6, <1>7, <1>8 DEF Free, TypeOK

\* Every variable keeps its type, for every geometry of the region.
THEOREM TypeCorrect == Spec => []TypeOK
  <1>1. ASSUME TypeOK, [Next]_vars
        PROVE  TypeOK'
    <2>1. ASSUME NEW sz \in Sizes, AllocReuse(sz) PROVE TypeOK'
      BY <1>1, <2>1, TypeReuse
    <2>2. ASSUME NEW sz \in Sizes, AllocBump(sz) PROVE TypeOK'
      BY <1>1, <2>2, TypeBump
    <2>3. ASSUME NEW u \in DOMAIN live, Free(u) PROVE TypeOK'
      BY <1>1, <2>3, TypeFree
    <2>4. CASE UNCHANGED vars
      BY <1>1, <2>4 DEF vars, TypeOK
    <2>5. ASSUME NEW sz \in Sizes, AllocThrows(sz) PROVE TypeOK'
      BY <2>4, <2>5 DEF AllocThrows
    <2> QED
      BY <1>1, <2>1, <2>2, <2>3, <2>4, <2>5 DEF Next
  <1> QED
    BY <1>1, TypeInit, PTL DEF Spec

-----------------------------------------------------------------------------
(* The blocks.  An allocation from a list and a free move a block between  *)
(* live and idle; an allocation from the frontier adds one.                *)

\* The lists hold blocks of one size, but for list 0, whose blocks are
\* looked at: an allocation gets a block of the size it asked for.
LEMMA FitIsExact ==
  ASSUME TypeOK, ListsExact, NEW sz \in Sizes, NEW u \in DOMAIN idle, Fit(sz, u)
  PROVE  idle[u] = sz
  <1>1. sz \in Nat \ {0} /\ idle[u] \in Nat \ {0} /\ u \in Nat
    BY SizesAssumption DEF TypeOK
  <1>2. CASE sz <= FreeMax
    <2>1. sz \in Lists /\ head[sz] = u /\ u # NIL
      BY <1>1, <1>2, FreeMaxAssumption, NILAssumption DEF Fit, Lists
    <2>2. ListOf(idle[u]) = sz
      BY <2>1 DEF ListsExact
    <2> QED
      BY <1>1, <2>2 DEF ListOf
  <1>3. CASE ~(sz <= FreeMax)
    BY <1>3 DEF Fit
  <1> QED
    BY <1>2, <1>3

LEMMA ReuseKeepsBlocks ==
  ASSUME TypeOK, Disjoint, ListsExact, NEW sz \in Sizes, AllocReuse(sz)
  PROVE  /\ Starts' = Starts
         /\ \A w \in Starts : SizeOf(w)' = SizeOf(w)
         /\ (DOMAIN live \cap DOMAIN idle)' = {}
         /\ UNCHANGED <<frontier, committed>>
  <1> PICK u \in DOMAIN idle :
        /\ Fit(sz, u)
        /\ live' = Extend(live, u, sz)
        /\ idle' = Remove(idle, u)
        /\ UNCHANGED <<frontier, committed>>
    BY DEF AllocReuse
  <1>1. idle[u] = sz
    BY FitIsExact
  <1>2. u \notin DOMAIN live
    BY DEF Disjoint
  <1>3. DOMAIN live' = DOMAIN live \cup {u} /\ DOMAIN idle' = DOMAIN idle \ {u}
    BY ExtendFacts, RemoveFacts
  <1>4. live'[u] = sz /\ \A w \in DOMAIN live : live'[w] = live[w]
    BY <1>2 DEF Extend
  <1>5. \A w \in DOMAIN idle \ {u} : idle'[w] = idle[w]
    BY RemoveFacts
  <1>6. Starts' = Starts /\ (DOMAIN live \cap DOMAIN idle)' = {}
    BY <1>3 DEF Starts, Disjoint
  <1>7. \A w \in Starts : SizeOf(w)' = SizeOf(w)
    BY <1>1, <1>2, <1>3, <1>4, <1>5 DEF Starts, SizeOf
  <1> QED
    BY <1>6, <1>7

LEMMA FreeKeepsBlocks ==
  ASSUME TypeOK, Disjoint, NEW u \in DOMAIN live, Free(u)
  PROVE  /\ Starts' = Starts
         /\ \A w \in Starts : SizeOf(w)' = SizeOf(w)
         /\ (DOMAIN live \cap DOMAIN idle)' = {}
         /\ UNCHANGED <<frontier, committed>>
  <1>1. /\ idle' = Extend(idle, u, live[u]) /\ live' = Remove(live, u)
        /\ UNCHANGED <<frontier, committed>>
    BY DEF Free
  <1>2. u \notin DOMAIN idle
    BY DEF Disjoint
  <1>3. DOMAIN idle' = DOMAIN idle \cup {u} /\ DOMAIN live' = DOMAIN live \ {u}
    BY <1>1, ExtendFacts, RemoveFacts
  <1>4. idle'[u] = live[u] /\ \A w \in DOMAIN idle : idle'[w] = idle[w]
    BY <1>1, <1>2 DEF Extend
  <1>5. \A w \in DOMAIN live \ {u} : live'[w] = live[w]
    BY <1>1, RemoveFacts
  <1>6. Starts' = Starts /\ (DOMAIN live \cap DOMAIN idle)' = {}
    BY <1>3 DEF Starts, Disjoint
  <1>7. \A w \in Starts : SizeOf(w)' = SizeOf(w)
    BY <1>2, <1>3, <1>4, <1>5 DEF Starts, SizeOf, Disjoint
  <1> QED
    BY <1>1, <1>6, <1>7

LEMMA BumpAddsBlock ==
  ASSUME TypeOK, Disjoint, InBounds, NEW sz \in Sizes, AllocBump(sz)
  PROVE  /\ Starts' = Starts \cup {frontier} /\ frontier \notin Starts
         /\ \A w \in Starts : SizeOf(w)' = SizeOf(w)
         /\ live'[frontier] = sz /\ frontier \in DOMAIN live'
         /\ (DOMAIN live \cap DOMAIN idle)' = {}
         /\ frontier' = frontier + sz
  <1>1. live' = Extend(live, frontier, sz) /\ idle' = idle /\ frontier' = frontier + sz
    BY DEF AllocBump
  <1>2. \A w \in Starts : w \in Nat /\ SizeOf(w) \in Nat \ {0}
    BY DEF Starts, SizeOf, TypeOK
  <1>3. frontier \notin Starts
    BY <1>2 DEF InBounds, TypeOK
  <1>4. /\ DOMAIN live' = DOMAIN live \cup {frontier} /\ live'[frontier] = sz
        /\ \A w \in DOMAIN live : live'[w] = live[w]
    BY <1>1, <1>3 DEF Starts, Extend
  <1>5. \A w \in Starts : SizeOf(w)' = SizeOf(w)
    BY <1>1, <1>3, <1>4 DEF Starts, SizeOf
  <1>6. (DOMAIN live \cap DOMAIN idle)' = {}
    BY <1>1, <1>3, <1>4 DEF Starts, Disjoint
  <1> QED
    BY <1>1, <1>3, <1>4, <1>5, <1>6 DEF Starts

-----------------------------------------------------------------------------
(* The free lists.                                                         *)

\* An unlink leaves proper lists, wherever in its list the block stands.
LEMMA ReuseKeepsLists ==
  ASSUME TypeOK, ListsExact, NEW sz \in Sizes, AllocReuse(sz)
  PROVE  ListsExact'
  <1> PICK u \in DOMAIN idle :
        /\ Fit(sz, u)
        /\ Unlinked(ListOf(sz), u)
        /\ idle' = Remove(idle, u)
    BY DEF AllocReuse
  <1> DEFINE c == ListOf(sz)
  <1>1. idle[u] = sz /\ sz \in Nat /\ c \in Lists
    BY FitIsExact, SizesAssumption, ListOfInLists
  <1>2. \A w \in DOMAIN idle : w \in Nat /\ w # NIL /\ ListOf(idle[w]) \in Lists
    BY NILAssumption, ListOfInLists DEF TypeOK
  <1>3. /\ DOMAIN idle' = DOMAIN idle \ {u}
        /\ \A w \in DOMAIN idle' : idle'[w] = idle[w]
    BY RemoveFacts
  <1>4. \A d \in Lists : head'[d] = IF d = c /\ head[d] = u THEN link[u] ELSE head[d]
    BY <1>1 DEF Unlinked, TypeOK
  <1>5. \A w \in DOMAIN idle' :
          link'[w] = IF link[w] = u THEN link[u] ELSE link[w]
    \* A link to u comes from u's own list.
    BY <1>1, <1>2, <1>3 DEF Unlinked, ListsExact, TypeOK
  <1>6. \A d \in Lists : head[d] = u => d = c
    BY <1>1, <1>2 DEF ListsExact
  <1>7. \A d \in Lists : head'[d] # NIL =>
          head'[d] \in DOMAIN idle' /\ ListOf(idle'[head'[d]]) = d
    <2> SUFFICES ASSUME NEW d \in Lists, head'[d] # NIL
                 PROVE  head'[d] \in DOMAIN idle' /\ ListOf(idle'[head'[d]]) = d
      OBVIOUS
    <2>1. CASE head[d] = u
      <3>1. d = c /\ head'[d] = link[u] /\ link[u] # u
        BY <1>4, <1>6, <2>1, <1>1 DEF ListsExact
      <3> QED
        BY <3>1, <1>1, <1>3 DEF ListsExact
    <2>2. CASE head[d] # u
      BY <1>3, <1>4, <2>2 DEF ListsExact
    <2> QED
      BY <2>1, <2>2
  <1>8. \A w \in DOMAIN idle' : link'[w] # NIL =>
          link'[w] \in DOMAIN idle' /\ ListOf(idle'[link'[w]]) = ListOf(idle'[w])
    <2> SUFFICES ASSUME NEW w \in DOMAIN idle', link'[w] # NIL
                 PROVE  link'[w] \in DOMAIN idle' /\ ListOf(idle'[link'[w]]) = ListOf(idle'[w])
      OBVIOUS
    <2>1. CASE link[w] = u
      <3>1. link'[w] = link[u] /\ link[u] # u /\ ListOf(idle[w]) = c
        BY <1>1, <1>2, <1>3, <1>5, <2>1 DEF ListsExact
      <3> QED
        BY <3>1, <1>1, <1>3 DEF ListsExact
    <2>2. CASE link[w] # u
      BY <1>3, <1>5, <2>2 DEF ListsExact
    <2> QED
      BY <2>1, <2>2
  <1>9. \A w \in DOMAIN idle' : Linked(ListOf(idle[w]), w)'
    <2> SUFFICES ASSUME NEW w \in DOMAIN idle'
                 PROVE  LET d == ListOf(idle[w])
                        IN  \/ head'[d] = w
                            \/ \E x \in DOMAIN idle' : ListOf(idle'[x]) = d /\ link'[x] = w
      BY <1>3 DEF Linked
    <2> DEFINE d == ListOf(idle[w])
    <2>1. w \in DOMAIN idle /\ w # u /\ d \in Lists /\ Linked(d, w)
      BY <1>2, <1>3 DEF ListsExact
    <2>2. CASE head[d] = w
      BY <1>4, <2>1, <2>2
    <2>3. CASE \E x \in DOMAIN idle \ {u} : ListOf(idle[x]) = d /\ link[x] = w
      BY <1>3, <1>5, <2>1, <2>3
    <2>4. CASE link[u] = w
      \* w takes u's place: behind u's predecessor, or as the head.
      <3>1. d = c
        BY <1>1, <1>2, <2>1, <2>4 DEF ListsExact
      <3>2. CASE head[c] = u
        BY <1>1, <1>4, <2>4, <3>1, <3>2
      <3>3. CASE \E x \in DOMAIN idle : ListOf(idle[x]) = c /\ link[x] = u
        <4> PICK x \in DOMAIN idle : ListOf(idle[x]) = c /\ link[x] = u
          BY <3>3
        <4>1. x # u
          BY <2>1, <2>4
        <4> QED
          BY <4>1, <1>3, <1>5, <2>4, <3>1
      <3> QED
        BY <3>2, <3>3, <1>1 DEF ListsExact, Linked
    <2> QED
      BY <2>1, <2>2, <2>3, <2>4 DEF Linked
  <1>10. \A w \in DOMAIN idle' : head'[ListOf(idle[w])] = w =>
           \A x \in DOMAIN idle' : link'[x] # w
    <2> SUFFICES ASSUME NEW w \in DOMAIN idle', head'[ListOf(idle[w])] = w,
                        NEW x \in DOMAIN idle', link'[x] = w
                 PROVE  FALSE
      OBVIOUS
    <2>1. w \in DOMAIN idle /\ w # u /\ x \in DOMAIN idle /\ x # u /\ ListOf(idle[w]) \in Lists
      BY <1>2, <1>3
    <2>2. CASE head[ListOf(idle[w])] = w
      <3>1. link[x] # w
        BY <2>1, <2>2 DEF ListsExact
      <3>2. link[x] = u /\ link[u] = w
        BY <3>1, <1>5
      <3> QED
        BY <3>2, <2>1, <2>2 DEF ListsExact
    <2>3. CASE head[ListOf(idle[w])] # w
      <3>1. ListOf(idle[w]) = c /\ head[c] = u /\ link[u] = w
        BY <1>4, <2>1, <2>3
      <3>2. link[x] = w \/ link[x] = u
        BY <1>5
      <3> QED
        BY <3>1, <3>2, <2>1, <1>1, <1>2 DEF ListsExact
    <2> QED
      BY <2>2, <2>3
  <1>11. \A w, x \in DOMAIN idle' : link'[w] # NIL /\ link'[w] = link'[x] => w = x
    BY <1>2, <1>3, <1>5 DEF ListsExact
  <1> QED
    BY <1>3, <1>7, <1>8, <1>9, <1>10, <1>11 DEF ListsExact

\* A push leaves proper lists: the old head is linked from the new one only.
LEMMA FreeKeepsLists ==
  ASSUME TypeOK, Disjoint, ListsExact, NEW u \in DOMAIN live, Free(u)
  PROVE  ListsExact'
  <1> DEFINE c == ListOf(live[u])
  <1>1. /\ link' = Extend(link, u, head[c]) /\ head' = [head EXCEPT ![c] = u]
        /\ idle' = Extend(idle, u, live[u])
    BY DEF Free
  <1>2. u \in Nat /\ u # NIL /\ u \notin DOMAIN idle /\ c \in Lists
    BY NILAssumption, ListOfInLists DEF TypeOK, Disjoint
  <1>3. \A w \in DOMAIN idle : w \in Nat /\ w # NIL /\ ListOf(idle[w]) \in Lists
    BY NILAssumption, ListOfInLists DEF TypeOK
  <1>4. /\ DOMAIN idle' = DOMAIN idle \cup {u}
        /\ idle'[u] = live[u] /\ \A w \in DOMAIN idle : idle'[w] = idle[w]
    BY <1>1, <1>2 DEF Extend
  <1>5. link'[u] = head[c] /\ \A w \in DOMAIN idle : link'[w] = link[w]
    BY <1>1, <1>2 DEF Extend, TypeOK
  <1>6. \A d \in Lists : head'[d] = IF d = c THEN u ELSE head[d]
    BY <1>1, <1>2 DEF TypeOK
  <1>7. \A d \in Lists : head'[d] # NIL =>
          head'[d] \in DOMAIN idle' /\ ListOf(idle'[head'[d]]) = d
    BY <1>4, <1>6 DEF ListsExact
  <1>8. \A w \in DOMAIN idle' : link'[w] # NIL =>
          link'[w] \in DOMAIN idle' /\ ListOf(idle'[link'[w]]) = ListOf(idle'[w])
    BY <1>2, <1>4, <1>5 DEF ListsExact
  <1>9. \A w \in DOMAIN idle' : Linked(ListOf(idle[w]), w)' \/ w = u
    <2> SUFFICES ASSUME NEW w \in DOMAIN idle
                 PROVE  LET d == ListOf(idle[w])
                        IN  \/ head'[d] = w
                            \/ \E x \in DOMAIN idle' : ListOf(idle'[x]) = d /\ link'[x] = w
      BY <1>4 DEF Linked
    <2> DEFINE d == ListOf(idle[w])
    <2>1. d \in Lists /\ Linked(d, w)
      BY <1>3 DEF ListsExact
    <2>2. CASE head[d] = w
      BY <1>4, <1>5, <1>6, <2>1, <2>2
    <2>3. CASE \E x \in DOMAIN idle : ListOf(idle[x]) = d /\ link[x] = w
      BY <1>4, <1>5, <2>3
    <2> QED
      BY <2>1, <2>2, <2>3 DEF Linked
  <1>10. head'[ListOf(idle'[u])] = u
    BY <1>2, <1>4, <1>6
  <1>11. \A w \in DOMAIN idle' : link'[w] # u
    BY <1>2, <1>4, <1>5 DEF ListsExact
  <1>12. \A w \in DOMAIN idle : head'[ListOf(idle[w])] = w =>
           \A x \in DOMAIN idle' : link'[x] # w
    BY <1>2, <1>3, <1>4, <1>5, <1>6 DEF ListsExact
  <1>13. \A w, x \in DOMAIN idle' : link'[w] # NIL /\ link'[w] = link'[x] => w = x
    BY <1>2, <1>4, <1>5 DEF ListsExact
  <1>14. \A w \in DOMAIN idle' : Linked(ListOf(idle[w]), w)'
    BY <1>9, <1>10 DEF Linked
  <1>15. \A w \in DOMAIN idle' : head'[ListOf(idle'[w])] = w =>
           \A x \in DOMAIN idle' : link'[x] # w
    BY <1>4, <1>11, <1>12
  <1> QED
    BY <1>7, <1>8, <1>13, <1>14, <1>15 DEF ListsExact

-----------------------------------------------------------------------------
(* Safety.                                                                 *)

IInv == TypeOK /\ Disjoint /\ InBounds /\ ListsExact /\ Covered

LEMMA IInvInit == Init => IInv
  <1> SUFFICES ASSUME Init PROVE IInv
    OBVIOUS
  <1>1. Starts = {} /\ DOMAIN idle = {} /\ DOMAIN live = {}
    BY DEF Init, Starts
  <1>2. TypeOK
    BY TypeInit
  <1>3. Disjoint /\ InBounds
    BY <1>1 DEF Init, Disjoint, InBounds
  <1>4. ListsExact /\ Covered
    BY <1>1 DEF Init, ListsExact, Covered
  <1> QED
    BY <1>2, <1>3, <1>4 DEF IInv

\* What holds of the blocks goes on to hold when they only change hands.
LEMMA SameBlocks ==
  ASSUME Disjoint, InBounds, Covered,
         Starts' = Starts, \A w \in Starts : SizeOf(w)' = SizeOf(w),
         (DOMAIN live \cap DOMAIN idle)' = {}, UNCHANGED <<frontier, committed>>
  PROVE  Disjoint' /\ InBounds' /\ Covered'
  <1>1. Disjoint'
    BY DEF Disjoint
  <1>2. InBounds'
    BY DEF InBounds
  <1>3. Covered'
    BY DEF Covered
  <1> QED
    BY <1>1, <1>2, <1>3

LEMMA BumpSafe ==
  ASSUME IInv, NEW sz \in Sizes, AllocBump(sz)
  PROVE  Disjoint' /\ InBounds' /\ ListsExact' /\ Covered'
  <1>1. /\ Starts' = Starts \cup {frontier} /\ frontier \notin Starts
        /\ \A w \in Starts : SizeOf(w)' = SizeOf(w)
        /\ live'[frontier] = sz /\ frontier \in DOMAIN live'
        /\ (DOMAIN live \cap DOMAIN idle)' = {}
        /\ frontier' = frontier + sz
    BY BumpAddsBlock DEF IInv
  <1>2. \A w \in {frontier} : SizeOf(w)' = sz
    BY <1>1 DEF SizeOf
  <1>3. sz \in Nat \ {0} /\ frontier \in Nat /\ committed \in Nat
    BY SizesAssumption DEF IInv, TypeOK
  <1>4. \A w \in Starts : w \in Nat /\ SizeOf(w) \in Nat \ {0} /\ w + SizeOf(w) <= frontier
    BY DEF IInv, TypeOK, InBounds, Starts, SizeOf
  <1>5. Disjoint'
    <2> SUFFICES ASSUME NEW v \in Starts', NEW w \in Starts', v < w
                 PROVE  v + SizeOf(v)' <= w
      BY <1>1 DEF Disjoint
    <2>1. CASE v \in Starts /\ w \in Starts
      BY <1>1, <2>1 DEF IInv, Disjoint
    <2>2. CASE v \in Starts /\ w = frontier
      BY <1>1, <1>4, <2>2
    <2>3. CASE v = frontier
      BY <1>1, <1>3, <1>4, <2>3
    <2> QED
      BY <1>1, <2>1, <2>2, <2>3
  <1>6. InBounds'
    <2>1. \A w \in Starts' : w + SizeOf(w)' <= frontier'
      BY <1>1, <1>2, <1>3, <1>4
    <2>2. frontier' <= committed' /\ (committed' > 0 => committed' <= Cap)
      BY <1>3, RoundUpCovers DEF AllocBump, IInv, InBounds
    <2> QED
      BY <2>1, <2>2 DEF InBounds
  <1>7. ListsExact'
    BY DEF AllocBump, IInv, ListsExact, Linked
  <1>8. Covered'
    <2> SUFFICES ASSUME NEW x \in 0 .. frontier' - 1
                 PROVE  \E w \in Starts' : w <= x /\ x < w + SizeOf(w)'
      BY DEF Covered
    <2>1. CASE x < frontier
      <3>1. x \in 0 .. frontier - 1
        BY <1>1, <1>3, <2>1
      <3>2. PICK w \in Starts : w <= x /\ x < w + SizeOf(w)
        BY <3>1 DEF IInv, Covered
      <3> QED
        BY <1>1, <3>2
    <2>2. CASE ~(x < frontier)
      <3>1. frontier <= x /\ x < frontier + sz
        BY <1>1, <1>3, <2>2
      <3> QED
        BY <1>1, <1>2, <3>1
    <2> QED
      BY <2>1, <2>2
  <1> QED
    BY <1>5, <1>6, <1>7, <1>8

LEMMA IInvNext == IInv /\ [Next]_vars => IInv'
  <1> SUFFICES ASSUME IInv, [Next]_vars PROVE IInv'
    OBVIOUS
  <1>1. ASSUME NEW sz \in Sizes, AllocReuse(sz) PROVE IInv'
    <2>1. TypeOK' /\ ListsExact'
      BY <1>1, TypeReuse, ReuseKeepsLists DEF IInv
    <2>2. Disjoint' /\ InBounds' /\ Covered'
      BY <1>1, ReuseKeepsBlocks, SameBlocks DEF IInv
    <2> QED
      BY <2>1, <2>2 DEF IInv
  <1>2. ASSUME NEW sz \in Sizes, AllocBump(sz) PROVE IInv'
    BY <1>2, TypeBump, BumpSafe DEF IInv
  <1>3. ASSUME NEW u \in DOMAIN live, Free(u) PROVE IInv'
    <2>1. TypeOK' /\ ListsExact'
      BY <1>3, TypeFree, FreeKeepsLists DEF IInv
    <2>2. Disjoint' /\ InBounds' /\ Covered'
      BY <1>3, FreeKeepsBlocks, SameBlocks DEF IInv
    <2> QED
      BY <2>1, <2>2 DEF IInv
  <1>4. CASE UNCHANGED vars
    BY <1>4 DEF vars, IInv, TypeOK, Disjoint, InBounds, ListsExact, Linked, Covered, Starts, SizeOf
  <1>5. ASSUME NEW sz \in Sizes, AllocThrows(sz) PROVE IInv'
    BY <1>4, <1>5 DEF AllocThrows
  <1> QED
    BY <1>1, <1>2, <1>3, <1>4, <1>5 DEF Next

THEOREM InductiveInvariant == Spec => []IInv
  BY IInvInit, IInvNext, PTL DEF Spec

\* No unit is ever in two blocks: the tree never gets memory that another
\* node, or a link of a free list, still occupies.
THEOREM BlocksDisjoint == Spec => []Disjoint
  <1>1. IInv => Disjoint
    BY DEF IInv
  <1> QED
    BY <1>1, InductiveInvariant, PTL

\* Every block lies in committed memory, below the cap.
THEOREM BlocksInBounds == Spec => []InBounds
  <1>1. IInv => InBounds
    BY DEF IInv
  <1> QED
    BY <1>1, InductiveInvariant, PTL

\* The intrusive lists stay proper through every push, pop and unlink.
THEOREM FreeListsExact == Spec => []ListsExact
  <1>1. IInv => ListsExact
    BY DEF IInv
  <1> QED
    BY <1>1, InductiveInvariant, PTL

\* The region never loses a unit.
THEOREM RegionCovered == Spec => []Covered
  <1>1. IInv => Covered
    BY DEF IInv
  <1> QED
    BY <1>1, InductiveInvariant, PTL
-----------------------------------------------------------------------------
(* Order on the lists.  ListsExact alone would allow a ring of freed       *)
(* blocks that no head leads to; that every block has a place on its list  *)
(* excludes it.                                                            *)

\* at numbers the blocks of each list from its head.
Numbers(at) ==
  /\ \A c \in Lists : head[c] # NIL => at[head[c]] = 0
  /\ \A u \in DOMAIN idle : link[u] # NIL => at[link[u]] = at[u] + 1
  /\ \A u, w \in DOMAIN idle : ListOf(idle[u]) = ListOf(idle[w]) /\ at[u] = at[w] => u = w

\* Every freed block has a place on its list, and no two share one.
Placed == \E at \in [DOMAIN idle -> Nat] : Numbers(at)

\* An unlink moves the blocks behind it up by one place.
LEMMA ReuseKeepsPlaces ==
  ASSUME TypeOK, ListsExact, Placed, NEW sz \in Sizes, AllocReuse(sz)
  PROVE  Placed'
  <1> PICK u \in DOMAIN idle :
        /\ Fit(sz, u)
        /\ Unlinked(ListOf(sz), u)
        /\ idle' = Remove(idle, u)
    BY DEF AllocReuse
  <1> PICK at \in [DOMAIN idle -> Nat] : Numbers(at)
    BY DEF Placed
  <1> DEFINE c == ListOf(sz)
             new == [w \in DOMAIN idle' |->
                       IF ListOf(idle[w]) = c /\ at[w] > at[u] THEN at[w] - 1 ELSE at[w]]
  <1>1. idle[u] = sz /\ sz \in Nat /\ c \in Lists
    BY FitIsExact, SizesAssumption, ListOfInLists
  <1>2. \A w \in DOMAIN idle : w \in Nat /\ w # NIL /\ ListOf(idle[w]) \in Lists /\ at[w] \in Nat
    BY NILAssumption, ListOfInLists DEF TypeOK
  <1>3. /\ DOMAIN idle' = DOMAIN idle \ {u}
        /\ \A w \in DOMAIN idle' : idle'[w] = idle[w]
    BY RemoveFacts
  <1>4. \A d \in Lists : head'[d] = IF d = c /\ head[d] = u THEN link[u] ELSE head[d]
    BY <1>1 DEF Unlinked, TypeOK
  <1>5. \A w \in DOMAIN idle' :
          link'[w] = IF link[w] = u THEN link[u] ELSE link[w]
    BY <1>1, <1>2, <1>3 DEF Unlinked, ListsExact, TypeOK
  <1>6. \A d \in Lists : head[d] = u => d = c
    BY <1>1, <1>2 DEF ListsExact
  <1>7. new \in [DOMAIN idle' -> Nat]
    BY <1>1, <1>2, <1>3
  <1>8. \A d \in Lists : head'[d] # NIL => new[head'[d]] = 0
    <2> SUFFICES ASSUME NEW d \in Lists, head'[d] # NIL
                 PROVE  new[head'[d]] = 0
      OBVIOUS
    <2>1. CASE head[d] = u
      <3>1. d = c /\ head'[d] = link[u] /\ link[u] # NIL /\ at[u] = 0 /\ at[link[u]] = 1
        BY <1>2, <1>4, <1>6, <2>1 DEF Numbers
      <3>2. link[u] \in DOMAIN idle' /\ ListOf(idle[link[u]]) = c
        BY <1>1, <1>3, <3>1 DEF ListsExact
      <3> QED
        BY <3>1, <3>2
    <2>2. CASE head[d] # u
      <3>1. head'[d] = head[d] /\ head[d] \in DOMAIN idle' /\ at[head[d]] = 0
        BY <1>3, <1>4, <2>2 DEF ListsExact, Numbers
      <3> QED
        BY <1>2, <3>1
    <2> QED
      BY <2>1, <2>2
  <1>9. \A w \in DOMAIN idle' : link'[w] # NIL => new[link'[w]] = new[w] + 1
    <2> SUFFICES ASSUME NEW w \in DOMAIN idle', link'[w] # NIL
                 PROVE  new[link'[w]] = new[w] + 1
      OBVIOUS
    <2>1. w \in DOMAIN idle /\ w # u
      BY <1>3
    <2>2. CASE link[w] = u
      <3>1. link'[w] = link[u] /\ link[u] # NIL /\ at[u] = at[w] + 1 /\ at[link[u]] = at[u] + 1
        BY <1>2, <1>5, <2>1, <2>2 DEF Numbers
      <3>2. ListOf(idle[w]) = c
        BY <1>1, <1>2, <2>1, <2>2 DEF ListsExact
      <3>3. link[u] \in DOMAIN idle' /\ ListOf(idle[link[u]]) = c
        <4>1. link[u] \in DOMAIN idle /\ link[u] # u
          BY <1>2, <3>1 DEF ListsExact
        <4> QED
          BY <4>1, <1>1, <1>3, <3>1 DEF ListsExact
      <3>4. new[w] = at[w] /\ new[link[u]] = at[link[u]] - 1
        BY <1>2, <2>1, <3>1, <3>2, <3>3
      <3> QED
        BY <1>2, <2>1, <3>1, <3>4
    <2>3. CASE link[w] # u
      <3>1. link'[w] = link[w] /\ link[w] \in DOMAIN idle' /\ at[link[w]] = at[w] + 1
            /\ ListOf(idle[link[w]]) = ListOf(idle[w])
        BY <1>3, <1>5, <2>1, <2>3 DEF Numbers, ListsExact
      <3>2. ListOf(idle[w]) = c => at[w] # at[u]
        BY <1>1, <2>1 DEF Numbers
      <3>3. at[w] \in Nat /\ at[u] \in Nat
        BY <1>2, <2>1
      <3> QED
        BY <3>1, <3>2, <3>3
    <2> QED
      BY <2>2, <2>3
  <1>10. \A w, x \in DOMAIN idle' :
           ListOf(idle'[w]) = ListOf(idle'[x]) /\ new[w] = new[x] => w = x
    <2> SUFFICES ASSUME NEW w \in DOMAIN idle', NEW x \in DOMAIN idle',
                        ListOf(idle[w]) = ListOf(idle[x]), new[w] = new[x]
                 PROVE  w = x
      BY <1>3
    <2>1. w \in DOMAIN idle /\ x \in DOMAIN idle /\ w # u /\ x # u
          /\ at[w] \in Nat /\ at[x] \in Nat /\ at[u] \in Nat
      BY <1>2, <1>3
    <2>2. ListOf(idle[w]) = c => at[w] # at[u] /\ at[x] # at[u]
      BY <1>1, <2>1 DEF Numbers
    <2>3. at[w] = at[x]
      BY <2>1, <2>2
    <2> QED
      BY <2>1, <2>3 DEF Numbers
  <1> HIDE DEF new
  <1> QED
    BY <1>7, <1>8, <1>9, <1>10 DEF Placed, Numbers

\* A push takes place 0 and moves the others of its list down by one.
LEMMA FreeKeepsPlaces ==
  ASSUME TypeOK, Disjoint, ListsExact, Placed, NEW u \in DOMAIN live, Free(u)
  PROVE  Placed'
  <1> PICK at \in [DOMAIN idle -> Nat] : Numbers(at)
    BY DEF Placed
  <1> DEFINE c == ListOf(live[u])
             new == [w \in DOMAIN idle' |->
                       IF w = u THEN 0
                       ELSE IF ListOf(idle[w]) = c THEN at[w] + 1 ELSE at[w]]
  <1>1. /\ link' = Extend(link, u, head[c]) /\ head' = [head EXCEPT ![c] = u]
        /\ idle' = Extend(idle, u, live[u])
    BY DEF Free
  <1>2. u \in Nat /\ u # NIL /\ u \notin DOMAIN idle /\ c \in Lists
    BY NILAssumption, ListOfInLists DEF TypeOK, Disjoint
  <1>3. \A w \in DOMAIN idle : w \in Nat /\ w # NIL /\ ListOf(idle[w]) \in Lists /\ at[w] \in Nat
    BY NILAssumption, ListOfInLists DEF TypeOK
  <1>4. /\ DOMAIN idle' = DOMAIN idle \cup {u}
        /\ idle'[u] = live[u] /\ \A w \in DOMAIN idle : idle'[w] = idle[w]
    BY <1>1, <1>2 DEF Extend
  <1>5. link'[u] = head[c] /\ \A w \in DOMAIN idle : link'[w] = link[w]
    BY <1>1, <1>2 DEF Extend, TypeOK
  <1>6. \A d \in Lists : head'[d] = IF d = c THEN u ELSE head[d]
    BY <1>1, <1>2 DEF TypeOK
  <1>7. new \in [DOMAIN idle' -> Nat]
    BY <1>3, <1>4
  <1>8. /\ new[u] = 0
        /\ \A w \in DOMAIN idle : new[w] = IF ListOf(idle[w]) = c THEN at[w] + 1 ELSE at[w]
    BY <1>2, <1>4
  <1>9. \A d \in Lists : head'[d] # NIL => new[head'[d]] = 0
    BY <1>6, <1>8 DEF ListsExact, Numbers
  <1>10. \A w \in DOMAIN idle' : link'[w] # NIL => new[link'[w]] = new[w] + 1
    <2> SUFFICES ASSUME NEW w \in DOMAIN idle', link'[w] # NIL
                 PROVE  new[link'[w]] = new[w] + 1
      OBVIOUS
    <2>1. CASE w = u
      BY <1>2, <1>5, <1>8, <2>1 DEF ListsExact, Numbers
    <2>2. CASE w \in DOMAIN idle
      <3>1. link'[w] = link[w] /\ link[w] \in DOMAIN idle
            /\ ListOf(idle[link[w]]) = ListOf(idle[w]) /\ at[link[w]] = at[w] + 1
        BY <1>5, <2>2 DEF ListsExact, Numbers
      <3> QED
        BY <1>3, <1>8, <2>2, <3>1
    <2> QED
      BY <1>4, <2>1, <2>2
  <1>11. \A w, x \in DOMAIN idle' :
           ListOf(idle'[w]) = ListOf(idle'[x]) /\ new[w] = new[x] => w = x
    <2> SUFFICES ASSUME NEW w \in DOMAIN idle', NEW x \in DOMAIN idle',
                        ListOf(idle'[w]) = ListOf(idle'[x]), new[w] = new[x]
                 PROVE  w = x
      OBVIOUS
    <2>1. CASE w \in DOMAIN idle /\ x \in DOMAIN idle
      <3>1. ListOf(idle[w]) = ListOf(idle[x]) /\ at[w] = at[x]
        BY <1>3, <1>4, <1>8, <2>1
      <3> QED
        BY <2>1, <3>1 DEF Numbers
    <2>2. CASE w = u \/ x = u
      BY <1>3, <1>4, <1>8, <2>2
    <2> QED
      BY <1>4, <2>1, <2>2
  <1> HIDE DEF new
  <1> QED
    BY <1>7, <1>9, <1>10, <1>11 DEF Placed, Numbers

\* The freed blocks are at all times in a line behind their list's head.
THEOREM ListsInOrder == Spec => []Placed
  <1>1. Init => Placed
    <2> SUFFICES ASSUME Init PROVE Placed
      OBVIOUS
    <2>1. DOMAIN idle = {} /\ \A c \in Lists : head[c] = NIL
      BY DEF Init
    <2>2. [u \in {} |-> 0] \in [DOMAIN idle -> Nat]
      BY <2>1
    <2> QED
      BY <2>1, <2>2 DEF Placed, Numbers
  <1>2. ASSUME IInv, Placed, [Next]_vars
        PROVE  Placed'
    <2>1. ASSUME NEW sz \in Sizes, AllocReuse(sz) PROVE Placed'
      BY <1>2, <2>1, ReuseKeepsPlaces DEF IInv
    <2>2. ASSUME NEW u \in DOMAIN live, Free(u) PROVE Placed'
      BY <1>2, <2>2, FreeKeepsPlaces DEF IInv
    <2>3. ASSUME UNCHANGED <<head, link, idle>> PROVE Placed'
      BY <1>2, <2>3 DEF Placed, Numbers
    <2>4. ASSUME NEW sz \in Sizes, AllocBump(sz) \/ AllocThrows(sz) PROVE Placed'
      BY <2>3, <2>4 DEF AllocBump, AllocThrows, vars
    <2> QED
      BY <1>2, <2>1, <2>2, <2>3, <2>4 DEF Next, vars
  <1> QED
    BY <1>1, <1>2, InductiveInvariant, PTL DEF Spec

\* No place on a list is empty: a block behind place k has one at place k.
LEMMA PlacesFilled ==
  ASSUME TypeOK, ListsExact, NEW at \in [DOMAIN idle -> Nat], Numbers(at),
         NEW u \in DOMAIN idle, NEW k \in 0 .. at[u]
  PROVE  \E w \in DOMAIN idle : ListOf(idle[w]) = ListOf(idle[u]) /\ at[w] = k
  <1> DEFINE c == ListOf(idle[u])
             Filled(i) == \E w \in DOMAIN idle : ListOf(idle[w]) = c /\ at[w] = i
             Empty == {j \in Nat : j <= at[u] /\ ~Filled(at[u] - j)}
  <1>1. at[u] \in Nat /\ k \in Nat /\ k <= at[u] /\ at[u] - k \in Nat /\ at[u] - (at[u] - k) = k
    OBVIOUS
  <1>2. SUFFICES ASSUME ~Filled(k) PROVE FALSE
    OBVIOUS
  <1>3. at[u] - k \in Empty /\ Empty \subseteq Nat
    BY <1>1, <1>2
  <1>4. \E j \in Empty : \A i \in Empty : ~(<<i, j>> \in {ss \in Nat \X Nat : ss[1] < ss[2]})
    <2>1. IsWellFoundedOn({ss \in Nat \X Nat : ss[1] < ss[2]}, Nat)
      BY NatLessThanWellFounded DEF OpToRel
    <2> HIDE DEF Empty
    <2> QED
      BY <1>3, <2>1, WFMin
  <1>5. PICK j \in Empty : \A i \in Empty : ~(i < j)
    BY <1>4
  <1>6. j \in Nat /\ j # 0
    <2>1. Filled(at[u] - 0)
      BY <1>1
    <2> QED
      BY <2>1
  <1>7. j - 1 \in Nat /\ j - 1 < j /\ j - 1 <= at[u]
    BY <1>1, <1>6
  <1>8. Filled(at[u] - (j - 1))
    BY <1>5, <1>7
  <1>9. PICK w \in DOMAIN idle : ListOf(idle[w]) = c /\ at[w] = at[u] - (j - 1)
    BY <1>8
  <1>10. at[w] # 0 /\ w \in Nat /\ w # NIL /\ c \in Lists
    BY <1>1, <1>7, <1>9, NILAssumption, ListOfInLists DEF TypeOK
  <1>11. head[c] # w
    BY <1>10 DEF Numbers
  <1>12. PICK x \in DOMAIN idle : ListOf(idle[x]) = c /\ link[x] = w
    BY <1>9, <1>11 DEF ListsExact, Linked
  <1>13. at[w] = at[x] + 1 /\ at[x] \in Nat
    BY <1>10, <1>12 DEF Numbers
  <1>14. at[x] = at[u] - j
    BY <1>1, <1>7, <1>9, <1>13
  <1> QED
    BY <1>12, <1>14

\* The list of a freed block has a head.
LEMMA HeadStands ==
  ASSUME TypeOK, ListsExact, Placed, NEW u \in DOMAIN idle
  PROVE  head[ListOf(idle[u])] \in DOMAIN idle
  <1> DEFINE c == ListOf(idle[u])
  <1> PICK at \in [DOMAIN idle -> Nat] : Numbers(at)
    BY DEF Placed
  <1>1. 0 \in 0 .. at[u]
    OBVIOUS
  <1>2. PICK w \in DOMAIN idle : ListOf(idle[w]) = c /\ at[w] = 0
    BY <1>1, PlacesFilled
  <1>3. w \in Nat /\ w # NIL
    BY NILAssumption DEF TypeOK
  <1>4. \A x \in DOMAIN idle : link[x] # w
    <2> SUFFICES ASSUME NEW x \in DOMAIN idle, link[x] = w PROVE FALSE
      OBVIOUS
    <2>1. at[w] = at[x] + 1 /\ at[x] \in Nat
      BY <1>3 DEF Numbers
    <2> QED
      BY <1>2, <2>1
  <1> QED
    BY <1>2, <1>4 DEF ListsExact, Linked

-----------------------------------------------------------------------------
(* Growth.                                                                 *)

\* A freed block is one the next request of its size finds: its list has a
\* head that serves the request, or is the one that is searched.
LEMMA FreedIsFound ==
  ASSUME TypeOK, ListsExact, Placed, NEW u \in DOMAIN idle
  PROVE  ~NoFit(idle[u])
  <1>1. CASE idle[u] <= FreeMax
    <2>1. head[idle[u]] \in DOMAIN idle
      BY <1>1, HeadStands DEF ListOf
    <2> QED
      BY <1>1, <2>1 DEF NoFit, Fit
  <1>2. CASE ~(idle[u] <= FreeMax)
    <2>1. Linked(0, u)
      BY <1>2 DEF ListsExact, ListOf
    <2> QED
      BY <1>2, <2>1 DEF NoFit, Fit
  <1> QED
    BY <1>1, <1>2

\* The frontier moves only for want of a freed block of that size, by just
\* that size, and never back.
THEOREM GrowthIsNeeded == Spec => GrowsOnlyIfMust
  <1> DEFINE Grows == frontier' # frontier =>
                        /\ frontier' > frontier
                        /\ \A u \in DOMAIN idle : idle[u] # frontier' - frontier
  <1>1. ASSUME IInv, Placed, [Next]_vars
        PROVE  [Grows]_vars
    <2>1. ASSUME NEW sz \in Sizes, AllocBump(sz)
          PROVE  Grows
      <3>1. frontier \in Nat /\ sz \in Nat \ {0}
        BY <1>1, SizesAssumption DEF IInv, TypeOK
      <3>2. frontier' = frontier + sz /\ NoFit(sz)
        BY <2>1 DEF AllocBump
      <3>3. frontier' > frontier /\ frontier' - frontier = sz
        BY <3>1, <3>2
      <3>4. \A u \in DOMAIN idle : idle[u] # sz
        BY <1>1, <3>2, FreedIsFound DEF IInv
      <3> QED
        BY <3>3, <3>4
    <2>2. ASSUME UNCHANGED frontier PROVE Grows
      BY <2>2
    <2> QED
      BY <1>1, <2>1, <2>2 DEF Next, AllocReuse, AllocThrows, Free, vars
  <1> QED
    BY <1>1, InductiveInvariant, ListsInOrder, PTL DEF Spec, GrowsOnlyIfMust

-----------------------------------------------------------------------------
(* The walk over a list.                                                   *)

\* What a walk from head c has come by after i links.
Walk(c, R) ==
  R = [i \in 0 .. Cap |->
         IF i = 0 THEN {head[c]} \ {NIL}
         ELSE LET r == R[i - 1] IN r \cup ({link[u] : u \in r} \ {NIL})]

\* The recursive function in Chain is well defined: one exists up to any n.
LEMMA WalkExists == ASSUME NEW c PROVE \E R : Walk(c, R)
  <1> DEFINE Upto(n, R) ==
               R = [i \in 0 .. n |->
                      IF i = 0 THEN {head[c]} \ {NIL}
                      ELSE LET r == R[i - 1] IN r \cup ({link[u] : u \in r} \ {NIL})]
             Bad == {n \in Nat : ~\E R : Upto(n, R)}
  <1>1. SUFFICES ASSUME Bad # {} PROVE FALSE
    <2>1. Cap \notin Bad
      BY <1>1
    <2> QED
      BY <2>1, CapAssumption DEF Walk
  <1>2. \E n \in Bad : \A m \in Bad : ~(<<m, n>> \in {ss \in Nat \X Nat : ss[1] < ss[2]})
    <2>1. IsWellFoundedOn({ss \in Nat \X Nat : ss[1] < ss[2]}, Nat)
      BY NatLessThanWellFounded DEF OpToRel
    <2>2. Bad \subseteq Nat
      OBVIOUS
    <2> HIDE DEF Bad
    <2> QED
      BY <1>1, <2>1, <2>2, WFMin
  <1>3. PICK n \in Bad : \A m \in Bad : ~(m < n)
    BY <1>2
  <1>4. CASE n = 0
    <2> DEFINE R == [i \in 0 .. 0 |-> {head[c]} \ {NIL}]
    <2>1. Upto(0, R)
      OBVIOUS
    <2> QED
      BY <1>4, <2>1
  <1>5. CASE n # 0
    <2>1. n \in Nat /\ n - 1 \in Nat /\ n - 1 < n /\ n - 1 \notin Bad
      <3>1. n \in Nat
        OBVIOUS
      <3> HIDE DEF Bad
      <3> QED
        BY <1>3, <1>5, <3>1
    <2>2. PICK Q : Upto(n - 1, Q)
      BY <2>1
    <2> DEFINE r == Q[n - 1]
               R == [i \in 0 .. n |->
                       IF i = n THEN r \cup ({link[u] : u \in r} \ {NIL}) ELSE Q[i]]
    <2>3. \A i \in 0 .. n - 1 :
            Q[i] = IF i = 0 THEN {head[c]} \ {NIL}
                   ELSE LET q == Q[i - 1] IN q \cup ({link[u] : u \in q} \ {NIL})
      BY <2>2
    <2>4. \A i \in 0 .. n : i # n => i \in 0 .. n - 1 /\ R[i] = Q[i]
      BY <2>1
    <2>5. \A i \in 0 .. n : i # 0 => i - 1 \in 0 .. n /\ i - 1 # n /\ R[i - 1] = Q[i - 1]
      BY <2>1, <2>4
    <2>6. Upto(n, R)
      <3>1. ASSUME NEW i \in 0 .. n
            PROVE  R[i] = IF i = 0 THEN {head[c]} \ {NIL}
                          ELSE LET q == R[i - 1] IN q \cup ({link[u] : u \in q} \ {NIL})
        <4>1. CASE i = n
          BY <1>5, <2>1, <2>5, <4>1
        <4>2. CASE i # n
          BY <2>3, <2>4, <2>5, <4>2
        <4> QED
          BY <4>1, <4>2
      <3> QED
        BY <3>1
    <2> QED
      BY <2>6
  <1> QED
    BY <1>4, <1>5

LEMMA ChainIs ==
  ASSUME NEW c
  PROVE  \E R : Walk(c, R) /\ Chain(c) = R[Cap]
  <1> DEFINE R == CHOOSE Q : Walk(c, Q)
  <1>1. Walk(c, R)
    BY WalkExists
  <1>2. Chain(c) = R[Cap]
    BY DEF Chain, Walk
  <1> QED
    BY <1>1, <1>2

\* A place on a list is less than the capacity: the blocks before it all
\* start at different units of the region.
LEMMA PlaceBounded ==
  ASSUME IInv, NEW at \in [DOMAIN idle -> Nat], Numbers(at), NEW u \in DOMAIN idle
  PROVE  at[u] < Cap
  <1> DEFINE Image == {at[w] : w \in DOMAIN idle}
  <1>1. at[u] \in Nat /\ Cap \in Nat
    BY CapAssumption
  <1>2. \A w \in DOMAIN idle : w \in 0 .. Cap - 1
    <2> SUFFICES ASSUME NEW w \in DOMAIN idle PROVE w \in 0 .. Cap - 1
      OBVIOUS
    <2>1. w \in Nat /\ idle[w] \in Nat \ {0} /\ w + idle[w] <= frontier
          /\ frontier \in Nat /\ committed \in Nat
      BY DEF IInv, TypeOK, InBounds, Disjoint, Starts, SizeOf
    <2>2. frontier <= committed /\ (committed > 0 => committed <= Cap)
      BY DEF IInv, InBounds
    <2> QED
      BY <1>1, <2>1, <2>2
  <1>3. /\ IsFiniteSet(0 .. Cap - 1) /\ Cardinality(0 .. Cap - 1) = Cap
        /\ IsFiniteSet(0 .. at[u]) /\ Cardinality(0 .. at[u]) = at[u] + 1
    BY <1>1, <1>2, FS_Interval
  <1>4. IsFiniteSet(DOMAIN idle) /\ Cardinality(DOMAIN idle) <= Cap
    BY <1>2, <1>3, FS_Subset
  <1>5. IsFiniteSet(Image) /\ Cardinality(Image) <= Cardinality(DOMAIN idle)
    <2>1. at \in Surjection(DOMAIN idle, Image)
      BY DEF Surjection
    <2> HIDE DEF Image
    <2> QED
      BY <1>4, <2>1, FS_Surjection
  <1>6. 0 .. at[u] \subseteq Image
    BY PlacesFilled DEF IInv
  <1>7. Cardinality(0 .. at[u]) <= Cardinality(Image)
    BY <1>5, <1>6, FS_Subset
  <1>8. Cardinality(Image) \in Nat /\ Cardinality(DOMAIN idle) \in Nat
    BY <1>4, <1>5, FS_CardinalityType
  <1> HIDE DEF Image
  <1> QED
    BY <1>1, <1>3, <1>4, <1>5, <1>7, <1>8

\* A walk of i links comes by the first i + 1 blocks of its list.
LEMMA WalkFinds ==
  ASSUME TypeOK, ListsExact, NEW at \in [DOMAIN idle -> Nat], Numbers(at),
         NEW c \in Lists, NEW R, Walk(c, R), NEW i \in 0 .. Cap,
         NEW u \in DOMAIN idle, ListOf(idle[u]) = c, at[u] <= i
  PROVE  u \in R[i]
  <1> DEFINE Missed == {k \in 0 .. Cap :
               \E w \in DOMAIN idle : ListOf(idle[w]) = c /\ at[w] <= k /\ w \notin R[k]}
  <1>1. SUFFICES ASSUME Missed # {} PROVE FALSE
    OBVIOUS
  <1>2. \E k \in Missed : \A j \in Missed : ~(<<j, k>> \in {ss \in Nat \X Nat : ss[1] < ss[2]})
    <2>1. IsWellFoundedOn({ss \in Nat \X Nat : ss[1] < ss[2]}, Nat)
      BY NatLessThanWellFounded DEF OpToRel
    <2>2. Missed \subseteq Nat
      BY CapAssumption
    <2> HIDE DEF Missed
    <2> QED
      BY <1>1, <2>1, <2>2, WFMin
  <1>3. PICK k \in Missed : \A j \in Missed : ~(j < k)
    <2>1. Missed \subseteq Nat
      BY CapAssumption
    <2> HIDE DEF Missed
    <2> QED
      BY <1>2, <2>1
  <1>4. k \in 0 .. Cap /\ k \in Nat /\ Cap \in Nat
    BY CapAssumption
  <1>5. PICK w \in DOMAIN idle : ListOf(idle[w]) = c /\ at[w] <= k /\ w \notin R[k]
    OBVIOUS
  <1>6. w \in Nat /\ w # NIL /\ at[w] \in Nat
    BY NILAssumption DEF TypeOK
  <1>7. Linked(c, w)
    BY <1>5 DEF ListsExact
  <1>8. CASE k = 0
    <2>1. at[w] = 0 /\ R[0] = {head[c]} \ {NIL}
      BY <1>4, <1>5, <1>6, <1>8 DEF Walk
    <2>2. head[c] = w
      <3>1. ASSUME NEW x \in DOMAIN idle, link[x] = w PROVE FALSE
        <4>1. at[w] = at[x] + 1 /\ at[x] \in Nat
          BY <1>6, <3>1 DEF Numbers
        <4> QED
          BY <2>1, <4>1
      <3> QED
        BY <1>7, <3>1 DEF Linked
    <2> QED
      BY <1>5, <1>6, <1>8, <2>1, <2>2
  <1>9. CASE k # 0
    <2> DEFINE r == R[k - 1]
    <2>1. k - 1 \in 0 .. Cap /\ k - 1 < k
      BY <1>4, <1>9
    <2>2. k - 1 \notin Missed
      BY <1>3, <2>1
    <2>3. \A x \in DOMAIN idle : ListOf(idle[x]) = c /\ at[x] <= k - 1 => x \in r
      BY <2>1, <2>2
    <2>4. R[k] = r \cup ({link[x] : x \in r} \ {NIL})
      BY <1>4, <1>9 DEF Walk
    <2>5. ~(at[w] <= k - 1) /\ at[w] = k
      BY <1>4, <1>5, <1>6, <2>3, <2>4
    <2>6. head[c] # w
      BY <1>6, <1>9, <2>5 DEF Numbers
    <2>7. PICK x \in DOMAIN idle : ListOf(idle[x]) = c /\ link[x] = w
      BY <1>7, <2>6 DEF Linked
    <2>8. at[x] \in Nat /\ at[w] = at[x] + 1
      BY <1>6, <2>7 DEF Numbers
    <2>9. x \in r
      BY <1>4, <2>3, <2>5, <2>7, <2>8
    <2> QED
      BY <1>5, <1>6, <2>4, <2>7, <2>9
  <1> QED
    BY <1>8, <1>9

\* Every freed block is one that a walk over its list comes by.
THEOREM FreedReached == Spec => []Reached
  <1>1. IInv /\ Placed => Reached
    <2> SUFFICES ASSUME IInv, Placed, NEW u \in DOMAIN idle
                 PROVE  u \in Chain(ListOf(idle[u]))
      BY DEF Reached
    <2> DEFINE c == ListOf(idle[u])
    <2>1. c \in Lists /\ Cap \in 0 .. Cap
      BY ListOfInLists, CapAssumption DEF IInv, TypeOK
    <2> PICK at \in [DOMAIN idle -> Nat] : Numbers(at)
      BY DEF Placed
    <2> PICK R : Walk(c, R) /\ Chain(c) = R[Cap]
      BY ChainIs
    <2>2. at[u] <= Cap
      BY PlaceBounded, CapAssumption
    <2> QED
      BY <2>1, <2>2, WalkFinds DEF IInv
  <1> QED
    BY <1>1, InductiveInvariant, ListsInOrder, PTL

=============================================================================
