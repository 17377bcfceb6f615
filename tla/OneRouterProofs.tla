--------------------------- MODULE OneRouterProofs ---------------------------
(***************************************************************************)
(* One router through every layout: proofs.                                *)
(*                                                                         *)
(* A router carries a map from bytes to handles whatever its format: the   *)
(* stems, the bitmaps and ranks, the slots and the leaves in the line are  *)
(* ways to write down that map, and every operation of RouterFormats is    *)
(* shown to read or update it.  From this follow FindsEdges, LineSound and *)
(* StepsInOrder of OneRouter, for any widths and capacities.               *)
(***************************************************************************)
EXTENDS OneRouter, FiniteSetTheorems, SequenceTheorems, TLAPS

-----------------------------------------------------------------------------
(* Numbers.                                                                *)

\* Induction up to n, over a set.
LEMMA UpTo ==
  ASSUME NEW n \in Nat, NEW S, 0 \in S, \A i \in 0 .. n - 1 : i \in S => i + 1 \in S
  PROVE  \A i \in 0 .. n : i \in S
  <1> DEFINE Bad == {i \in 0 .. n : i \notin S}
  <1>1. SUFFICES ASSUME Bad # {} PROVE FALSE
    OBVIOUS
  <1>2. \E x \in Bad : \A y \in Bad : ~(<<y, x>> \in {ss \in Nat \X Nat : ss[1] < ss[2]})
    <2>1. IsWellFoundedOn({ss \in Nat \X Nat : ss[1] < ss[2]}, Nat)
      BY NatLessThanWellFounded DEF OpToRel
    <2>2. Bad \subseteq Nat
      OBVIOUS
    <2> HIDE DEF Bad
    <2> QED
      BY <1>1, <2>1, <2>2, WFMin
  <1>3. PICK x \in Bad : \A y \in Bad : ~(y < x)
    <2>1. Bad \subseteq Nat
      OBVIOUS
    <2> HIDE DEF Bad
    <2> QED
      BY <1>2, <2>1
  <1>4. x # 0 /\ x \in 1 .. n
    OBVIOUS
  <1>5. x - 1 \in 0 .. n - 1 /\ x - 1 < x
    BY <1>4
  <1>6. x - 1 \notin Bad
    <2> HIDE DEF Bad
    <2> QED
      BY <1>3, <1>5
  <1>7. x - 1 \in S
    BY <1>5, <1>6
  <1> QED
    BY <1>4, <1>5, <1>7

\* Division, as the prover can use it.
LEMMA Division ==
  ASSUME NEW x \in Int, NEW m \in Nat \ {0}
  PROVE  /\ x \div m \in Int /\ x % m \in 0 .. m - 1
         /\ x = (m * (x \div m)) + (x % m)
  OBVIOUS

\* There is one quotient and one rest.
LEMMA OneQuotient ==
  ASSUME NEW m \in Nat \ {0}, NEW p \in Int, NEW q \in Int,
         NEW a \in 0 .. m - 1, NEW b \in 0 .. m - 1, m * p + a < m * q + b
  PROVE  p < q \/ (p = q /\ a < b)
  <1>1. CASE q < p
    <2>1. q + 1 <= p
      BY <1>1
    <2>2. m * (q + 1) <= m * p
      BY <2>1
    <2>3. m * (q + 1) = m * q + m
      OBVIOUS
    <2> QED
      BY <2>2, <2>3
  <1>2. CASE q = p
    BY <1>2
  <1> QED
    BY <1>1, <1>2

LEMMA SameQuotient ==
  ASSUME NEW m \in Nat \ {0}, NEW p \in Int, NEW q \in Int,
         NEW a \in 0 .. m - 1, NEW b \in 0 .. m - 1, m * p + a = m * q + b
  PROVE  p = q /\ a = b
  <1>1. CASE q < p
    <2>1. q + 1 <= p
      BY <1>1
    <2>2. m * (q + 1) <= m * p /\ m * (q + 1) = m * q + m
      BY <2>1
    <2> QED
      BY <2>2
  <1>2. CASE p < q
    <2>1. p + 1 <= q
      BY <1>2
    <2>2. m * (p + 1) <= m * q /\ m * (p + 1) = m * p + m
      BY <2>1
    <2> QED
      BY <2>2
  <1>3. CASE p = q
    BY <1>3
  <1> QED
    BY <1>1, <1>2, <1>3

\* A multiple and a rest determine the quotient.
LEMMA QuotientIs ==
  ASSUME NEW m \in Nat \ {0}, NEW q \in Int, NEW a \in 0 .. m - 1, NEW x, x = m * q + a
  PROVE  x \div m = q /\ x % m = a
  <1> DEFINE p == x \div m
             b == x % m
  <1>1. x \in Int
    OBVIOUS
  <1>2. p \in Int /\ b \in 0 .. m - 1 /\ m * p + b = m * q + a
    BY <1>1, Division
  <1> HIDE DEF p, b
  <1>3. p = q /\ b = a
    BY <1>2, SameQuotient
  <1> QED
    BY <1>3 DEF p, b

-----------------------------------------------------------------------------
(* A finite set of numbers and its members in order.                       *)

Under(S, x) == {y \in S : y < x}

LEMMA CountUnder ==
  ASSUME NEW S \in SUBSET Int, IsFiniteSet(S), NEW x \in Int
  PROVE  /\ IsFiniteSet(Under(S, x)) /\ Cardinality(Under(S, x)) \in Nat /\ Cardinality(S) \in Nat
         /\ Cardinality(Under(S, x)) <= Cardinality(S)
         /\ x \in S => Cardinality(Under(S, x)) < Cardinality(S)
  <1>1. Under(S, x) \in SUBSET S /\ (x \in S => Under(S, x) # S)
    BY DEF Under
  <1>2. IsFiniteSet(Under(S, x)) /\ Cardinality(Under(S, x)) <= Cardinality(S)
        /\ (Cardinality(S) = Cardinality(Under(S, x)) => S = Under(S, x))
    BY <1>1, FS_Subset
  <1>3. Cardinality(Under(S, x)) \in Nat /\ Cardinality(S) \in Nat
    BY <1>2, FS_CardinalityType
  <1> QED
    BY <1>1, <1>2, <1>3

\* The number of smaller members tells the order.
LEMMA CountOrder ==
  ASSUME NEW S \in SUBSET Int, IsFiniteSet(S), NEW x \in Int, NEW y \in Int
  PROVE  /\ x <= y => Cardinality(Under(S, x)) <= Cardinality(Under(S, y))
         /\ x \in S /\ x < y => Cardinality(Under(S, x)) < Cardinality(Under(S, y))
  <1>1. /\ IsFiniteSet(Under(S, x)) /\ IsFiniteSet(Under(S, y))
        /\ Cardinality(Under(S, x)) \in Nat /\ Cardinality(Under(S, y)) \in Nat
    BY CountUnder
  <1>2. ASSUME x <= y
        PROVE  Cardinality(Under(S, x)) <= Cardinality(Under(S, y))
    <2>1. \A z \in S : z < x => z < y
      BY <1>2
    <2>2. Under(S, x) \in SUBSET Under(S, y)
      BY <2>1 DEF Under
    <2> QED
      BY <1>1, <2>2, FS_Subset
  <1>3. ASSUME x \in S, x < y
        PROVE  Cardinality(Under(S, x)) < Cardinality(Under(S, y))
    <2>0. \A z \in S : z < x => z < y
      BY <1>3
    <2>1. Under(S, x) \in SUBSET Under(S, y)
      BY <2>0 DEF Under
    <2>2. Under(S, x) # Under(S, y)
      BY <1>3 DEF Under
    <2>3. /\ Cardinality(Under(S, x)) <= Cardinality(Under(S, y))
          /\ Cardinality(Under(S, x)) # Cardinality(Under(S, y))
      BY <1>1, <2>1, <2>2, FS_Subset
    <2> QED
      BY <1>1, <2>3
  <1> QED
    BY <1>2, <1>3

LEMMA SameCount ==
  ASSUME NEW S \in SUBSET Int, IsFiniteSet(S), NEW x \in S, NEW y \in S,
         Cardinality(Under(S, x)) = Cardinality(Under(S, y))
  PROVE  x = y
  <1>1. /\ Cardinality(Under(S, x)) \in Nat /\ Cardinality(Under(S, y)) \in Nat
        /\ x \in Int /\ y \in Int
    BY CountUnder
  <1>2. /\ x < y => Cardinality(Under(S, x)) < Cardinality(Under(S, y))
        /\ y < x => Cardinality(Under(S, y)) < Cardinality(Under(S, x))
    BY <1>1, CountOrder
  <1> QED
    BY <1>1, <1>2

\* Every number up to the size of S is the place of a member.
LEMMA CountOnto ==
  ASSUME NEW S \in SUBSET Int, IsFiniteSet(S), NEW i \in 1 .. Cardinality(S)
  PROVE  \E x \in S : Cardinality(Under(S, x)) = i - 1
  <1> DEFINE n == Cardinality(S)
             T == 0 .. n - 1
             f == [x \in S |-> Cardinality(Under(S, x))]
  <1>1. n \in Nat /\ n - 1 \in Int /\ 0 \in Int
    BY FS_CardinalityType
  <1>2. \A x \in S : f[x] \in T
    <2> TAKE x \in S
    <2>1. Cardinality(Under(S, x)) \in Nat /\ Cardinality(Under(S, x)) < n /\ n \in Nat
      BY CountUnder
    <2> QED
      BY <2>1
  <1>3. IsFiniteSet(T) /\ Cardinality(T) = IF 0 > n - 1 THEN 0 ELSE (n - 1) - 0 + 1
    BY <1>1, FS_Interval
  <1>4. Cardinality(T) = n
    BY <1>1, <1>3
  <1>5. \A x, y \in S : f[x] = f[y] => x = y
    BY SameCount
  <1>6. f \in Injection(S, T)
    <2>1. f \in [S -> T]
      BY <1>2
    <2> HIDE DEF f, T
    <2> QED
      BY <2>1, <1>5 DEF Injection, IsInjective
  <1>7. f \in Surjection(S, T)
    <2> HIDE DEF f, T
    <2> QED
      BY <1>3, <1>4, <1>6, FS_Injection DEF n
  <1>8. i - 1 \in T
    BY <1>1
  <1>9. \E x \in S : f[x] = i - 1
    <2> HIDE DEF f, T
    <2> QED
      BY <1>7, <1>8 DEF Surjection
  <1> QED
    BY <1>9

\* Ascending lists each member once, in order.
LEMMA AscendingIs ==
  ASSUME NEW S \in SUBSET Int, IsFiniteSet(S)
  PROVE  /\ Cardinality(S) \in Nat
         /\ Ascending(S) \in [1 .. Cardinality(S) -> S]
         /\ Len(Ascending(S)) = Cardinality(S)
         /\ \A i \in 1 .. Cardinality(S) : Cardinality(Under(S, Ascending(S)[i])) = i - 1
         /\ \A x \in S : /\ Cardinality(Under(S, x)) + 1 \in 1 .. Cardinality(S)
                         /\ Ascending(S)[Cardinality(Under(S, x)) + 1] = x
         /\ \A i, j \in 1 .. Cardinality(S) : i < j => Ascending(S)[i] < Ascending(S)[j]
  <1> DEFINE n == Cardinality(S)
  <1>1. n \in Nat
    BY FS_CardinalityType
  <1>2. ASSUME NEW i \in 1 .. n
        PROVE  Ascending(S)[i] \in S /\ Cardinality(Under(S, Ascending(S)[i])) = i - 1
    <2>1. Ascending(S)[i] = CHOOSE x \in S : Cardinality(Under(S, x)) = i - 1
      BY DEF Ascending, Under
    <2>2. \E x \in S : Cardinality(Under(S, x)) = i - 1
      BY CountOnto
    <2> QED
      BY <2>1, <2>2
  <1>4. Ascending(S) \in [1 .. n -> S]
    <2> DEFINE at(i) == CHOOSE x \in S : Cardinality({y \in S : y < x}) = i - 1
    <2>1. Ascending(S) = [i \in 1 .. n |-> at(i)]
      BY DEF Ascending
    <2> HIDE DEF at
    <2>2. \A i \in 1 .. n : at(i) \in S
      BY <1>2, <2>1
    <2> QED
      BY <2>1, <2>2
  <1>5. Len(Ascending(S)) = n
    BY <1>1, <1>4
  <1>6. ASSUME NEW x \in S
        PROVE  /\ Cardinality(Under(S, x)) + 1 \in 1 .. n
               /\ Ascending(S)[Cardinality(Under(S, x)) + 1] = x
    <2>1. Cardinality(Under(S, x)) \in Nat /\ Cardinality(Under(S, x)) < n
      BY CountUnder
    <2>2. Cardinality(Under(S, x)) + 1 \in 1 .. n
      BY <1>1, <2>1
    <2> DEFINE y == Ascending(S)[Cardinality(Under(S, x)) + 1]
    <2>3. y \in S /\ Cardinality(Under(S, y)) = (Cardinality(Under(S, x)) + 1) - 1
      BY <1>2, <2>2
    <2>4. y \in S /\ Cardinality(Under(S, y)) = Cardinality(Under(S, x))
      BY <2>1, <2>3
    <2>5. y = x
      <3> HIDE DEF y
      <3> QED
        BY <2>4, SameCount
    <2> QED
      BY <2>2, <2>5
  <1>7. ASSUME NEW i \in 1 .. n, NEW j \in 1 .. n, i < j
        PROVE  Ascending(S)[i] < Ascending(S)[j]
    <2> DEFINE x == Ascending(S)[i]
               y == Ascending(S)[j]
    <2>1. x \in S /\ y \in S /\ Cardinality(Under(S, x)) = i - 1 /\ Cardinality(Under(S, y)) = j - 1
      BY <1>2
    <2> HIDE DEF x, y
    <2>2. x \in Int /\ y \in Int /\ (y <= x => Cardinality(Under(S, y)) <= Cardinality(Under(S, x)))
      BY <2>1, CountOrder
    <2>3. x < y
      BY <1>7, <2>1, <2>2
    <2> QED
      BY <2>3 DEF x, y
  <1> QED
    BY <1>1, <1>2, <1>4, <1>5, <1>6, <1>7

\* f goes up from 1 to n, and its values.
Rises(n, f)  == DOMAIN f = 1 .. n /\ (\A i \in 1 .. n : f[i] \in Int)
                /\ \A i, j \in 1 .. n : i < j => f[i] < f[j]
Values(n, f) == {f[i] : i \in 1 .. n}

\* A sequence that ascends is the one of its members.
LEMMA RisingIs ==
  ASSUME NEW n \in Nat, NEW f, Rises(n, f)
  PROVE  /\ Values(n, f) \in SUBSET Int /\ IsFiniteSet(Values(n, f)) /\ Cardinality(Values(n, f)) = n
         /\ \A i \in 1 .. n : Ascending(Values(n, f))[i] = f[i]
  <1> DEFINE S == Values(n, f)
  <1>1. DOMAIN f = 1 .. n /\ (\A i \in 1 .. n : f[i] \in Int) /\ S = {f[i] : i \in 1 .. n}
    BY DEF Rises, Values
  <1>2. \A i, j \in 1 .. n : i < j => f[i] < f[j]
    BY DEF Rises
  <1> HIDE DEF S
  <1> USE <1>1, <1>2
  <1>3. ASSUME NEW k \in 0 .. n, NEW T, T = {f[i] : i \in 1 .. k}
        PROVE  IsFiniteSet(T) /\ Cardinality(T) = k
    <2> DEFINE g == [i \in 1 .. k |-> f[i]]
    <2>1. k \in Nat /\ 1 \in Int /\ k \in Int /\ \A i \in 1 .. k : i \in 1 .. n
      OBVIOUS
    <2>2. IsFiniteSet(1 .. k) /\ Cardinality(1 .. k) = IF 1 > k THEN 0 ELSE k - 1 + 1
      BY <2>1, FS_Interval
    <2>3. g \in Surjection(1 .. k, T)
      BY <1>3 DEF Surjection
    <2>4. \A i, j \in 1 .. k : g[i] = g[j] => i = j
      <3> TAKE i, j \in 1 .. k
      <3>1. f[i] \in Int /\ f[j] \in Int /\ (i < j => f[i] < f[j]) /\ (j < i => f[j] < f[i])
        BY <2>1
      <3> QED
        BY <3>1
    <2>5. g \in Bijection(1 .. k, T)
      <3> HIDE DEF g
      <3> QED
        BY <2>3, <2>4 DEF Bijection, Injection, IsInjective, Surjection
    <2>6. ExistsBijection(1 .. k, T)
      <3> HIDE DEF g
      <3> QED
        BY <2>5 DEF ExistsBijection
    <2> QED
      BY <2>1, <2>6, FS_CountingElements, FS_NatBijection
  <1>4. S \in SUBSET Int /\ IsFiniteSet(S) /\ Cardinality(S) = n
    BY <1>3
  <1>5. ASSUME NEW i \in 1 .. n
        PROVE  Cardinality(Under(S, f[i])) = i - 1 /\ Ascending(S)[i] = f[i]
    <2>1. i - 1 \in 0 .. n /\ f[i] \in S
      OBVIOUS
    <2>2. Under(S, f[i]) = {f[j] : j \in 1 .. i - 1}
      <3>1. ASSUME NEW j \in 1 .. n
            PROVE  f[j] < f[i] <=> j \in 1 .. i - 1
        <4>1. f[i] \in Int /\ f[j] \in Int /\ (i < j => f[i] < f[j]) /\ (j < i => f[j] < f[i])
          OBVIOUS
        <4> QED
          BY <4>1
      <3>2. \A y \in Under(S, f[i]) : y \in {f[j] : j \in 1 .. i - 1}
        BY <3>1 DEF Under
      <3>3. \A j \in 1 .. i - 1 : j \in 1 .. n
        OBVIOUS
      <3>4. \A y \in {f[j] : j \in 1 .. i - 1} : y \in Under(S, f[i])
        BY <3>1, <3>3 DEF Under
      <3> QED
        BY <3>2, <3>4
    <2>3. Cardinality(Under(S, f[i])) = i - 1
      BY <1>3, <2>1, <2>2
    <2>4. Ascending(S)[Cardinality(Under(S, f[i])) + 1] = f[i]
      BY <1>4, <2>1, AscendingIs
    <2>5. (i - 1) + 1 = i
      OBVIOUS
    <2> QED
      BY <2>3, <2>4, <2>5
  <1> QED
    BY <1>4, <1>5 DEF S

-----------------------------------------------------------------------------
(* Sequences with an entry more, and with one less.                        *)

LEMMA PartOf ==
  ASSUME NEW S, NEW f \in Seq(S), NEW a \in 1 .. Len(f) + 1, NEW z \in 0 .. Len(f), a <= z + 1
  PROVE  /\ SubSeq(f, a, z) \in Seq(S) /\ Len(SubSeq(f, a, z)) = z - a + 1
         /\ \A i \in 1 .. z - a + 1 : SubSeq(f, a, z)[i] = f[a + i - 1]
  <1>1. /\ a \in Int /\ z \in Int /\ Len(f) \in Nat
        /\ \A i \in a .. z : f[i] \in S
    OBVIOUS
  <1>2. /\ SubSeq(f, a, z) \in Seq(S)
        /\ Len(SubSeq(f, a, z)) = IF a <= z THEN z - a + 1 ELSE 0
        /\ \A i \in 1 .. z - a + 1 : SubSeq(f, a, z)[i] = f[a + i - 1]
    BY <1>1, SubSeqProperties
  <1> QED
    BY <1>1, <1>2

\* g is f with another entry k + 1, and f with an entry more there.
Changed(f, g, n, k, e) == \A i \in 1 .. n : g[i] = IF i = k + 1 THEN e ELSE f[i]
Opened(f, g, l, n, k, e) ==
  \A i \in 1 .. l : g[i] = IF i <= k THEN f[i] ELSE IF i = k + 1 THEN e
                         ELSE IF i <= n + 1 THEN f[i - 1] ELSE f[i]

\* g is f without its entry k + 1 of n; the entry it frees becomes d.
Closed(f, g, l, n, k, d) ==
  \A i \in 1 .. l : g[i] = IF i <= k THEN f[i] ELSE IF i < n THEN f[i + 1]
                         ELSE IF i = n THEN d ELSE f[i]

\* b put behind the first k entries of f, when n of its lanes are used.
Pushed(f, n, k, b) == SubSeq(f, 1, k) \o <<b>> \o SubSeq(f, k + 1, n) \o SubSeq(f, n + 2, Len(f))
\* f without entry k + 1 of the n it uses; the lane it frees gets d.
Pulled(f, n, k, d) == SubSeq(f, 1, k) \o SubSeq(f, k + 2, n) \o <<d>> \o SubSeq(f, n + 1, Len(f))

\* A sorted array with b put behind its first k entries, when n of its lanes are used.
LEMMA ShiftedUp ==
  ASSUME NEW f \in Seq(Byte), NEW n \in Nat, n < Len(f), NEW k \in 0 .. n, NEW b \in Byte
  PROVE  /\ Pushed(f, n, k, b) \in Seq(Byte) /\ Len(Pushed(f, n, k, b)) = Len(f)
         /\ Opened(f, Pushed(f, n, k, b), Len(f), n, k, b)
  <1> DEFINE g == Pushed(f, n, k, b)
             L == Len(f)
             p == SubSeq(f, 1, k)
             q == <<b>>
             r == SubSeq(f, k + 1, n)
             t == SubSeq(f, n + 2, L)
  <1>1. p \in Seq(Byte) /\ Len(p) = k /\ \A i \in 1 .. k : p[i] = f[i]
    BY PartOf
  <1>2. q \in Seq(Byte) /\ Len(q) = 1 /\ q[1] = b
    OBVIOUS
  <1>3. r \in Seq(Byte) /\ Len(r) = n - k /\ \A i \in 1 .. n - k : r[i] = f[k + i]
    <2>1. k + 1 \in 1 .. L + 1 /\ n \in 0 .. L /\ k + 1 <= n + 1
      OBVIOUS
    <2>2. /\ r \in Seq(Byte) /\ Len(r) = n - (k + 1) + 1
          /\ \A i \in 1 .. n - (k + 1) + 1 : r[i] = f[(k + 1) + i - 1]
      BY <2>1, PartOf
    <2> QED
      BY <2>2
  <1>4. t \in Seq(Byte) /\ Len(t) = L - n - 1 /\ \A i \in 1 .. L - n - 1 : t[i] = f[n + 1 + i]
    <2>1. n + 2 \in 1 .. L + 1 /\ L \in 0 .. L /\ n + 2 <= L + 1
      OBVIOUS
    <2>2. /\ t \in Seq(Byte) /\ Len(t) = L - (n + 2) + 1
          /\ \A i \in 1 .. L - (n + 2) + 1 : t[i] = f[(n + 2) + i - 1]
      BY <2>1, PartOf
    <2> QED
      BY <2>2
  <1>5. L \in Nat /\ g = ((p \o q) \o r) \o t
    BY DEF Pushed
  <1> HIDE DEF g, p, q, r, t
  <1>6. /\ p \o q \in Seq(Byte) /\ Len(p \o q) = k + 1
        /\ \A i \in 1 .. k + 1 : (p \o q)[i] = IF i <= k THEN f[i] ELSE b
    <2>1. /\ p \o q \in Seq(Byte) /\ Len(p \o q) = Len(p) + Len(q)
          /\ \A i \in 1 .. Len(p) + Len(q) :
               (p \o q)[i] = IF i <= Len(p) THEN p[i] ELSE q[i - Len(p)]
      BY <1>1, <1>2, ConcatProperties
    <2> QED
      BY <1>1, <1>2, <2>1
  <1> DEFINE u == p \o q
  <1> HIDE DEF u
  <1>7. /\ u \o r \in Seq(Byte) /\ Len(u \o r) = n + 1
        /\ \A i \in 1 .. n + 1 :
             (u \o r)[i] = IF i <= k THEN f[i] ELSE IF i = k + 1 THEN b ELSE f[i - 1]
    <2>1. u \in Seq(Byte) /\ Len(u) = k + 1 /\ \A i \in 1 .. k + 1 : u[i] = IF i <= k THEN f[i] ELSE b
      BY <1>6 DEF u
    <2>2. /\ u \o r \in Seq(Byte) /\ Len(u \o r) = Len(u) + Len(r)
          /\ \A i \in 1 .. Len(u) + Len(r) :
               (u \o r)[i] = IF i <= Len(u) THEN u[i] ELSE r[i - Len(u)]
      BY <1>3, <2>1, ConcatProperties
    <2>3. Len(u) + Len(r) = n + 1
      BY <1>3, <2>1
    <2>4. ASSUME NEW i \in 1 .. n + 1
          PROVE  (u \o r)[i] = IF i <= k THEN f[i] ELSE IF i = k + 1 THEN b ELSE f[i - 1]
      <3>1. (u \o r)[i] = IF i <= k + 1 THEN u[i] ELSE r[i - (k + 1)]
        BY <2>1, <2>2, <2>3
      <3>2. i <= k + 1 => u[i] = IF i <= k THEN f[i] ELSE b
        BY <2>1
      <3>3. i > k + 1 => r[i - (k + 1)] = f[k + (i - (k + 1))] /\ k + (i - (k + 1)) = i - 1
        BY <1>3
      <3> QED
        BY <3>1, <3>2, <3>3
    <2> QED
      BY <2>2, <2>3, <2>4
  <1> DEFINE v == u \o r
  <1>8. g = v \o t
    BY <1>5 DEF u
  <1>9. /\ v \in Seq(Byte) /\ Len(v) = n + 1
        /\ \A i \in 1 .. n + 1 : v[i] = IF i <= k THEN f[i] ELSE IF i = k + 1 THEN b ELSE f[i - 1]
    BY <1>7
  <1> HIDE DEF v
  <1>10. /\ v \o t \in Seq(Byte) /\ Len(v \o t) = Len(v) + Len(t)
         /\ \A i \in 1 .. Len(v) + Len(t) :
              (v \o t)[i] = IF i <= Len(v) THEN v[i] ELSE t[i - Len(v)]
    BY <1>4, <1>9, ConcatProperties
  <1>11. Len(v) + Len(t) = L
    BY <1>4, <1>5, <1>9
  <1>12. ASSUME NEW i \in 1 .. L
         PROVE  g[i] = IF i <= k THEN f[i] ELSE IF i = k + 1 THEN b
                       ELSE IF i <= n + 1 THEN f[i - 1] ELSE f[i]
    <2>0. i \in 1 .. Len(v) + Len(t) /\ Len(v) = n + 1
      BY <1>9, <1>11
    <2>1. g[i] = IF i <= n + 1 THEN v[i] ELSE t[i - (n + 1)]
      BY <1>8, <1>10, <2>0
    <2>2. i > n + 1 => t[i - (n + 1)] = f[n + 1 + (i - (n + 1))] /\ n + 1 + (i - (n + 1)) = i
      BY <1>4, <1>5
    <2>3. i <= n + 1 => v[i] = IF i <= k THEN f[i] ELSE IF i = k + 1 THEN b ELSE f[i - 1]
      BY <1>9
    <2>4. /\ i > n + 1 => ~(i <= k) /\ i # k + 1 /\ ~(i <= n + 1)
          /\ ~(i > n + 1) => i <= n + 1
          /\ i <= k => i <= n + 1
          /\ i = k + 1 => i <= n + 1
      OBVIOUS
    <2>5. CASE i > n + 1
      BY <2>1, <2>2, <2>4, <2>5
    <2>6. CASE i <= n + 1
      BY <2>1, <2>3, <2>6
    <2> QED
      BY <2>4, <2>5, <2>6
  <1> QED
    BY <1>8, <1>10, <1>11, <1>12 DEF g, Opened

\* The same without entry k + 1 of its n; the lane it frees gets d.
LEMMA ShiftedDown ==
  ASSUME NEW f \in Seq(Byte), NEW n \in Nat, n <= Len(f), NEW k \in Nat, k < n, NEW d \in Byte
  PROVE  /\ Pulled(f, n, k, d) \in Seq(Byte) /\ Len(Pulled(f, n, k, d)) = Len(f)
         /\ Closed(f, Pulled(f, n, k, d), Len(f), n, k, d)
  <1> DEFINE g == Pulled(f, n, k, d)
             L == Len(f)
             p == SubSeq(f, 1, k)
             q == SubSeq(f, k + 2, n)
             r == <<d>>
             t == SubSeq(f, n + 1, L)
  <1>1. p \in Seq(Byte) /\ Len(p) = k /\ \A i \in 1 .. k : p[i] = f[i]
    BY PartOf
  <1>2. q \in Seq(Byte) /\ Len(q) = n - k - 1 /\ \A i \in 1 .. n - k - 1 : q[i] = f[k + 1 + i]
    <2>1. k + 2 \in 1 .. L + 1 /\ n \in 0 .. L /\ k + 2 <= n + 1
      OBVIOUS
    <2>2. /\ q \in Seq(Byte) /\ Len(q) = n - (k + 2) + 1
          /\ \A i \in 1 .. n - (k + 2) + 1 : q[i] = f[(k + 2) + i - 1]
      BY <2>1, PartOf
    <2> QED
      BY <2>2
  <1>3. r \in Seq(Byte) /\ Len(r) = 1 /\ r[1] = d
    OBVIOUS
  <1>4. t \in Seq(Byte) /\ Len(t) = L - n /\ \A i \in 1 .. L - n : t[i] = f[n + i]
    <2>1. n + 1 \in 1 .. L + 1 /\ L \in 0 .. L /\ n + 1 <= L + 1
      OBVIOUS
    <2>2. /\ t \in Seq(Byte) /\ Len(t) = L - (n + 1) + 1
          /\ \A i \in 1 .. L - (n + 1) + 1 : t[i] = f[(n + 1) + i - 1]
      BY <2>1, PartOf
    <2> QED
      BY <2>2
  <1>5. L \in Nat /\ g = ((p \o q) \o r) \o t
    BY DEF Pulled
  <1> HIDE DEF g, p, q, r, t
  <1> DEFINE u == p \o q
  <1>6. /\ u \in Seq(Byte) /\ Len(u) = n - 1
        /\ \A i \in 1 .. n - 1 : u[i] = IF i <= k THEN f[i] ELSE f[i + 1]
    <2>0. p \in Seq(Byte) /\ q \in Seq(Byte)
      BY <1>1, <1>2
    <2>1. /\ u \in Seq(Byte) /\ Len(u) = Len(p) + Len(q)
          /\ \A i \in 1 .. Len(p) + Len(q) : u[i] = IF i <= Len(p) THEN p[i] ELSE q[i - Len(p)]
      BY <2>0, ConcatProperties
    <2>2. Len(p) + Len(q) = n - 1
      BY <1>1, <1>2
    <2>3. ASSUME NEW i \in 1 .. n - 1
          PROVE  u[i] = IF i <= k THEN f[i] ELSE f[i + 1]
      <3>1. u[i] = IF i <= k THEN p[i] ELSE q[i - k]
        BY <1>1, <2>1, <2>2
      <3>2. i <= k => p[i] = f[i]
        BY <1>1
      <3>3. i > k => q[i - k] = f[k + 1 + (i - k)] /\ k + 1 + (i - k) = i + 1
        BY <1>2
      <3> QED
        BY <3>1, <3>2, <3>3
    <2> QED
      BY <2>1, <2>2, <2>3
  <1> DEFINE v == u \o r
  <1>8. g = v \o t
    BY <1>5
  <1> HIDE DEF u
  <1>9. /\ v \in Seq(Byte) /\ Len(v) = n
        /\ \A i \in 1 .. n : v[i] = IF i <= k THEN f[i] ELSE IF i < n THEN f[i + 1] ELSE d
    <2>1. /\ v \in Seq(Byte) /\ Len(v) = Len(u) + Len(r)
          /\ \A i \in 1 .. Len(u) + Len(r) : v[i] = IF i <= Len(u) THEN u[i] ELSE r[i - Len(u)]
      BY <1>3, <1>6, ConcatProperties
    <2>2. Len(u) + Len(r) = n
      BY <1>3, <1>6
    <2>3. ASSUME NEW i \in 1 .. n
          PROVE  v[i] = IF i <= k THEN f[i] ELSE IF i < n THEN f[i + 1] ELSE d
      <3>1. v[i] = IF i <= n - 1 THEN u[i] ELSE r[i - (n - 1)]
        BY <1>6, <2>1, <2>2
      <3>2. i <= n - 1 => u[i] = IF i <= k THEN f[i] ELSE f[i + 1]
        BY <1>6
      <3>3. i > n - 1 => i - (n - 1) = 1 /\ ~(i <= k) /\ ~(i < n)
        OBVIOUS
      <3> QED
        BY <1>3, <3>1, <3>2, <3>3
    <2> QED
      BY <2>1, <2>2, <2>3
  <1> HIDE DEF v
  <1>10. /\ v \o t \in Seq(Byte) /\ Len(v \o t) = Len(v) + Len(t)
         /\ \A i \in 1 .. Len(v) + Len(t) :
              (v \o t)[i] = IF i <= Len(v) THEN v[i] ELSE t[i - Len(v)]
    BY <1>4, <1>9, ConcatProperties
  <1>11. Len(v) + Len(t) = L
    BY <1>4, <1>5, <1>9
  <1>12. ASSUME NEW i \in 1 .. L
         PROVE  g[i] = IF i <= k THEN f[i] ELSE IF i < n THEN f[i + 1]
                       ELSE IF i = n THEN d ELSE f[i]
    <2>1. g[i] = IF i <= n THEN v[i] ELSE t[i - n]
      BY <1>8, <1>9, <1>10, <1>11
    <2>2. i > n => t[i - n] = f[n + (i - n)] /\ n + (i - n) = i
      BY <1>4, <1>5
    <2>3. i <= n => v[i] = IF i <= k THEN f[i] ELSE IF i < n THEN f[i + 1] ELSE d
      BY <1>9
    <2>4. /\ i > n => ~(i <= k) /\ ~(i < n) /\ i # n /\ ~(i <= n)
          /\ ~(i > n) => i <= n
          /\ i <= n /\ ~(i < n) => i = n
      OBVIOUS
    <2>5. CASE i > n
      BY <2>1, <2>2, <2>4, <2>5
    <2>6. CASE i <= n
      BY <2>1, <2>3, <2>4, <2>6
    <2> QED
      BY <2>4, <2>5, <2>6
  <1> QED
    BY <1>8, <1>10, <1>11, <1>12 DEF g, Closed

LEMMA InsertAtIs ==
  ASSUME NEW S, NEW f \in Seq(S), NEW k \in 1 .. Len(f) + 1, NEW e \in S
  PROVE  /\ InsertAt(f, k, e) \in Seq(S) /\ Len(InsertAt(f, k, e)) = Len(f) + 1
         /\ Opened(f, InsertAt(f, k, e), Len(f) + 1, Len(f), k - 1, e)
  <1> DEFINE L == Len(f)
             p == SubSeq(f, 1, k - 1)
             q == <<e>>
             r == SubSeq(f, k, L)
  <1>1. L \in Nat /\ InsertAt(f, k, e) = (p \o q) \o r
    BY DEF InsertAt
  <1>2. p \in Seq(S) /\ Len(p) = k - 1 /\ \A i \in 1 .. k - 1 : p[i] = f[i]
    <2>1. 1 \in 1 .. L + 1 /\ k - 1 \in 0 .. L /\ 1 <= (k - 1) + 1
      OBVIOUS
    <2>2. /\ p \in Seq(S) /\ Len(p) = (k - 1) - 1 + 1
          /\ \A i \in 1 .. (k - 1) - 1 + 1 : p[i] = f[1 + i - 1]
      BY <2>1, PartOf
    <2> QED
      BY <2>2
  <1>3. q \in Seq(S) /\ Len(q) = 1 /\ q[1] = e
    OBVIOUS
  <1>4. r \in Seq(S) /\ Len(r) = L - k + 1 /\ \A i \in 1 .. L - k + 1 : r[i] = f[k + i - 1]
    <2>1. k \in 1 .. L + 1 /\ L \in 0 .. L /\ k <= L + 1
      BY <1>1
    <2> QED
      BY <2>1, PartOf
  <1> HIDE DEF p, q, r
  <1> DEFINE u == p \o q
  <1>5. u \in Seq(S) /\ Len(u) = k /\ \A i \in 1 .. k : u[i] = IF i < k THEN f[i] ELSE e
    <2>1. /\ u \in Seq(S) /\ Len(u) = Len(p) + Len(q)
          /\ \A i \in 1 .. Len(p) + Len(q) : u[i] = IF i <= Len(p) THEN p[i] ELSE q[i - Len(p)]
      BY <1>2, <1>3, ConcatProperties
    <2> QED
      BY <1>2, <1>3, <2>1
  <1>6. InsertAt(f, k, e) = u \o r
    BY <1>1
  <1> HIDE DEF u
  <1>7. /\ u \o r \in Seq(S) /\ Len(u \o r) = Len(u) + Len(r)
        /\ \A i \in 1 .. Len(u) + Len(r) :
             (u \o r)[i] = IF i <= Len(u) THEN u[i] ELSE r[i - Len(u)]
    BY <1>4, <1>5, ConcatProperties
  <1>8. Len(u) + Len(r) = L + 1
    BY <1>1, <1>4, <1>5
  <1>9. ASSUME NEW i \in 1 .. L + 1
        PROVE  (u \o r)[i] = IF i < k THEN f[i] ELSE IF i = k THEN e ELSE f[i - 1]
    <2>1. (u \o r)[i] = IF i <= k THEN u[i] ELSE r[i - k]
      BY <1>5, <1>7, <1>8
    <2>2. i > k => r[i - k] = f[k + (i - k) - 1] /\ k + (i - k) - 1 = i - 1
      BY <1>1, <1>4
    <2>3. i <= k => u[i] = IF i < k THEN f[i] ELSE e
      BY <1>5
    <2> QED
      BY <2>1, <2>2, <2>3
  <1>10. Opened(f, u \o r, L + 1, L, k - 1, e)
    <2> SUFFICES ASSUME NEW i \in 1 .. L + 1
                 PROVE  (u \o r)[i] = IF i <= k - 1 THEN f[i] ELSE IF i = (k - 1) + 1 THEN e
                                      ELSE IF i <= L + 1 THEN f[i - 1] ELSE f[i]
      BY DEF Opened
    <2>1. (i < k <=> i <= k - 1) /\ (i = k <=> i = (k - 1) + 1) /\ i <= L + 1
      BY <1>1
    <2> QED
      BY <1>9, <2>1
  <1> QED
    BY <1>6, <1>7, <1>8, <1>10

LEMMA RemoveAtIs ==
  ASSUME NEW S, NEW f \in Seq(S), NEW k \in 1 .. Len(f)
  PROVE  /\ RemoveAt(f, k) \in Seq(S) /\ Len(RemoveAt(f, k)) = Len(f) - 1
         /\ \A i \in 1 .. Len(f) - 1 : RemoveAt(f, k)[i] = IF i < k THEN f[i] ELSE f[i + 1]
  <1> DEFINE L == Len(f)
             p == SubSeq(f, 1, k - 1)
             r == SubSeq(f, k + 1, L)
  <1>1. L \in Nat /\ RemoveAt(f, k) = p \o r
    BY DEF RemoveAt
  <1>2. p \in Seq(S) /\ Len(p) = k - 1 /\ \A i \in 1 .. k - 1 : p[i] = f[i]
    <2>1. 1 \in 1 .. L + 1 /\ k - 1 \in 0 .. L /\ 1 <= (k - 1) + 1
      OBVIOUS
    <2>2. /\ p \in Seq(S) /\ Len(p) = (k - 1) - 1 + 1
          /\ \A i \in 1 .. (k - 1) - 1 + 1 : p[i] = f[1 + i - 1]
      BY <2>1, PartOf
    <2> QED
      BY <2>2
  <1>3. r \in Seq(S) /\ Len(r) = L - k /\ \A i \in 1 .. L - k : r[i] = f[k + i]
    <2>1. k + 1 \in 1 .. L + 1 /\ L \in 0 .. L /\ k + 1 <= L + 1
      BY <1>1
    <2>2. /\ r \in Seq(S) /\ Len(r) = L - (k + 1) + 1
          /\ \A i \in 1 .. L - (k + 1) + 1 : r[i] = f[(k + 1) + i - 1]
      BY <2>1, PartOf
    <2> QED
      BY <1>1, <2>2
  <1> HIDE DEF p, r
  <1>4. /\ p \o r \in Seq(S) /\ Len(p \o r) = Len(p) + Len(r)
        /\ \A i \in 1 .. Len(p) + Len(r) :
             (p \o r)[i] = IF i <= Len(p) THEN p[i] ELSE r[i - Len(p)]
    BY <1>2, <1>3, ConcatProperties
  <1>5. Len(p) + Len(r) = L - 1
    BY <1>1, <1>2, <1>3
  <1>6. ASSUME NEW i \in 1 .. L - 1
        PROVE  (p \o r)[i] = IF i < k THEN f[i] ELSE f[i + 1]
    <2>1. (p \o r)[i] = IF i <= k - 1 THEN p[i] ELSE r[i - (k - 1)]
      BY <1>2, <1>4, <1>5
    <2>2. i > k - 1 => r[i - (k - 1)] = f[k + (i - (k - 1))] /\ k + (i - (k - 1)) = i + 1
      BY <1>1, <1>3
    <2>3. i <= k - 1 => p[i] = f[i]
      BY <1>2
    <2>4. i <= k - 1 <=> i < k
      OBVIOUS
    <2> QED
      BY <2>1, <2>2, <2>3, <2>4
  <1> QED
    BY <1>1, <1>4, <1>5, <1>6

-----------------------------------------------------------------------------
(* What a router carries.                                                  *)

Ext  == [t : {"leaf", "node"}, v : Byte]   \* a child outside the line
Inlined == [t : {"inline"}, v : Int]

\* A map from bytes to children.
EdgeMap(m) == DOMAIN m \subseteq Byte /\ m \in [DOMAIN m -> Ext]
Put(m, b, h) == [x \in DOMAIN m \cup {b} |-> IF x = b THEN h ELSE m[x]]
Less(m, b)   == [x \in DOMAIN m \ {b} |-> m[x]]

LEMMA PutIs ==
  ASSUME NEW m, EdgeMap(m), NEW b \in Byte, NEW h \in Ext
  PROVE  /\ EdgeMap(Put(m, b, h)) /\ DOMAIN Put(m, b, h) = DOMAIN m \cup {b}
         /\ Put(m, b, h)[b] = h /\ \A x \in DOMAIN m \ {b} : Put(m, b, h)[x] = m[x]
  BY DEF EdgeMap, Put

LEMMA LessIs ==
  ASSUME NEW m, EdgeMap(m), NEW b
  PROVE  /\ EdgeMap(Less(m, b)) /\ DOMAIN Less(m, b) = DOMAIN m \ {b}
         /\ \A x \in DOMAIN m \ {b} : Less(m, b)[x] = m[x]
  BY DEF EdgeMap, Less

LEMMA ByteFacts ==
  /\ MaxB \in Nat /\ Byte \subseteq Nat /\ Byte \subseteq Int /\ IsFiniteSet(Byte)
  /\ Lanes \in Nat /\ SetCap \in Nat /\ U16Cap \in Nat /\ SetCap <= Lanes /\ U16Cap <= Lanes
  /\ \A S : S \subseteq Byte => IsFiniteSet(S) /\ S \in SUBSET Int /\ Cardinality(S) \in Nat
  <1>1. MaxB \in Nat /\ Lanes \in Nat /\ SetCap \in Nat /\ U16Cap \in Nat
    BY StemAssumption
  <1>2. SetCap <= Lanes /\ U16Cap <= Lanes
    BY StemAssumption
  <1>3. IsFiniteSet(Byte)
    <2>1. 0 \in Int /\ MaxB \in Int
      BY <1>1
    <2> QED
      BY <2>1, FS_Interval DEF Byte
  <1>4. Byte \subseteq Nat /\ Byte \subseteq Int
    BY <1>1 DEF Byte
  <1>5. ASSUME NEW S, S \subseteq Byte
        PROVE  IsFiniteSet(S) /\ S \in SUBSET Int /\ Cardinality(S) \in Nat
    BY <1>3, <1>4, <1>5, FS_Subset, FS_CardinalityType
  <1> QED
    BY <1>1, <1>2, <1>3, <1>4, <1>5

\* A set of indexes closed downwards is an initial interval.
LEMMA Initial ==
  ASSUME NEW n \in Nat, NEW X \in SUBSET (1 .. n),
         \A i \in X : \A j \in 1 .. i - 1 : j \in X
  PROVE  Cardinality(X) \in 0 .. n /\ \A i \in 1 .. n : i \in X <=> i <= Cardinality(X)
  <1>1. IsFiniteSet(1 .. n) /\ Cardinality(1 .. n) = n
    BY FS_Interval
  <1>2. IsFiniteSet(X) /\ Cardinality(X) \in Nat /\ Cardinality(X) <= n
    BY <1>1, FS_Subset, FS_CardinalityType
  <1>3. ASSUME NEW i \in X
        PROVE  i <= Cardinality(X)
    <2>1. i \in 1 .. n
      OBVIOUS
    <2>2. 1 .. i \in SUBSET X
      <3>1. \A j \in 1 .. i : j \in 1 .. i - 1 \/ j = i
        BY <2>1
      <3> QED
        BY <3>1
    <2>3. Cardinality(1 .. i) = i
      BY <2>1, FS_Interval
    <2>4. Cardinality(1 .. i) <= Cardinality(X)
      BY <1>2, <2>2, FS_Subset
    <2> QED
      BY <2>3, <2>4
  <1>4. ASSUME NEW i \in 1 .. n, i \notin X
        PROVE  ~(i <= Cardinality(X))
    <2>1. X \in SUBSET (1 .. i - 1)
      <3>1. ASSUME NEW j \in X, ~(j <= i - 1)
            PROVE  FALSE
        <4>1. j \in 1 .. n /\ i <= j
          BY <3>1
        <4>2. i # j
          BY <1>4
        <4>3. i \in 1 .. j - 1
          BY <4>1, <4>2
        <4> QED
          BY <1>4, <4>3
      <3>2. \A j \in X : j \in 1 .. n /\ j <= i - 1
        BY <3>1
      <3> QED
        BY <3>2
    <2>2. IsFiniteSet(1 .. i - 1) /\ Cardinality(1 .. i - 1) = i - 1
      <3>1. 1 \in Int /\ i - 1 \in Int
        OBVIOUS
      <3>2. IsFiniteSet(1 .. i - 1)
            /\ Cardinality(1 .. i - 1) = IF 1 > i - 1 THEN 0 ELSE (i - 1) - 1 + 1
        BY <3>1, FS_Interval
      <3> QED
        BY <3>2
    <2>3. Cardinality(X) <= i - 1
      BY <2>1, <2>2, FS_Subset
    <2> QED
      BY <1>2, <2>3
  <1> QED
    BY <1>2, <1>3, <1>4

-----------------------------------------------------------------------------
(* Sorted stems.                                                           *)

StemSort == [kind : {"set", "u16"}, bytes : [1 .. Lanes -> Byte], branch : Seq(Ext \cup Inlined),
             inl : SUBSET Nat, line : SUBSET [at : Int, leaf : Byte]]

\* Stems in order, no more than there is room for, and pads behind them.
Sorted(s) ==
  /\ s \in StemSort /\ Count(s) <= Cap(s)
  /\ \A i, j \in 1 .. Count(s) : i < j => s.bytes[i] < s.bytes[j]
  /\ \A i \in 1 .. Lanes : i > Count(s) => s.bytes[i] = MaxB

\* Where the tail offset of branch i leads.
Spot(s, i) == Line - s.branch[i + 1].v

\* Tail offsets are flagged, and each leads to one leaf in the line.
Tailed(s) ==
  /\ s.inl \subseteq 0 .. Count(s) - 1 /\ (s.kind = "u16" => s.inl = {})
  /\ \A i \in 0 .. Count(s) - 1 :
       IF i \in s.inl THEN s.branch[i + 1] \in Inlined /\ \E p \in s.line : p.at = Spot(s, i)
       ELSE s.branch[i + 1] \in Ext
  /\ \A p, q \in s.line : p.at = q.at => p = q

\* The leaves in the line are apart from each other and from the branches.
Apart(s) ==
  \A i \in s.inl :
    /\ i < InlineMax /\ Spot(s, i) >= BranchEnd(Count(s)) /\ Spot(s, i) % ValAlign = 0
    /\ Spot(s, i) + LeafSize[Child(s, i).v] <= Line
    /\ \A x \in s.inl : x < i => Spot(s, i) + LeafSize[Child(s, i).v] <= Spot(s, x)

Carries(s, m) ==
  /\ EdgeMap(m) /\ DOMAIN m = {s.bytes[i] : i \in 1 .. Count(s)}
  /\ \A i \in 1 .. Count(s) : Child(s, i - 1) = m[s.bytes[i]]

StemsHold(s, m) == Sorted(s) /\ Tailed(s) /\ Apart(s) /\ Carries(s, m)

LEMMA SortedIs ==
  ASSUME NEW s, Sorted(s)
  PROVE  /\ s.kind \in {"set", "u16"} /\ s.bytes \in [1 .. Lanes -> Byte]
         /\ s.bytes \in Seq(Byte) /\ Len(s.bytes) = Lanes
         /\ s.branch \in Seq(Ext \cup Inlined) /\ s.inl \subseteq Nat
         /\ s.line \in SUBSET [at : Int, leaf : Byte]
         /\ Count(s) = Len(s.branch) /\ Count(s) \in Nat /\ Count(s) <= Cap(s) /\ Count(s) <= Lanes
         /\ s = [kind |-> s.kind, bytes |-> s.bytes, branch |-> s.branch, inl |-> s.inl,
                 line |-> s.line]
         /\ Cap(s) \in Nat /\ Cap(s) <= Lanes /\ HasStems(s)
         /\ \A i \in 1 .. Count(s) : i \in 1 .. Lanes /\ s.bytes[i] \in Byte
  <1>1. s \in StemSort /\ Count(s) <= Cap(s)
    BY DEF Sorted
  <1>2. /\ s.kind \in {"set", "u16"} /\ s.bytes \in [1 .. Lanes -> Byte]
        /\ s.branch \in Seq(Ext \cup Inlined) /\ s.inl \subseteq Nat
        /\ s.line \in SUBSET [at : Int, leaf : Byte]
    BY <1>1 DEF StemSort
  <1>3. s = [kind |-> s.kind, bytes |-> s.bytes, branch |-> s.branch, inl |-> s.inl,
             line |-> s.line]
    BY <1>1 DEF StemSort
  <1>4. Lanes \in Nat /\ Cap(s) \in Nat /\ Cap(s) <= Lanes
    BY ByteFacts DEF Cap
  <1>5. s.bytes \in Seq(Byte) /\ Len(s.bytes) = Lanes
    BY <1>2, <1>4
  <1>6. Count(s) = Len(s.branch) /\ Count(s) \in Nat
    BY <1>2, LenProperties DEF Count
  <1>7. Count(s) <= Lanes
    BY <1>1, <1>4, <1>6
  <1>8. \A i \in 1 .. Count(s) : i \in 1 .. Lanes /\ s.bytes[i] \in Byte
    BY <1>2, <1>4, <1>6, <1>7
  <1>9. HasStems(s)
    BY <1>2 DEF HasStems
  <1> QED
    BY <1>1, <1>2, <1>3, <1>4, <1>5, <1>6, <1>7, <1>8, <1>9

\* The child of a branch whose tail offset leads to p is p's leaf.
LEMMA ChildIs ==
  ASSUME NEW s, Sorted(s), Tailed(s), NEW i \in 0 .. Count(s) - 1
  PROVE  /\ i \notin s.inl => Child(s, i) = s.branch[i + 1]
         /\ \A p \in s.line : i \in s.inl /\ p.at = Spot(s, i) => Child(s, i) = LeafAt(p.leaf)
         /\ i \in s.inl => Child(s, i) = InlineLeaf(s, i) /\ Child(s, i).t = "leaf"
         /\ Child(s, i) \in Ext
  <1>1. i \notin s.inl => Child(s, i) = s.branch[i + 1] /\ Child(s, i) \in Ext
    BY DEF Child, Tailed
  <1>2. ASSUME i \in s.inl, NEW p \in s.line, p.at = Spot(s, i)
        PROVE  Child(s, i) = LeafAt(p.leaf)
    <2> DEFINE at == {q \in s.line : q.at = Line - s.branch[i + 1].v}
    <2>1. p \in at /\ \A q \in at : q = p
      BY <1>2 DEF Tailed, Spot
    <2>2. (CHOOSE q \in at : TRUE) = p /\ at # {}
      BY <2>1
    <2>3. InlineLeaf(s, i) = LeafAt(p.leaf)
      BY <2>2 DEF InlineLeaf
    <2> QED
      BY <1>2, <2>3 DEF Child
  <1>3. ASSUME i \in s.inl
        PROVE  Child(s, i) \in Ext /\ Child(s, i) = InlineLeaf(s, i) /\ Child(s, i).t = "leaf"
    <2>1. PICK p \in s.line : p.at = Spot(s, i)
      BY <1>3 DEF Tailed
    <2>2. p.leaf \in Byte
      BY <2>1, SortedIs
    <2>3. Child(s, i) = LeafAt(p.leaf)
      BY <1>2, <1>3, <2>1
    <2> QED
      BY <1>3, <2>2, <2>3 DEF Ext, LeafAt, Child
  <1> QED
    BY <1>1, <1>2, <1>3

LEMMA LowerBoundIs ==
  ASSUME NEW s, Sorted(s), NEW b \in Byte
  PROVE  /\ LowerBound(s, b) \in 0 .. Count(s)
         /\ \A i \in 1 .. Lanes : s.bytes[i] < b <=> i <= LowerBound(s, b)
  <1> DEFINE n == Count(s)
             X == {i \in 1 .. n : s.bytes[i] < b}
  <1>1. n \in Nat /\ n <= Lanes /\ Lanes \in Nat /\ \A i \in 1 .. Lanes : s.bytes[i] \in Byte
    BY SortedIs, ByteFacts
  <1>2. \A i \in 1 .. Lanes : s.bytes[i] < b => i <= n
    <2> TAKE i \in 1 .. Lanes
    <2>1. i > n => s.bytes[i] = MaxB
      BY DEF Sorted
    <2>2. ~(MaxB < b) /\ MaxB \in Nat
      BY ByteFacts DEF Byte
    <2> QED
      BY <1>1, <2>1, <2>2
  <1>3. X = {i \in 1 .. Lanes : s.bytes[i] < b}
    BY <1>1, <1>2
  <1>4. \A i \in X : \A j \in 1 .. i - 1 : j \in X
    <2> TAKE i \in X
    <2> TAKE j \in 1 .. i - 1
    <2>1. i \in 1 .. n /\ j \in 1 .. n /\ j < i /\ s.bytes[i] < b
      BY <1>1
    <2>2. s.bytes[j] < s.bytes[i]
      BY <2>1 DEF Sorted
    <2>3. s.bytes[j] \in Int /\ s.bytes[i] \in Int /\ b \in Int
      BY <1>1, <2>1, ByteFacts
    <2> QED
      BY <2>1, <2>2, <2>3
  <1>5. Cardinality(X) \in 0 .. n /\ \A i \in 1 .. n : i \in X <=> i <= Cardinality(X)
    BY <1>1, <1>4, Initial
  <1>6. LowerBound(s, b) = Cardinality(X)
    BY <1>3 DEF LowerBound
  <1> HIDE DEF X
  <1>7. \A i \in 1 .. Lanes : i \in X <=> i <= Cardinality(X)
    <2> TAKE i \in 1 .. Lanes
    <2>1. i \in X => i \in 1 .. n
      BY DEF X
    <2>2. i <= Cardinality(X) => i \in 1 .. n
      BY <1>1, <1>5
    <2> QED
      BY <1>5, <2>1, <2>2
  <1> QED
    BY <1>3, <1>5, <1>6, <1>7

\* A finite set of numbers has a least and a greatest member.
LEMMA MinIs ==
  ASSUME NEW S \in SUBSET Int, IsFiniteSet(S), S # {}
  PROVE  Min(S) \in S /\ \A y \in S : Min(S) <= y
  <1>1. Cardinality(S) \in Nat /\ Cardinality(S) # 0
    BY FS_CardinalityType, FS_EmptySet
  <1>2. 1 \in 1 .. Cardinality(S)
    BY <1>1
  <1>3. PICK x \in S : Cardinality(Under(S, x)) = 1 - 1
    BY <1>2, CountOnto
  <1>4. IsFiniteSet(Under(S, x))
    BY CountUnder
  <1>5. Under(S, x) = {}
    BY <1>3, <1>4, FS_EmptySet
  <1>6. \A y \in S : x <= y
    BY <1>5 DEF Under
  <1> QED
    BY <1>6 DEF Min

LEMMA MaxIs ==
  ASSUME NEW S \in SUBSET Int, IsFiniteSet(S), S # {}
  PROVE  Max(S) \in S /\ \A y \in S : Max(S) >= y
  <1> DEFINE n == Cardinality(S)
  <1>1. n \in Nat /\ n # 0
    BY FS_CardinalityType, FS_EmptySet
  <1>2. n \in 1 .. n
    BY <1>1
  <1>3. PICK x \in S : Cardinality(Under(S, x)) = n - 1
    BY <1>2, CountOnto
  <1>4. ASSUME NEW y \in S, ~(x >= y)
        PROVE  FALSE
    <2>1. x \in Int /\ y \in Int /\ x < y
      BY <1>4
    <2>2. Cardinality(Under(S, x)) < Cardinality(Under(S, y))
      BY <2>1, CountOrder
    <2>3. Cardinality(Under(S, y)) < n /\ Cardinality(Under(S, y)) \in Nat
      BY <2>1, CountUnder
    <2> QED
      BY <1>1, <1>3, <2>2, <2>3
  <1> QED
    BY <1>4 DEF Max

\* A stem is looked up at its place, and found nowhere when it is not there: the
\* pads that equal MaxB are behind every stem.
LEMMA IndexOfIs ==
  ASSUME NEW s, Sorted(s), NEW b \in Byte
  PROVE  /\ IndexOf(s, b) = -1 <=> \A i \in 1 .. Count(s) : s.bytes[i] # b
         /\ IndexOf(s, b) # -1 => /\ IndexOf(s, b) \in 0 .. Count(s) - 1
                                  /\ s.bytes[IndexOf(s, b) + 1] = b
  <1> DEFINE n == Count(s)
  <1>1. /\ n \in Nat /\ n <= Lanes /\ Lanes \in Nat /\ \A i \in 1 .. Lanes : s.bytes[i] \in Int
        /\ b \in Int /\ s.kind \in {"set", "u16"}
    BY SortedIs, ByteFacts
  <1>2. CASE s.kind = "u16"
    <2> DEFINE lb == LowerBound(s, b)
    <2>1. lb \in 0 .. n /\ \A i \in 1 .. Lanes : s.bytes[i] < b <=> i <= lb
      BY LowerBoundIs
    <2>2. IndexOf(s, b) = IF lb < n /\ s.bytes[lb + 1] = b THEN lb ELSE -1
      BY <1>2 DEF IndexOf
    <2> HIDE DEF lb
    <2>3. ASSUME NEW i \in 1 .. n, s.bytes[i] = b
          PROVE  lb < n /\ s.bytes[lb + 1] = b
      <3>1. i \in 1 .. Lanes /\ ~(i <= lb) /\ lb + 1 \in 1 .. n /\ lb + 1 \in 1 .. Lanes
        BY <1>1, <2>1, <2>3
      <3>2. lb + 1 = i \/ lb + 1 < i
        BY <3>1, <2>1
      <3>3. lb + 1 < i => s.bytes[lb + 1] < s.bytes[i]
        BY <3>1 DEF Sorted
      <3>4. ~(s.bytes[lb + 1] < b)
        BY <2>1, <3>1
      <3> QED
        BY <1>1, <2>1, <2>3, <3>1, <3>2, <3>3, <3>4
    <2>4. lb < n => lb \in 0 .. n - 1 /\ lb + 1 \in 1 .. n /\ lb # -1
      BY <1>1, <2>1
    <2> QED
      BY <2>2, <2>3, <2>4
  <1>3. CASE s.kind = "set"
    <2> DEFINE half(lo, hi) == {i \in lo .. hi : s.bytes[i + 1] = b}
               A == half(0, Lanes \div 2 - 1)
               B == half(Lanes \div 2, Lanes - 1)
               found == {i \in {Min(h) : h \in {A, B} \ {{}}} : i < Count(s)}
    <2>1. IndexOf(s, b) = IF found = {} THEN -1 ELSE Min(found)
      BY <1>3 DEF IndexOf
    <2>2. Lanes \div 2 \in 0 .. Lanes
      BY <1>1
    <2>3. ASSUME NEW h \in {A, B}
          PROVE  h \in SUBSET Int /\ IsFiniteSet(h) /\ \A i \in h : i \in 0 .. Lanes - 1 /\ s.bytes[i + 1] = b
      <3>1. h \in SUBSET (0 .. Lanes - 1) /\ \A i \in h : s.bytes[i + 1] = b
        BY <1>1, <2>2
      <3>2. IsFiniteSet(0 .. Lanes - 1)
        <4>1. 0 \in Int /\ Lanes - 1 \in Int
          BY <1>1
        <4> QED
          BY <4>1, FS_Interval
      <3>3. IsFiniteSet(h)
        BY <3>1, <3>2, FS_Subset
      <3> QED
        BY <3>1, <3>3
    <2>4. \A i \in 0 .. Lanes - 1 : s.bytes[i + 1] = b => i \in A \/ i \in B
      BY <1>1, <2>2
    <2> HIDE DEF A, B
    <2>5. ASSUME NEW i \in found
          PROVE  i \in 0 .. n - 1 /\ s.bytes[i + 1] = b
      <3>1. PICK h \in {A, B} : h # {} /\ i = Min(h)
        OBVIOUS
      <3>2. Min(h) \in h
        BY <2>3, <3>1, MinIs
      <3>3. i \in 0 .. Lanes - 1 /\ s.bytes[i + 1] = b
        BY <2>3, <3>1, <3>2
      <3> QED
        BY <1>1, <3>3
    <2>6. ASSUME NEW k \in 1 .. n, s.bytes[k] = b
          PROVE  k - 1 \in found /\ \A i \in found : i = k - 1
      <3>1. k - 1 \in 0 .. Lanes - 1 /\ (k - 1) + 1 = k /\ k - 1 < n /\ k \in 1 .. Lanes
        BY <1>1
      <3>2. PICK h \in {A, B} : k - 1 \in h
        BY <2>4, <2>6, <3>1
      <3>3. Min(h) \in h /\ Min(h) <= k - 1 /\ Min(h) \in 0 .. Lanes - 1 /\ s.bytes[Min(h) + 1] = b
        BY <2>3, <3>2, MinIs
      <3> DEFINE j == Min(h) + 1
      <3>4. j \in 1 .. k /\ s.bytes[j] = b /\ j \in 1 .. n
        BY <1>1, <3>1, <3>3
      <3> HIDE DEF j
      <3>5. j = k
        <4>1. j < k => s.bytes[j] < s.bytes[k]
          BY <3>4 DEF Sorted
        <4> QED
          BY <1>1, <2>6, <3>4, <4>1
      <3>6. Min(h) = k - 1
        BY <3>1, <3>3, <3>5 DEF j
      <3>7. k - 1 \in found
        BY <3>1, <3>2, <3>6
      <3>8. ASSUME NEW i \in found
            PROVE  i = k - 1
        <4>1. i + 1 \in 1 .. n /\ s.bytes[i + 1] = b /\ i \in Int
          BY <1>1, <2>5
        <4>2. /\ i + 1 < k => s.bytes[i + 1] < s.bytes[k]
              /\ k < i + 1 => s.bytes[k] < s.bytes[i + 1]
          BY <4>1 DEF Sorted
        <4>3. i + 1 = k
          BY <1>1, <2>6, <4>1, <4>2
        <4> QED
          BY <3>1, <4>1, <4>3
      <3> QED
        BY <3>7, <3>8
    <2> HIDE DEF found
    <2>7. CASE found = {}
      BY <2>1, <2>6, <2>7
    <2>8. CASE found # {}
      <3>1. PICK i \in found : TRUE
        BY <2>8
      <3>2. i \in 0 .. n - 1 /\ s.bytes[i + 1] = b /\ i + 1 \in 1 .. n
        BY <1>1, <2>5
      <3>3. found = {i}
        <4>1. (i + 1) - 1 = i
          BY <3>2
        <4>2. \A j \in found : j = (i + 1) - 1
          BY <2>6, <3>2
        <4> QED
          BY <3>1, <4>1, <4>2
      <3>4. Min(found) = i
        BY <3>3 DEF Min
      <3> QED
        BY <2>1, <2>8, <3>2, <3>4
    <2> QED
      BY <2>7, <2>8
  <1> QED
    BY <1>1, <1>2, <1>3

\* Finding a byte among stems.
LEMMA StemsFind ==
  ASSUME NEW s, NEW m, StemsHold(s, m), NEW b \in Byte
  PROVE  /\ b \in DOMAIN m <=> IndexOf(s, b) # -1
         /\ b \in DOMAIN m => /\ IndexOf(s, b) \in 0 .. Count(s) - 1
                              /\ s.bytes[IndexOf(s, b) + 1] = b
                              /\ Child(s, IndexOf(s, b)) = m[b]
         /\ (IF IndexOf(s, b) < 0 THEN NoEdge ELSE Child(s, IndexOf(s, b)))
              = IF b \in DOMAIN m THEN m[b] ELSE NoEdge
  <1> DEFINE k == IndexOf(s, b)
  <1>1. Sorted(s) /\ Carries(s, m) /\ Count(s) \in Nat
    BY SortedIs DEF StemsHold
  <1>2. /\ k = -1 <=> \A i \in 1 .. Count(s) : s.bytes[i] # b
        /\ k # -1 => k \in 0 .. Count(s) - 1 /\ s.bytes[k + 1] = b
    BY <1>1, IndexOfIs
  <1> HIDE DEF k
  <1>3. b \in DOMAIN m <=> k # -1
    BY <1>1, <1>2 DEF Carries
  <1>4. k # -1 => Child(s, k) = m[b]
    <2>1. k # -1 => k + 1 \in 1 .. Count(s) /\ (k + 1) - 1 = k
      BY <1>1, <1>2
    <2> QED
      BY <1>1, <1>2, <2>1 DEF Carries
  <1>5. k < 0 <=> k = -1
    BY <1>2
  <1> QED
    BY <1>2, <1>3, <1>4, <1>5 DEF k

\* The stems, their number and their places.
LEMMA StemsCount ==
  ASSUME NEW s, NEW m, StemsHold(s, m)
  PROVE  /\ Cardinality(DOMAIN m) = Count(s)
         /\ \A i \in 1 .. Count(s) : Ascending(DOMAIN m)[i] = s.bytes[i]
  <1> DEFINE n == Count(s)
             f == [i \in 1 .. n |-> s.bytes[i]]
             D == DOMAIN m
  <1>1. n \in Nat /\ \A i \in 1 .. n : s.bytes[i] \in Int
    BY SortedIs, ByteFacts DEF StemsHold
  <1>2. DOMAIN f = 1 .. n /\ (\A i \in 1 .. n : f[i] \in Int) /\ D = {f[i] : i \in 1 .. n}
    BY <1>1 DEF StemsHold, Carries
  <1>3. \A i, j \in 1 .. n : i < j => f[i] < f[j]
    BY DEF StemsHold, Sorted
  <1>4. \A i \in 1 .. n : f[i] = s.bytes[i]
    OBVIOUS
  <1> HIDE DEF f, D
  <1>5. Cardinality(D) = n /\ \A i \in 1 .. n : Ascending(D)[i] = f[i]
    <2>1. Rises(n, f) /\ D = Values(n, f)
      BY <1>2, <1>3 DEF Rises, Values
    <2> QED
      BY <1>1, <2>1, RisingIs
  <1> QED
    BY <1>4, <1>5 DEF D

\* What a branch leads to depends on its flag, its handle and the line.
LEMMA ChildSame ==
  ASSUME NEW s, NEW r, NEW i, NEW j, r.line = s.line, i \in r.inl <=> j \in s.inl,
         r.branch[i + 1] = s.branch[j + 1]
  PROVE  Child(r, i) = Child(s, j) /\ Spot(r, i) = Spot(s, j)
  BY DEF Child, InlineLeaf, Spot

\* The place of a stem, or the one it would have.
LEMMA PlaceIs ==
  ASSUME NEW s, NEW m, StemsHold(s, m), NEW b \in Byte
  PROVE  /\ LowerBound(s, b) \in 0 .. Count(s)
         /\ b \in DOMAIN m <=> LowerBound(s, b) < Count(s) /\ s.bytes[LowerBound(s, b) + 1] = b
         /\ b \in DOMAIN m => IndexOf(s, b) = LowerBound(s, b)
         /\ \A i \in 1 .. Count(s) : i <= LowerBound(s, b) => s.bytes[i] < b
         /\ b \notin DOMAIN m =>
              \A i \in 1 .. Count(s) : i > LowerBound(s, b) => b < s.bytes[i]
  <1> DEFINE at == LowerBound(s, b)
             n == Count(s)
  <1>1. Sorted(s) /\ n \in Nat /\ (\A i \in 1 .. n : i \in 1 .. Lanes /\ s.bytes[i] \in Int) /\ b \in Int
    BY SortedIs, ByteFacts DEF StemsHold
  <1>2. at \in 0 .. n /\ \A i \in 1 .. Lanes : s.bytes[i] < b <=> i <= at
    BY <1>1, LowerBoundIs
  <1>3. /\ b \in DOMAIN m <=> \E i \in 1 .. n : s.bytes[i] = b
        /\ b \in DOMAIN m => IndexOf(s, b) \in 0 .. n - 1 /\ s.bytes[IndexOf(s, b) + 1] = b
    BY StemsFind DEF StemsHold, Carries
  <1> HIDE DEF at
  <1>4. ASSUME NEW i \in 1 .. n, s.bytes[i] = b
        PROVE  i = at + 1
    <2>1. ~(i <= at) /\ at + 1 \in 1 .. n
      BY <1>1, <1>2, <1>4
    <2>2. at + 1 < i => s.bytes[at + 1] < s.bytes[i]
      BY <1>1, <2>1 DEF Sorted
    <2>3. ~(s.bytes[at + 1] < b)
      BY <1>1, <1>2, <2>1
    <2>4. ~(at + 1 < i)
      BY <1>4, <2>2, <2>3
    <2> QED
      BY <1>1, <1>2, <2>1, <2>4
  <1>5. at < n => at + 1 \in 1 .. n
    BY <1>1, <1>2
  <1>6. ASSUME b \in DOMAIN m
        PROVE  at < n /\ s.bytes[at + 1] = b /\ IndexOf(s, b) = at
    <2> DEFINE k == IndexOf(s, b)
    <2>1. k \in 0 .. n - 1 /\ s.bytes[k + 1] = b
      BY <1>3, <1>6
    <2> HIDE DEF k
    <2>2. k + 1 \in 1 .. n
      BY <1>1, <2>1
    <2>3. k + 1 = at + 1
      BY <1>4, <2>1, <2>2
    <2>4. k = at
      BY <1>2, <2>1, <2>3
    <2> QED
      BY <1>1, <2>1, <2>4 DEF k
  <1>7. ASSUME b \notin DOMAIN m, NEW i \in 1 .. n, i > at
        PROVE  b < s.bytes[i]
    <2>1. s.bytes[i] # b /\ ~(s.bytes[i] < b)
      BY <1>1, <1>2, <1>3, <1>7
    <2> QED
      BY <1>1, <2>1
  <1> QED
    BY <1>1, <1>2, <1>3, <1>5, <1>6, <1>7 DEF at

\* A router of stems, field by field.
Stemmed(kind, bytes, branch, inl, line) ==
  [kind |-> kind, bytes |-> bytes, branch |-> branch, inl |-> inl, line |-> line]

LEMMA StemmedIs ==
  ASSUME NEW kind \in {"set", "u16"}, NEW bytes \in [1 .. Lanes -> Byte],
         NEW branch \in Seq(Ext \cup Inlined), NEW inl \in SUBSET Nat,
         NEW line \in SUBSET [at : Int, leaf : Byte]
  PROVE  /\ Stemmed(kind, bytes, branch, inl, line) \in StemSort
         /\ Stemmed(kind, bytes, branch, inl, line).kind = kind
         /\ Stemmed(kind, bytes, branch, inl, line).bytes = bytes
         /\ Stemmed(kind, bytes, branch, inl, line).branch = branch
         /\ Stemmed(kind, bytes, branch, inl, line).inl = inl
         /\ Stemmed(kind, bytes, branch, inl, line).line = line
         /\ Count(Stemmed(kind, bytes, branch, inl, line)) = Len(branch)
         /\ Cap(Stemmed(kind, bytes, branch, inl, line)) = IF kind = "set" THEN SetCap ELSE U16Cap
  BY DEF Stemmed, StemSort, Count, Cap

LEMMA StemsAre ==
  ASSUME NEW s \in StemSort
  PROVE  s = Stemmed(s.kind, s.bytes, s.branch, s.inl, s.line)
  BY DEF Stemmed, StemSort

\* A branch changes to a child outside the line.
LEMMA StemChanged ==
  ASSUME NEW s, NEW m, StemsHold(s, m), NEW b \in DOMAIN m, NEW h \in Ext,
         NEW k, k = IndexOf(s, b), k \notin s.inl, NEW br \in Seq(Ext \cup Inlined), Len(br) = Count(s),
         Changed(s.branch, br, Count(s), k, h),
         NEW r, r = Stemmed(s.kind, s.bytes, br, s.inl, s.line)
  PROVE  StemsHold(r, Put(m, b, h)) /\ r.kind = s.kind /\ r.inl = s.inl /\ Count(r) = Count(s)
  <1> DEFINE n == Count(s)
             v == Put(m, b, h)
  <1>1. Sorted(s) /\ Tailed(s) /\ Apart(s) /\ Carries(s, m) /\ EdgeMap(m) /\ b \in Byte
    BY DEF StemsHold, Carries, EdgeMap
  <1>2. k \in 0 .. n - 1 /\ s.bytes[k + 1] = b
    BY <1>1, StemsFind
  <1>3. n = Len(s.branch) /\ n \in Nat /\ s.branch \in Seq(Ext \cup Inlined)
    BY <1>1, SortedIs
  <1>4. k + 1 \in 1 .. Len(s.branch) /\ h \in Ext \cup Inlined
    BY <1>2, <1>3
  <1>5. /\ br \in Seq(Ext \cup Inlined) /\ Len(br) = n
        /\ \A j \in 1 .. n : br[j] = IF j = k + 1 THEN h ELSE s.branch[j]
    BY DEF Changed
  <1>6. /\ s.kind \in {"set", "u16"} /\ s.bytes \in [1 .. Lanes -> Byte]
        /\ s.inl \in SUBSET Nat /\ s.line \in SUBSET [at : Int, leaf : Byte]
    BY <1>1, SortedIs
  <1>7. r.kind = s.kind /\ r.bytes = s.bytes /\ r.branch = br /\ r.inl = s.inl /\ r.line = s.line
    BY <1>5, <1>6, StemmedIs
  <1>8. Count(r) = n /\ Cap(r) = Cap(s)
    BY <1>5, <1>7 DEF Count, Cap
  <1>9. r \in StemSort
    BY <1>5, <1>6, StemmedIs
  <1>10. Sorted(r)
    BY <1>1, <1>7, <1>8, <1>9 DEF Sorted
  <1>11. \A i \in 0 .. n - 1 : i # k => r.branch[i + 1] = s.branch[i + 1]
    BY <1>2, <1>3, <1>5, <1>7
  <1>12. ASSUME NEW i \in 0 .. n - 1, i # k
         PROVE  Child(r, i) = Child(s, i) /\ Spot(r, i) = Spot(s, i)
    BY <1>7, <1>11, <1>12, ChildSame
  <1>13. r.branch[k + 1] = h /\ Child(r, k) = h
    <2>1. r.branch[k + 1] = h
      BY <1>3, <1>4, <1>5, <1>7
    <2> QED
      BY <1>7, <2>1 DEF Child
  <1>14. s.inl \subseteq 0 .. n - 1
    BY <1>1 DEF Tailed
  <1>15. Tailed(r)
    <2>1. ASSUME NEW i \in 0 .. n - 1
          PROVE  IF i \in r.inl THEN r.branch[i + 1] \in Inlined /\ \E p \in r.line : p.at = Spot(r, i)
                 ELSE r.branch[i + 1] \in Ext
      <3>1. CASE i = k
        BY <1>7, <1>13, <3>1
      <3>2. CASE i # k
        BY <1>1, <1>7, <1>11, <1>12, <3>2 DEF Tailed
      <3> QED
        BY <3>1, <3>2
    <2> QED
      BY <1>1, <1>7, <1>8, <2>1 DEF Tailed
  <1>16. Apart(r)
    <2>1. \A i \in s.inl : Child(r, i) = Child(s, i) /\ Spot(r, i) = Spot(s, i)
      BY <1>12, <1>14
    <2> QED
      BY <1>1, <1>7, <1>8, <2>1 DEF Apart
  <1>17. Carries(r, v)
    <2>0. /\ EdgeMap(v) /\ DOMAIN v = DOMAIN m \cup {b} /\ v[b] = h
          /\ \A x \in DOMAIN m \ {b} : v[x] = m[x]
      <3>1. EdgeMap(m) /\ b \in Byte
        BY <1>1
      <3> QED
        BY <3>1 DEF Put, EdgeMap
    <2>1. /\ EdgeMap(v) /\ DOMAIN v = DOMAIN m /\ v[b] = h
          /\ \A x \in DOMAIN m : x # b => v[x] = m[x]
      BY <2>0
    <2> HIDE DEF v
    <2>2. DOMAIN v = {r.bytes[i] : i \in 1 .. Count(r)}
      BY <1>1, <1>7, <1>8, <2>1 DEF Carries
    <2>3. ASSUME NEW i \in 1 .. n
          PROVE  Child(r, i - 1) = v[r.bytes[i]]
      <3>1. i - 1 \in 0 .. n - 1 /\ s.bytes[i] \in DOMAIN m /\ Child(s, i - 1) = m[s.bytes[i]]
        BY <1>1, <1>3 DEF Carries
      <3>2. CASE i - 1 = k
        <4>1. k + 1 = i
          BY <1>2, <3>2
        <4>2. r.bytes[i] = b /\ v[b] = h /\ Child(r, i - 1) = h
          BY <1>2, <1>7, <1>13, <2>1, <3>2, <4>1
        <4> QED
          BY <4>2
      <3>3. CASE i - 1 # k
        <4>1. s.bytes[i] # b
          <5>1. k + 1 \in 1 .. n /\ i # k + 1
            BY <1>2, <1>3, <3>3
          <5>2. /\ i < k + 1 => s.bytes[i] < s.bytes[k + 1]
                /\ k + 1 < i => s.bytes[k + 1] < s.bytes[i]
            BY <1>1, <5>1 DEF Sorted
          <5>3. s.bytes[i] \in Int /\ s.bytes[k + 1] \in Int
            BY <1>1, <5>1, SortedIs, ByteFacts
          <5> QED
            BY <1>2, <5>1, <5>2, <5>3
        <4>2. Child(r, i - 1) = Child(s, i - 1)
          BY <1>12, <3>1, <3>3
        <4> QED
          BY <1>7, <2>1, <3>1, <4>1, <4>2
      <3> QED
        BY <3>2, <3>3
    <2> QED
      BY <1>8, <2>1, <2>2, <2>3 DEF Carries
  <1> QED
    BY <1>7, <1>8, <1>10, <1>15, <1>16, <1>17 DEF StemsHold

\* An edge more, while no leaf is in the line.
LEMMA StemAdded ==
  ASSUME NEW s, NEW m, StemsHold(s, m), s.inl = {}, NEW b \in Byte, b \notin DOMAIN m,
         NEW h \in Ext, Count(s) < Cap(s), NEW k, k = LowerBound(s, b),
         NEW g \in Seq(Byte), Len(g) = Lanes,
         Opened(s.bytes, g, Lanes, Count(s), k, b),
         NEW br \in Seq(Ext \cup Inlined), Len(br) = Count(s) + 1,
         Opened(s.branch, br, Len(br), Count(s), k, h),
         NEW ln \in SUBSET s.line
  PROVE  StemsHold(Stemmed(s.kind, g, br, s.inl, ln), Put(m, b, h))
  <1> DEFINE r == Stemmed(s.kind, g, br, s.inl, ln)
             n == Count(s)
             v == Put(m, b, h)
  <1>0. r = Stemmed(s.kind, g, br, s.inl, ln)
    OBVIOUS
  <1> HIDE DEF r
  <1>1. Sorted(s) /\ Tailed(s) /\ Carries(s, m) /\ EdgeMap(m)
    BY DEF StemsHold, Carries
  <1>2. /\ n = Len(s.branch) /\ n \in Nat /\ s.branch \in Seq(Ext \cup Inlined)
        /\ Lanes \in Nat /\ Cap(s) <= Lanes /\ Cap(s) \in Nat /\ n + 1 <= Lanes
        /\ \A i \in 1 .. Lanes : s.bytes[i] \in Byte /\ s.bytes[i] \in Int
    <2>1. /\ n = Len(s.branch) /\ n \in Nat /\ s.branch \in Seq(Ext \cup Inlined)
          /\ Cap(s) <= Lanes /\ Cap(s) \in Nat /\ s.bytes \in [1 .. Lanes -> Byte]
      BY <1>1, SortedIs
    <2>2. Lanes \in Nat /\ Byte \subseteq Int
      BY ByteFacts
    <2> QED
      BY <2>1, <2>2
  <1>3. k \in 0 .. n /\ (\A i \in 1 .. n : i <= k => s.bytes[i] < b)
        /\ (\A i \in 1 .. n : i > k => b < s.bytes[i]) /\ b \in Int
    BY PlaceIs, ByteFacts
  <1>4. /\ s.kind \in {"set", "u16"} /\ g \in [1 .. Lanes -> Byte]
        /\ s.inl \in SUBSET Nat /\ ln \in SUBSET [at : Int, leaf : Byte]
    <2>1. g \in [1 .. Lanes -> Byte]
      BY LenProperties
    <2> QED
      BY <1>1, <2>1, SortedIs
  <1>5. r.kind = s.kind /\ r.bytes = g /\ r.branch = br /\ r.inl = s.inl /\ r.line = ln
    BY <1>0, <1>4, StemmedIs
  <1>6. Count(r) = n + 1 /\ Cap(r) = Cap(s)
    BY <1>5 DEF Count, Cap
  <1>7. r \in StemSort
    BY <1>0, <1>4, StemmedIs
  <1>8. \A i \in 1 .. n + 1 : g[i] = IF i <= k THEN s.bytes[i] ELSE IF i = k + 1 THEN b ELSE s.bytes[i - 1]
    BY <1>2 DEF Opened
  <1>81. \A i \in 1 .. n + 1 : br[i] = IF i <= k THEN s.branch[i] ELSE IF i = k + 1 THEN h ELSE s.branch[i - 1]
    BY <1>2 DEF Opened
  <1>9. \A i, j \in 1 .. n + 1 : i < j => g[i] < g[j]
    <2> TAKE i, j \in 1 .. n + 1
    <2>1. SUFFICES ASSUME i < j PROVE g[i] < g[j]
      OBVIOUS
    <2>2. /\ g[i] = IF i <= k THEN s.bytes[i] ELSE IF i = k + 1 THEN b ELSE s.bytes[i - 1]
          /\ g[j] = IF j <= k THEN s.bytes[j] ELSE IF j = k + 1 THEN b ELSE s.bytes[j - 1]
      BY <1>8
    <2>3. \A x, y \in 1 .. n : x < y => s.bytes[x] < s.bytes[y]
      BY <1>1 DEF Sorted
    <2>4. CASE j <= k
      BY <1>2, <1>3, <2>1, <2>2, <2>3, <2>4
    <2>5. CASE j = k + 1
      <3>1. i <= k /\ i \in 1 .. n
        BY <1>2, <1>3, <2>1, <2>5
      <3> QED
        BY <1>2, <1>3, <2>2, <2>5, <3>1
    <2>6. CASE j > k + 1
      <3>1. j - 1 \in 1 .. n /\ j - 1 > k /\ ~(j <= k) /\ j # k + 1 /\ g[j] = s.bytes[j - 1]
        BY <1>2, <1>3, <2>2, <2>6
      <3>2. CASE i <= k
        <4>1. i \in 1 .. n /\ i < j - 1 /\ g[i] = s.bytes[i]
          BY <1>2, <1>3, <2>2, <3>1, <3>2
        <4> QED
          BY <2>3, <3>1, <4>1
      <3>3. CASE i = k + 1
        <4>1. g[i] = b
          BY <1>3, <2>2, <3>3
        <4> QED
          BY <1>3, <3>1, <4>1
      <3>4. CASE i > k + 1
        <4>1. i - 1 \in 1 .. n /\ i - 1 < j - 1 /\ g[i] = s.bytes[i - 1]
          BY <1>2, <1>3, <2>1, <2>2, <3>4
        <4> QED
          BY <2>3, <3>1, <4>1
      <3> QED
        BY <1>3, <3>2, <3>3, <3>4
    <2> QED
      BY <1>3, <2>4, <2>5, <2>6
  <1>10. \A i \in 1 .. Lanes : i > n + 1 => g[i] = MaxB
    <2> TAKE i \in 1 .. Lanes
    <2>1. i > n + 1 => g[i] = s.bytes[i] /\ i > n
      <3>1. i > n + 1 => ~(i <= k) /\ i # k + 1 /\ ~(i <= n + 1) /\ i > n
        BY <1>2, <1>3
      <3> QED
        BY <3>1 DEF Opened
    <2> QED
      BY <1>1, <2>1 DEF Sorted
  <1>11. Sorted(r)
    BY <1>2, <1>5, <1>6, <1>7, <1>9, <1>10 DEF Sorted
  <1>12. \A i \in 0 .. n - 1 : s.branch[i + 1] \in Ext
    BY <1>1 DEF Tailed
  <1>13. \A i \in 0 .. n : br[i + 1] = IF i < k THEN s.branch[i + 1] ELSE IF i = k THEN h ELSE s.branch[(i - 1) + 1]
    <2> TAKE i \in 0 .. n
    <2>1. i + 1 \in 1 .. n + 1 /\ (i + 1 < k + 1 <=> i < k) /\ (i + 1 = k + 1 <=> i = k)
          /\ (i + 1) - 1 = (i - 1) + 1 /\ (i + 1 <= k <=> i < k)
      BY <1>2, <1>3
    <2> QED
      BY <2>1 DEF Opened
  <1>14. \A i \in 0 .. n : br[i + 1] \in Ext
    <2> TAKE i \in 0 .. n
    <2>1. /\ i < k => i \in 0 .. n - 1
          /\ i > k => i - 1 \in 0 .. n - 1
          /\ i < k \/ i = k \/ i > k
          /\ i > k => ~(i < k) /\ i # k
      BY <1>2, <1>3
    <2> QED
      BY <1>12, <1>13, <2>1
  <1>15. Tailed(r)
    <2>1. \A i \in 0 .. Count(r) - 1 : i \notin r.inl /\ r.branch[i + 1] \in Ext
      <3>1. (n + 1) - 1 = n
        BY <1>2
      <3> QED
        BY <1>5, <1>6, <1>14, <3>1
    <2>2. r.inl = {}
      BY <1>5
    <2>3. \A p, q \in r.line : p.at = q.at => p = q
      BY <1>1, <1>5 DEF Tailed
    <2> QED
      BY <2>1, <2>2, <2>3 DEF Tailed
  <1>16. Apart(r)
    BY <1>5 DEF Apart
  <1>17. Carries(r, v)
    <2>1. /\ EdgeMap(v) /\ DOMAIN v = DOMAIN m \cup {b} /\ v[b] = h
          /\ \A x \in DOMAIN m \ {b} : v[x] = m[x]
      <3>1. EdgeMap(m)
        BY <1>1
      <3> QED
        BY <3>1 DEF Put, EdgeMap
    <2> HIDE DEF v
    <2>2. DOMAIN m = {s.bytes[i] : i \in 1 .. n} /\ \A i \in 1 .. n : s.branch[i] = m[s.bytes[i]]
      <3>1. \A i \in 1 .. n : i - 1 \in 0 .. n - 1 /\ i - 1 \notin s.inl /\ (i - 1) + 1 = i
        BY <1>2
      <3>2. \A i \in 1 .. n : Child(s, i - 1) = s.branch[i]
        BY <3>1 DEF Child
      <3> QED
        BY <1>1, <3>2 DEF Carries
    <2>3. DOMAIN v = {g[i] : i \in 1 .. n + 1}
      <3>1. ASSUME NEW i \in 1 .. n
            PROVE  \E j \in 1 .. n + 1 : g[j] = s.bytes[i]
        <4>1. CASE i <= k
          <5>1. i \in 1 .. n + 1 /\ g[i] = s.bytes[i]
            BY <1>2, <1>8, <4>1
          <5> QED
            BY <5>1
        <4>2. CASE i > k
          <5>1. i + 1 \in 1 .. n + 1 /\ ~(i + 1 <= k) /\ i + 1 # k + 1 /\ (i + 1) - 1 = i
            BY <1>2, <1>3, <4>2
          <5>2. g[i + 1] = s.bytes[i]
            BY <1>8, <5>1
          <5> QED
            BY <5>1, <5>2
        <4> QED
          BY <1>3, <4>1, <4>2
      <3>2. k + 1 \in 1 .. n + 1 /\ g[k + 1] = b
        BY <1>2, <1>3, <1>8
      <3>3. ASSUME NEW j \in 1 .. n + 1
            PROVE  g[j] \in DOMAIN v
        <4>1. CASE j <= k
          BY <1>2, <1>3, <1>8, <2>1, <2>2, <4>1
        <4>2. CASE j = k + 1
          BY <2>1, <3>2, <4>2
        <4>3. CASE j > k + 1
          <5>1. j - 1 \in 1 .. n /\ g[j] = s.bytes[j - 1]
            BY <1>2, <1>3, <1>8, <4>3
          <5> QED
            BY <2>1, <2>2, <5>1
        <4> QED
          BY <1>3, <4>1, <4>2, <4>3
      <3>4. \A x \in DOMAIN v : x \in {g[i] : i \in 1 .. n + 1}
        BY <2>1, <2>2, <3>1, <3>2
      <3> QED
        BY <3>3, <3>4
    <2>4. ASSUME NEW i \in 1 .. n + 1
          PROVE  Child(r, i - 1) = v[g[i]]
      <3>1. Child(r, i - 1) = br[i]
        <4>1. (i - 1) + 1 = i
          OBVIOUS
        <4> QED
          BY <1>5, <4>1 DEF Child
      <3>2. CASE i <= k
        <4>1. i \in 1 .. n /\ i < k + 1 /\ br[i] = s.branch[i] /\ g[i] = s.bytes[i]
          BY <1>2, <1>3, <1>8, <1>81, <3>2
        <4>2. g[i] \in DOMAIN m /\ g[i] # b
          BY <2>2, <4>1
        <4> QED
          BY <2>1, <2>2, <3>1, <4>1, <4>2
      <3>3. CASE i = k + 1
        <4>1. br[i] = h /\ g[i] = b
          BY <1>3, <1>8, <1>81, <3>3
        <4> QED
          BY <2>1, <3>1, <4>1
      <3>4. CASE i > k + 1
        <4>1. i - 1 \in 1 .. n /\ br[i] = s.branch[i - 1] /\ g[i] = s.bytes[i - 1]
          BY <1>2, <1>3, <1>8, <1>81, <3>4
        <4>2. g[i] \in DOMAIN m /\ g[i] # b
          BY <2>2, <4>1
        <4> QED
          BY <2>1, <2>2, <3>1, <4>1, <4>2
      <3> QED
        BY <1>3, <3>2, <3>3, <3>4
    <2>5. DOMAIN v = {r.bytes[i] : i \in 1 .. Count(r)}
      BY <1>5, <1>6, <2>3
    <2>6. \A i \in 1 .. Count(r) : Child(r, i - 1) = v[r.bytes[i]]
      BY <1>5, <1>6, <2>4
    <2> QED
      BY <2>1, <2>5, <2>6 DEF Carries
  <1> QED
    BY <1>5, <1>11, <1>15, <1>16, <1>17 DEF StemsHold, r

\* The flags above k move down with their branches.
FlagsDown(I, k) == {x \in I : x < k} \cup {x - 1 : x \in {y \in I : y > k}}

LEMMA FlagsDownIs ==
  ASSUME NEW I \in SUBSET Nat, NEW k \in Nat, NEW i \in Nat
  PROVE  /\ FlagsDown(I, k) \in SUBSET Nat /\ (I = {} => FlagsDown(I, k) = {})
         /\ i \in FlagsDown(I, k) <=> (IF i < k THEN i ELSE i + 1) \in I
  <1>1. \A x \in I : x \in Nat /\ (x > k => x - 1 \in Nat)
    OBVIOUS
  <1>2. CASE i < k
    <2>1. \A x \in I : x > k => x - 1 # i
      BY <1>2
    <2> QED
      BY <1>1, <1>2, <2>1 DEF FlagsDown
  <1>3. CASE ~(i < k)
    <2>1. \A x \in I : x - 1 = i <=> x = i + 1
      OBVIOUS
    <2>2. i + 1 > k
      BY <1>3
    <2>3. i + 1 \in I => i \in FlagsDown(I, k)
      <3>1. (i + 1) - 1 = i
        OBVIOUS
      <3> QED
        BY <2>2, <3>1 DEF FlagsDown
    <2>4. i \in FlagsDown(I, k) => i + 1 \in I
      BY <1>3, <2>1 DEF FlagsDown
    <2> QED
      BY <1>1, <1>3, <2>3, <2>4 DEF FlagsDown
  <1> QED
    BY <1>2, <1>3

\* An edge less.
LEMMA StemLost ==
  ASSUME NEW s, NEW m, StemsHold(s, m), NEW b \in DOMAIN m, NEW k, k = IndexOf(s, b),
         NEW g \in Seq(Byte), Len(g) = Lanes, Closed(s.bytes, g, Lanes, Count(s), k, MaxB),
         NEW br \in Seq(Ext \cup Inlined), Len(br) = Count(s) - 1,
         Closed(s.branch, br, Count(s) - 1, Count(s), k, NoEdge),
         NEW J, J = FlagsDown(s.inl, k), NEW r, r = Stemmed(s.kind, g, br, J, s.line)
  PROVE  StemsHold(r, Less(m, b)) /\ r.kind = s.kind /\ Count(r) = Count(s) - 1
  <1> DEFINE n == Count(s)
             v == Less(m, b)
             up(i) == IF i < k THEN i ELSE i + 1
  <1>1. Sorted(s) /\ Tailed(s) /\ Apart(s) /\ Carries(s, m) /\ EdgeMap(m) /\ b \in Byte
    BY DEF StemsHold, Carries, EdgeMap
  <1>2. k \in 0 .. n - 1 /\ s.bytes[k + 1] = b
    BY <1>1, StemsFind
  <1>3. /\ n \in Nat /\ n <= Cap(s) /\ Cap(s) \in Nat /\ n <= Lanes /\ s.branch \in Seq(Ext \cup Inlined)
        /\ s.kind \in {"set", "u16"} /\ s.inl \in SUBSET Nat /\ s.line \in SUBSET [at : Int, leaf : Byte]
        /\ s.bytes \in [1 .. Lanes -> Byte] /\ Len(s.branch) = n
    BY <1>1, SortedIs
  <1>4. Lanes \in Nat /\ k \in Nat /\ n - 1 \in Nat /\ b \in Int /\ \A i \in 1 .. Lanes : s.bytes[i] \in Int
    BY <1>1, <1>2, <1>3, ByteFacts
  <1>5. g \in [1 .. Lanes -> Byte] /\ J \in SUBSET Nat
    <2>1. g \in [1 .. Lanes -> Byte]
      BY LenProperties
    <2> QED
      BY <1>3, <1>4, <2>1, FlagsDownIs
  <1>6. /\ r.kind = s.kind /\ r.bytes = g /\ r.branch = br /\ r.inl = J
        /\ r.line = s.line /\ r \in StemSort
    <2>1. r.kind = s.kind /\ r.bytes = g /\ r.branch = br /\ r.inl = J /\ r.line = s.line
      BY DEF Stemmed
    <2>2. r \in StemSort
      <3>1. /\ s.kind \in {"set", "u16"} /\ g \in [1 .. Lanes -> Byte] /\ J \in SUBSET Nat
            /\ s.line \in SUBSET [at : Int, leaf : Byte]
        BY <1>3, <1>5
      <3> QED
        BY <3>1 DEF Stemmed, StemSort
    <2> QED
      BY <2>1, <2>2
  <1>7. Count(r) = n - 1 /\ Cap(r) = Cap(s)
    BY <1>6 DEF Count, Cap
  <1>8. \A i \in 1 .. n - 1 : g[i] = IF i <= k THEN s.bytes[i] ELSE s.bytes[i + 1]
    <2> TAKE i \in 1 .. n - 1
    <2>1. i \in 1 .. Lanes /\ i < n
      BY <1>3, <1>4
    <2> QED
      BY <2>1 DEF Closed
  <1>9. \A i \in 1 .. n - 1 : br[i] = IF i <= k THEN s.branch[i] ELSE s.branch[i + 1]
    <2> TAKE i \in 1 .. n - 1
    <2>1. i < n
      BY <1>3
    <2> QED
      BY <2>1 DEF Closed
  <1>10. \A x, y \in 1 .. n : x < y => s.bytes[x] < s.bytes[y]
    BY <1>1 DEF Sorted
  <1>11. \A i, j \in 1 .. n - 1 : i < j => g[i] < g[j]
    <2> TAKE i, j \in 1 .. n - 1
    <2>1. /\ i \in 1 .. n /\ i + 1 \in 1 .. n /\ j \in 1 .. n /\ j + 1 \in 1 .. n
          /\ i < j => i < j + 1 /\ i + 1 < j + 1 /\ (j <= k => i <= k)
      BY <1>3, <1>4
    <2>2. /\ g[i] = IF i <= k THEN s.bytes[i] ELSE s.bytes[i + 1]
          /\ g[j] = IF j <= k THEN s.bytes[j] ELSE s.bytes[j + 1]
      BY <1>8
    <2> QED
      BY <1>10, <2>1, <2>2
  <1>12. \A i \in 1 .. Lanes : i > n - 1 => g[i] = MaxB
    <2> TAKE i \in 1 .. Lanes
    <2>1. i > n - 1 => ~(i <= k) /\ ~(i < n) /\ (i # n => i > n)
      BY <1>2, <1>3
    <2>2. i > n => s.bytes[i] = MaxB
      BY <1>1 DEF Sorted
    <2>3. i > n - 1 => g[i] = IF i = n THEN MaxB ELSE s.bytes[i]
      BY <2>1 DEF Closed
    <2> QED
      BY <2>1, <2>2, <2>3
  <1>13. Sorted(r)
    <2>1. n - 1 <= Cap(s)
      BY <1>3
    <2> QED
      BY <1>6, <1>7, <1>11, <1>12, <2>1 DEF Sorted
  <1>14. ASSUME NEW i \in 0 .. n - 2
         PROVE  /\ up(i) \in 0 .. n - 1 /\ up(i) # k /\ (i \in r.inl <=> up(i) \in s.inl)
                /\ r.branch[i + 1] = s.branch[up(i) + 1] /\ g[i + 1] = s.bytes[up(i) + 1]
                /\ Child(r, i) = Child(s, up(i)) /\ Spot(r, i) = Spot(s, up(i))
    <2>1. i \in Nat /\ i + 1 \in 1 .. n - 1 /\ (i + 1 <= k <=> i < k) /\ up(i) \in 0 .. n - 1 /\ up(i) # k
      BY <1>2, <1>3
    <2>2. i \in r.inl <=> up(i) \in s.inl
      BY <1>3, <1>4, <1>6, <2>1, FlagsDownIs
    <2>3. r.branch[i + 1] = s.branch[up(i) + 1] /\ g[i + 1] = s.bytes[up(i) + 1]
      BY <1>6, <1>8, <1>9, <2>1
    <2> HIDE DEF up
    <2>4. Child(r, i) = Child(s, up(i)) /\ Spot(r, i) = Spot(s, up(i))
      BY <1>6, <2>2, <2>3 DEF Child, InlineLeaf, Spot
    <2> QED
      BY <2>1, <2>2, <2>3, <2>4
  <1>15. r.inl \subseteq 0 .. n - 2
    <2>1. s.inl \subseteq 0 .. n - 1
      BY <1>1 DEF Tailed
    <2>2. \A x \in s.inl : x \in 0 .. n - 1 /\ (x < k => x \in 0 .. n - 2) /\ (x > k => x - 1 \in 0 .. n - 2)
      BY <1>2, <1>3, <2>1
    <2> QED
      BY <1>6, <2>2 DEF FlagsDown
  <1>16. Count(r) - 1 = n - 2
    BY <1>3, <1>7
  <1>17. Tailed(r)
    <2>1. ASSUME NEW i \in 0 .. n - 2
          PROVE  IF i \in r.inl THEN r.branch[i + 1] \in Inlined /\ \E p \in r.line : p.at = Spot(r, i)
                 ELSE r.branch[i + 1] \in Ext
      <3>1. IF up(i) \in s.inl THEN s.branch[up(i) + 1] \in Inlined /\ \E p \in s.line : p.at = Spot(s, up(i))
            ELSE s.branch[up(i) + 1] \in Ext
        BY <1>1, <1>14 DEF Tailed
      <3> HIDE DEF up
      <3> QED
        BY <1>6, <1>14, <3>1
    <2>2. r.kind = "u16" => r.inl = {}
      BY <1>1, <1>3, <1>4, <1>6 DEF Tailed, FlagsDown
    <2>3. \A p, q \in r.line : p.at = q.at => p = q
      BY <1>1, <1>6 DEF Tailed
    <2> QED
      BY <1>15, <1>16, <2>1, <2>2, <2>3 DEF Tailed
  <1>18. Apart(r)
    <2> SUFFICES ASSUME NEW i \in r.inl
                 PROVE  /\ i < InlineMax /\ Spot(r, i) >= BranchEnd(Count(r)) /\ Spot(r, i) % ValAlign = 0
                        /\ Spot(r, i) + LeafSize[Child(r, i).v] <= Line
                        /\ \A x \in r.inl : x < i => Spot(r, i) + LeafSize[Child(r, i).v] <= Spot(r, x)
      BY DEF Apart
    <2>1. i \in 0 .. n - 2 /\ up(i) \in s.inl /\ i <= up(i)
      BY <1>14, <1>15
    <2>2. Spot(r, i) = Spot(s, up(i)) /\ Child(r, i) = Child(s, up(i))
      BY <1>14, <2>1
    <2>3. ASSUME NEW x \in r.inl, x < i
          PROVE  up(x) \in s.inl /\ up(x) < up(i) /\ Spot(r, x) = Spot(s, up(x))
      <3>1. x \in 0 .. n - 2
        BY <1>15
      <3>2. up(x) < up(i)
        BY <1>4, <2>1, <2>3, <3>1
      <3> QED
        BY <1>14, <3>1, <3>2
    <2>4. /\ up(i) < InlineMax /\ Spot(s, up(i)) >= BranchEnd(n) /\ Spot(s, up(i)) % ValAlign = 0
          /\ Spot(s, up(i)) + LeafSize[Child(s, up(i)).v] <= Line
          /\ \A x \in s.inl : x < up(i) => Spot(s, up(i)) + LeafSize[Child(s, up(i)).v] <= Spot(s, x)
      BY <1>1, <2>1 DEF Apart
    <2>5. BranchEnd(n) >= BranchEnd(Count(r)) /\ BranchEnd(n) \in Int /\ BranchEnd(Count(r)) \in Int
          /\ InlineMax \in Int
      <3>1. BranchOff \in Nat /\ PtrSize \in Nat /\ InlineMax \in Int
        BY LineAssumption
      <3>2. n * PtrSize = (n - 1) * PtrSize + PtrSize /\ n * PtrSize \in Int /\ (n - 1) * PtrSize \in Int
        BY <1>3, <3>1
      <3> QED
        BY <1>7, <3>1, <3>2 DEF BranchEnd
    <2>6. Spot(s, up(i)) \in Int
      <3>1. s.branch[up(i) + 1] \in Inlined /\ Line \in Int
        BY <1>1, <1>14, <2>1, LineAssumption DEF Tailed
      <3> QED
        BY <3>1 DEF Spot, Inlined
    <2>7. i < InlineMax
      <3>1. up(i) \in Int
        BY <1>14, <2>1
      <3> HIDE DEF up
      <3> QED
        BY <2>1, <2>4, <2>5, <3>1
    <2>8. Spot(r, i) >= BranchEnd(Count(r))
      BY <2>2, <2>4, <2>5, <2>6
    <2> HIDE DEF up
    <2> QED
      BY <2>2, <2>3, <2>4, <2>7, <2>8
  <1>19. Carries(r, v)
    <2>1. /\ EdgeMap(v) /\ DOMAIN v = DOMAIN m \ {b}
          /\ \A x \in DOMAIN m \ {b} : v[x] = m[x]
      <3>1. EdgeMap(m)
        BY <1>1
      <3> QED
        BY <3>1 DEF Less, EdgeMap
    <2> HIDE DEF v
    <2>2. \A i \in 1 .. n : s.bytes[i] = b => i = k + 1
      <3> TAKE i \in 1 .. n
      <3>1. k + 1 \in 1 .. n
        BY <1>2, <1>3
      <3>2. (i < k + 1 => s.bytes[i] < b) /\ (k + 1 < i => b < s.bytes[i])
        BY <1>2, <1>10, <3>1
      <3> QED
        BY <1>4, <3>1, <3>2
    <2>3. DOMAIN m = {s.bytes[i] : i \in 1 .. n} /\ \A i \in 1 .. n : Child(s, i - 1) = m[s.bytes[i]]
      BY <1>1 DEF Carries
    <2>4. ASSUME NEW i \in 1 .. n - 1
          PROVE  g[i] \in DOMAIN v /\ Child(r, i - 1) = v[g[i]]
      <3>1. i - 1 \in 0 .. n - 2 /\ (i - 1) + 1 = i
        BY <1>3
      <3> DEFINE j == up(i - 1)
      <3>2. j \in 0 .. n - 1 /\ j # k /\ g[i] = s.bytes[j + 1] /\ Child(r, i - 1) = Child(s, j)
        BY <1>14, <3>1
      <3> HIDE DEF j
      <3>3. j + 1 \in 1 .. n /\ (j + 1) - 1 = j /\ j + 1 # k + 1
        BY <1>2, <1>3, <3>2
      <3>4. s.bytes[j + 1] # b /\ s.bytes[j + 1] \in DOMAIN m /\ Child(s, j) = m[s.bytes[j + 1]]
        BY <2>2, <2>3, <3>3
      <3> QED
        BY <2>1, <3>2, <3>4
    <2>5. ASSUME NEW x \in DOMAIN v
          PROVE  x \in {g[i] : i \in 1 .. n - 1}
      <3>1. PICK i \in 1 .. n : x = s.bytes[i]
        BY <2>1, <2>3
      <3>2. i # k + 1
        BY <1>2, <2>1, <3>1
      <3>3. CASE i <= k
        <4>1. i \in 1 .. n - 1 /\ g[i] = s.bytes[i]
          BY <1>2, <1>3, <1>8, <3>3
        <4> QED
          BY <3>1, <4>1
      <3>4. CASE i > k
        <4>1. i - 1 \in 1 .. n - 1 /\ ~(i - 1 <= k) /\ (i - 1) + 1 = i
          BY <1>2, <1>3, <3>2, <3>4
        <4>2. g[i - 1] = s.bytes[i]
          BY <1>8, <4>1
        <4> QED
          BY <3>1, <4>1, <4>2
      <3> QED
        BY <1>2, <3>3, <3>4
    <2>6. DOMAIN v = {r.bytes[i] : i \in 1 .. Count(r)}
      <3>1. DOMAIN v = {g[i] : i \in 1 .. n - 1}
        BY <2>4, <2>5
      <3> QED
        BY <1>6, <1>7, <3>1
    <2>7. \A i \in 1 .. Count(r) : Child(r, i - 1) = v[r.bytes[i]]
      BY <1>6, <1>7, <2>4
    <2> QED
      BY <2>1, <2>6, <2>7 DEF Carries
  <1> QED
    BY <1>6, <1>7, <1>13, <1>17, <1>18, <1>19 DEF StemsHold

-----------------------------------------------------------------------------
(* Leaves in the line.                                                     *)

LEMMA LineFacts ==
  /\ Line \in Nat /\ BranchOff \in Nat /\ PtrSize \in Nat /\ InlineMax \in Nat
  /\ ValAlign \in Nat \ {0} /\ Line % ValAlign = 0 /\ \A b \in Byte : LeafSize[b] \in Nat \ {0}
  /\ \A n \in Nat : BranchEnd(n) \in Int
  <1>1. /\ Line \in Nat /\ BranchOff \in Nat /\ PtrSize \in Nat /\ InlineMax \in Nat
        /\ ValAlign \in Nat \ {0} /\ Line % ValAlign = 0 /\ \A b \in Byte : LeafSize[b] \in Nat \ {0}
    BY LineAssumption
  <1>2. \A n \in Nat : BranchEnd(n) \in Int
    BY <1>1 DEF BranchEnd
  <1> QED
    BY <1>1, <1>2

\* The greatest aligned address up to x.
LEMMA RoundDownIs ==
  ASSUME NEW x \in Int
  PROVE  /\ RoundDown(x) \in Int /\ RoundDown(x) <= x /\ RoundDown(x) % ValAlign = 0
         /\ \A a \in Int : a % ValAlign = 0 /\ a <= x => a <= RoundDown(x)
  <1> DEFINE V == ValAlign
             q == x \div V
             w == x % V
  <1>1. V \in Nat \ {0}
    BY LineFacts
  <1> HIDE DEF V
  <1>2. q \in Int /\ w \in 0 .. V - 1 /\ x = V * q + w
    BY <1>1, Division
  <1>3. RoundDown(x) = q * V
    BY DEF RoundDown, V
  <1> HIDE DEF q, w
  <1>4. q * V = V * q + 0 /\ q * V \in Int /\ V * q \in Int /\ V * q = q * V /\ 0 \in 0 .. V - 1
    BY <1>1, <1>2
  <1>5. RoundDown(x) % V = 0
    <2> DEFINE y == RoundDown(x)
    <2>1. y = V * q + 0
      BY <1>3, <1>4
    <2> HIDE DEF y
    <2>2. y % V = 0
      BY <1>1, <1>2, <1>4, <2>1, QuotientIs
    <2> QED
      BY <2>2 DEF y
  <1>6. ASSUME NEW a \in Int, a % V = 0, a <= x
        PROVE  a <= q * V
    <2> DEFINE p == a \div V
    <2>1. p \in Int /\ a = V * p + (a % V)
      BY <1>1, Division
    <2> HIDE DEF p
    <2>2. a = V * p /\ V * p \in Int
      BY <1>1, <1>6, <2>1
    <2>3. CASE q < p
      <3>1. q + 1 <= p
        BY <1>2, <2>1, <2>3
      <3>2. V * (q + 1) <= V * p /\ V * (q + 1) = V * q + V
        BY <1>1, <1>2, <2>1, <3>1
      <3> QED
        BY <1>1, <1>2, <1>4, <1>6, <2>2, <3>2
    <2>4. CASE p <= q
      <3>1. V * p <= V * q
        BY <1>1, <1>2, <2>1, <2>4
      <3> QED
        BY <1>4, <2>2, <3>1
    <2> QED
      BY <1>2, <2>1, <2>3, <2>4
  <1>7. q * V <= x
    BY <1>1, <1>2, <1>4
  <1> QED
    BY <1>3, <1>4, <1>5, <1>6, <1>7 DEF V

\* below of Packed, up to branch top.
Packing(s, I, f, top) ==
  f = [i \in -1 .. top |->
        IF i = -1 THEN Line
        ELSE IF i \in I THEN RoundDown(f[i - 1] - LeafSize[Child(s, i).v]) ELSE f[i - 1]]

LEMMA PackingExists ==
  ASSUME NEW s, NEW I
  PROVE  \E f : Packing(s, I, f, InlineMax)
  <1> DEFINE S == {k \in Nat : \E f : Packing(s, I, f, k - 1)}
             next(i, y) == IF i \in I THEN RoundDown(y - LeafSize[Child(s, i).v]) ELSE y
  <1>1. InlineMax + 1 \in Nat /\ (InlineMax + 1) - 1 = InlineMax
    BY LineFacts
  <1>2. 0 \in S
    <2> DEFINE f == [i \in -1 .. 0 - 1 |-> Line]
    <2>1. \A i \in -1 .. 0 - 1 : i = -1
      OBVIOUS
    <2>2. Packing(s, I, f, 0 - 1)
      BY <2>1 DEF Packing
    <2> QED
      BY <2>2
  <1>3. ASSUME NEW k \in Nat, k \in S
        PROVE  k + 1 \in S
    <2>1. PICK g : Packing(s, I, g, k - 1)
      BY <1>3
    <2> DEFINE f == [i \in -1 .. k |-> IF i = k THEN next(k, g[k - 1]) ELSE g[i]]
    <2>2. \A i \in -1 .. k - 1 : g[i] = IF i = -1 THEN Line ELSE next(i, g[i - 1])
      BY <2>1 DEF Packing
    <2> HIDE DEF next
    <2>3. \A i \in -1 .. k : (i # k => i \in -1 .. k - 1) /\ (i # -1 => i - 1 \in -1 .. k /\ i - 1 # k)
      OBVIOUS
    <2>4. \A i \in -1 .. k : f[i] = IF i = k THEN next(k, g[k - 1]) ELSE g[i]
      OBVIOUS
    <2>5. \A i \in -1 .. k : i # -1 => f[i - 1] = g[i - 1]
      BY <2>3
    <2>6. DOMAIN f = -1 .. k /\ f = [i \in -1 .. k |-> f[i]]
      OBVIOUS
    <2> HIDE DEF f
    <2>7. \A i \in -1 .. k : f[i] = IF i = -1 THEN Line ELSE next(i, f[i - 1])
      <3> TAKE i \in -1 .. k
      <3>1. CASE i = k
        <4>1. i # -1
          BY <3>1
        <4> QED
          BY <2>4, <2>5, <3>1, <4>1
      <3>2. CASE i # k
        BY <2>2, <2>3, <2>4, <2>5, <3>2
      <3> QED
        BY <3>1, <3>2
    <2>8. f = [i \in -1 .. k |-> IF i = -1 THEN Line ELSE next(i, f[i - 1])]
      BY <2>6, <2>7
    <2>9. (k + 1) - 1 = k /\ k + 1 \in Nat
      OBVIOUS
    <2>10. Packing(s, I, f, k)
      BY <2>8 DEF Packing, next
    <2> QED
      BY <2>9, <2>10
  <1>4. \A i \in 0 .. InlineMax + 1 : i \in S
    <2>1. \A i \in 0 .. (InlineMax + 1) - 1 : i \in S => i + 1 \in S
      BY <1>3
    <2> HIDE DEF S
    <2> QED
      BY <1>1, <1>2, <2>1, UpTo
  <1>5. InlineMax + 1 \in S
    BY <1>1, <1>4
  <1> QED
    BY <1>1, <1>5

\* Every step of Packed takes the room of one leaf.
LEMMA PackedBy ==
  ASSUME NEW s, NEW m, StemsHold(s, m), NEW I \in SUBSET (0 .. Count(s) - 1), \A i \in I : i < InlineMax
  PROVE  \E f : /\ f[-1] = Line /\ (\A i \in -1 .. InlineMax : f[i] \in Int)
                /\ \A i \in 0 .. InlineMax :
                     f[i] = IF i \in I THEN RoundDown(f[i - 1] - LeafSize[Child(s, i).v]) ELSE f[i - 1]
                /\ \A i \in -1 .. InlineMax : \A x \in -1 .. i : f[i] <= f[x]
                /\ Packed(s, I) = [i \in I |-> f[i]]
  <1> DEFINE B == CHOOSE f : Packing(s, I, f, InlineMax)
  <1>1. Packing(s, I, B, InlineMax)
    BY PackingExists
  <1>2. Packed(s, I) = [i \in I |-> B[i]]
    BY DEF Packed, Packing
  <1> HIDE DEF B
  <1>3. \A i \in -1 .. InlineMax :
          B[i] = IF i = -1 THEN Line
                 ELSE IF i \in I THEN RoundDown(B[i - 1] - LeafSize[Child(s, i).v]) ELSE B[i - 1]
    BY <1>1 DEF Packing
  <1>4. InlineMax \in Nat /\ Line \in Int /\ -1 \in -1 .. InlineMax
    BY LineFacts
  <1>5. B[-1] = Line
    BY <1>3, <1>4
  <1>6. \A i \in 0 .. InlineMax :
          B[i] = IF i \in I THEN RoundDown(B[i - 1] - LeafSize[Child(s, i).v]) ELSE B[i - 1]
    <2> TAKE i \in 0 .. InlineMax
    <2>1. i \in -1 .. InlineMax /\ i # -1
      BY <1>4
    <2> QED
      BY <1>3, <2>1
  <1>7. \A i \in I : LeafSize[Child(s, i).v] \in Nat
    <2> TAKE i \in I
    <2>1. Child(s, i) \in Ext
      BY ChildIs DEF StemsHold
    <2>2. Child(s, i).v \in Byte
      BY <2>1 DEF Ext
    <2> QED
      BY <2>2, LineFacts
  <1> DEFINE S == {k \in Nat : \A x \in -1 .. k - 1 : B[x] \in Int /\ B[k - 1] <= B[x]}
  <1>8. 0 \in S
    <2>1. 0 - 1 = -1 /\ \A x \in -1 .. 0 - 1 : x = -1
      OBVIOUS
    <2> QED
      BY <1>4, <1>5, <2>1
  <1>9. ASSUME NEW k \in 0 .. InlineMax, k \in S
        PROVE  k + 1 \in S
    <2>1. B[k - 1] \in Int /\ \A x \in -1 .. k - 1 : B[x] \in Int /\ B[k - 1] <= B[x]
      <3>1. k - 1 \in -1 .. k - 1
        OBVIOUS
      <3> QED
        BY <1>9, <3>1
    <2>2. B[k] \in Int /\ B[k] <= B[k - 1]
      <3>1. CASE k \in I
        <4> DEFINE d == B[k - 1] - LeafSize[Child(s, k).v]
        <4>1. d \in Int /\ d <= B[k - 1]
          BY <1>7, <2>1, <3>1
        <4>2. B[k] = RoundDown(d)
          BY <1>6, <3>1
        <4> HIDE DEF d
        <4>3. RoundDown(d) \in Int /\ RoundDown(d) <= d
          BY <4>1, RoundDownIs
        <4> QED
          BY <2>1, <4>1, <4>2, <4>3
      <3>2. CASE k \notin I
        BY <1>6, <2>1, <3>2
      <3> QED
        BY <3>1, <3>2
    <2>3. ASSUME NEW x \in -1 .. k
          PROVE  B[x] \in Int /\ B[k] <= B[x]
      <3>1. CASE x = k
        BY <2>2, <3>1
      <3>2. CASE x # k
        <4>1. x \in -1 .. k - 1
          BY <3>2
        <4>2. B[k - 1] <= B[x] /\ B[x] \in Int
          BY <2>1, <4>1
        <4> QED
          BY <2>1, <2>2, <4>2
      <3> QED
        BY <3>1, <3>2
    <2>4. k + 1 \in Nat /\ (k + 1) - 1 = k
      OBVIOUS
    <2> QED
      BY <2>2, <2>3, <2>4
  <1>10. \A k \in 0 .. InlineMax + 1 : k \in S
    <2>1. InlineMax + 1 \in Nat /\ (InlineMax + 1) - 1 = InlineMax
      BY <1>4
    <2>2. \A k \in 0 .. (InlineMax + 1) - 1 : k \in S => k + 1 \in S
      BY <1>9, <2>1
    <2> HIDE DEF S
    <2> QED
      BY <1>8, <2>1, <2>2, UpTo
  <1>11. ASSUME NEW i \in -1 .. InlineMax
         PROVE  B[i] \in Int /\ \A x \in -1 .. i : B[i] <= B[x]
    <2>1. i + 1 \in 0 .. InlineMax + 1 /\ (i + 1) - 1 = i
      BY <1>4
    <2>2. i + 1 \in S
      BY <1>10, <2>1
    <2>3. i \in -1 .. i
      OBVIOUS
    <2> QED
      BY <2>1, <2>2, <2>3
  <1> QED
    BY <1>2, <1>5, <1>6, <1>11

\* Packed leaves are aligned, in the line and apart.
LEMMA PackedIs ==
  ASSUME NEW s, NEW m, StemsHold(s, m), NEW I \in SUBSET (0 .. Count(s) - 1),
         \A i \in I : i < InlineMax, NEW at, at = Packed(s, I)
  PROVE  /\ \A i \in I : /\ at[i] \in Int /\ at[i] % ValAlign = 0
                         /\ at[i] + LeafSize[Child(s, i).v] <= Line
         /\ \A i, x \in I : x < i => at[i] + LeafSize[Child(s, i).v] <= at[x]
  <1>1. PICK f : /\ f[-1] = Line /\ (\A i \in -1 .. InlineMax : f[i] \in Int)
                 /\ \A i \in 0 .. InlineMax :
                      f[i] = IF i \in I THEN RoundDown(f[i - 1] - LeafSize[Child(s, i).v]) ELSE f[i - 1]
                 /\ \A i \in -1 .. InlineMax : \A x \in -1 .. i : f[i] <= f[x]
                 /\ Packed(s, I) = [i \in I |-> f[i]]
    BY PackedBy
  <1>2. Count(s) \in Nat /\ InlineMax \in Nat /\ Line \in Int
    BY SortedIs, LineFacts DEF StemsHold
  <1>3. ASSUME NEW i \in I
        PROVE  /\ at[i] \in Int /\ at[i] % ValAlign = 0
               /\ \A x \in -1 .. i - 1 : at[i] + LeafSize[Child(s, i).v] <= f[x]
    <2> DEFINE w == LeafSize[Child(s, i).v]
               y == f[i - 1] - w
    <2>1. i \in 0 .. InlineMax /\ i \in -1 .. InlineMax /\ i - 1 \in -1 .. InlineMax /\ i \in Int
      BY <1>2
    <2>2. w \in Nat
      <3>1. Child(s, i) \in Ext
        BY ChildIs DEF StemsHold
      <3> QED
        BY <3>1, LineFacts DEF Ext
    <2>3. at[i] = f[i] /\ f[i] = RoundDown(y)
      BY <1>1, <2>1
    <2>4. y \in Int /\ f[i - 1] \in Int
      BY <1>1, <2>1, <2>2
    <2>5. y + w = f[i - 1]
      BY <2>2, <2>4
    <2> HIDE DEF y, w
    <2>6. RoundDown(y) \in Int /\ RoundDown(y) <= y /\ RoundDown(y) % ValAlign = 0
      BY <2>4, RoundDownIs
    <2>7. ASSUME NEW x \in -1 .. i - 1
          PROVE  at[i] + w <= f[x]
      <3>1. f[i - 1] <= f[x] /\ f[x] \in Int
        <4>1. x \in -1 .. InlineMax
          BY <1>2, <2>1
        <4> QED
          BY <1>1, <2>1, <4>1
      <3> QED
        BY <2>2, <2>3, <2>4, <2>5, <2>6, <3>1
    <2> QED
      BY <2>3, <2>6, <2>7 DEF w
  <1>4. ASSUME NEW i \in I
        PROVE  at[i] + LeafSize[Child(s, i).v] <= Line
    <2>1. -1 \in -1 .. i - 1
      BY <1>2
    <2> QED
      BY <1>1, <1>3, <2>1
  <1>5. ASSUME NEW i \in I, NEW x \in I, x < i
        PROVE  at[i] + LeafSize[Child(s, i).v] <= at[x]
    <2>1. x \in -1 .. i - 1 /\ at[x] = f[x]
      BY <1>1, <1>2, <1>5
    <2> QED
      BY <1>3, <2>1
  <1> QED
    BY <1>3, <1>4, <1>5

\* Packing again the leaves that are in the line moves none of them down.
LEMMA PackedHigher ==
  ASSUME NEW s, NEW m, StemsHold(s, m)
  PROVE  \A i \in s.inl : Packed(s, s.inl)[i] >= Spot(s, i)
  <1> DEFINE I == s.inl
             w(i) == LeafSize[Child(s, i).v]
  <1>1. I \in SUBSET (0 .. Count(s) - 1) /\ Count(s) \in Nat /\ InlineMax \in Nat /\ Line \in Int
    BY SortedIs, LineFacts DEF StemsHold, Tailed
  <1>2. \A i \in I : /\ i < InlineMax /\ Spot(s, i) % ValAlign = 0 /\ Spot(s, i) + w(i) <= Line
                     /\ \A x \in I : x < i => Spot(s, i) + w(i) <= Spot(s, x)
    BY DEF StemsHold, Apart
  <1>3. \A i \in I : w(i) \in Nat /\ Spot(s, i) \in Int
    <2> TAKE i \in I
    <2>1. Child(s, i) \in Ext
      BY <1>1, ChildIs DEF StemsHold
    <2>2. s.branch[i + 1] \in Inlined
      BY <1>1 DEF StemsHold, Tailed
    <2> QED
      BY <1>1, <2>1, <2>2, LineFacts DEF Ext, Inlined, Spot
  <1>4. PICK f : /\ f[-1] = Line /\ (\A i \in -1 .. InlineMax : f[i] \in Int)
                 /\ \A i \in 0 .. InlineMax :
                      f[i] = IF i \in I THEN RoundDown(f[i - 1] - LeafSize[Child(s, i).v]) ELSE f[i - 1]
                 /\ \A i \in -1 .. InlineMax : \A x \in -1 .. i : f[i] <= f[x]
                 /\ Packed(s, I) = [i \in I |-> f[i]]
    <2>1. \A i \in I : i < InlineMax
      BY <1>2
    <2> HIDE DEF I
    <2> QED
      BY <1>1, <2>1, PackedBy
  <1>5. \A i \in 0 .. InlineMax : f[i] = IF i \in I THEN RoundDown(f[i - 1] - w(i)) ELSE f[i - 1]
    BY <1>4
  <1> HIDE DEF I, w
  <1> DEFINE S == {k \in Nat : \A y \in I : y > k - 1 => f[k - 1] >= Spot(s, y) + w(y)}
  <1>6. 0 \in S
    BY <1>1, <1>2, <1>3, <1>4
  <1>7. ASSUME NEW k \in 0 .. InlineMax
        PROVE  /\ k \in I /\ f[k - 1] >= Spot(s, k) + w(k) => f[k] >= Spot(s, k)
               /\ k \in S => k + 1 \in S
    <2>1. f[k - 1] \in Int /\ f[k] \in Int /\ k \in Int
      <3>1. k - 1 \in -1 .. InlineMax /\ k \in -1 .. InlineMax
        BY <1>1
      <3> QED
        BY <1>4, <3>1
    <2>2. ASSUME k \in I, f[k - 1] >= Spot(s, k) + w(k)
          PROVE  f[k] >= Spot(s, k)
      <3> DEFINE y == f[k - 1] - w(k)
                 a == Spot(s, k)
      <3>1. y \in Int /\ a <= y /\ a \in Int /\ a % ValAlign = 0
        BY <1>2, <1>3, <2>1, <2>2
      <3>2. f[k] = RoundDown(y)
        BY <1>5, <2>2
      <3> HIDE DEF y, a
      <3>3. a <= RoundDown(y) /\ RoundDown(y) \in Int
        BY <3>1, RoundDownIs
      <3> QED
        BY <3>1, <3>2, <3>3 DEF a
    <2>3. ASSUME k \in S
          PROVE  \A y \in I : y > k => f[k] >= Spot(s, y) + w(y)
      <3> TAKE y \in I
      <3> HAVE y > k
      <3>1. y \in Int /\ y > k - 1
        BY <1>1, <2>1
      <3>2. CASE k \in I
        <4>1. f[k - 1] >= Spot(s, k) + w(k)
          BY <2>1, <2>3, <3>2
        <4>2. f[k] >= Spot(s, k)
          BY <2>2, <3>2, <4>1
        <4>3. Spot(s, y) + w(y) <= Spot(s, k)
          BY <1>2, <3>1, <3>2, <2>1
        <4> QED
          BY <1>3, <2>1, <3>2, <4>2, <4>3
      <3>3. CASE k \notin I
        BY <1>5, <2>3, <3>1, <3>3
      <3> QED
        BY <3>2, <3>3
    <2>4. k + 1 \in Nat /\ (k + 1) - 1 = k
      OBVIOUS
    <2> QED
      BY <2>2, <2>3, <2>4
  <1>8. \A k \in 0 .. InlineMax + 1 : k \in S
    <2>1. InlineMax + 1 \in Nat /\ (InlineMax + 1) - 1 = InlineMax
      BY <1>1
    <2>2. \A k \in 0 .. (InlineMax + 1) - 1 : k \in S => k + 1 \in S
      BY <1>7, <2>1
    <2> HIDE DEF S
    <2> QED
      BY <1>6, <2>1, <2>2, UpTo
  <1>9. ASSUME NEW i \in I
        PROVE  Packed(s, I)[i] >= Spot(s, i)
    <2>1. i \in 0 .. InlineMax /\ i \in 0 .. InlineMax + 1 /\ i > i - 1
      BY <1>1, <1>2
    <2>2. f[i - 1] >= Spot(s, i) + w(i)
      BY <1>8, <2>1
    <2> QED
      BY <1>4, <1>7, <2>1, <2>2
  <1> QED
    BY <1>9 DEF I

\* The line as Hosted lays it out.
LEMMA HostedHolds ==
  ASSUME NEW s, NEW m, StemsHold(s, m), s.kind = "set", NEW I \in SUBSET (0 .. Count(s) - 1),
         s.inl \subseteq I, \A i \in I : i < InlineMax /\ Child(s, i).t = "leaf",
         \A i \in I : Packed(s, I)[i] >= BranchEnd(Count(s))
  PROVE  /\ StemsHold(Hosted(s, I), m) /\ Hosted(s, I).kind = s.kind
         /\ Hosted(s, I).inl = I /\ Count(Hosted(s, I)) = Count(s)
  <1> DEFINE at == Packed(s, I)
             n == Count(s)
             br == [i \in 1 .. n |-> IF i - 1 \in I THEN InLine(Line - at[i - 1]) ELSE s.branch[i]]
             ln == {[at |-> at[i], leaf |-> Child(s, i).v] : i \in I}
             r == Hosted(s, I)
  <1>1. /\ Sorted(s) /\ Tailed(s) /\ Carries(s, m) /\ s \in StemSort
        /\ n \in Nat /\ Line \in Int /\ s.kind = "set" /\ Cap(s) = SetCap
    BY SortedIs, LineFacts DEF StemsHold, Sorted, Cap
  <1>2. \A i \in I : /\ at[i] \in Int /\ at[i] % ValAlign = 0 /\ at[i] + LeafSize[Child(s, i).v] <= Line
                     /\ \A x \in I : x < i => at[i] + LeafSize[Child(s, i).v] <= at[x]
    BY PackedIs
  <1>3. \A i \in I : i < InlineMax /\ at[i] >= BranchEnd(n)
    OBVIOUS
  <1>4. \A i \in 0 .. n - 1 : Child(s, i) \in Ext /\ (i \notin s.inl => Child(s, i) = s.branch[i + 1])
    BY <1>1, ChildIs
  <1>5. \A i \in I : /\ i \in 0 .. n - 1 /\ Child(s, i).v \in Byte /\ Child(s, i) = LeafAt(Child(s, i).v)
                     /\ LeafSize[Child(s, i).v] \in Nat \ {0}
    <2> TAKE i \in I
    <2>1. Child(s, i) \in Ext /\ Child(s, i).t = "leaf"
      BY <1>4
    <2> QED
      BY <2>1, LineFacts DEF Ext, LeafAt
  <1>6. \A i, x \in I : at[i] = at[x] => i = x
    <2> TAKE i, x \in I
    <2>1. ASSUME i < x PROVE at[x] < at[i]
      BY <1>2, <1>5, <2>1
    <2>2. ASSUME x < i PROVE at[i] < at[x]
      BY <1>2, <1>5, <2>2
    <2>3. i \in Int /\ x \in Int
      BY <1>1
    <2> QED
      BY <1>2, <2>1, <2>2, <2>3
  <1>7. r = Stemmed(s.kind, s.bytes, br, I, ln)
    <2>1. r = [s EXCEPT !.inl = I, !.branch = br, !.line = ln]
      BY DEF Hosted
    <2>2. s = Stemmed(s.kind, s.bytes, s.branch, s.inl, s.line)
      BY <1>1, StemsAre
    <2> HIDE DEF r, br, ln, at, n
    <2> QED
      BY <2>1, <2>2 DEF Stemmed
  <1> HIDE DEF at
  <1>8. br \in Seq(Ext \cup Inlined) /\ Len(br) = n
    <2>1. \A i \in 1 .. n : br[i] \in Ext \cup Inlined
      <3> TAKE i \in 1 .. n
      <3>1. CASE i - 1 \in I
        <4>1. at[i - 1] \in Int
          BY <1>2, <3>1
        <4>2. br[i] = InLine(Line - at[i - 1])
          BY <3>1
        <4> QED
          BY <1>1, <4>1, <4>2 DEF InLine, Inlined
      <3>2. CASE i - 1 \notin I
        <4>1. br[i] = s.branch[i] /\ i \in 1 .. Len(s.branch)
          BY <3>2 DEF Count
        <4> QED
          BY <1>1, <4>1 DEF StemSort
      <3> QED
        BY <3>1, <3>2
    <2> QED
      BY <1>1, <2>1
  <1>9. ln \in SUBSET [at : Int, leaf : Byte]
    BY <1>2, <1>5
  <1>10. \A i \in 1 .. n : br[i] = IF i - 1 \in I THEN InLine(Line - at[i - 1]) ELSE s.branch[i]
    OBVIOUS
  <1>11. \A p \in ln : \E i \in I : p = [at |-> at[i], leaf |-> Child(s, i).v]
    OBVIOUS
  <1>12. \A i \in I : [at |-> at[i], leaf |-> Child(s, i).v] \in ln
    OBVIOUS
  <1> HIDE DEF br, ln
  <1>13. /\ r \in StemSort /\ r.kind = s.kind /\ r.bytes = s.bytes /\ r.branch = br /\ r.inl = I
         /\ r.line = ln /\ Count(r) = n
    <2>1. I \in SUBSET Nat
      BY <1>1
    <2>2. s.kind \in {"set", "u16"} /\ s.bytes \in [1 .. Lanes -> Byte]
      BY <1>1, SortedIs
    <2> HIDE DEF r, n
    <2> QED
      BY <1>7, <1>8, <1>9, <2>1, <2>2 DEF Stemmed, StemSort, Count
  <1> HIDE DEF r
  <1>14. Sorted(r)
    <2>1. Cap(r) = Cap(s)
      BY <1>13 DEF Cap
    <2> HIDE DEF n
    <2>2. \A i, j \in 1 .. Count(r) : i < j => r.bytes[i] < r.bytes[j]
      BY <1>1, <1>13 DEF Sorted, n
    <2>3. \A i \in 1 .. Lanes : i > Count(r) => r.bytes[i] = MaxB
      BY <1>1, <1>13 DEF Sorted, n
    <2>4. Count(r) <= Cap(r)
      BY <1>1, <1>13, <2>1 DEF Sorted, n
    <2> QED
      BY <1>13, <2>2, <2>3, <2>4 DEF Sorted
  <1>15. \A i \in I : Spot(r, i) = at[i] /\ r.branch[i + 1] \in Inlined
    <2> TAKE i \in I
    <2>1. i + 1 \in 1 .. n /\ (i + 1) - 1 = i /\ at[i] \in Int
      BY <1>1, <1>2
    <2>2. r.branch[i + 1] = InLine(Line - at[i])
      BY <1>10, <1>13, <2>1
    <2>3. Line - at[i] \in Int /\ Line - (Line - at[i]) = at[i]
      BY <1>1, <2>1
    <2> QED
      BY <2>2, <2>3 DEF Spot, InLine, Inlined
  <1>16. \A i \in 0 .. n - 1 : i \notin I => r.branch[i + 1] = s.branch[i + 1] /\ s.branch[i + 1] \in Ext
    <2> TAKE i \in 0 .. n - 1
    <2> HAVE i \notin I
    <2>1. i + 1 \in 1 .. n /\ (i + 1) - 1 = i
      BY <1>1
    <2> QED
      BY <1>1, <1>4, <1>10, <1>13, <2>1
  <1>17. Tailed(r)
    <2>1. r.inl \subseteq 0 .. Count(r) - 1
      BY <1>13
    <2>2. r.kind = "u16" => r.inl = {}
      BY <1>1, <1>13
    <2>3. ASSUME NEW i \in 0 .. Count(r) - 1
          PROVE  IF i \in r.inl THEN r.branch[i + 1] \in Inlined /\ \E p \in r.line : p.at = Spot(r, i)
                 ELSE r.branch[i + 1] \in Ext
      <3>1. CASE i \in I
        <4>1. [at |-> at[i], leaf |-> Child(s, i).v] \in r.line
          BY <1>12, <1>13, <3>1
        <4> QED
          BY <1>13, <1>15, <3>1, <4>1
      <3>2. CASE i \notin I
        BY <1>13, <1>16, <3>2
      <3> QED
        BY <3>1, <3>2
    <2>4. ASSUME NEW p \in r.line, NEW q \in r.line, p.at = q.at
          PROVE  p = q
      <3>1. PICK i \in I : p = [at |-> at[i], leaf |-> Child(s, i).v]
        BY <1>11, <1>13
      <3>2. PICK j \in I : q = [at |-> at[j], leaf |-> Child(s, j).v]
        BY <1>11, <1>13
      <3>3. i = j
        BY <1>6, <2>4, <3>1, <3>2
      <3> QED
        BY <3>1, <3>2, <3>3
    <2> QED
      BY <2>1, <2>2, <2>3, <2>4 DEF Tailed
  <1>18. \A i \in 0 .. n - 1 : Child(r, i) = Child(s, i)
    <2> TAKE i \in 0 .. n - 1
    <2>1. CASE i \in I
      <3> DEFINE p == [at |-> at[i], leaf |-> Child(s, i).v]
      <3>1. p \in r.line /\ p.at = Spot(r, i) /\ p.leaf = Child(s, i).v
        BY <1>12, <1>13, <1>15, <2>1
      <3> HIDE DEF p
      <3>2. Child(r, i) = LeafAt(p.leaf)
        BY <1>13, <1>14, <1>17, <2>1, <3>1, ChildIs
      <3> QED
        BY <1>5, <2>1, <3>1, <3>2
    <2>2. CASE i \notin I
      <3>1. Child(r, i) = r.branch[i + 1]
        BY <1>13, <2>2 DEF Child
      <3>2. i \notin s.inl
        BY <2>2
      <3> QED
        BY <1>4, <1>16, <2>2, <3>1, <3>2
    <2> QED
      BY <2>1, <2>2
  <1>19. Apart(r)
    <2>1. BranchEnd(Count(r)) = BranchEnd(n)
      BY <1>13
    <2> QED
      BY <1>2, <1>3, <1>5, <1>13, <1>15, <1>18, <2>1 DEF Apart
  <1>20. Carries(r, m)
    <2>1. \A i \in 1 .. n : i - 1 \in 0 .. n - 1
      BY <1>1
    <2>2. \A i \in 1 .. n : Child(r, i - 1) = m[r.bytes[i]]
      BY <1>1, <1>13, <1>18, <2>1 DEF Carries
    <2>3. EdgeMap(m) /\ DOMAIN m = {r.bytes[i] : i \in 1 .. n}
      BY <1>1, <1>13 DEF Carries
    <2> HIDE DEF n
    <2> QED
      BY <1>13, <2>2, <2>3 DEF Carries
  <1> QED
    BY <1>13, <1>14, <1>17, <1>19, <1>20 DEF StemsHold, r

\* Packing a line again keeps what the router carries.
LEMMA RepackHolds ==
  ASSUME NEW s, NEW m, StemsHold(s, m)
  PROVE  /\ StemsHold(Repack(s), m) /\ Repack(s).kind = s.kind /\ Repack(s).inl = s.inl
         /\ Count(Repack(s)) = Count(s)
  <1>1. CASE s.inl = {}
    BY <1>1 DEF Repack
  <1>2. CASE s.inl # {}
    <2> DEFINE I == s.inl
    <2>1. Sorted(s) /\ Tailed(s) /\ I \in SUBSET (0 .. Count(s) - 1) /\ I \subseteq I /\ s.kind = "set"
      BY <1>2, SortedIs DEF StemsHold, Tailed
    <2>2. \A i \in I : i < InlineMax /\ Child(s, i).t = "leaf" /\ Spot(s, i) >= BranchEnd(Count(s))
      BY <2>1, ChildIs DEF StemsHold, Apart
    <2>3. \A i \in I : Packed(s, I)[i] >= BranchEnd(Count(s))
      <3> TAKE i \in I
      <3>1. Packed(s, I)[i] >= Spot(s, i)
        BY PackedHigher
      <3>2. Packed(s, I)[i] \in Int
        <4>1. \A x \in I : x < InlineMax
          BY <2>2
        <4> HIDE DEF I
        <4> QED
          BY <2>1, <4>1, PackedIs
      <3>3. Spot(s, i) \in Int
        <4>1. s.branch[i + 1] \in Inlined /\ Line \in Int
          BY <2>1, LineFacts DEF Tailed
        <4> QED
          BY <4>1 DEF Spot, Inlined
      <3>4. BranchEnd(Count(s)) \in Int
        BY <2>1, SortedIs, LineFacts
      <3> QED
        BY <2>2, <3>1, <3>2, <3>3, <3>4
    <2>4. Repack(s) = Hosted(s, I) /\ s.inl = I
      BY <1>2 DEF Repack
    <2> HIDE DEF I
    <2> QED
      BY <2>1, <2>2, <2>3, <2>4, HostedHolds
  <1> QED
    BY <1>1, <1>2

\* All leaf children into the line, or none.
LEMMA CompactHolds ==
  ASSUME NEW s, NEW m, StemsHold(s, m), s.kind = "set"
  PROVE  /\ StemsHold(Compact(s), m) /\ Compact(s).kind = "set" /\ Count(Compact(s)) = Count(s)
  <1> DEFINE I == {i \in 0 .. Count(s) - 1 : i < InlineMax /\ Child(s, i).t = "leaf"}
             at == Packed(s, I)
  <1>1. CASE \E i \in I : at[i] < BranchEnd(Count(s))
    <2>1. Compact(s) = s
      BY <1>1 DEF Compact
    <2> HIDE DEF I
    <2> QED
      BY <2>1
  <1>2. CASE ~ \E i \in I : at[i] < BranchEnd(Count(s))
    <2>1. Compact(s) = Hosted(s, I)
      BY <1>2 DEF Compact
    <2>2. I \in SUBSET (0 .. Count(s) - 1) /\ \A i \in I : i < InlineMax /\ Child(s, i).t = "leaf"
      OBVIOUS
    <2>3. s.inl \subseteq I
      <3> SUFFICES ASSUME NEW i \in s.inl PROVE i \in I
        OBVIOUS
      <3>1. i \in 0 .. Count(s) - 1 /\ i < InlineMax
        BY DEF StemsHold, Tailed, Apart
      <3>2. Child(s, i).t = "leaf"
        BY <3>1, ChildIs DEF StemsHold
      <3> QED
        BY <3>1, <3>2
    <2> HIDE DEF I
    <2>4. \A i \in I : Packed(s, I)[i] >= BranchEnd(Count(s))
      <3> TAKE i \in I
      <3>1. Packed(s, I)[i] \in Int
        <4>1. \A x \in I : x < InlineMax
          BY <2>2
        <4> QED
          BY <2>2, <4>1, PackedIs
      <3>2. BranchEnd(Count(s)) \in Int
        BY SortedIs, LineFacts DEF StemsHold
      <3> QED
        BY <1>2, <3>1, <3>2
    <2> HIDE DEF at
    <2>5. /\ StemsHold(Hosted(s, I), m) /\ Hosted(s, I).kind = s.kind
          /\ Count(Hosted(s, I)) = Count(s)
      BY <2>2, <2>3, <2>4, HostedHolds
    <2> QED
      BY <2>1, <2>5
  <1> QED
    BY <1>1, <1>2

\* Leaves that move out of the line keep their branches.
LEMMA OutHolds ==
  ASSUME NEW s, NEW m, StemsHold(s, m), NEW I \in SUBSET s.inl
  PROVE  /\ StemsHold(Out(s, I), m) /\ Out(s, I).kind = s.kind /\ Out(s, I).inl = s.inl \ I
         /\ Count(Out(s, I)) = Count(s)
  <1> DEFINE n == Count(s)
             br == [i \in 1 .. n |-> IF i - 1 \in I THEN Child(s, i - 1) ELSE s.branch[i]]
             J == s.inl \ I
             r == Out(s, I)
  <1>1. /\ Sorted(s) /\ Tailed(s) /\ Apart(s) /\ Carries(s, m) /\ s \in StemSort /\ n \in Nat
    BY SortedIs DEF StemsHold, Sorted
  <1>2. \A i \in 0 .. n - 1 : Child(s, i) \in Ext /\ (i \notin s.inl => Child(s, i) = s.branch[i + 1])
    BY <1>1, ChildIs
  <1>3. r = Stemmed(s.kind, s.bytes, br, J, s.line)
    <2>1. r = [s EXCEPT !.inl = J, !.branch = br]
      BY DEF Out
    <2>2. s = Stemmed(s.kind, s.bytes, s.branch, s.inl, s.line)
      BY <1>1, StemsAre
    <2> HIDE DEF r, br, n, J
    <2> QED
      BY <2>1, <2>2 DEF Stemmed
  <1>4. \A i \in 1 .. n : br[i] = IF i - 1 \in I THEN Child(s, i - 1) ELSE s.branch[i]
    OBVIOUS
  <1>5. br \in Seq(Ext \cup Inlined) /\ Len(br) = n
    <2>1. \A i \in 1 .. n : br[i] \in Ext \cup Inlined
      <3> TAKE i \in 1 .. n
      <3>1. i - 1 \in 0 .. n - 1 /\ i \in 1 .. Len(s.branch)
        BY <1>1 DEF Count
      <3>2. Child(s, i - 1) \in Ext /\ s.branch[i] \in Ext \cup Inlined
        BY <1>1, <1>2, <3>1 DEF StemSort
      <3> QED
        BY <1>4, <3>2
    <2> QED
      BY <1>1, <2>1
  <1> HIDE DEF br
  <1>6. /\ r \in StemSort /\ r.kind = s.kind /\ r.bytes = s.bytes /\ r.branch = br /\ r.inl = J
        /\ r.line = s.line /\ Count(r) = n
    <2>1. J \in SUBSET Nat /\ s.kind \in {"set", "u16"} /\ s.bytes \in [1 .. Lanes -> Byte]
      BY <1>1, SortedIs
    <2>2. s.line \in SUBSET [at : Int, leaf : Byte]
      BY <1>1, SortedIs
    <2> HIDE DEF r, n, J
    <2> QED
      BY <1>3, <1>5, <2>1, <2>2 DEF Stemmed, StemSort, Count
  <1>7. J \subseteq s.inl /\ \A i \in s.inl : i \notin J => i \in I
    OBVIOUS
  <1> HIDE DEF r, J
  <1>8. Sorted(r)
    <2>1. Cap(r) = Cap(s)
      BY <1>6 DEF Cap
    <2> HIDE DEF n
    <2>2. \A i, j \in 1 .. Count(r) : i < j => r.bytes[i] < r.bytes[j]
      BY <1>1, <1>6 DEF Sorted, n
    <2>3. \A i \in 1 .. Lanes : i > Count(r) => r.bytes[i] = MaxB
      BY <1>1, <1>6 DEF Sorted, n
    <2>4. Count(r) <= Cap(r)
      BY <1>1, <1>6, <2>1 DEF Sorted, n
    <2> QED
      BY <1>6, <2>2, <2>3, <2>4 DEF Sorted
  <1>9. \A i \in 0 .. n - 1 : i + 1 \in 1 .. n /\ (i + 1) - 1 = i
    BY <1>1
  <1>10. \A i \in 0 .. n - 1 : i \notin J => r.branch[i + 1] \in Ext /\ Child(r, i) = r.branch[i + 1]
                                              /\ Child(r, i) = Child(s, i)
    <2> TAKE i \in 0 .. n - 1
    <2> HAVE i \notin J
    <2>1. Child(r, i) = r.branch[i + 1]
      BY <1>6 DEF Child
    <2>2. CASE i \in I
      BY <1>2, <1>4, <1>6, <1>9, <2>1, <2>2
    <2>3. CASE i \notin I
      <3>1. i \notin s.inl
        BY <1>7, <2>3
      <3> QED
        BY <1>2, <1>4, <1>6, <1>9, <2>1, <2>3, <3>1
    <2> QED
      BY <2>2, <2>3
  <1>11. \A i \in J : /\ i \in 0 .. n - 1 /\ i \in s.inl /\ r.branch[i + 1] = s.branch[i + 1]
                      /\ Child(r, i) = Child(s, i) /\ Spot(r, i) = Spot(s, i)
    <2> TAKE i \in J
    <2>1. i \in 0 .. n - 1 /\ i \in s.inl /\ i \notin I
      BY <1>1 DEF J, Tailed
    <2>2. r.branch[i + 1] = s.branch[i + 1]
      BY <1>4, <1>6, <1>9, <2>1
    <2>3. Child(r, i) = Child(s, i) /\ Spot(r, i) = Spot(s, i)
      BY <1>6, <2>1, <2>2 DEF Child, InlineLeaf, Spot
    <2> QED
      BY <2>1, <2>2, <2>3
  <1>12. Tailed(r)
    <2>1. r.inl \subseteq 0 .. Count(r) - 1 /\ (r.kind = "u16" => r.inl = {})
      <3>1. s.kind = "u16" => s.inl = {}
        BY <1>1 DEF Tailed
      <3> QED
        BY <1>6, <1>7, <1>11, <3>1
    <2>2. ASSUME NEW i \in 0 .. Count(r) - 1
          PROVE  IF i \in r.inl THEN r.branch[i + 1] \in Inlined /\ \E p \in r.line : p.at = Spot(r, i)
                 ELSE r.branch[i + 1] \in Ext
      <3>1. CASE i \in J
        <4>1. s.branch[i + 1] \in Inlined /\ \E p \in s.line : p.at = Spot(s, i)
          BY <1>1, <1>11, <3>1 DEF Tailed
        <4> QED
          BY <1>6, <1>11, <3>1, <4>1
      <3>2. CASE i \notin J
        BY <1>6, <1>10, <3>2
      <3> QED
        BY <3>1, <3>2
    <2>3. \A p, q \in r.line : p.at = q.at => p = q
      BY <1>1, <1>6 DEF Tailed
    <2> QED
      BY <2>1, <2>2, <2>3 DEF Tailed
  <1>13. Apart(r)
    <2>1. \A i \in s.inl :
            /\ i < InlineMax /\ Spot(s, i) >= BranchEnd(n) /\ Spot(s, i) % ValAlign = 0
            /\ Spot(s, i) + LeafSize[Child(s, i).v] <= Line
            /\ \A x \in s.inl : x < i => Spot(s, i) + LeafSize[Child(s, i).v] <= Spot(s, x)
      BY <1>1 DEF Apart
    <2>2. BranchEnd(Count(r)) = BranchEnd(n)
      BY <1>6
    <2> HIDE DEF n
    <2> QED
      BY <1>6, <1>11, <2>1, <2>2 DEF Apart
  <1>14. \A i \in 0 .. n - 1 : Child(r, i) = Child(s, i)
    BY <1>10, <1>11
  <1>15. Carries(r, m)
    <2>1. \A i \in 1 .. n : i - 1 \in 0 .. n - 1
      BY <1>1
    <2>2. \A i \in 1 .. n : Child(r, i - 1) = m[r.bytes[i]]
      BY <1>1, <1>6, <1>14, <2>1 DEF Carries
    <2>3. EdgeMap(m) /\ DOMAIN m = {r.bytes[i] : i \in 1 .. n}
      BY <1>1, <1>6 DEF Carries
    <2> HIDE DEF n
    <2> QED
      BY <1>6, <2>2, <2>3 DEF Carries
  <1> QED
    BY <1>6, <1>8, <1>12, <1>13, <1>15 DEF StemsHold, r, J

LEMMA ExternalizeHolds ==
  ASSUME NEW s, NEW m, StemsHold(s, m), NEW i
  PROVE  /\ StemsHold(Externalize(s, i), m) /\ Externalize(s, i).kind = s.kind
         /\ Count(Externalize(s, i)) = Count(s) /\ i \notin Externalize(s, i).inl
  <1>1. CASE i \in s.inl
    <2> DEFINE q == Out(s, {i})
    <2>1. {i} \in SUBSET s.inl
      BY <1>1
    <2>2. StemsHold(q, m) /\ q.kind = s.kind /\ q.inl = s.inl \ {i} /\ Count(q) = Count(s)
      BY <2>1, OutHolds
    <2>3. Externalize(s, i) = Repack(q)
      BY <1>1 DEF Externalize
    <2> HIDE DEF q
    <2> QED
      BY <2>2, <2>3, RepackHolds
  <1>2. CASE i \notin s.inl
    BY <1>2 DEF Externalize
  <1> QED
    BY <1>1, <1>2

LEMMA ExternalizeSomeHolds ==
  ASSUME NEW s, NEW m, StemsHold(s, m), NEW n
  PROVE  StemsHold(ExternalizeSome(s, n), m) /\ ExternalizeSome(s, n).kind = s.kind
  <1> DEFINE I == {i \in s.inl : Cardinality({x \in s.inl : x <= i}) <= n}
  <1>1. I \in SUBSET s.inl
    OBVIOUS
  <1>2. ExternalizeSome(s, n) = Out(s, I)
    BY DEF ExternalizeSome
  <1> HIDE DEF I
  <1> QED
    BY <1>1, <1>2, OutHolds

LEMMA ExternalizeAllHolds ==
  ASSUME NEW s, NEW m, StemsHold(s, m)
  PROVE  /\ StemsHold(ExternalizeAll(s), m) /\ ExternalizeAll(s).kind = s.kind
         /\ ExternalizeAll(s).inl = {} /\ Count(ExternalizeAll(s)) = Count(s)
  <1> DEFINE I == s.inl
  <1>1. I \in SUBSET s.inl /\ s.inl \ I = {}
    OBVIOUS
  <1>2. ExternalizeAll(s) = Out(s, I)
    BY DEF ExternalizeAll
  <1> HIDE DEF I
  <1> QED
    BY <1>1, <1>2, OutHolds

\* The stems and the branches without those at place IndexOf(s, b).
LEMMA CutHolds ==
  ASSUME NEW s, NEW m, StemsHold(s, m), NEW b \in DOMAIN m, NEW k, k = IndexOf(s, b)
  PROVE  StemsHold([StemCut(s, k) EXCEPT !.inl = FlagsDown(s.inl, k)], Less(m, b))
  <1> DEFINE n == Count(s)
             g == SubSeq(s.bytes, 1, k) \o SubSeq(s.bytes, k + 2, n) \o <<MaxB>> \o SubSeq(s.bytes, n + 1, Lanes)
             br == RemoveAt(s.branch, k + 1)
             J == FlagsDown(s.inl, k)
             r == [StemCut(s, k) EXCEPT !.inl = J]
  <1>1. /\ s \in StemSort /\ n \in Nat /\ n <= Lanes /\ Lanes \in Nat /\ s.bytes \in Seq(Byte)
        /\ Len(s.bytes) = Lanes /\ s.branch \in Seq(Ext \cup Inlined) /\ Len(s.branch) = n
        /\ MaxB \in Byte
    BY SortedIs, ByteFacts DEF StemsHold, Sorted, Count, Byte
  <1>2. b \in Byte /\ k \in 0 .. n - 1
    <2>1. b \in Byte
      BY DEF StemsHold, Carries, EdgeMap
    <2> QED
      BY <2>1, StemsFind
  <1>3. r = Stemmed(s.kind, g, br, J, s.line)
    <2>1. StemCut(s, k) = [s EXCEPT !.bytes = g, !.branch = br]
      BY DEF StemCut
    <2>2. s = Stemmed(s.kind, s.bytes, s.branch, s.inl, s.line)
      BY <1>1, StemsAre
    <2> DEFINE u == StemCut(s, k)
    <2>3. u = [s EXCEPT !.bytes = g, !.branch = br] /\ r = [u EXCEPT !.inl = J]
      BY <2>1
    <2> HIDE DEF g, br, J, n, u, r
    <2> QED
      BY <2>2, <2>3 DEF Stemmed
  <1>4. g \in Seq(Byte) /\ Len(g) = Lanes /\ Closed(s.bytes, g, Lanes, n, k, MaxB)
    <2> DEFINE f == s.bytes
    <2>1. f \in Seq(Byte) /\ Len(f) = Lanes /\ g = Pulled(f, n, k, MaxB)
      BY <1>1 DEF Pulled
    <2> HIDE DEF g, f, n
    <2>2. n <= Len(f) /\ Len(f) = Lanes
      BY <1>1, <2>1
    <2> DEFINE d == MaxB
               j == k
    <2>3. j \in Nat /\ j < n /\ d \in Byte
      BY <1>1, <1>2
    <2> HIDE DEF d, j
    <2>4. /\ Pulled(f, n, j, d) \in Seq(Byte) /\ Len(Pulled(f, n, j, d)) = Len(f)
          /\ Closed(f, Pulled(f, n, j, d), Len(f), n, j, d)
      BY <1>1, <2>1, <2>2, <2>3, ShiftedDown
    <2> QED
      BY <2>1, <2>2, <2>4 DEF f, d, j
  <1>5. /\ br \in Seq(Ext \cup Inlined) /\ Len(br) = n - 1
        /\ \A i \in 1 .. n - 1 : br[i] = IF i < k + 1 THEN s.branch[i] ELSE s.branch[i + 1]
    <2> DEFINE f == s.branch
               j == k + 1
    <2>1. f \in Seq(Ext \cup Inlined) /\ j \in 1 .. Len(f) /\ Len(f) = n /\ br = RemoveAt(f, j)
      BY <1>1, <1>2
    <2> HIDE DEF br, f, n, j
    <2>2. /\ RemoveAt(f, j) \in Seq(Ext \cup Inlined) /\ Len(RemoveAt(f, j)) = Len(f) - 1
          /\ \A i \in 1 .. Len(f) - 1 : RemoveAt(f, j)[i] = IF i < j THEN f[i] ELSE f[i + 1]
      BY <2>1, RemoveAtIs
    <2> QED
      BY <2>1, <2>2 DEF f, j
  <1> HIDE DEF r, g, br, J
  <1>6. Closed(s.branch, br, n - 1, n, k, NoEdge)
    <2> SUFFICES ASSUME NEW i \in 1 .. n - 1
                 PROVE  br[i] = IF i <= k THEN s.branch[i] ELSE IF i < n THEN s.branch[i + 1]
                                ELSE IF i = n THEN NoEdge ELSE s.branch[i]
      BY DEF Closed
    <2> HIDE DEF n
    <2>1. i < n /\ (i < k + 1 <=> i <= k)
      BY <1>1, <1>2
    <2> QED
      BY <1>5, <2>1
  <1>7. StemsHold(r, Less(m, b))
    BY <1>3, <1>4, <1>5, <1>6, StemLost DEF J
  <1> QED
    BY <1>7 DEF r, J

\* Removing the edge of byte b from stems, whatever is in the line.
LEMMA StemsRemove ==
  ASSUME NEW s, NEW m, StemsHold(s, m), NEW b \in DOMAIN m
  PROVE  StemsHold(RouterRemove(s, b), Less(m, b))
  <1> DEFINE k == IndexOf(s, b)
             r == [StemCut(s, k) EXCEPT !.inl = FlagsDown(s.inl, k)]
  <1>1. b \in Byte
    BY DEF StemsHold, Carries, EdgeMap
  <1>2. k # -1 /\ k \in 0 .. Count(s) - 1 /\ k \in Nat /\ ~(k < 0)
    <2>1. k # -1 /\ k \in 0 .. Count(s) - 1 /\ Count(s) \in Nat
      BY <1>1, StemsFind, SortedIs DEF StemsHold
    <2> QED
      BY <2>1
  <1>3. StemsHold(r, Less(m, b))
    BY CutHolds
  <1>4. s \in StemSort /\ HasStems(s) /\ s.inl \in SUBSET Nat
    BY SortedIs DEF StemsHold, Sorted
  <1>5. CASE s.inl = {}
    <2>1. FlagsDown(s.inl, k) = s.inl
      BY <1>2, <1>4, <1>5, FlagsDownIs
    <2>2. StemCut(s, k).inl = s.inl /\ r = StemCut(s, k)
      <3>1. s = Stemmed(s.kind, s.bytes, s.branch, s.inl, s.line)
        BY <1>4, StemsAre
      <3> HIDE DEF k
      <3> QED
        BY <2>1, <3>1 DEF StemCut, Stemmed
    <2>3. RouterRemove(s, b) = StemCut(s, k)
      <3>1. RouterRemove(s, b) = StemRemove(s, b)
        BY <1>4, <1>5 DEF RouterRemove, HasStems, Cnodes
      <3>2. StemRemove(s, b) = StemCut(s, k)
        BY <1>2 DEF StemRemove
      <3> QED
        BY <3>1, <3>2
    <2> QED
      BY <1>3, <2>2, <2>3
  <1>6. CASE s.inl # {}
    <2>1. RouterRemove(s, b) = Repack(r)
      <3>1. RouterRemove(s, b) = IF IndexOf(s, b) < 0 THEN s ELSE RemoveBranch(s, IndexOf(s, b))
        BY <1>4, <1>6 DEF RouterRemove, HasStems, Cnodes
      <3>2. RemoveBranch(s, k) = Repack(r)
        BY DEF RemoveBranch, FlagsDown
      <3> QED
        BY <1>2, <3>1, <3>2
    <2> HIDE DEF r
    <2> QED
      BY <1>3, <2>1, RepackHolds
  <1> QED
    BY <1>5, <1>6

\* Whether stems have room for the edge of byte b.
LEMMA StemSetOk ==
  ASSUME NEW s, NEW m, StemsHold(s, m), NEW b \in Byte, NEW h
  PROVE  StemSet(s, b, h).ok <=> b \in DOMAIN m \/ Count(s) < Cap(s)
  <1>1. b \in DOMAIN m <=> LowerBound(s, b) < Count(s) /\ s.bytes[LowerBound(s, b) + 1] = b
    BY PlaceIs
  <1>2. Count(s) \in Nat /\ Cap(s) \in Nat
    BY SortedIs DEF StemsHold
  <1> QED
    BY <1>1, <1>2 DEF StemSet, Done, Full

\* An edge set among stems: where it was, or at its place while there is room.
LEMMA StemSetHolds ==
  ASSUME NEW s, NEW m, StemsHold(s, m), NEW b \in Byte, NEW h \in Ext,
         b \in DOMAIN m => IndexOf(s, b) \notin s.inl,
         b \notin DOMAIN m => s.inl = {} /\ Count(s) < Cap(s)
  PROVE  /\ StemsHold(StemSet(s, b, h).router, Put(m, b, h))
         /\ StemSet(s, b, h).router.kind = s.kind /\ StemSet(s, b, h).router.inl = s.inl
  <1> DEFINE n == Count(s)
             at == LowerBound(s, b)
  <1>1. /\ s \in StemSort /\ n \in Nat /\ n <= Lanes /\ Lanes \in Nat /\ s.bytes \in Seq(Byte)
        /\ Len(s.bytes) = Lanes /\ s.branch \in Seq(Ext \cup Inlined) /\ Len(s.branch) = n
        /\ Cap(s) \in Nat /\ Cap(s) <= Lanes
    BY SortedIs, ByteFacts DEF StemsHold, Sorted, Count
  <1>2. /\ at \in 0 .. n /\ (b \in DOMAIN m => IndexOf(s, b) = at)
        /\ b \in DOMAIN m <=> at < n /\ s.bytes[at + 1] = b
    BY PlaceIs
  <1>3. s = Stemmed(s.kind, s.bytes, s.branch, s.inl, s.line)
    BY <1>1, StemsAre
  <1>4. CASE b \in DOMAIN m
    <2> DEFINE br == [s.branch EXCEPT ![at + 1] = h]
               r == [s EXCEPT !.branch[at + 1] = h]
    <2>1. StemSet(s, b, h).router = r
      BY <1>2, <1>4 DEF StemSet, Done
    <2>2. r = Stemmed(s.kind, s.bytes, br, s.inl, s.line)
      <3>1. r = [s EXCEPT !.branch = br]
        OBVIOUS
      <3> HIDE DEF r, br
      <3> QED
        BY <1>3, <3>1 DEF Stemmed
    <2>3. at + 1 \in 1 .. Len(s.branch)
      BY <1>1, <1>2, <1>4
    <2>4. br \in Seq(Ext \cup Inlined) /\ Len(br) = n
      BY <1>1, <2>3, ExceptSeq
    <2>5. Changed(s.branch, br, n, at, h)
      <3>1. \A i \in 1 .. n : br[i] = IF i = at + 1 THEN h ELSE s.branch[i]
        <4> DEFINE f == s.branch
                   j == at + 1
        <4>1. f \in Seq(Ext \cup Inlined) /\ Len(f) = n /\ br = [f EXCEPT ![j] = h]
          BY <1>1
        <4>2. DOMAIN f = 1 .. n
          BY <4>1
        <4> HIDE DEF f, br, n, j
        <4> QED
          BY <4>1, <4>2 DEF f, j
      <3> QED
        BY <3>1 DEF Changed
    <2> HIDE DEF br, r
    <2> QED
      BY <1>2, <1>4, <2>1, <2>2, <2>4, <2>5, StemChanged
  <1>5. CASE b \notin DOMAIN m
    <2> DEFINE g == SubSeq(s.bytes, 1, at) \o <<b>> \o SubSeq(s.bytes, at + 1, n)
                      \o SubSeq(s.bytes, n + 2, Lanes)
               br == InsertAt(s.branch, at + 1, h)
               ln == {p \in s.line : p.at >= BranchEnd(n + 1)}
               r == [s EXCEPT !.bytes = g, !.branch = br, !.line = ln]
    <2>1. StemSet(s, b, h).router = r
      BY <1>1, <1>2, <1>5 DEF StemSet, Done
    <2>2. r = Stemmed(s.kind, g, br, s.inl, ln)
      <3>1. r = [s EXCEPT !.bytes = g, !.branch = br, !.line = ln]
        OBVIOUS
      <3> HIDE DEF g, br, ln, r
      <3> QED
        BY <1>3, <3>1 DEF Stemmed
    <2>3. n < Cap(s) /\ n < Lanes
      BY <1>1, <1>5
    <2>4. g \in Seq(Byte) /\ Len(g) = Lanes /\ Opened(s.bytes, g, Lanes, n, at, b)
      <3> DEFINE f == s.bytes
      <3>1. f \in Seq(Byte) /\ Len(f) = Lanes /\ g = Pushed(f, n, at, b)
        BY <1>1 DEF Pushed
      <3> HIDE DEF g, f, n, at
      <3>2. n < Len(f)
        BY <2>3, <3>1
      <3> QED
        BY <1>1, <1>2, <3>1, <3>2, ShiftedUp DEF f
    <2>5. br \in Seq(Ext \cup Inlined) /\ Len(br) = n + 1 /\ Opened(s.branch, br, Len(br), n, at, h)
      <3> DEFINE f == s.branch
                 j == at + 1
      <3>1. f \in Seq(Ext \cup Inlined) /\ j \in 1 .. Len(f) + 1 /\ Len(f) = n /\ br = InsertAt(f, j, h)
        BY <1>1, <1>2
      <3>2. h \in Ext \cup Inlined
        OBVIOUS
      <3> HIDE DEF br, f, n, j, at
      <3>3. /\ InsertAt(f, j, h) \in Seq(Ext \cup Inlined) /\ Len(InsertAt(f, j, h)) = Len(f) + 1
            /\ Opened(f, InsertAt(f, j, h), Len(f) + 1, Len(f), j - 1, h)
        BY <3>1, <3>2, InsertAtIs
      <3>4. j - 1 = at
        BY <1>1, <1>2 DEF j
      <3> QED
        BY <3>1, <3>3, <3>4 DEF f
    <2>6. ln \in SUBSET s.line
      OBVIOUS
    <2> HIDE DEF g, br, ln, r
    <2> QED
      <3>1. s.inl = {} /\ n < Cap(s)
        BY <1>5
      <3>2. at = LowerBound(s, b) /\ Len(br) = Count(s) + 1 /\ Count(s) < Cap(s)
        BY <2>5, <3>1
      <3>3. Opened(s.bytes, g, Lanes, Count(s), at, b) /\ Opened(s.branch, br, Len(br), Count(s), at, h)
        BY <2>4, <2>5
      <3> HIDE DEF at, n
      <3>4. StemsHold(Stemmed(s.kind, g, br, s.inl, ln), Put(m, b, h))
        BY <1>5, <2>4, <2>5, <2>6, <3>1, <3>2, <3>3, StemAdded
      <3>5. r.kind = s.kind /\ r.inl = s.inl
        BY <2>2 DEF Stemmed
      <3> QED
        BY <2>1, <2>2, <3>4, <3>5
  <1> QED
    BY <1>4, <1>5

-----------------------------------------------------------------------------
(* Segments: where a byte is.                                              *)

At(k, g, d) == g * SegW(k) + d
SegsOf(k)   == 0 .. NSeg(k) - 1
OffsOf(k)   == 0 .. SegW(k) - 1

\* The segments cut the bytes into equal parts, and a word or two covers each.
LEMMA SegFacts ==
  ASSUME NEW k \in Cnodes
  PROVE  /\ NSeg(k) \in Nat \ {0} /\ SegW(k) \in Nat \ {0} /\ SegW(k) * NSeg(k) = MaxB + 1
         /\ WordBits \in Nat \ {0} /\ (SegW(k) <= WordBits \/ SegW(k) = 2 * WordBits)
         /\ SegCap[k] \in Nat
  <1>1. /\ MaxB \in Nat /\ (MaxB + 1) % 8 = 0 /\ WordBits \in Nat \ {0}
        /\ (SegW(k) <= WordBits \/ SegW(k) = 2 * WordBits) /\ SegCap[k] \in Nat
    BY StemAssumption, SegmentAssumption
  <1> DEFINE q == (MaxB + 1) \div 8
             M == MaxB + 1
  <1>2. q \in Int /\ M = 8 * q + 0 /\ M \in Nat \ {0}
    <2>1. M \in Int /\ 8 \in Nat \ {0} /\ M \in Nat \ {0} /\ M % 8 = 0
      BY <1>1
    <2> HIDE DEF M
    <2>2. M \div 8 \in Int /\ M = (8 * (M \div 8)) + (M % 8)
      BY <2>1, Division
    <2> QED
      BY <2>1, <2>2 DEF M
  <1> HIDE DEF q, M
  <1>3. q \in Nat \ {0}
    BY <1>2
  <1>4. CASE k = "c2"
    <2>1. M = 2 * (4 * q) + 0 /\ 4 * q \in Int /\ 2 \in Nat \ {0} /\ 0 \in 0 .. 2 - 1
      BY <1>2
    <2> DEFINE w == 4 * q
    <2>2. w \in Int /\ M = 2 * w + 0 /\ w \in Nat \ {0}
      BY <1>3, <2>1
    <2> HIDE DEF w
    <2>3. M \div 2 = w
      BY <2>1, <2>2, QuotientIs
    <2>4. NSeg(k) = 2 /\ SegW(k) = M \div 2
      BY <1>4 DEF NSeg, SegW, M
    <2> QED
      BY <1>1, <2>2, <2>3, <2>4 DEF M
  <1>5. CASE k = "c4"
    <2>1. M = 4 * (2 * q) + 0 /\ 2 * q \in Int /\ 4 \in Nat \ {0} /\ 0 \in 0 .. 4 - 1
      BY <1>2
    <2> DEFINE w == 2 * q
    <2>2. w \in Int /\ M = 4 * w + 0 /\ w \in Nat \ {0}
      BY <1>3, <2>1
    <2> HIDE DEF w
    <2>3. M \div 4 = w
      BY <2>1, <2>2, QuotientIs
    <2>4. NSeg(k) = 4 /\ SegW(k) = M \div 4
      BY <1>5 DEF NSeg, SegW, M
    <2> QED
      BY <1>1, <2>2, <2>3, <2>4 DEF M
  <1>6. CASE k = "c8"
    <2>1. NSeg(k) = 8 /\ SegW(k) = q
      BY <1>6 DEF NSeg, SegW, q
    <2> QED
      BY <1>1, <1>2, <1>3, <2>1 DEF M
  <1> QED
    BY <1>4, <1>5, <1>6 DEF Cnodes

\* A byte is a segment and an offset in it.
LEMMA SegOfByte ==
  ASSUME NEW k \in Cnodes, NEW b \in Byte
  PROVE  /\ b \div SegW(k) \in SegsOf(k) /\ b % SegW(k) \in OffsOf(k)
         /\ At(k, b \div SegW(k), b % SegW(k)) = b
  <1> DEFINE W == SegW(k)
             N == NSeg(k)
             g == b \div W
             d == b % W
  <1>1. W \in Nat \ {0} /\ N \in Nat \ {0} /\ W * N = MaxB + 1 /\ b \in Nat /\ b <= MaxB /\ MaxB \in Nat
    BY SegFacts, ByteFacts DEF Byte
  <1> HIDE DEF W, N
  <1>2. g \in Int /\ d \in 0 .. W - 1 /\ b = (W * g) + d
    BY <1>1, Division
  <1> HIDE DEF g, d
  <1>3. g >= 0
    <2> SUFFICES ASSUME g <= -1 PROVE FALSE
      BY <1>2
    <2>1. W * g <= W * (-1) /\ W * (-1) = -W
      BY <1>1, <1>2
    <2> QED
      BY <1>1, <1>2, <2>1
  <1>4. g < N
    <2> SUFFICES ASSUME N <= g PROVE FALSE
      BY <1>1, <1>2
    <2>1. W * N <= W * g
      BY <1>1, <1>2
    <2> QED
      BY <1>1, <1>2, <2>1
  <1>5. g * W + d = b
    BY <1>1, <1>2
  <1> QED
    BY <1>1, <1>2, <1>3, <1>4, <1>5 DEF At, SegsOf, OffsOf, W, N, g, d

\* ... and each segment and offset is one byte; the order is the one of the pairs.
LEMMA ByteOfSeg ==
  ASSUME NEW k \in Cnodes, NEW g \in SegsOf(k), NEW d \in OffsOf(k)
  PROVE  /\ At(k, g, d) \in Byte /\ At(k, g, d) \in Nat
         /\ At(k, g, d) \div SegW(k) = g /\ At(k, g, d) % SegW(k) = d
  <1> DEFINE W == SegW(k)
             N == NSeg(k)
             x == At(k, g, d)
  <1>1. W \in Nat \ {0} /\ N \in Nat \ {0} /\ W * N = MaxB + 1 /\ MaxB \in Nat
    BY SegFacts, ByteFacts
  <1>2. x = g * W + d /\ g \in 0 .. N - 1 /\ d \in 0 .. W - 1
    BY DEF At, SegsOf, OffsOf
  <1> HIDE DEF W, N, x
  <1>3. x = W * g + d /\ g \in Int /\ x \in Int
    BY <1>1, <1>2
  <1>4. x \div W = g /\ x % W = d
    <2>1. W \in Nat \ {0} /\ g \in Int /\ d \in 0 .. W - 1
      BY <1>1, <1>2
    <2>2. x = W * g + d
      BY <1>3
    <2> QED
      BY <2>1, <2>2, QuotientIs
  <1>5. W * g >= 0 /\ W * g \in Int
    BY <1>1, <1>2
  <1>6. W * g <= W * (N - 1) /\ W * (N - 1) = W * N - W
    <2>1. g <= N - 1 /\ N - 1 \in Int
      BY <1>1, <1>2
    <2> QED
      BY <1>1, <1>3, <2>1
  <1>7. x \in 0 .. MaxB
    BY <1>1, <1>2, <1>3, <1>5, <1>6
  <1> QED
    BY <1>4, <1>7 DEF Byte, W, x

LEMMA SegOrder ==
  ASSUME NEW k \in Cnodes, NEW g \in SegsOf(k), NEW d \in OffsOf(k),
         NEW e \in SegsOf(k), NEW f \in OffsOf(k)
  PROVE  /\ At(k, g, d) < At(k, e, f) <=> g < e \/ (g = e /\ d < f)
         /\ At(k, g, d) = At(k, e, f) <=> g = e /\ d = f
  <1> DEFINE W == SegW(k)
             x == At(k, g, d)
             y == At(k, e, f)
  <1>1. W \in Nat \ {0}
    BY SegFacts
  <1>2. x = g * W + d /\ y = e * W + f /\ g \in Int /\ e \in Int /\ d \in 0 .. W - 1 /\ f \in 0 .. W - 1
    BY SegFacts DEF At, SegsOf, OffsOf
  <1>3. x \in Nat /\ y \in Nat
    BY ByteOfSeg
  <1> HIDE DEF W, x, y
  <1>4. x = W * g + d /\ y = W * e + f /\ W * g \in Int /\ W * e \in Int
    BY <1>1, <1>2
  <1>5. x < y => g < e \/ (g = e /\ d < f)
    <2> HAVE x < y
    <2>1. W * g + d < W * e + f
      BY <1>4
    <2> QED
      BY <1>1, <1>2, <2>1, OneQuotient
  <1>6. y < x => e < g \/ (e = g /\ f < d)
    <2> HAVE y < x
    <2>1. W * e + f < W * g + d
      BY <1>4
    <2> QED
      BY <1>1, <1>2, <2>1, OneQuotient
  <1>7. x = y => g = e /\ d = f
    <2> HAVE x = y
    <2>1. W * g + d = W * e + f
      BY <1>4
    <2> QED
      BY <1>1, <1>2, <2>1, SameQuotient
  <1>8. g = e /\ d = f => x = y
    BY <1>2
  <1>9. x < y \/ x = y \/ y < x
    BY <1>3
  <1>10. /\ ~(x < y /\ x = y) /\ ~(x < y /\ y < x) /\ ~(x = y /\ y < x)
         /\ (g < e => ~(e < g) /\ g # e) /\ (d < f => ~(f < d) /\ d # f)
    BY <1>2, <1>3
  <1>11. x < y <=> g < e \/ (g = e /\ d < f)
    BY <1>5, <1>6, <1>7, <1>9, <1>10
  <1>12. x = y <=> g = e /\ d = f
    BY <1>7, <1>8
  <1> QED
    BY <1>11, <1>12 DEF x, y

-----------------------------------------------------------------------------
(* Segments: bitmaps and ranks.                                            *)

\* A set of numbers counted below v, and from v on.
LEMMA SplitCount ==
  ASSUME NEW T \in SUBSET Int, IsFiniteSet(T), NEW v \in Int
  PROVE  /\ Cardinality({i \in T : i < v}) + Cardinality({i - v : i \in {j \in T : j >= v}})
              = Cardinality(T)
         /\ Cardinality({i \in T : i < v}) \in Nat
         /\ Cardinality({i - v : i \in {j \in T : j >= v}}) \in Nat /\ Cardinality(T) \in Nat
  <1> DEFINE A == {i \in T : i < v}
             B == {j \in T : j >= v}
             C == {i - v : i \in B}
             f == [i \in B |-> i - v]
  <1>1. A \cup B = T /\ A \cap B = {}
    <2>1. \A i \in T : i < v <=> ~(i >= v)
      OBVIOUS
    <2>2. \A i : i \in T <=> i \in A \/ i \in B
      BY <2>1
    <2>3. \A i : ~(i \in A /\ i \in B)
      BY <2>1
    <2> HIDE DEF A, B
    <2> QED
      BY <2>2, <2>3
  <1>2. IsFiniteSet(A) /\ IsFiniteSet(B)
    BY FS_Subset
  <1>3. f \in Bijection(B, C)
    <2>1. f \in [B -> C]
      OBVIOUS
    <2>2. \A x, y \in B : f[x] = f[y] => x = y
      <3> TAKE x, y \in B
      <3>1. x \in Int /\ y \in Int /\ f[x] = x - v /\ f[y] = y - v
        OBVIOUS
      <3> QED
        BY <3>1
    <2>3. \A z \in C : \E x \in B : f[x] = z
      OBVIOUS
    <2> HIDE DEF f, B, C
    <2> QED
      BY <2>1, <2>2, <2>3 DEF Bijection, Injection, Surjection, IsInjective
  <1>4. IsFiniteSet(C) /\ Cardinality(C) = Cardinality(B)
    <2> HIDE DEF f, B, C
    <2> QED
      BY <1>2, <1>3, FS_Bijection DEF ExistsBijection
  <1>5. Cardinality(A \cup B) = Cardinality(A) + Cardinality(B) - Cardinality(A \cap B)
    <2> HIDE DEF A, B
    <2> QED
      BY <1>2, FS_Union
  <1>6. Cardinality(A \cap B) = 0
    <2> HIDE DEF A, B
    <2> QED
      BY <1>1, FS_EmptySet
  <1>7. Cardinality(A) \in Nat /\ Cardinality(B) \in Nat /\ Cardinality(T) \in Nat
    <2> HIDE DEF A, B
    <2> QED
      BY <1>2, FS_CardinalityType
  <1>8. Cardinality(A) + Cardinality(C) = Cardinality(T) /\ Cardinality(C) \in Nat
    <2>1. Cardinality(A \cup B) = Cardinality(T)
      BY <1>1
    <2> HIDE DEF A, B, C
    <2> QED
      BY <1>4, <1>5, <1>6, <1>7, <2>1
  <1> QED
    BY <1>7, <1>8

\* A segment has a word, or two full ones.
LEMMA WordsAre ==
  ASSUME NEW k \in Cnodes
  PROVE  /\ SegW(k) \in Nat \ {0} /\ WordBits \in Nat \ {0}
         /\ \/ SegW(k) <= WordBits /\ Words(k) = {0}
            \/ SegW(k) = 2 * WordBits /\ Words(k) = {0, 1}
         /\ \A d \in OffsOf(k) :
              /\ d \div WordBits \in Words(k) /\ d % WordBits \in 0 .. WordBits - 1
              /\ d = (d \div WordBits) * WordBits + (d % WordBits) /\ d \in Nat
  <1> DEFINE W == SegW(k)
             V == WordBits
  <1>1. W \in Nat \ {0} /\ V \in Nat \ {0} /\ (W <= V \/ W = 2 * V)
    BY SegFacts
  <1>2. Words(k) = 0 .. (W - 1) \div V
    BY DEF Words
  <1>3. OffsOf(k) = 0 .. W - 1
    BY DEF OffsOf
  <1> HIDE DEF W, V
  <1>4. CASE W <= V
    <2>1. 0 \in Int /\ V * 0 = 0 /\ \A d \in 0 .. W - 1 : d \in 0 .. V - 1 /\ d = V * 0 + d
      BY <1>1, <1>4
    <2>2. \A d \in 0 .. W - 1 : d \div V = 0 /\ d % V = d
      <3> TAKE d \in 0 .. W - 1
      <3>1. d \in 0 .. V - 1 /\ d = V * 0 + d /\ 0 \in Int
        BY <2>1
      <3> QED
        BY <1>1, <3>1, QuotientIs
    <2>3. (W - 1) \div V = 0
      <3>1. W - 1 \in 0 .. W - 1
        BY <1>1
      <3> QED
        BY <2>2, <3>1
    <2>4. Words(k) = {0}
      BY <1>2, <2>3
    <2>5. \A d \in 0 .. W - 1 : /\ d \div V \in {0} /\ d % V \in 0 .. V - 1
                                /\ d = (d \div V) * V + (d % V) /\ d \in Nat
      BY <1>1, <2>1, <2>2
    <2> QED
      BY <1>1, <1>3, <1>4, <2>4, <2>5 DEF W, V
  <1>5. CASE W = 2 * V
    <2>1. \A d \in 0 .. W - 1 : /\ d < V => d \div V = 0 /\ d % V = d
                                /\ d >= V => d \div V = 1 /\ d % V = d - V
      <3> TAKE d \in 0 .. W - 1
      <3>1. CASE d < V
        <4>1. d \in 0 .. V - 1 /\ d = V * 0 + d /\ 0 \in Int
          BY <1>1, <3>1
        <4> QED
          BY <1>1, <3>1, <4>1, QuotientIs
      <3>2. CASE d >= V
        <4> DEFINE a == d - V
        <4>1. a \in 0 .. V - 1 /\ d = V * 1 + a /\ 1 \in Int
          BY <1>1, <1>5, <3>2
        <4> HIDE DEF a
        <4>2. d \div V = 1 /\ d % V = a
          BY <1>1, <4>1, QuotientIs
        <4> QED
          BY <1>1, <3>2, <4>2 DEF a
      <3> QED
        BY <1>1, <3>1, <3>2
    <2>2. (W - 1) \div V = 1
      <3>1. W - 1 \in 0 .. W - 1 /\ W - 1 >= V
        BY <1>1, <1>5
      <3> QED
        BY <2>1, <3>1
    <2>3. Words(k) = {0, 1}
      BY <1>2, <2>2
    <2>4. \A d \in 0 .. W - 1 : /\ d \div V \in {0, 1} /\ d % V \in 0 .. V - 1
                                /\ d = (d \div V) * V + (d % V) /\ d \in Nat
      <3> TAKE d \in 0 .. W - 1
      <3>1. CASE d < V
        <4>1. d \div V = 0 /\ d % V = d
          BY <2>1, <3>1
        <4> QED
          BY <1>1, <3>1, <4>1
      <3>2. CASE d >= V
        <4>1. d \div V = 1 /\ d % V = d - V
          BY <2>1, <3>2
        <4> QED
          BY <1>1, <1>5, <3>2, <4>1
      <3> QED
        BY <1>1, <3>1, <3>2
    <2> QED
      BY <1>1, <1>3, <1>5, <2>3, <2>4 DEF W, V
  <1> QED
    BY <1>1, <1>4, <1>5

\* The bits that a bitmap's word shows, less those that lie behind the bitmap.
LEMMA BitIs ==
  ASSUME NEW k \in Cnodes, NEW s, s.present \in SUBSET OffsOf(k), NEW w \in Words(k), NEW i
  PROVE  i \in Mask(k, BmWord(k, s, w)) <=> i \in 0 .. WordBits - 1 /\ w * WordBits + i \in s.present
  <1>1. /\ SegW(k) \in Nat \ {0} /\ WordBits \in Nat \ {0}
        /\ \/ SegW(k) <= WordBits /\ w = 0
           \/ SegW(k) = 2 * WordBits /\ w \in {0, 1}
    BY WordsAre
  <1>2. i \in Mask(k, BmWord(k, s, w)) <=>
          /\ i \in 0 .. WordBits - 1 /\ i < SegW(k)
          /\ w * WordBits + i \in s.present \/ w * WordBits + i >= SegW(k)
    BY DEF Mask, BmWord
  <1>3. w * WordBits + i \in s.present => w * WordBits + i \in 0 .. SegW(k) - 1
    BY DEF OffsOf
  <1>4. ASSUME i \in 0 .. WordBits - 1
        PROVE  /\ i < SegW(k) => ~(w * WordBits + i >= SegW(k))
               /\ w * WordBits + i \in s.present => i < SegW(k)
    <2>1. CASE w = 0
      <3>1. w * WordBits + i = i
        BY <1>1, <1>4, <2>1
      <3> QED
        BY <1>1, <1>3, <1>4, <3>1
    <2>2. CASE w = 1
      <3>1. w * WordBits + i = WordBits + i /\ SegW(k) = 2 * WordBits
        BY <1>1, <1>4, <2>2
      <3> QED
        BY <1>1, <1>3, <1>4, <3>1
    <2> QED
      BY <1>1, <2>1, <2>2
  <1> QED
    BY <1>2, <1>4

\* bm_rank and bm_count, over one word or two.
LEMMA BmIs ==
  ASSUME NEW k \in Cnodes, NEW s, s.present \in SUBSET OffsOf(k)
  PROVE  /\ s.present \in SUBSET Int /\ IsFiniteSet(s.present)
         /\ BmCount(k, s) = Cardinality(s.present)
         /\ \A d \in OffsOf(k) : BmRank(k, s, d) = Cardinality(Under(s.present, d))
  <1> DEFINE P == s.present
             W == SegW(k)
             V == WordBits
  <1>1. /\ W \in Nat \ {0} /\ V \in Nat \ {0}
        /\ \/ W <= V /\ Words(k) = {0}
           \/ W = 2 * V /\ Words(k) = {0, 1}
    BY WordsAre
  <1>2. P \in SUBSET (0 .. W - 1) /\ OffsOf(k) = 0 .. W - 1
    BY DEF OffsOf
  <1>3. P \in SUBSET Int /\ IsFiniteSet(P) /\ \A S : S \subseteq P => IsFiniteSet(S)
    <2>1. IsFiniteSet(0 .. W - 1) /\ 0 .. W - 1 \subseteq Int
      BY <1>1, FS_Interval
    <2> HIDE DEF P, W
    <2> QED
      BY <1>2, <2>1, FS_Subset
  <1>4. \A w \in {0, 1} : \A i : i \in BmWord(k, s, w) <=>
                                   i \in 0 .. V - 1 /\ (w * V + i \in P \/ w * V + i >= W)
    BY DEF BmWord
  <1>5. CASE W <= V
    <2>1. Mask(k, BmWord(k, s, 0)) = P
      <3>1. \A i : i \in Mask(k, BmWord(k, s, 0)) <=> i \in 0 .. V - 1 /\ 0 * V + i \in P
        <4>1. 0 \in Words(k)
          BY <1>1
        <4> QED
          BY <4>1, BitIs
      <3>2. \A i \in 0 .. V - 1 : 0 * V + i = i
        BY <1>1
      <3>3. \A i \in P : i \in 0 .. V - 1
        BY <1>1, <1>2, <1>5
      <3> HIDE DEF P, V
      <3> QED
        BY <3>1, <3>2, <3>3
    <2>2. BmCount(k, s) = Cardinality(P)
      BY <1>5, <2>1 DEF BmCount
    <2>3. ASSUME NEW d \in OffsOf(k)
          PROVE  BmRank(k, s, d) = Cardinality(Under(P, d))
      <3>1. d \in 0 .. W - 1 /\ d < V
        BY <1>1, <1>2, <1>5
      <3>2. {i \in BmWord(k, s, 0) : i < d} = Under(P, d)
        <4>1. \A i \in 0 .. V - 1 : 0 * V + i = i
          BY <1>1
        <4>2. \A i \in 0 .. V - 1 : i < d => ~(i >= W)
          BY <1>1, <3>1
        <4>3. \A i \in P : i \in 0 .. V - 1
          BY <1>1, <1>2, <1>5
        <4>4. \A i : i \in BmWord(k, s, 0) /\ i < d <=> i \in P /\ i < d
          BY <1>4, <4>1, <4>2, <4>3
        <4> HIDE DEF P
        <4> QED
          BY <4>4 DEF Under
      <3>3. BmRank(k, s, d) = Cardinality({i \in BmWord(k, s, 0) : i < d})
        BY <3>1 DEF BmRank
      <3> QED
        BY <3>2, <3>3
    <2> QED
      BY <1>3, <2>2, <2>3
  <1>6. CASE W = 2 * V
    <2> DEFINE low(T)  == {i \in T : i < V}
               high(T) == {i - V : i \in {j \in T : j >= V}}
    <2>1. \A i : i \in BmWord(k, s, 0) <=> i \in P /\ i < V
      <3>1. \A i \in 0 .. V - 1 : 0 * V + i = i /\ ~(i >= W)
        BY <1>1, <1>6
      <3>2. \A i \in P : i \in 0 .. 2 * V - 1
        BY <1>2, <1>6
      <3>3. \A i \in P : i < V <=> i \in 0 .. V - 1
        BY <1>1, <3>2
      <3> QED
        BY <1>4, <3>1, <3>3
    <2>2. \A i : i \in BmWord(k, s, 1) <=> i \in 0 .. V - 1 /\ V + i \in P
      <3>1. \A i \in 0 .. V - 1 : 1 * V + i = V + i /\ ~(V + i >= W)
        BY <1>1, <1>6
      <3> QED
        BY <1>4, <3>1
    <2>3. BmWord(k, s, 0) = low(P)
      BY <2>1
    <2>4. ASSUME NEW d \in Int
          PROVE  {i \in BmWord(k, s, 1) : i < d - V} = high(Under(P, d))
      <3>1. ASSUME NEW i, i \in BmWord(k, s, 1), i < d - V
            PROVE  i \in high(Under(P, d))
        <4>1. i \in 0 .. V - 1 /\ V + i \in P
          BY <2>2, <3>1
        <4> DEFINE j == V + i
        <4>2. j \in P /\ j < d /\ j >= V /\ j - V = i
          BY <1>1, <3>1, <4>1
        <4> HIDE DEF j
        <4> QED
          BY <4>2 DEF Under
      <3>2. ASSUME NEW i, i \in high(Under(P, d))
            PROVE  i \in BmWord(k, s, 1) /\ i < d - V
        <4>1. PICK j \in Under(P, d) : j >= V /\ i = j - V
          BY <3>2
        <4>2. j \in P /\ j < d /\ j \in 0 .. 2 * V - 1
          BY <1>2, <1>6, <4>1 DEF Under
        <4>3. i \in 0 .. V - 1 /\ V + i = j /\ i < d - V
          BY <1>1, <4>1, <4>2
        <4> QED
          BY <2>2, <4>2, <4>3
      <3> HIDE DEF high
      <3> QED
        BY <3>1, <3>2
    <2>5. BmWord(k, s, 1) = high(P)
      <3>1. ASSUME NEW i, i \in BmWord(k, s, 1)
            PROVE  i \in high(P)
        <4>1. i \in 0 .. V - 1 /\ V + i \in P
          BY <2>2, <3>1
        <4> DEFINE j == V + i
        <4>2. j \in P /\ j >= V /\ j - V = i
          BY <1>1, <4>1
        <4> HIDE DEF j
        <4> QED
          BY <4>2
      <3>2. ASSUME NEW i, i \in high(P)
            PROVE  i \in BmWord(k, s, 1)
        <4>1. PICK j \in P : j >= V /\ i = j - V
          BY <3>2
        <4>2. j \in 0 .. 2 * V - 1
          BY <1>2, <1>6, <4>1
        <4>3. i \in 0 .. V - 1 /\ V + i = j
          BY <1>1, <4>1, <4>2
        <4> QED
          BY <2>2, <4>1, <4>3
      <3> HIDE DEF high
      <3> QED
        BY <3>1, <3>2
    <2>6. \A T : T \subseteq P =>
            /\ Cardinality(low(T)) + Cardinality(high(T)) = Cardinality(T)
            /\ Cardinality(low(T)) \in Nat /\ Cardinality(high(T)) \in Nat
      <3> SUFFICES ASSUME NEW T, T \subseteq P
                   PROVE  /\ Cardinality(low(T)) + Cardinality(high(T)) = Cardinality(T)
                          /\ Cardinality(low(T)) \in Nat /\ Cardinality(high(T)) \in Nat
        OBVIOUS
      <3>1. T \in SUBSET Int /\ IsFiniteSet(T) /\ V \in Int
        BY <1>1, <1>3
      <3> HIDE DEF P, V
      <3> QED
        BY <3>1, SplitCount
    <2>7. ~(W <= V)
      BY <1>1, <1>6
    <2>8. BmCount(k, s) = Cardinality(P)
      <3>1. BmCount(k, s) = Cardinality(BmWord(k, s, 0)) + Cardinality(BmWord(k, s, 1))
        BY <2>7 DEF BmCount
      <3> HIDE DEF low, high
      <3> QED
        BY <2>3, <2>5, <2>6, <3>1
    <2>9. ASSUME NEW d \in OffsOf(k)
          PROVE  BmRank(k, s, d) = Cardinality(Under(P, d))
      <3>1. d \in 0 .. W - 1 /\ d \in Int
        BY <1>1, <1>2
      <3>2. CASE d < V
        <4>1. {i \in BmWord(k, s, 0) : i < d} = Under(P, d)
          <5>1. \A i \in P : i < d => i < V
            BY <1>1, <1>3, <3>1, <3>2
          <5>2. \A i : i \in BmWord(k, s, 0) /\ i < d <=> i \in P /\ i < d
            BY <2>1, <5>1
          <5> HIDE DEF P
          <5> QED
            BY <5>2 DEF Under
        <4>2. BmRank(k, s, d) = Cardinality({i \in BmWord(k, s, 0) : i < d})
          BY <3>2 DEF BmRank
        <4> QED
          BY <4>1, <4>2
      <3>3. CASE ~(d < V)
        <4>1. low(P) = low(Under(P, d))
          <5>1. \A i \in P : i < V => i < d
            BY <1>1, <1>3, <3>1, <3>3
          <5> QED
            BY <5>1 DEF Under
        <4>2. BmRank(k, s, d) = Cardinality(BmWord(k, s, 0)) + Cardinality({i \in BmWord(k, s, 1) : i < d - V})
          BY <3>3 DEF BmRank
        <4>3. Under(P, d) \subseteq P
          BY DEF Under
        <4>4. {i \in BmWord(k, s, 1) : i < d - V} = high(Under(P, d))
          BY <2>4, <3>1
        <4> HIDE DEF low, high
        <4> QED
          BY <2>3, <2>6, <4>1, <4>2, <4>3, <4>4
      <3> QED
        BY <3>2, <3>3
    <2> QED
      BY <1>3, <2>8, <2>9
  <1> QED
    BY <1>1, <1>5, <1>6

-----------------------------------------------------------------------------
(* Branches in rank order.                                                 *)

\* br holds what f gives each member of P, at the member's rank.
Ranked(P, br, f) ==
  /\ br \in Seq(Ext) /\ Len(br) = Cardinality(P)
  /\ \A x \in P : br[Cardinality(Under(P, x)) + 1] = f[x]

LEMMA CountAdded ==
  ASSUME NEW P \in SUBSET Int, IsFiniteSet(P), NEW d \in Int, d \notin P, NEW x \in Int
  PROVE  /\ IsFiniteSet(P \cup {d}) /\ Cardinality(P \cup {d}) = Cardinality(P) + 1
         /\ Cardinality(Under(P \cup {d}, x)) = Cardinality(Under(P, x)) + (IF d < x THEN 1 ELSE 0)
         /\ Cardinality(P) \in Nat /\ Cardinality(Under(P, x)) \in Nat
  <1>1. IsFiniteSet(P \cup {d}) /\ Cardinality(P \cup {d}) = Cardinality(P) + 1
    BY FS_AddElement
  <1>2. IsFiniteSet(Under(P, x)) /\ Cardinality(Under(P, x)) \in Nat /\ Cardinality(P) \in Nat
    BY CountUnder
  <1>3. CASE d < x
    <2>1. Under(P \cup {d}, x) = Under(P, x) \cup {d} /\ d \notin Under(P, x)
      BY <1>3 DEF Under
    <2>2. Cardinality(Under(P, x) \cup {d}) = Cardinality(Under(P, x)) + 1
      BY <1>2, <2>1, FS_AddElement
    <2> QED
      BY <1>1, <1>2, <1>3, <2>1, <2>2
  <1>4. CASE ~(d < x)
    <2>1. Under(P \cup {d}, x) = Under(P, x)
      BY <1>4 DEF Under
    <2> QED
      BY <1>1, <1>2, <1>4, <2>1
  <1> QED
    BY <1>3, <1>4

LEMMA RankAdded ==
  ASSUME NEW P \in SUBSET Int, IsFiniteSet(P), NEW br, NEW f, Ranked(P, br, f),
         NEW d \in Int, d \notin P, NEW h \in Ext, NEW g, g[d] = h, \A x \in P : g[x] = f[x]
  PROVE  Ranked(P \cup {d}, InsertAt(br, Cardinality(Under(P, d)) + 1, h), g)
  <1> DEFINE Q == P \cup {d}
             k == Cardinality(Under(P, d))
             n == Cardinality(P)
             j == k + 1
             z == InsertAt(br, j, h)
  <1>1. /\ br \in Seq(Ext) /\ Len(br) = n /\ k \in Nat /\ n \in Nat /\ k <= n
        /\ \A x \in P : br[Cardinality(Under(P, x)) + 1] = f[x]
    BY CountUnder DEF Ranked
  <1>2. Cardinality(Q) = n + 1
    BY CountAdded
  <1>3. \A x \in P : /\ Cardinality(Under(P, x)) \in 0 .. n - 1 /\ x \in Int
                     /\ Cardinality(Under(Q, x)) = Cardinality(Under(P, x)) + (IF d < x THEN 1 ELSE 0)
                     /\ d < x => k <= Cardinality(Under(P, x))
                     /\ ~(d < x) => Cardinality(Under(P, x)) < k
    <2> TAKE x \in P
    <2>1. x \in Int /\ x # d
      OBVIOUS
    <2>2. Cardinality(Under(P, x)) \in Nat /\ Cardinality(Under(P, x)) < n
      BY <2>1, CountUnder
    <2>3. Cardinality(Under(Q, x)) = Cardinality(Under(P, x)) + (IF d < x THEN 1 ELSE 0)
      BY <2>1, CountAdded
    <2>4. d < x => k <= Cardinality(Under(P, x))
      BY <2>1, CountOrder
    <2>5. ~(d < x) => x < d
      BY <2>1
    <2>6. x < d => Cardinality(Under(P, x)) < k
      BY <2>1, CountOrder
    <2> HIDE DEF Q, n, k
    <2> QED
      BY <1>1, <2>1, <2>2, <2>3, <2>4, <2>5, <2>6
  <1>4. Cardinality(Under(Q, d)) = k
    <2>1. Cardinality(Under(Q, d)) = Cardinality(Under(P, d)) + (IF d < d THEN 1 ELSE 0)
      BY CountAdded
    <2> HIDE DEF Q
    <2> QED
      BY <1>1, <2>1
  <1> HIDE DEF Q, k, n
  <1>5. /\ z \in Seq(Ext) /\ Len(z) = n + 1 /\ Opened(br, z, n + 1, n, k, h)
    <2>1. j \in 1 .. Len(br) + 1 /\ j - 1 = k
      BY <1>1
    <2> HIDE DEF j
    <2>2. z \in Seq(Ext) /\ Len(z) = Len(br) + 1 /\ Opened(br, z, Len(br) + 1, Len(br), j - 1, h)
      BY <1>1, <2>1, InsertAtIs
    <2> QED
      BY <1>1, <2>1, <2>2
  <1> HIDE DEF z
  <1>6. \A i \in 1 .. n + 1 : z[i] = IF i <= k THEN br[i] ELSE IF i = k + 1 THEN h
                                     ELSE IF i <= n + 1 THEN br[i - 1] ELSE br[i]
    BY <1>5 DEF Opened
  <1>7. ASSUME NEW x \in Q
        PROVE  z[Cardinality(Under(Q, x)) + 1] = g[x]
    <2>1. CASE x = d
      <3>1. k + 1 \in 1 .. n + 1 /\ ~(k + 1 <= k)
        BY <1>1
      <3> QED
        BY <1>4, <1>6, <2>1, <3>1
    <2>2. CASE x # d
      <3> DEFINE c == Cardinality(Under(P, x))
      <3>1. x \in P
        BY <2>2 DEF Q
      <3>2. /\ c \in 0 .. n - 1 /\ Cardinality(Under(Q, x)) = c + (IF d < x THEN 1 ELSE 0)
            /\ (d < x => k <= c) /\ (~(d < x) => c < k) /\ br[c + 1] = f[x]
        BY <1>1, <1>3, <3>1
      <3> HIDE DEF c
      <3>3. CASE d < x
        <4>1. c + 2 \in 1 .. n + 1 /\ ~(c + 2 <= k) /\ c + 2 # k + 1 /\ c + 2 <= n + 1 /\ (c + 2) - 1 = c + 1
          BY <1>1, <3>2, <3>3
        <4>2. z[c + 2] = br[c + 1]
          BY <1>6, <4>1
        <4>3. Cardinality(Under(Q, x)) + 1 = c + 2
          BY <3>2, <3>3
        <4> QED
          BY <3>1, <3>2, <4>2, <4>3
      <3>4. CASE ~(d < x)
        <4>1. c + 1 \in 1 .. n + 1 /\ c + 1 <= k
          BY <1>1, <3>2, <3>4
        <4>2. z[c + 1] = br[c + 1]
          BY <1>6, <4>1
        <4>3. Cardinality(Under(Q, x)) + 1 = c + 1
          BY <3>2, <3>4
        <4> QED
          BY <3>1, <3>2, <4>2, <4>3
      <3> QED
        BY <3>3, <3>4
    <2> QED
      BY <2>1, <2>2
  <1>8. Ranked(Q, z, g)
    BY <1>2, <1>5, <1>7 DEF Ranked
  <1> QED
    BY <1>8 DEF Q, z, k

LEMMA RankLost ==
  ASSUME NEW P \in SUBSET Int, IsFiniteSet(P), NEW br, NEW f, Ranked(P, br, f),
         NEW d \in P, NEW g, \A x \in P \ {d} : g[x] = f[x]
  PROVE  Ranked(P \ {d}, RemoveAt(br, Cardinality(Under(P, d)) + 1), g)
  <1> DEFINE Q == P \ {d}
             k == Cardinality(Under(P, d))
             n == Cardinality(P)
             j == k + 1
             z == RemoveAt(br, j)
  <1>1. /\ br \in Seq(Ext) /\ Len(br) = n /\ k \in Nat /\ n \in Nat /\ k < n
        /\ \A x \in P : br[Cardinality(Under(P, x)) + 1] = f[x]
    BY CountUnder DEF Ranked
  <1>2. Q \in SUBSET Int /\ IsFiniteSet(Q) /\ d \in Int /\ d \notin Q /\ Q \cup {d} = P
    BY FS_Subset
  <1> HIDE DEF Q
  <1>3. Cardinality(P) = Cardinality(Q) + 1 /\ Cardinality(Q) \in Nat
    BY <1>2, CountAdded
  <1>4. \A x \in Q : /\ x \in P /\ x \in Int /\ Cardinality(Under(Q, x)) \in 0 .. n - 2
                     /\ Cardinality(Under(P, x)) = Cardinality(Under(Q, x)) + (IF d < x THEN 1 ELSE 0)
                     /\ d < x => k < Cardinality(Under(P, x))
                     /\ ~(d < x) => Cardinality(Under(P, x)) < k
    <2> TAKE x \in Q
    <2>1. x \in P /\ x \in Int /\ x # d
      BY <1>2
    <2>2. Cardinality(Under(Q, x)) \in Nat /\ Cardinality(Under(Q, x)) < Cardinality(Q)
      BY <1>2, <2>1, CountUnder
    <2>3. Cardinality(Under(P, x)) = Cardinality(Under(Q, x)) + (IF d < x THEN 1 ELSE 0)
      BY <1>2, <2>1, CountAdded
    <2>4. d < x => k < Cardinality(Under(P, x))
      BY <1>2, <2>1, CountOrder
    <2>5. ~(d < x) => x < d
      BY <1>2, <2>1
    <2>6. x < d => Cardinality(Under(P, x)) < k
      BY <1>2, <2>1, CountOrder
    <2> HIDE DEF n, k
    <2>7. Cardinality(Under(Q, x)) \in 0 .. n - 2
      BY <1>1, <1>3, <2>2 DEF n
    <2> QED
      BY <2>1, <2>3, <2>4, <2>5, <2>6, <2>7
  <1>5. Cardinality(Q) = n - 1
    BY <1>1, <1>3
  <1> HIDE DEF k, n
  <1>6. /\ z \in Seq(Ext) /\ Len(z) = n - 1
        /\ \A i \in 1 .. n - 1 : z[i] = IF i < k + 1 THEN br[i] ELSE br[i + 1]
    <2>1. j \in 1 .. Len(br)
      BY <1>1
    <2>2. j = k + 1
      OBVIOUS
    <2> HIDE DEF j
    <2>3. /\ z \in Seq(Ext) /\ Len(z) = Len(br) - 1
          /\ \A i \in 1 .. Len(br) - 1 : z[i] = IF i < j THEN br[i] ELSE br[i + 1]
      BY <1>1, <2>1, RemoveAtIs
    <2> QED
      BY <1>1, <2>2, <2>3
  <1> HIDE DEF z
  <1>7. ASSUME NEW x \in Q
        PROVE  z[Cardinality(Under(Q, x)) + 1] = g[x]
    <2> DEFINE c == Cardinality(Under(Q, x))
               e == Cardinality(Under(P, x))
    <2>1. /\ x \in P /\ c \in 0 .. n - 2 /\ e = c + (IF d < x THEN 1 ELSE 0)
          /\ (d < x => k < e) /\ (~(d < x) => e < k) /\ br[e + 1] = f[x]
      BY <1>1, <1>4
    <2>2. g[x] = f[x]
      BY <1>2, <2>1
    <2> HIDE DEF c, e
    <2>3. c + 1 \in 1 .. n - 1
      BY <1>1, <2>1
    <2>4. CASE d < x
      <3>1. ~(c + 1 < k + 1) /\ (c + 1) + 1 = e + 1
        BY <1>1, <2>1, <2>4
      <3> QED
        BY <1>6, <2>1, <2>2, <2>3, <3>1 DEF c
    <2>5. CASE ~(d < x)
      <3>1. c + 1 < k + 1 /\ c + 1 = e + 1
        BY <1>1, <2>1, <2>5
      <3> QED
        BY <1>6, <2>1, <2>2, <2>3, <3>1 DEF c
    <2> QED
      BY <2>4, <2>5
  <1>8. Ranked(Q, z, g)
    BY <1>5, <1>6, <1>7 DEF Ranked
  <1> QED
    BY <1>8 DEF Q, z, k

LEMMA RankChanged ==
  ASSUME NEW P \in SUBSET Int, IsFiniteSet(P), NEW br, NEW f, Ranked(P, br, f),
         NEW d \in P, NEW h \in Ext, NEW g, g[d] = h, \A x \in P \ {d} : g[x] = f[x]
  PROVE  Ranked(P, [br EXCEPT ![Cardinality(Under(P, d)) + 1] = h], g)
  <1> DEFINE j == Cardinality(Under(P, d)) + 1
             z == [br EXCEPT ![j] = h]
             n == Cardinality(P)
  <1>1. /\ br \in Seq(Ext) /\ Len(br) = n /\ n \in Nat /\ j \in 1 .. n
        /\ \A x \in P : br[Cardinality(Under(P, x)) + 1] = f[x]
    <2>1. d \in Int
      OBVIOUS
    <2>2. Cardinality(Under(P, d)) \in Nat /\ n \in Nat /\ Cardinality(Under(P, d)) < n
      BY <2>1, CountUnder
    <2>3. j \in 1 .. n
      BY <2>2
    <2> QED
      BY <2>2, <2>3 DEF Ranked
  <1>2. \A x \in P : x # d => Cardinality(Under(P, x)) + 1 # j
    <2> TAKE x \in P
    <2> HAVE x # d
    <2>1. Cardinality(Under(P, x)) # Cardinality(Under(P, d))
      BY SameCount
    <2>2. Cardinality(Under(P, x)) \in Nat /\ Cardinality(Under(P, d)) \in Nat
      BY CountUnder
    <2> QED
      BY <2>1, <2>2
  <1>3. \A x \in P : Cardinality(Under(P, x)) + 1 \in 1 .. n
    <2> TAKE x \in P
    <2>1. Cardinality(Under(P, x)) \in Nat /\ Cardinality(Under(P, x)) < n
      BY CountUnder
    <2> QED
      BY <1>1, <2>1
  <1>4. j = Cardinality(Under(P, d)) + 1
    OBVIOUS
  <1> HIDE DEF j, n
  <1>5. z \in Seq(Ext) /\ Len(z) = n
    BY <1>1, ExceptSeq
  <1>6. \A i \in 1 .. n : z[i] = IF i = j THEN h ELSE br[i]
    <2>1. DOMAIN br = 1 .. n
      BY <1>1
    <2> QED
      BY <2>1
  <1> HIDE DEF z
  <1>7. \A x \in P : z[Cardinality(Under(P, x)) + 1] = g[x]
    BY <1>1, <1>2, <1>3, <1>4, <1>6
  <1>8. Ranked(P, z, g)
    BY <1>5, <1>7 DEF Ranked, n
  <1> QED
    BY <1>8 DEF z, j

-----------------------------------------------------------------------------
(* Segments: what they carry.                                              *)

\* The offsets of segment g that have an edge in m, and the edges by offset.
Held(k, m, g)   == {d \in OffsOf(k) : At(k, g, d) \in DOMAIN m}
SegMap(k, m, g) == [d \in Held(k, m, g) |-> m[At(k, g, d)]]

SegHolds(k, q, m, g) ==
  /\ q = [present |-> q.present, branch |-> q.branch]
  /\ q.present = Held(k, m, g) /\ Ranked(q.present, q.branch, SegMap(k, m, g))
  /\ Cardinality(q.present) <= SegCap[k]

CnodeHolds(c, m) ==
  /\ EdgeMap(m) /\ c.kind \in Cnodes
  /\ c = [kind |-> c.kind, nbranch |-> Cardinality(DOMAIN m), segs |-> c.segs]
  /\ DOMAIN c.segs = SegsOf(c.kind) /\ c.segs = [g \in SegsOf(c.kind) |-> c.segs[g]]
  /\ \A g \in SegsOf(c.kind) : SegHolds(c.kind, c.segs[g], m, g)

\* m and v agree on every byte but b.
Agree(m, v, b) ==
  \A x \in Byte \ {b} : (x \in DOMAIN m <=> x \in DOMAIN v) /\ (x \in DOMAIN m => v[x] = m[x])

LEMMA PutAgrees ==
  ASSUME NEW m, EdgeMap(m), NEW b \in Byte, NEW h \in Ext
  PROVE  /\ EdgeMap(Put(m, b, h)) /\ Agree(m, Put(m, b, h), b)
         /\ DOMAIN Put(m, b, h) = DOMAIN m \cup {b} /\ Put(m, b, h)[b] = h
  BY DEF Put, EdgeMap, Agree

LEMMA LessAgrees ==
  ASSUME NEW m, EdgeMap(m), NEW b
  PROVE  /\ EdgeMap(Less(m, b)) /\ Agree(m, Less(m, b), b) /\ DOMAIN Less(m, b) = DOMAIN m \ {b}
  BY DEF Less, EdgeMap, Agree

\* A segment in which nothing changed.
LEMMA SegSame ==
  ASSUME NEW k \in Cnodes, NEW q, NEW m, NEW g \in SegsOf(k), SegHolds(k, q, m, g),
         NEW b \in Byte, NEW v, Agree(m, v, b), g # b \div SegW(k)
  PROVE  SegHolds(k, q, v, g)
  <1>1. \A d \in OffsOf(k) : At(k, g, d) \in Byte \ {b}
    BY ByteOfSeg
  <1>2. \A d \in OffsOf(k) : At(k, g, d) \in DOMAIN m <=> At(k, g, d) \in DOMAIN v
    BY <1>1 DEF Agree
  <1>3. \A d \in Held(k, m, g) : v[At(k, g, d)] = m[At(k, g, d)]
    BY <1>1 DEF Agree, Held
  <1>4. Held(k, v, g) = Held(k, m, g)
    BY <1>2 DEF Held
  <1>5. SegMap(k, v, g) = SegMap(k, m, g)
    BY <1>3, <1>4 DEF SegMap
  <1> QED
    BY <1>4, <1>5 DEF SegHolds

\* Every other segment stays as it is.
LEMMA SegChanged ==
  ASSUME NEW c, NEW m, CnodeHolds(c, m), NEW b \in Byte, NEW v, EdgeMap(v), Agree(m, v, b),
         NEW k, k = c.kind, NEW g, g = b \div SegW(k), NEW q, SegHolds(k, q, v, g),
         NEW r, r = [kind |-> k, nbranch |-> Cardinality(DOMAIN v), segs |-> [c.segs EXCEPT ![g] = q]]
  PROVE  CnodeHolds(r, v)
  <1>1. k \in Cnodes /\ DOMAIN c.segs = SegsOf(k) /\ \A e \in SegsOf(k) : SegHolds(k, c.segs[e], m, e)
    BY DEF CnodeHolds
  <1>2. g \in SegsOf(k)
    BY <1>1, SegOfByte
  <1> DEFINE S == [c.segs EXCEPT ![g] = q]
  <1>3. DOMAIN S = SegsOf(k) /\ S = [e \in SegsOf(k) |-> S[e]]
    BY <1>1
  <1>4. \A e \in SegsOf(k) : S[e] = IF e = g THEN q ELSE c.segs[e]
    BY <1>1
  <1> HIDE DEF S
  <1>5. r.kind = k /\ r.segs = S /\ r = [kind |-> r.kind, nbranch |-> Cardinality(DOMAIN v), segs |-> r.segs]
    BY DEF S
  <1>6. ASSUME NEW e \in SegsOf(k)
        PROVE  SegHolds(k, S[e], v, e)
    <2>1. CASE e = g
      BY <1>2, <1>4, <2>1
    <2>2. CASE e # g
      <3>1. S[e] = c.segs[e]
        BY <1>4, <2>2
      <3>2. SegHolds(k, c.segs[e], m, e)
        BY <1>1
      <3>3. SegHolds(k, c.segs[e], v, e)
        BY <1>1, <2>2, <3>2, SegSame
      <3> QED
        BY <3>1, <3>3
    <2> QED
      BY <2>1, <2>2
  <1> QED
    BY <1>1, <1>3, <1>5, <1>6 DEF CnodeHolds

\* What a segment tells of a byte in it.
LEMMA SegOf ==
  ASSUME NEW c, NEW m, CnodeHolds(c, m), NEW b \in Byte, NEW k, k = c.kind,
         NEW g, g = b \div SegW(k), NEW d, d = b % SegW(k), NEW q, q = c.segs[g]
  PROVE  /\ k \in Cnodes /\ g \in SegsOf(k) /\ d \in OffsOf(k) /\ d \in Int /\ At(k, g, d) = b
         /\ SegHolds(k, q, m, g) /\ q.present \in SUBSET OffsOf(k)
         /\ q.present \in SUBSET Int /\ IsFiniteSet(q.present)
         /\ b \in DOMAIN m <=> d \in q.present
         /\ BmRank(k, q, d) = Cardinality(Under(q.present, d)) /\ BmCount(k, q) = Cardinality(q.present)
         /\ SegCap[k] \in Nat /\ Cardinality(q.present) \in Nat
  <1>1. k \in Cnodes /\ \A e \in SegsOf(k) : SegHolds(k, c.segs[e], m, e)
    BY DEF CnodeHolds
  <1>2. g \in SegsOf(k) /\ d \in OffsOf(k) /\ At(k, g, d) = b
    BY <1>1, SegOfByte
  <1>3. SegHolds(k, q, m, g)
    BY <1>1, <1>2
  <1>4. q.present = Held(k, m, g)
    BY <1>3 DEF SegHolds
  <1>5. q.present \in SUBSET OffsOf(k) /\ (b \in DOMAIN m <=> d \in q.present)
    BY <1>2, <1>4 DEF Held
  <1>6. /\ q.present \in SUBSET Int /\ IsFiniteSet(q.present)
        /\ BmRank(k, q, d) = Cardinality(Under(q.present, d)) /\ BmCount(k, q) = Cardinality(q.present)
    BY <1>1, <1>2, <1>5, BmIs
  <1>7. d \in Int /\ SegCap[k] \in Nat
    <2>1. SegW(k) \in Nat
      BY <1>1, SegFacts
    <2> QED
      BY <1>1, <1>2, <2>1, SegFacts DEF OffsOf
  <1>8. Cardinality(q.present) \in Nat
    BY <1>6, FS_CardinalityType
  <1> QED
    BY <1>1, <1>2, <1>3, <1>5, <1>6, <1>7, <1>8

\* cnode_find.
LEMMA CnodeFinds ==
  ASSUME NEW c, NEW m, CnodeHolds(c, m), NEW b \in Byte
  PROVE  CnodeFind(c, b) = IF b \in DOMAIN m THEN m[b] ELSE NoEdge
  <1> DEFINE k == c.kind
             g == b \div SegW(k)
             d == b % SegW(k)
             q == c.segs[g]
  <1>1. /\ SegHolds(k, q, m, g) /\ (b \in DOMAIN m <=> d \in q.present) /\ At(k, g, d) = b
        /\ BmRank(k, q, d) = Cardinality(Under(q.present, d))
    BY SegOf
  <1>2. CnodeFind(c, b) = IF d \in q.present THEN q.branch[BmRank(k, q, d) + 1] ELSE NoEdge
    BY DEF CnodeFind, BranchOf
  <1> HIDE DEF k, g, d, q
  <1>3. d \in q.present => q.branch[Cardinality(Under(q.present, d)) + 1] = m[b]
    <2> HAVE d \in q.present
    <2>1. q.branch[Cardinality(Under(q.present, d)) + 1] = SegMap(k, m, g)[d]
      BY <1>1 DEF SegHolds, Ranked
    <2>2. SegMap(k, m, g)[d] = m[b]
      BY <1>1 DEF SegMap, SegHolds
    <2> QED
      BY <2>1, <2>2
  <1> QED
    BY <1>1, <1>2, <1>3

\* Whether the segment of byte b has room for its edge.
LEMMA CnodeSetOk ==
  ASSUME NEW c, NEW m, CnodeHolds(c, m), NEW b \in Byte, NEW h
  PROVE  CnodeSet(c, b, h).ok <=>
           b \in DOMAIN m \/ Cardinality(Held(c.kind, m, b \div SegW(c.kind))) < SegCap[c.kind]
  <1> DEFINE k == c.kind
             g == b \div SegW(k)
             d == b % SegW(k)
             q == c.segs[g]
  <1>1. /\ SegHolds(k, q, m, g) /\ (b \in DOMAIN m <=> d \in q.present)
        /\ BmCount(k, q) = Cardinality(q.present) /\ Cardinality(q.present) \in Nat /\ SegCap[k] \in Nat
    BY SegOf
  <1>2. q.present = Held(k, m, g)
    BY <1>1 DEF SegHolds
  <1>3. CnodeSet(c, b, h).ok <=> d \in q.present \/ ~(BmCount(k, q) >= SegCap[k])
    BY DEF CnodeSet, Done, Full
  <1> HIDE DEF k, g, d, q
  <1>4. ~(BmCount(k, q) >= SegCap[k]) <=> Cardinality(Held(k, m, g)) < SegCap[k]
    BY <1>1, <1>2
  <1>5. CnodeSet(c, b, h).ok <=> b \in DOMAIN m \/ Cardinality(Held(k, m, g)) < SegCap[k]
    BY <1>1, <1>3, <1>4
  <1> QED
    BY <1>5 DEF k, g

\* The segment of byte b when the edges change to v there.
LEMMA SegMapIs ==
  ASSUME NEW k \in Cnodes, NEW m, EdgeMap(m), NEW g \in SegsOf(k), NEW d \in OffsOf(k), NEW h,
         NEW b, At(k, g, d) = b
  PROVE  /\ Held(k, Put(m, b, h), g) = Held(k, m, g) \cup {d} /\ SegMap(k, Put(m, b, h), g)[d] = h
         /\ \A x \in Held(k, m, g) \ {d} : SegMap(k, Put(m, b, h), g)[x] = SegMap(k, m, g)[x]
         /\ Held(k, Less(m, b), g) = Held(k, m, g) \ {d}
         /\ \A x \in Held(k, m, g) \ {d} : SegMap(k, Less(m, b), g)[x] = SegMap(k, m, g)[x]
  <1>1. \A x \in OffsOf(k) : At(k, g, x) = b <=> x = d
    BY SegOrder
  <1>2. DOMAIN Put(m, b, h) = DOMAIN m \cup {b} /\ DOMAIN Less(m, b) = DOMAIN m \ {b}
    BY DEF Put, Less
  <1>3. Held(k, Put(m, b, h), g) = Held(k, m, g) \cup {d}
    BY <1>1, <1>2 DEF Held
  <1>4. Held(k, Less(m, b), g) = Held(k, m, g) \ {d}
    BY <1>1, <1>2 DEF Held
  <1>5. SegMap(k, Put(m, b, h), g)[d] = h
    <2>1. d \in Held(k, Put(m, b, h), g)
      BY <1>3
    <2>2. Put(m, b, h)[b] = h
      BY DEF Put
    <2> QED
      BY <2>1, <2>2 DEF SegMap
  <1>6. \A x \in Held(k, m, g) \ {d} : /\ x \in OffsOf(k) /\ At(k, g, x) \in DOMAIN m /\ At(k, g, x) # b
                                       /\ SegMap(k, m, g)[x] = m[At(k, g, x)]
    BY <1>1 DEF Held, SegMap
  <1>7. \A x \in Held(k, m, g) \ {d} : SegMap(k, Put(m, b, h), g)[x] = SegMap(k, m, g)[x]
    <2> TAKE x \in Held(k, m, g) \ {d}
    <2>1. SegMap(k, Put(m, b, h), g)[x] = Put(m, b, h)[At(k, g, x)]
      BY <1>3 DEF SegMap
    <2>2. Put(m, b, h)[At(k, g, x)] = m[At(k, g, x)]
      BY <1>6 DEF Put
    <2> QED
      BY <1>6, <2>1, <2>2
  <1>8. \A x \in Held(k, m, g) \ {d} : SegMap(k, Less(m, b), g)[x] = SegMap(k, m, g)[x]
    <2> TAKE x \in Held(k, m, g) \ {d}
    <2>1. SegMap(k, Less(m, b), g)[x] = Less(m, b)[At(k, g, x)]
      BY <1>4 DEF SegMap
    <2>2. Less(m, b)[At(k, g, x)] = m[At(k, g, x)]
      BY <1>6 DEF Less
    <2> QED
      BY <1>6, <2>1, <2>2
  <1> QED
    BY <1>3, <1>4, <1>5, <1>7, <1>8

\* cnode_set: the edge of byte b changes, or goes in at its rank.
LEMMA CnodeSetHolds ==
  ASSUME NEW c, NEW m, CnodeHolds(c, m), NEW b \in Byte, NEW h \in Ext, CnodeSet(c, b, h).ok
  PROVE  CnodeHolds(CnodeSet(c, b, h).router, Put(m, b, h)) /\ CnodeSet(c, b, h).router.kind = c.kind
  <1> DEFINE k == c.kind
             g == b \div SegW(k)
             d == b % SegW(k)
             q == c.segs[g]
             P == q.present
             v == Put(m, b, h)
             j == Cardinality(Under(P, d)) + 1
             n == Cardinality(DOMAIN m)
             rc(y) == [kind |-> k, nbranch |-> Cardinality(DOMAIN v), segs |-> [c.segs EXCEPT ![g] = y]]
  <1>1. /\ k \in Cnodes /\ g \in SegsOf(k) /\ d \in OffsOf(k) /\ d \in Int /\ At(k, g, d) = b
        /\ SegHolds(k, q, m, g) /\ P \in SUBSET OffsOf(k)
        /\ P \in SUBSET Int /\ IsFiniteSet(P)
        /\ b \in DOMAIN m <=> d \in P
        /\ BmRank(k, q, d) = Cardinality(Under(P, d)) /\ BmCount(k, q) = Cardinality(P)
        /\ SegCap[k] \in Nat /\ Cardinality(P) \in Nat
    BY SegOf
  <1>2. /\ EdgeMap(m) /\ c = [kind |-> k, nbranch |-> n, segs |-> c.segs] /\ DOMAIN c.segs = SegsOf(k)
        /\ IsFiniteSet(DOMAIN m) /\ n \in Nat
    <2>1. EdgeMap(m) /\ c = [kind |-> k, nbranch |-> n, segs |-> c.segs] /\ DOMAIN c.segs = SegsOf(k)
      BY DEF CnodeHolds
    <2>2. IsFiniteSet(DOMAIN m) /\ n \in Nat
      BY <2>1, ByteFacts DEF EdgeMap
    <2> QED
      BY <2>1, <2>2
  <1>3. EdgeMap(v) /\ Agree(m, v, b) /\ DOMAIN v = DOMAIN m \cup {b} /\ v[b] = h
    BY <1>2, PutAgrees
  <1>4. /\ Held(k, v, g) = Held(k, m, g) \cup {d} /\ SegMap(k, v, g)[d] = h
        /\ \A x \in Held(k, m, g) \ {d} : SegMap(k, v, g)[x] = SegMap(k, m, g)[x]
    BY <1>1, <1>2, SegMapIs
  <1>5. /\ q = [present |-> P, branch |-> q.branch]
        /\ P = Held(k, m, g) /\ Ranked(P, q.branch, SegMap(k, m, g)) /\ Cardinality(P) <= SegCap[k]
    BY <1>1 DEF SegHolds
  <1>6. ASSUME NEW y, SegHolds(k, y, v, g)
        PROVE  CnodeHolds(rc(y), v)
    <2> DEFINE r == rc(y)
    <2>1. r = [kind |-> k, nbranch |-> Cardinality(DOMAIN v), segs |-> [c.segs EXCEPT ![g] = y]]
      OBVIOUS
    <2>2. k = c.kind /\ g = b \div SegW(k)
      OBVIOUS
    <2> HIDE DEF r, v, g, k
    <2>3. CnodeHolds(r, v)
      BY <1>3, <1>6, <2>1, <2>2, SegChanged
    <2> QED
      BY <2>3 DEF r
  <1>7. CASE d \in P
    <2> DEFINE br == [q.branch EXCEPT ![j] = h]
               y == [present |-> P, branch |-> br]
    <2>1. CnodeSet(c, b, h).router = [c EXCEPT !.segs[g].branch[BmRank(k, q, d) + 1] = h]
      BY <1>7 DEF CnodeSet, Done
    <2>2. BmRank(k, q, d) + 1 = j
      BY <1>1
    <2>3. CnodeSet(c, b, h).router = [c EXCEPT !.segs[g].branch[j] = h]
      BY <2>1, <2>2
    <2>4. b \in DOMAIN m /\ DOMAIN v = DOMAIN m
      BY <1>1, <1>3, <1>7
    <2>5. [c EXCEPT !.segs[g].branch[j] = h] = rc(y)
      <3> DEFINE z == [q EXCEPT !.branch[j] = h]
                 S == [c.segs EXCEPT ![g] = z]
      <3>1. [c EXCEPT !.segs[g].branch[j] = h] = [c EXCEPT !.segs = S]
        OBVIOUS
      <3>2. z = y
        <4> HIDE DEF q, P, j
        <4>1. z = [q EXCEPT !.branch = br]
          OBVIOUS
        <4> HIDE DEF br
        <4> QED
          BY <1>5, <4>1
      <3> HIDE DEF z, y
      <3>3. S = [c.segs EXCEPT ![g] = y]
        BY <3>2
      <3> HIDE DEF S, k, v, n, g
      <3>4. [c EXCEPT !.segs = S] = [kind |-> k, nbranch |-> n, segs |-> S]
        BY <1>2
      <3>5. n = Cardinality(DOMAIN v)
        BY <2>4 DEF n
      <3> QED
        BY <3>1, <3>3, <3>4, <3>5
    <2>6. SegHolds(k, y, v, g)
      <3>1. Held(k, v, g) = P
        BY <1>4, <1>5, <1>7
      <3> DEFINE f == SegMap(k, m, g)
                 w == SegMap(k, v, g)
      <3>2. Ranked(P, q.branch, f) /\ w[d] = h /\ \A x \in P \ {d} : w[x] = f[x]
        BY <1>4, <1>5
      <3> HIDE DEF P, f, w, d, q, k, g, v
      <3>3. Ranked(P, br, w)
        BY <1>1, <1>7, <3>2, RankChanged
      <3>4. y.present = P /\ y.branch = br
        OBVIOUS
      <3> HIDE DEF br
      <3> QED
        BY <1>5, <3>1, <3>3, <3>4 DEF SegHolds, w
    <2> HIDE DEF y
    <2>7. CnodeHolds(rc(y), v)
      BY <1>6, <2>6
    <2>8. rc(y).kind = k
      OBVIOUS
    <2> HIDE DEF rc, v
    <2> QED
      BY <2>3, <2>5, <2>7, <2>8 DEF v
  <1>8. CASE d \notin P
    <2> DEFINE br == InsertAt(q.branch, j, h)
               y == [present |-> P \cup {d}, branch |-> br]
    <2>1. ~(BmCount(k, q) >= SegCap[k])
      BY <1>8 DEF CnodeSet, Full
    <2>2. CnodeSet(c, b, h).router =
            [c EXCEPT !.segs[g] = [present |-> @.present \cup {d},
                                   branch  |-> InsertAt(@.branch, BmRank(k, q, d) + 1, h)],
                      !.nbranch = @ + 1]
      BY <1>8, <2>1 DEF CnodeSet, Done
    <2>3. BmRank(k, q, d) + 1 = j
      BY <1>1
    <2>4. Cardinality(DOMAIN v) = n + 1
      <3>1. b \notin DOMAIN m
        BY <1>1, <1>8
      <3> HIDE DEF v
      <3> QED
        BY <1>2, <1>3, <3>1, FS_AddElement
    <2>5. CnodeSet(c, b, h).router = rc(y)
      <3> DEFINE S == [c.segs EXCEPT ![g] = [present |-> @.present \cup {d}, branch |-> InsertAt(@.branch, j, h)]]
      <3>1. CnodeSet(c, b, h).router = [c EXCEPT !.segs = S, !.nbranch = @ + 1]
        BY <2>2, <2>3
      <3>2. S = [c.segs EXCEPT ![g] = y]
        OBVIOUS
      <3> HIDE DEF S, k, v, n, g, y
      <3>3. [c EXCEPT !.segs = S, !.nbranch = @ + 1] = [kind |-> k, nbranch |-> n + 1, segs |-> S]
        <4>1. c = [kind |-> k, nbranch |-> n, segs |-> c.segs]
          BY <1>2
        <4> DEFINE u == [c EXCEPT !.segs = S]
               z == c.nbranch + 1
        <4>2. u = [kind |-> k, nbranch |-> n, segs |-> S]
          BY <4>1
        <4>3. z = n + 1
          BY <4>1
        <4>4. [c EXCEPT !.segs = S, !.nbranch = @ + 1] = [u EXCEPT !.nbranch = z]
          OBVIOUS
        <4> HIDE DEF u, z
        <4>5. [u EXCEPT !.nbranch = z] = [kind |-> k, nbranch |-> z, segs |-> S]
          BY <4>2
        <4> QED
          BY <4>3, <4>4, <4>5
      <3> QED
        BY <2>4, <3>1, <3>2, <3>3
    <2>6. SegHolds(k, y, v, g)
      <3>1. Held(k, v, g) = P \cup {d}
        BY <1>4, <1>5
      <3> DEFINE f == SegMap(k, m, g)
                 w == SegMap(k, v, g)
      <3>2. Ranked(P, q.branch, f) /\ w[d] = h /\ \A x \in P : w[x] = f[x]
        BY <1>4, <1>5, <1>8
      <3>3. Cardinality(P \cup {d}) <= SegCap[k]
        <4> HIDE DEF P, k, d, q, g
        <4>1. Cardinality(P \cup {d}) = Cardinality(P) + 1
          BY <1>1, <1>8, FS_AddElement
        <4> QED
          BY <1>1, <2>1, <4>1
      <3> HIDE DEF P, f, w, d, q, k, g, v
      <3>4. Ranked(P \cup {d}, br, w)
        BY <1>1, <1>8, <3>2, RankAdded
      <3>5. y.present = P \cup {d} /\ y.branch = br
        OBVIOUS
      <3> HIDE DEF br
      <3> QED
        BY <3>1, <3>3, <3>4, <3>5 DEF SegHolds, w
    <2> HIDE DEF y
    <2>7. CnodeHolds(rc(y), v)
      BY <1>6, <2>6
    <2>8. rc(y).kind = k
      OBVIOUS
    <2> HIDE DEF rc, v
    <2> QED
      BY <2>5, <2>7, <2>8 DEF v
  <1> QED
    BY <1>7, <1>8

\* cnode_remove.
LEMMA CnodeRemoveHolds ==
  ASSUME NEW c, NEW m, CnodeHolds(c, m), NEW b \in Byte, b \in DOMAIN m
  PROVE  CnodeHolds(CnodeRemove(c, b), Less(m, b)) /\ CnodeRemove(c, b).kind = c.kind
  <1> DEFINE k == c.kind
             g == b \div SegW(k)
             d == b % SegW(k)
             q == c.segs[g]
             P == q.present
             v == Less(m, b)
             j == Cardinality(Under(P, d)) + 1
             n == Cardinality(DOMAIN m)
             br == RemoveAt(q.branch, j)
             y == [present |-> P \ {d}, branch |-> br]
             r == [kind |-> k, nbranch |-> Cardinality(DOMAIN v), segs |-> [c.segs EXCEPT ![g] = y]]
  <1>1. /\ k \in Cnodes /\ g \in SegsOf(k) /\ d \in OffsOf(k) /\ d \in Int /\ At(k, g, d) = b
        /\ SegHolds(k, q, m, g) /\ P \in SUBSET OffsOf(k)
        /\ P \in SUBSET Int /\ IsFiniteSet(P)
        /\ b \in DOMAIN m <=> d \in P
        /\ BmRank(k, q, d) = Cardinality(Under(P, d)) /\ BmCount(k, q) = Cardinality(P)
        /\ SegCap[k] \in Nat /\ Cardinality(P) \in Nat
    BY SegOf
  <1>2. /\ EdgeMap(m) /\ c = [kind |-> k, nbranch |-> n, segs |-> c.segs] /\ DOMAIN c.segs = SegsOf(k)
        /\ IsFiniteSet(DOMAIN m) /\ n \in Nat /\ d \in P
    <2>1. EdgeMap(m) /\ c = [kind |-> k, nbranch |-> n, segs |-> c.segs] /\ DOMAIN c.segs = SegsOf(k)
      BY DEF CnodeHolds
    <2>2. IsFiniteSet(DOMAIN m) /\ n \in Nat
      BY <2>1, ByteFacts DEF EdgeMap
    <2> QED
      BY <1>1, <2>1, <2>2
  <1>3. EdgeMap(v) /\ Agree(m, v, b) /\ DOMAIN v = DOMAIN m \ {b}
    BY <1>2, LessAgrees
  <1>4. /\ Held(k, v, g) = Held(k, m, g) \ {d}
        /\ \A x \in Held(k, m, g) \ {d} : SegMap(k, v, g)[x] = SegMap(k, m, g)[x]
    BY <1>1, <1>2, SegMapIs
  <1>5. /\ P = Held(k, m, g) /\ Ranked(P, q.branch, SegMap(k, m, g)) /\ Cardinality(P) <= SegCap[k]
    BY <1>1 DEF SegHolds
  <1>6. Cardinality(DOMAIN v) = n - 1
    <2> HIDE DEF v
    <2> QED
      BY <1>2, <1>3, FS_RemoveElement
  <1>7. CnodeRemove(c, b) = r
    <2> DEFINE S == [c.segs EXCEPT ![g] = [present |-> @.present \ {d}, branch |-> RemoveAt(@.branch, j)]]
    <2>1. CnodeRemove(c, b) =
            [c EXCEPT !.segs[g] = [present |-> @.present \ {d},
                                   branch  |-> RemoveAt(@.branch, BmRank(k, q, d) + 1)],
                      !.nbranch = @ - 1]
      BY <1>2 DEF CnodeRemove
    <2>2. BmRank(k, q, d) + 1 = j
      BY <1>1
    <2>3. CnodeRemove(c, b) = [c EXCEPT !.segs = S, !.nbranch = @ - 1]
      BY <2>1, <2>2
    <2>4. S = [c.segs EXCEPT ![g] = y]
      OBVIOUS
    <2> HIDE DEF S, k, v, n, g, y
    <2>5. [c EXCEPT !.segs = S, !.nbranch = @ - 1] = [kind |-> k, nbranch |-> n - 1, segs |-> S]
      <3>1. c = [kind |-> k, nbranch |-> n, segs |-> c.segs]
        BY <1>2
      <3> DEFINE u == [c EXCEPT !.segs = S]
             z == c.nbranch - 1
      <3>2. u = [kind |-> k, nbranch |-> n, segs |-> S]
        BY <3>1
      <3>3. z = n - 1
        BY <3>1
      <3>4. [c EXCEPT !.segs = S, !.nbranch = @ - 1] = [u EXCEPT !.nbranch = z]
        OBVIOUS
      <3> HIDE DEF u, z
      <3>5. [u EXCEPT !.nbranch = z] = [kind |-> k, nbranch |-> z, segs |-> S]
        BY <3>2
      <3> QED
        BY <3>3, <3>4, <3>5
    <2> QED
      BY <1>6, <2>3, <2>4, <2>5
  <1>8. SegHolds(k, y, v, g)
    <2>1. Held(k, v, g) = P \ {d}
      BY <1>4, <1>5
    <2> DEFINE f == SegMap(k, m, g)
               w == SegMap(k, v, g)
    <2>2. Ranked(P, q.branch, f) /\ \A x \in P \ {d} : w[x] = f[x]
      BY <1>4, <1>5
    <2>3. Cardinality(P \ {d}) <= SegCap[k]
      <3> HIDE DEF P, k, d, q, g
      <3>1. Cardinality(P \ {d}) = Cardinality(P) - 1
        BY <1>1, <1>2, FS_RemoveElement
      <3> QED
        BY <1>1, <1>5, <3>1
    <2> HIDE DEF P, f, w, d, q, k, g, v
    <2>4. Ranked(P \ {d}, br, w)
      BY <1>1, <1>2, <2>2, RankLost
    <2>5. y.present = P \ {d} /\ y.branch = br
      OBVIOUS
    <2> HIDE DEF br
    <2>6. y = [present |-> y.present, branch |-> y.branch]
      OBVIOUS
    <2> HIDE DEF y
    <2> QED
      BY <2>1, <2>3, <2>4, <2>5, <2>6 DEF SegHolds, w
  <1>9. /\ r = [kind |-> k, nbranch |-> Cardinality(DOMAIN v), segs |-> [c.segs EXCEPT ![g] = y]]
        /\ k = c.kind /\ g = b \div SegW(k) /\ r.kind = k
    OBVIOUS
  <1> HIDE DEF r, v, g, k, y
  <1>10. CnodeHolds(r, v)
    BY <1>3, <1>8, <1>9, SegChanged
  <1> QED
    BY <1>7, <1>9, <1>10 DEF v

-----------------------------------------------------------------------------
(* The edges in order.                                                     *)

\* A list of edges: its bytes go up, they are those of D, and each comes with its
\* edge of m.
Edges == Byte \X Ext
Lists(q, m, D) ==
  /\ q \in Seq(Edges)
  /\ \A i \in 1 .. Len(q) : q[i][1] \in D /\ q[i] = <<q[i][1], m[q[i][1]]>>
  /\ \A b \in D : \E i \in 1 .. Len(q) : q[i][1] = b
  /\ \A i, j \in 1 .. Len(q) : i < j => q[i][1] < q[j][1]

\* The edges of m in ascending order: what for_each should visit.
Listing(m) == [i \in 1 .. Len(Ascending(DOMAIN m)) |->
                 <<Ascending(DOMAIN m)[i], m[Ascending(DOMAIN m)[i]]>>]

\* A list of all the edges is the listing.
LEMMA ListsAll ==
  ASSUME NEW m, EdgeMap(m), NEW q, Lists(q, m, DOMAIN m)
  PROVE  /\ q = Listing(m) /\ Len(q) = Cardinality(DOMAIN m)
         /\ \A i \in 1 .. Len(q) : q[i][1] = Ascending(DOMAIN m)[i]
  <1> DEFINE n == Len(q)
             f == [i \in 1 .. n |-> q[i][1]]
             D == DOMAIN m
  <1>1. q \in Seq(Edges) /\ n \in Nat /\ DOMAIN q = 1 .. n
    BY DEF Lists
  <1>2. \A i \in 1 .. n : q[i] \in Edges /\ q[i][1] \in Byte
    BY <1>1 DEF Edges
  <1>3. DOMAIN f = 1 .. n /\ \A i \in 1 .. n : f[i] = q[i][1]
    OBVIOUS
  <1>4. \A i \in 1 .. n : f[i] \in Int
    BY <1>2, <1>3, ByteFacts
  <1>5. \A i, j \in 1 .. n : i < j => f[i] < f[j]
    BY <1>3 DEF Lists
  <1>6. D = {f[i] : i \in 1 .. n}
    <2>1. \A b \in D : \E i \in 1 .. n : f[i] = b
      BY <1>3 DEF Lists
    <2>2. \A i \in 1 .. n : f[i] \in D
      BY <1>3 DEF Lists
    <2> HIDE DEF D, f, n
    <2> QED
      BY <2>1, <2>2
  <1>7. \A i \in 1 .. n : q[i] = <<q[i][1], m[q[i][1]]>>
    BY DEF Lists
  <1>14. D \in SUBSET Int /\ IsFiniteSet(D)
    BY ByteFacts DEF EdgeMap
  <1> HIDE DEF f, D, n
  <1>15. n \in Nat /\ Rises(n, f) /\ D = Values(n, f)
    BY <1>1, <1>3, <1>4, <1>5, <1>6 DEF Rises, Values
  <1>8. Cardinality(D) = n /\ \A i \in 1 .. n : Ascending(D)[i] = f[i]
    BY <1>15, RisingIs
  <1>9. Len(Ascending(D)) = n
    BY <1>8, <1>14, AscendingIs
  <1>10. \A i \in 1 .. n : q[i] = <<Ascending(D)[i], m[Ascending(D)[i]]>>
    BY <1>3, <1>7, <1>8
  <1>11. q = [i \in 1 .. n |-> q[i]]
    BY <1>1 DEF n
  <1>12. q = [i \in 1 .. n |-> <<Ascending(D)[i], m[Ascending(D)[i]]>>]
    BY <1>10, <1>11
  <1>13. q = Listing(m)
    BY <1>9, <1>12 DEF Listing, D
  <1> QED
    BY <1>3, <1>8, <1>13 DEF n, D

\* The listing is a list of all the edges.
LEMMA ListingIs ==
  ASSUME NEW m, EdgeMap(m)
  PROVE  Lists(Listing(m), m, DOMAIN m) /\ Len(Listing(m)) = Cardinality(DOMAIN m)
  <1> DEFINE D == DOMAIN m
             n == Cardinality(D)
             a == Ascending(D)
             q == Listing(m)
  <1>1. D \in SUBSET Int /\ IsFiniteSet(D) /\ D \subseteq Byte /\ m \in [D -> Ext]
    BY ByteFacts DEF EdgeMap
  <1> HIDE DEF D
  <1>2. /\ n \in Nat /\ a \in [1 .. n -> D] /\ Len(a) = n
        /\ \A x \in D : Cardinality(Under(D, x)) + 1 \in 1 .. n /\ a[Cardinality(Under(D, x)) + 1] = x
        /\ \A i, j \in 1 .. n : i < j => a[i] < a[j]
    BY <1>1, AscendingIs
  <1>3. q = [i \in 1 .. n |-> <<a[i], m[a[i]]>>]
    BY <1>2 DEF Listing, D
  <1> HIDE DEF n, a, q
  <1>4. \A i \in 1 .. n : a[i] \in D /\ a[i] \in Byte /\ m[a[i]] \in Ext
    BY <1>1, <1>2
  <1>5. \A i \in 1 .. n : q[i] = <<a[i], m[a[i]]>> /\ q[i][1] = a[i] /\ q[i] \in Edges
    BY <1>3, <1>4 DEF Edges
  <1>6. q \in Seq(Edges) /\ Len(q) = n
    <2>1. q \in [1 .. n -> Edges]
      BY <1>3, <1>5
    <2> QED
      BY <1>2, <2>1
  <1>7. \A b \in D : \E i \in 1 .. n : q[i][1] = b
    BY <1>2, <1>5
  <1>8. \A i \in 1 .. n : q[i][1] \in D /\ q[i] = <<q[i][1], m[q[i][1]]>>
    BY <1>4, <1>5
  <1>9. \A i, j \in 1 .. n : i < j => q[i][1] < q[j][1]
    BY <1>2, <1>5
  <1>10. Lists(q, m, D)
    BY <1>6, <1>7, <1>8, <1>9 DEF Lists
  <1> QED
    BY <1>6, <1>10 DEF q, D, n

\* A list below another.
LEMMA ListsJoin ==
  ASSUME NEW m, NEW D \in SUBSET Int, NEW E \in SUBSET Int, NEW p, NEW q,
         Lists(p, m, D), Lists(q, m, E), \A x \in D : \A y \in E : x < y
  PROVE  Lists(p \o q, m, D \cup E)
  <1> DEFINE r == p \o q
             n == Len(p)
             l == Len(q)
  <1>1. p \in Seq(Edges) /\ q \in Seq(Edges) /\ n \in Nat /\ l \in Nat
    BY DEF Lists
  <1>2. /\ r \in Seq(Edges) /\ Len(r) = n + l
        /\ \A i \in 1 .. n + l : r[i] = IF i <= n THEN p[i] ELSE q[i - n]
    BY <1>1, ConcatProperties
  <1>3. /\ \A i \in 1 .. n : p[i][1] \in D /\ p[i] = <<p[i][1], m[p[i][1]]>>
        /\ \A i \in 1 .. l : q[i][1] \in E /\ q[i] = <<q[i][1], m[q[i][1]]>>
    BY DEF Lists
  <1>4. /\ \A b \in D : \E i \in 1 .. n : p[i][1] = b
        /\ \A b \in E : \E i \in 1 .. l : q[i][1] = b
    BY DEF Lists
  <1>5. /\ \A i, j \in 1 .. n : i < j => p[i][1] < p[j][1]
        /\ \A i, j \in 1 .. l : i < j => q[i][1] < q[j][1]
    BY DEF Lists
  <1> HIDE DEF r, n, l
  <1>6. \A i \in 1 .. n + l : \/ i \in 1 .. n /\ r[i] = p[i]
                              \/ i > n /\ i - n \in 1 .. l /\ r[i] = q[i - n]
    <2> TAKE i \in 1 .. n + l
    <2>1. CASE i <= n
      BY <1>1, <1>2, <2>1
    <2>2. CASE ~(i <= n)
      BY <1>1, <1>2, <2>2
    <2> QED
      BY <2>1, <2>2
  <1>7. \A i \in 1 .. n + l : r[i][1] \in D \cup E /\ r[i] = <<r[i][1], m[r[i][1]]>>
    BY <1>3, <1>6
  <1>8. ASSUME NEW b \in D \cup E
        PROVE  \E i \in 1 .. n + l : r[i][1] = b
    <2>1. CASE b \in D
      <3>1. PICK i \in 1 .. n : p[i][1] = b
        BY <1>4, <2>1
      <3>2. i \in 1 .. n + l /\ i <= n
        BY <1>1
      <3> QED
        BY <1>2, <3>1, <3>2
    <2>2. CASE b \in E
      <3>1. PICK i \in 1 .. l : q[i][1] = b
        BY <1>4, <2>2
      <3>2. n + i \in 1 .. n + l /\ ~(n + i <= n) /\ (n + i) - n = i
        BY <1>1
      <3> QED
        BY <1>2, <3>1, <3>2
    <2> QED
      BY <2>1, <2>2
  <1>9. ASSUME NEW i \in 1 .. n + l, NEW j \in 1 .. n + l, i < j
        PROVE  r[i][1] < r[j][1]
    <2>1. CASE j <= n
      <3>1. i \in 1 .. n /\ j \in 1 .. n /\ i <= n
        BY <1>1, <1>9, <2>1
      <3>2. r[i] = p[i] /\ r[j] = p[j] /\ p[i][1] < p[j][1]
        BY <1>2, <1>5, <1>9, <2>1, <3>1
      <3> QED
        BY <3>2
    <2>2. CASE ~(j <= n) /\ i <= n
      <3>1. i \in 1 .. n /\ j - n \in 1 .. l
        BY <1>1, <1>9, <2>2
      <3>2. r[i] = p[i] /\ r[j] = q[j - n]
        BY <1>2, <2>2
      <3>3. p[i][1] \in D /\ q[j - n][1] \in E
        BY <1>3, <3>1
      <3> QED
        BY <3>2, <3>3
    <2>3. CASE ~(i <= n)
      <3>1. i - n \in 1 .. l /\ j - n \in 1 .. l /\ i - n < j - n /\ ~(j <= n)
        BY <1>1, <1>9, <2>3
      <3>2. r[i] = q[i - n] /\ r[j] = q[j - n]
        BY <1>2, <2>3, <3>1
      <3>3. q[i - n][1] < q[j - n][1]
        BY <1>5, <3>1
      <3> QED
        BY <3>2, <3>3
    <2> QED
      BY <2>1, <2>2, <2>3
  <1>10. Lists(r, m, D \cup E)
    BY <1>2, <1>7, <1>8, <1>9 DEF Lists
  <1> QED
    BY <1>10 DEF r

-----------------------------------------------------------------------------
(* The edges of the segments, in order.                                    *)

\* The edges of m in segment g, and in the segments below g.
InSeg(k, m, g)    == {b \in DOMAIN m : b \div SegW(k) = g}
UpToSeg(k, m, g)  == {b \in DOMAIN m : b \div SegW(k) < g}
SegList(k, q, g)  == [i \in 1 .. Len(Ascending(q.present)) |->
                        <<g * SegW(k) + Ascending(q.present)[i], q.branch[i]>>]

LEMMA SegLists ==
  ASSUME NEW k \in Cnodes, NEW m, EdgeMap(m), NEW g \in SegsOf(k), NEW q, SegHolds(k, q, m, g)
  PROVE  Lists(SegList(k, q, g), m, InSeg(k, m, g))
  <1> DEFINE P == q.present
             n == Cardinality(P)
             a == Ascending(P)
             r == SegList(k, q, g)
             E == InSeg(k, m, g)
             x(i) == At(k, g, a[i])
  <1>1. P = Held(k, m, g) /\ Ranked(P, q.branch, SegMap(k, m, g)) /\ P \in SUBSET OffsOf(k)
    BY DEF SegHolds, Held
  <1>2. P \in SUBSET Int /\ IsFiniteSet(P)
    BY <1>1, BmIs
  <1>3. /\ n \in Nat /\ a \in [1 .. n -> P] /\ Len(a) = n
        /\ \A i \in 1 .. n : Cardinality(Under(P, a[i])) = i - 1
        /\ \A y \in P : Cardinality(Under(P, y)) + 1 \in 1 .. n /\ a[Cardinality(Under(P, y)) + 1] = y
        /\ \A i, j \in 1 .. n : i < j => a[i] < a[j]
    <2> HIDE DEF P
    <2> QED
      BY <1>2, AscendingIs
  <1>4. r = [i \in 1 .. n |-> <<x(i), q.branch[i]>>]
    BY <1>3 DEF SegList, At
  <1>5. ASSUME NEW i \in 1 .. n
        PROVE  /\ a[i] \in OffsOf(k) /\ x(i) \in E /\ x(i) \in Byte /\ q.branch[i] = m[x(i)]
               /\ r[i] = <<x(i), m[x(i)]>> /\ r[i][1] = x(i) /\ r[i] \in Edges
    <2>1. a[i] \in P /\ a[i] \in OffsOf(k)
      BY <1>1, <1>3
    <2>2. x(i) \in DOMAIN m
      BY <1>1, <2>1 DEF Held
    <2>3. x(i) \in Byte /\ x(i) \div SegW(k) = g
      BY <2>1, ByteOfSeg
    <2>4. q.branch[i] = m[x(i)]
      <3>1. q.branch[Cardinality(Under(P, a[i])) + 1] = SegMap(k, m, g)[a[i]]
        BY <1>1, <2>1 DEF Ranked
      <3>2. Cardinality(Under(P, a[i])) + 1 = i
        BY <1>3
      <3>3. SegMap(k, m, g)[a[i]] = m[x(i)]
        BY <1>1, <2>1 DEF SegMap
      <3> QED
        BY <3>1, <3>2, <3>3
    <2>5. m[x(i)] \in Ext
      BY <2>2 DEF EdgeMap
    <2>6. r[i] = <<x(i), m[x(i)]>>
      <3> HIDE DEF r, x, n
      <3> QED
        BY <1>4, <2>4
    <2>7. x(i) \in E
      BY <2>2, <2>3 DEF InSeg
    <2> HIDE DEF r, x
    <2> QED
      BY <2>1, <2>3, <2>4, <2>5, <2>6, <2>7 DEF Edges
  <1>6. \A b \in E : \E i \in 1 .. n : x(i) = b
    <2> TAKE b \in E
    <2> DEFINE y == b % SegW(k)
    <2>1. b \in DOMAIN m /\ b \in Byte /\ b \div SegW(k) = g
      BY DEF InSeg, EdgeMap
    <2>2. y \in OffsOf(k) /\ At(k, g, y) = b
      BY <2>1, SegOfByte
    <2> HIDE DEF y
    <2>3. y \in P
      BY <1>1, <2>1, <2>2 DEF Held
    <2> QED
      BY <1>3, <2>2, <2>3
  <1>7. \A i, j \in 1 .. n : i < j => x(i) < x(j)
    <2> TAKE i, j \in 1 .. n
    <2>1. a[i] \in OffsOf(k) /\ a[j] \in OffsOf(k) /\ (i < j => a[i] < a[j])
      BY <1>3, <1>5
    <2> QED
      BY <2>1, SegOrder
  <1> HIDE DEF r, x, n, E
  <1>8. r \in Seq(Edges) /\ Len(r) = n
    <2>1. r \in [1 .. n -> Edges]
      BY <1>4, <1>5
    <2>2. n \in Nat
      BY <1>3
    <2> QED
      BY <2>1, <2>2
  <1>9. \A i \in 1 .. n : r[i][1] \in E /\ r[i] = <<r[i][1], m[r[i][1]]>>
    BY <1>5
  <1>10. \A b \in E : \E i \in 1 .. n : r[i][1] = b
    BY <1>5, <1>6
  <1>11. \A i, j \in 1 .. n : i < j => r[i][1] < r[j][1]
    BY <1>5, <1>7
  <1>12. Lists(r, m, E)
    BY <1>8, <1>9, <1>10, <1>11 DEF Lists
  <1> QED
    BY <1>12 DEF r, E

\* The lists of G one after the other.
Joined(G, f, n) == f = [i \in 0 .. n |-> IF i = 0 THEN <<>> ELSE f[i - 1] \o G[i - 1]]

LEMMA JoinedExists ==
  ASSUME NEW G, NEW n \in Nat
  PROVE  \E f : Joined(G, f, n)
  <1> DEFINE S == {k \in Nat : \E f : Joined(G, f, k)}
             next(i, y) == y \o G[i - 1]
  <1>1. 0 \in S
    <2> DEFINE f == [i \in 0 .. 0 |-> <<>>]
    <2>1. \A i \in 0 .. 0 : i = 0
      OBVIOUS
    <2>2. Joined(G, f, 0)
      BY <2>1 DEF Joined
    <2> QED
      BY <2>2
  <1>2. ASSUME NEW k \in Nat, k \in S
        PROVE  k + 1 \in S
    <2>1. PICK g : Joined(G, g, k)
      BY <1>2
    <2> DEFINE f == [i \in 0 .. k + 1 |-> IF i = k + 1 THEN next(k + 1, g[k]) ELSE g[i]]
    <2>2. \A i \in 0 .. k : g[i] = IF i = 0 THEN <<>> ELSE next(i, g[i - 1])
      BY <2>1 DEF Joined
    <2> HIDE DEF next
    <2>3. \A i \in 0 .. k + 1 : (i # k + 1 => i \in 0 .. k) /\ (i # 0 => i - 1 \in 0 .. k + 1 /\ i - 1 # k + 1)
      OBVIOUS
    <2>4. \A i \in 0 .. k + 1 : f[i] = IF i = k + 1 THEN next(k + 1, g[k]) ELSE g[i]
      OBVIOUS
    <2>5. \A i \in 0 .. k + 1 : i # 0 => f[i - 1] = g[i - 1]
      BY <2>3
    <2>6. DOMAIN f = 0 .. k + 1 /\ f = [i \in 0 .. k + 1 |-> f[i]]
      OBVIOUS
    <2> HIDE DEF f
    <2>7. \A i \in 0 .. k + 1 : f[i] = IF i = 0 THEN <<>> ELSE next(i, f[i - 1])
      <3> TAKE i \in 0 .. k + 1
      <3>1. CASE i = k + 1
        <4>1. i # 0 /\ i - 1 = k
          BY <3>1
        <4> QED
          BY <2>4, <2>5, <3>1, <4>1
      <3>2. CASE i # k + 1
        BY <2>2, <2>3, <2>4, <2>5, <3>2
      <3> QED
        BY <3>1, <3>2
    <2>8. f = [i \in 0 .. k + 1 |-> IF i = 0 THEN <<>> ELSE next(i, f[i - 1])]
      BY <2>6, <2>7
    <2>9. Joined(G, f, k + 1)
      BY <2>8 DEF Joined, next
    <2> QED
      BY <2>9
  <1>3. \A i \in 0 .. n : i \in S
    <2>1. \A i \in 0 .. n - 1 : i \in S => i + 1 \in S
      BY <1>2
    <2> HIDE DEF S
    <2> QED
      BY <1>1, <2>1, UpTo
  <1>4. n \in S
    BY <1>3
  <1> QED
    BY <1>4

\* cnode_for_each lists the edges.
LEMMA CnodeLists ==
  ASSUME NEW c, NEW m, CnodeHolds(c, m)
  PROVE  Lists(CnodeForEach(c), m, DOMAIN m)
  <1> DEFINE k == c.kind
             n == NSeg(k)
             G == [g \in 0 .. n - 1 |-> SegList(k, c.segs[g], g)]
             F == CHOOSE f : Joined(G, f, n)
  <1>1. k \in Cnodes /\ EdgeMap(m) /\ \A g \in SegsOf(k) : SegHolds(k, c.segs[g], m, g)
    BY DEF CnodeHolds
  <1>2. n \in Nat /\ n \in Nat \ {0} /\ SegsOf(k) = 0 .. n - 1
    BY <1>1, SegFacts DEF SegsOf
  <1>3. Joined(G, F, n)
    <2> HIDE DEF G, n
    <2> QED
      BY <1>2, JoinedExists
  <1>4. CnodeForEach(c) = F[n]
    <2> DEFINE seg(sg) == LET d == Ascending(c.segs[sg].present)
                          IN  [i \in 1 .. Len(d) |-> <<sg * SegW(c.kind) + d[i], c.segs[sg].branch[i]>>]
               H == CHOOSE f : f = [j \in 0 .. n |-> IF j = 0 THEN <<>> ELSE f[j - 1] \o seg(j - 1)]
    <2>1. CnodeForEach(c) = H[n]
      BY DEF CnodeForEach
    <2>2. ASSUME NEW f
          PROVE  Joined(G, f, n) <=> f = [j \in 0 .. n |-> IF j = 0 THEN <<>> ELSE f[j - 1] \o seg(j - 1)]
      <3>1. \A j \in 0 .. n : j # 0 => G[j - 1] = seg(j - 1)
        <4> TAKE j \in 0 .. n
        <4>1. j # 0 => j - 1 \in 0 .. n - 1
          BY <1>2
        <4> QED
          BY <4>1 DEF SegList
      <3> HIDE DEF seg, G, n
      <3>2. [j \in 0 .. n |-> IF j = 0 THEN <<>> ELSE f[j - 1] \o seg(j - 1)]
              = [j \in 0 .. n |-> IF j = 0 THEN <<>> ELSE f[j - 1] \o G[j - 1]]
        BY <3>1
      <3> QED
        BY <3>2 DEF Joined
    <2> HIDE DEF seg, G, n
    <2>3. H = F
      BY <2>2
    <2> QED
      BY <2>1, <2>3
  <1> HIDE DEF F
  <1>5. \A i \in 0 .. n : F[i] = IF i = 0 THEN <<>> ELSE F[i - 1] \o G[i - 1]
    BY <1>3 DEF Joined
  <1> DEFINE S == {i \in 0 .. n : Lists(F[i], m, UpToSeg(k, m, i))}
  <1>6. \A b \in DOMAIN m : b \in Byte /\ b \div SegW(k) \in 0 .. n - 1
    BY <1>1, <1>2, SegOfByte DEF EdgeMap
  <1>7. 0 \in S
    <2>1. 0 \in 0 .. n /\ F[0] = <<>>
      <3> HIDE DEF G, n
      <3>1. 0 \in 0 .. n
        BY <1>2
      <3> QED
        BY <1>5, <3>1
    <2>2. UpToSeg(k, m, 0) = {}
      BY <1>6 DEF UpToSeg
    <2>3. Lists(<<>>, m, {})
      BY DEF Lists
    <2> QED
      BY <2>1, <2>2, <2>3
  <1>8. ASSUME NEW i \in 0 .. n - 1, i \in S
        PROVE  i + 1 \in S
    <2>1. i + 1 \in 0 .. n /\ i + 1 # 0 /\ (i + 1) - 1 = i /\ i \in SegsOf(k)
      BY <1>2
    <2>2. F[i + 1] = F[i] \o SegList(k, c.segs[i], i)
      <3>1. F[i + 1] = F[i] \o G[i]
        BY <1>5, <2>1
      <3> QED
        BY <3>1
    <2>3. Lists(F[i], m, UpToSeg(k, m, i))
      BY <1>8
    <2>4. Lists(SegList(k, c.segs[i], i), m, InSeg(k, m, i))
      BY <1>1, <2>1, SegLists
    <2> DEFINE A == UpToSeg(k, m, i)
               B == InSeg(k, m, i)
    <2>5. A \in SUBSET Int /\ B \in SUBSET Int
      BY <1>6, ByteFacts DEF UpToSeg, InSeg
    <2>6. \A x \in A : \A y \in B : x < y
      <3> TAKE x \in A
      <3> TAKE y \in B
      <3> DEFINE gx == x \div SegW(k)
                 dx == x % SegW(k)
                 gy == y \div SegW(k)
                 dy == y % SegW(k)
      <3>1. x \in Byte /\ y \in Byte /\ gx < i /\ gy = i
        BY <1>6 DEF UpToSeg, InSeg
      <3>2. /\ gx \in SegsOf(k) /\ dx \in OffsOf(k) /\ At(k, gx, dx) = x
            /\ gy \in SegsOf(k) /\ dy \in OffsOf(k) /\ At(k, gy, dy) = y
        BY <1>1, <3>1, SegOfByte
      <3> HIDE DEF gx, dx, gy, dy
      <3> QED
        BY <1>1, <3>1, <3>2, SegOrder
    <2>7. A \cup B = UpToSeg(k, m, i + 1)
      <3>1. \A b \in DOMAIN m : (b \div SegW(k) < i + 1 <=> b \div SegW(k) < i \/ b \div SegW(k) = i)
        <4> TAKE b \in DOMAIN m
        <4> DEFINE z == b \div SegW(k)
        <4>1. z \in Int /\ i \in Int
          BY <1>2, <1>6
        <4> HIDE DEF z
        <4>2. z < i + 1 <=> z < i \/ z = i
          BY <4>1
        <4> QED
          BY <4>2 DEF z
      <3> QED
        BY <3>1 DEF UpToSeg, InSeg
    <2> HIDE DEF A, B
    <2>8. Lists(F[i] \o SegList(k, c.segs[i], i), m, A \cup B)
      BY <2>3, <2>4, <2>5, <2>6, ListsJoin DEF A, B
    <2> QED
      BY <2>1, <2>2, <2>7, <2>8
  <1>9. \A i \in 0 .. n : i \in S
    <2> HIDE DEF S, n
    <2> QED
      BY <1>2, <1>7, <1>8, UpTo
  <1>10. Lists(F[n], m, UpToSeg(k, m, n))
    <2>1. n \in 0 .. n
      BY <1>2
    <2> QED
      BY <1>9, <2>1
  <1>11. UpToSeg(k, m, n) = DOMAIN m
    <2>1. \A b \in DOMAIN m : b \div SegW(k) < n
      <3> TAKE b \in DOMAIN m
      <3> DEFINE z == b \div SegW(k)
      <3>1. z \in 0 .. n - 1
        BY <1>6
      <3> HIDE DEF z, n
      <3>2. z < n
        BY <1>2, <3>1
      <3> QED
        BY <3>2 DEF z
    <2> HIDE DEF n, k
    <2> QED
      BY <2>1 DEF UpToSeg
  <1> QED
    BY <1>4, <1>10, <1>11

-----------------------------------------------------------------------------
(* The next edge and the previous one.                                     *)

\* The edges at or above a byte and at or below it, the nearest of them.
Above(m, from)  == {x \in DOMAIN m : x >= from}
Below(m, from)  == {x \in DOMAIN m : x <= from}
NextOf(m, from) == IF Above(m, from) = {} THEN NoStep
                   ELSE <<Min(Above(m, from)), m[Min(Above(m, from))]>>
PrevOf(m, from) == IF Below(m, from) = {} THEN NoStep
                   ELSE <<Max(Below(m, from)), m[Max(Below(m, from))]>>

LEMMA NearIs ==
  ASSUME NEW m, EdgeMap(m), NEW from \in Byte
  PROVE  /\ Above(m, from) \subseteq DOMAIN m /\ Below(m, from) \subseteq DOMAIN m
         /\ Above(m, from) # {} => /\ Min(Above(m, from)) \in Above(m, from)
                                   /\ \A y \in Above(m, from) : Min(Above(m, from)) <= y
         /\ Below(m, from) # {} => /\ Max(Below(m, from)) \in Below(m, from)
                                   /\ \A y \in Below(m, from) : Max(Below(m, from)) >= y
  <1> DEFINE A == Above(m, from)
             B == Below(m, from)
  <1>1. A \subseteq DOMAIN m /\ B \subseteq DOMAIN m
    BY DEF Above, Below
  <1>2. A \subseteq Byte /\ B \subseteq Byte
    BY <1>1 DEF EdgeMap
  <1> HIDE DEF A, B
  <1>3. A \in SUBSET Int /\ IsFiniteSet(A) /\ B \in SUBSET Int /\ IsFiniteSet(B)
    BY <1>2, ByteFacts
  <1>4. A # {} => Min(A) \in A /\ \A y \in A : Min(A) <= y
    BY <1>3, MinIs
  <1>5. B # {} => Max(B) \in B /\ \A y \in B : Max(B) >= y
    BY <1>3, MaxIs
  <1> QED
    BY <1>1, <1>4, <1>5 DEF A, B

\* Offsets in order are in the order of their words and of their bits there.
LEMMA WordOrder ==
  ASSUME NEW k \in Cnodes, NEW d \in OffsOf(k), NEW e \in OffsOf(k)
  PROVE  /\ d <= e => \/ d \div WordBits < e \div WordBits
                      \/ d \div WordBits = e \div WordBits /\ d % WordBits <= e % WordBits
         /\ d \div WordBits \in Int /\ d % WordBits \in Int
  <1> DEFINE p == d \div WordBits
             a == d % WordBits
             q == e \div WordBits
             b == e % WordBits
  <1>1. WordBits \in Nat \ {0} /\ d \in Int /\ e \in Int
    BY WordsAre DEF OffsOf
  <1>2. /\ p \in Int /\ a \in 0 .. WordBits - 1 /\ d = (WordBits * p) + a
        /\ q \in Int /\ b \in 0 .. WordBits - 1 /\ e = (WordBits * q) + b
    BY <1>1, Division
  <1>4. d = e => p = q /\ a = b
    OBVIOUS
  <1> HIDE DEF p, a, q, b
  <1>3. d < e => p < q \/ (p = q /\ a < b)
    BY <1>1, <1>2, OneQuotient
  <1>5. d <= e => p < q \/ (p = q /\ a <= b)
    BY <1>1, <1>2, <1>3, <1>4
  <1>6. p \in Int /\ a \in Int
    BY <1>1, <1>2
  <1> QED
    BY <1>5, <1>6 DEF p, a, q, b

\* The bits a scan looks at are the edges at or above (below) where it starts.
Bit(w, i) == w * WordBits + i
LEMMA BitsAre ==
  ASSUME NEW c, NEW m, CnodeHolds(c, m), NEW k, k = c.kind, NEW g \in SegsOf(k), NEW w \in Words(k),
         NEW from \in Byte, NEW i
  PROVE  /\ i \in BitsUp(c, g, w, from) <=>
              i \in 0 .. WordBits - 1 /\ Bit(w, i) \in OffsOf(k) /\ At(k, g, Bit(w, i)) \in Above(m, from)
         /\ i \in BitsDown(c, g, w, from) <=>
              i \in 0 .. WordBits - 1 /\ Bit(w, i) \in OffsOf(k) /\ At(k, g, Bit(w, i)) \in Below(m, from)
  <1> DEFINE q == c.segs[g]
  <1>1. k \in Cnodes /\ SegHolds(k, q, m, g)
    BY DEF CnodeHolds
  <1>2. q.present = Held(k, m, g)
    BY <1>1 DEF SegHolds
  <1>3. q.present \in SUBSET OffsOf(k)
    BY <1>2 DEF Held
  <1> HIDE DEF q
  <1>4. i \in Mask(k, BmWord(k, q, w)) <=> i \in 0 .. WordBits - 1 /\ Bit(w, i) \in q.present
    BY <1>1, <1>3, BitIs DEF Bit
  <1>5. i \in 0 .. WordBits - 1 => g * SegW(k) + w * WordBits + i = At(k, g, Bit(w, i))
    <2> DEFINE x == g * SegW(k)
               y == w * WordBits
    <2>1. WordBits \in Nat /\ w \in Int /\ g \in Int /\ SegW(k) \in Int
      BY <1>1, WordsAre DEF SegsOf
    <2>2. x \in Int /\ y \in Int
      BY <2>1
    <2> HIDE DEF x, y
    <2>3. i \in 0 .. WordBits - 1 => (x + y) + i = x + (y + i)
      BY <2>1, <2>2
    <2> QED
      BY <2>3 DEF x, y, At, Bit
  <1>6. /\ i \in BitsUp(c, g, w, from) <=>
             i \in Mask(k, BmWord(k, q, w)) /\ g * SegW(k) + w * WordBits + i >= from
        /\ i \in BitsDown(c, g, w, from) <=>
             i \in Mask(k, BmWord(k, q, w)) /\ g * SegW(k) + w * WordBits + i <= from
    BY DEF BitsUp, BitsDown, q
  <1>7. Bit(w, i) \in q.present <=> Bit(w, i) \in OffsOf(k) /\ At(k, g, Bit(w, i)) \in DOMAIN m
    BY <1>2 DEF Held
  <1> QED
    BY <1>4, <1>5, <1>6, <1>7 DEF Above, Below

\* Where a byte is: its segment, its word there and its bit.
LEMMA BitOf ==
  ASSUME NEW k \in Cnodes, NEW b \in Byte, NEW g, g = b \div SegW(k), NEW d, d = b % SegW(k),
         NEW w, w = d \div WordBits, NEW i, i = d % WordBits
  PROVE  /\ g \in SegsOf(k) /\ d \in OffsOf(k) /\ w \in Words(k) /\ i \in 0 .. WordBits - 1
         /\ Bit(w, i) = d /\ At(k, g, d) = b /\ g \in Int /\ d \in Int /\ w \in Int /\ i \in Int
  <1>1. g \in SegsOf(k) /\ d \in OffsOf(k) /\ At(k, g, d) = b
    BY SegOfByte
  <1>2. w \in Words(k) /\ i \in 0 .. WordBits - 1 /\ Bit(w, i) = d
    BY <1>1, WordsAre DEF Bit
  <1>3. WordBits \in Int /\ g \in Int /\ d \in Int /\ w \in Int
    BY <1>1, WordOrder, WordsAre DEF SegsOf, OffsOf
  <1> QED
    BY <1>1, <1>2, <1>3

\* A bit of a word is a place of its own.
LEMMA PlaceOf ==
  ASSUME NEW k \in Cnodes, NEW w \in Words(k), NEW i \in 0 .. WordBits - 1
  PROVE  Bit(w, i) \div WordBits = w /\ Bit(w, i) % WordBits = i
  <1> DEFINE x == Bit(w, i)
  <1>1. WordBits \in Nat \ {0} /\ w \in Int
    BY WordsAre
  <1>2. x = WordBits * w + i
    BY <1>1 DEF Bit
  <1> HIDE DEF x
  <1>3. x \div WordBits = w /\ x % WordBits = i
    BY <1>1, <1>2, QuotientIs
  <1> QED
    BY <1>3 DEF x

\* A byte has an edge exactly when its bit is set.
LEMMA CnodeHas ==
  ASSUME NEW c, NEW m, CnodeHolds(c, m), NEW b \in Byte
  PROVE  b \in DOMAIN m <=> b % SegW(c.kind) \in c.segs[b \div SegW(c.kind)].present
  <1> DEFINE k == c.kind
             g == b \div SegW(k)
             d == b % SegW(k)
             q == c.segs[g]
  <1>1. /\ SegHolds(k, q, m, g) /\ (b \in DOMAIN m <=> d \in q.present)
        /\ BmCount(k, q) = Cardinality(q.present) /\ Cardinality(q.present) \in Nat /\ SegCap[k] \in Nat
    BY SegOf
  <1> QED
    BY <1>1

\* cnode_next finds the edge of the first segment, word and bit: the nearest one.
LEMMA CnodeNextIs ==
  ASSUME NEW c, NEW m, CnodeHolds(c, m), NEW from \in Byte
  PROVE  CnodeNext(c, from) = NextOf(m, from)
  <1> DEFINE k == c.kind
             A == Above(m, from)
             hit == {p \in (DOMAIN c.segs) \X Words(k) :
                       p[1] >= from \div SegW(k) /\ BitsUp(c, p[1], p[2], from) # {}}
             at == CHOOSE p \in hit : \A q \in hit : p[1] < q[1] \/ (p[1] = q[1] /\ p[2] <= q[2])
  <1>1. k \in Cnodes /\ EdgeMap(m) /\ DOMAIN c.segs = SegsOf(k)
    BY DEF CnodeHolds
  <1>2. CnodeNext(c, from) = IF hit = {} THEN NoStep
                           ELSE CnodeEntry(c, at[1], Bit(at[2], Min(BitsUp(c, at[1], at[2], from))))
    BY DEF CnodeNext, Bit
  <1>3. k = c.kind
    OBVIOUS
  <1>4. \A p \in hit : /\ p[1] \in SegsOf(k) /\ p[2] \in Words(k) /\ p = <<p[1], p[2]>>
                       /\ \E i : i \in BitsUp(c, p[1], p[2], from)
    BY <1>1
  <1>5. \A g \in SegsOf(k), w \in Words(k) :
          g >= from \div SegW(k) /\ BitsUp(c, g, w, from) # {} => <<g, w>> \in hit
    BY <1>1
  <1> HIDE DEF k, hit
  <1>6. ASSUME NEW g \in SegsOf(k), NEW w \in Words(k), NEW i
        PROVE  i \in BitsUp(c, g, w, from) <=>
                 i \in 0 .. WordBits - 1 /\ Bit(w, i) \in OffsOf(k) /\ At(k, g, Bit(w, i)) \in A
    BY <1>3, BitsAre
  <1>7. CASE A = {}
    <2>1. hit = {}
      BY <1>4, <1>6, <1>7
    <2> QED
      BY <1>2, <1>7, <2>1 DEF NextOf
  <1>8. CASE A # {}
    <2> DEFINE x == Min(A)
               g == x \div SegW(k)
               d == x % SegW(k)
               w == d \div WordBits
               i == d % WordBits
               B == BitsUp(c, g, w, from)
    <2>1. x \in A /\ A \subseteq DOMAIN m /\ \A y \in A : x <= y
      BY <1>1, <1>8, NearIs
    <2>2. x \in Byte /\ x \in DOMAIN m /\ x >= from
      BY <1>1, <2>1 DEF EdgeMap, Above
    <2> HIDE DEF x
    <2>3. /\ g \in SegsOf(k) /\ d \in OffsOf(k) /\ w \in Words(k) /\ i \in 0 .. WordBits - 1
          /\ Bit(w, i) = d /\ At(k, g, d) = x /\ g \in Int /\ d \in Int /\ w \in Int /\ i \in Int
      BY <1>1, <2>2, BitOf
    <2>4. g = x \div SegW(k) /\ d = x % SegW(k) /\ w = d \div WordBits /\ i = d % WordBits
      OBVIOUS
    <2> HIDE DEF g, d, w, i
    <2>5. i \in B
      BY <1>6, <2>1, <2>3
    <2>6. g >= from \div SegW(k)
      <3> DEFINE gf == from \div SegW(k)
                 df == from % SegW(k)
      <3>1. gf \in SegsOf(k) /\ df \in OffsOf(k) /\ At(k, gf, df) = from
        BY <1>1, SegOfByte
      <3>2. gf \in Int /\ from \in Int /\ x \in Int
        BY <2>2, <3>1, ByteFacts DEF SegsOf
      <3> HIDE DEF gf, df
      <3>3. ~(x < from)
        BY <2>2, <3>2
      <3>4. ~(g < gf)
        BY <1>1, <2>3, <3>1, <3>3, SegOrder
      <3>5. g >= gf
        BY <2>3, <3>2, <3>4
      <3> QED
        BY <3>5 DEF gf
    <2>7. <<g, w>> \in hit
      BY <1>5, <2>3, <2>5, <2>6
    <2>8. ASSUME NEW p \in hit
          PROVE  g < p[1] \/ (g = p[1] /\ w <= p[2])
      <3> DEFINE e == p[1]
                 v == p[2]
      <3>1. e \in SegsOf(k) /\ v \in Words(k)
        BY <1>4
      <3>2. PICK j : j \in BitsUp(c, e, v, from)
        BY <1>4
      <3> HIDE DEF e, v
      <3> DEFINE f == Bit(v, j)
      <3>3. j \in 0 .. WordBits - 1 /\ f \in OffsOf(k) /\ At(k, e, f) \in A
        BY <1>6, <3>1, <3>2
      <3>4. f \div WordBits = v /\ f % WordBits = j
        BY <1>1, <3>1, <3>3, PlaceOf
      <3>5. x <= At(k, e, f) /\ At(k, e, f) \in Int /\ x \in Int /\ e \in Int /\ f \in Int
        <4>1. At(k, e, f) \in A
          BY <3>3
        <4>2. At(k, e, f) \in Byte
          BY <1>1, <2>1, <4>1 DEF EdgeMap
        <4>3. e \in Int /\ f \in Int
          BY <3>1, <3>3 DEF SegsOf, OffsOf
        <4> HIDE DEF f
        <4> QED
          BY <2>1, <2>2, <4>1, <4>2, <4>3, ByteFacts
      <3> HIDE DEF f
      <3>6. ~(At(k, e, f) < At(k, g, d))
        BY <2>3, <3>5
      <3>7. ~(e < g \/ (e = g /\ f < d))
        BY <1>1, <2>3, <3>1, <3>3, <3>6, SegOrder
      <3>8. g < e \/ (g = e /\ d <= f)
        BY <2>3, <3>5, <3>7
      <3>9. d <= f => w < v \/ (w = v /\ i <= j)
        BY <1>1, <2>3, <2>4, <3>3, <3>4, WordOrder
      <3>10. v \in Int
        BY <1>1, <3>3, <3>4, WordOrder
      <3>11. w < v => w <= v
        BY <2>3, <3>10
      <3>12. w = v => w <= v
        BY <2>3, <3>10
      <3> QED
        BY <3>8, <3>9, <3>11, <3>12 DEF e, v
    <2>9. at[1] = g /\ at[2] = w
      <3>1. \E p \in hit : \A q \in hit : p[1] < q[1] \/ (p[1] = q[1] /\ p[2] <= q[2])
        <4>1. \A q \in hit : <<g, w>>[1] < q[1] \/ (<<g, w>>[1] = q[1] /\ <<g, w>>[2] <= q[2])
          BY <2>8
        <4> QED
          BY <2>7, <4>1
      <3>2. at \in hit /\ \A q \in hit : at[1] < q[1] \/ (at[1] = q[1] /\ at[2] <= q[2])
        BY <3>1
      <3> HIDE DEF at
      <3>3. at[1] < g \/ (at[1] = g /\ at[2] <= w)
        BY <2>7, <3>2
      <3>4. g < at[1] \/ (g = at[1] /\ w <= at[2])
        BY <2>8, <3>2
      <3>5. at[1] \in Int /\ at[2] \in Int
        BY <1>1, <1>4, <3>2, WordsAre DEF SegsOf
      <3> QED
        BY <2>3, <3>3, <3>4, <3>5
    <2>10. Min(B) = i
      <3>1. B \subseteq 0 .. WordBits - 1 /\ WordBits \in Nat
        BY <1>1, <1>6, <2>3, WordsAre
      <3>2. B \in SUBSET Int /\ IsFiniteSet(B)
        <4>1. IsFiniteSet(0 .. WordBits - 1)
          BY <3>1, FS_Interval
        <4>2. B \in SUBSET (0 .. WordBits - 1) /\ B \in SUBSET Int
          BY <3>1
        <4> HIDE DEF B
        <4>3. IsFiniteSet(B)
          BY <4>1, <4>2, FS_Subset
        <4> QED
          BY <4>2, <4>3
      <3> DEFINE j == Min(B)
      <3>3. j \in B /\ j <= i
        <4> HIDE DEF B
        <4> QED
          BY <2>5, <3>2, MinIs
      <3> HIDE DEF j
      <3>4. j \in 0 .. WordBits - 1 /\ Bit(w, j) \in OffsOf(k) /\ At(k, g, Bit(w, j)) \in A
        BY <1>6, <2>3, <3>3
      <3> DEFINE f == Bit(w, j)
      <3>5. f \div WordBits = w /\ f % WordBits = j
        BY <1>1, <2>3, <3>4, PlaceOf
      <3>6. x <= At(k, g, f)
        BY <2>1, <3>4
      <3>7. At(k, g, f) \in Int /\ x \in Int /\ f \in Int /\ f \in OffsOf(k)
        <4>1. At(k, g, f) \in Byte
          BY <1>1, <2>1, <3>4 DEF EdgeMap
        <4>2. f \in Int /\ f \in OffsOf(k)
          BY <3>4 DEF OffsOf
        <4> HIDE DEF f
        <4> QED
          BY <2>2, <4>1, <4>2, ByteFacts
      <3> HIDE DEF f
      <3>8. ~(At(k, g, f) < At(k, g, d))
        BY <2>3, <3>6, <3>7
      <3>9. ~(f < d)
        BY <1>1, <2>3, <3>7, <3>8, SegOrder
      <3>10. d <= f
        BY <2>3, <3>7, <3>9
      <3>11. w < w \/ (w = w /\ i <= j)
        BY <1>1, <2>3, <2>4, <3>5, <3>7, <3>10, WordOrder
      <3>12. j \in Int
        BY <1>1, <3>5, <3>7, WordOrder
      <3>13. j = i
        BY <2>3, <3>3, <3>11, <3>12
      <3> QED
        BY <3>13 DEF j
    <2>11. CnodeEntry(c, g, d) = <<x, m[x]>>
      <3> DEFINE q == c.segs[g]
      <3>1. g = x \div SegW(k) /\ d = x % SegW(k) /\ k = c.kind
        BY <1>3, <2>4
      <3>2. d \in q.present
        BY <2>2, <3>1, CnodeHas
      <3>3. CnodeFind(c, x) = m[x]
        BY <2>2, CnodeFinds
      <3>4. CnodeFind(c, x) = IF d \in q.present THEN BranchOf(k, q, d) ELSE NoEdge
        BY <3>1 DEF CnodeFind
      <3>5. CnodeEntry(c, g, d) = <<At(k, g, d), BranchOf(k, q, d)>>
        BY <1>3 DEF CnodeEntry, At
      <3> QED
        BY <2>3, <3>2, <3>3, <3>4, <3>5
    <2>12. CnodeNext(c, from) = CnodeEntry(c, g, Bit(w, i))
      <3>1. hit # {}
        BY <2>7
      <3> HIDE DEF at
      <3> QED
        BY <1>2, <2>9, <2>10, <3>1
    <2> QED
      BY <1>8, <2>3, <2>11, <2>12 DEF NextOf, x
  <1> QED
    BY <1>7, <1>8

\* cnode_prev finds the edge of the last segment, word and bit: the nearest one.
LEMMA CnodePrevIs ==
  ASSUME NEW c, NEW m, CnodeHolds(c, m), NEW from \in Byte
  PROVE  CnodePrev(c, from) = PrevOf(m, from)
  <1> DEFINE k == c.kind
             A == Below(m, from)
             hit == {p \in (DOMAIN c.segs) \X Words(k) :
                       p[1] <= from \div SegW(k) /\ BitsDown(c, p[1], p[2], from) # {}}
             at == CHOOSE p \in hit : \A q \in hit : p[1] > q[1] \/ (p[1] = q[1] /\ p[2] >= q[2])
  <1>1. k \in Cnodes /\ EdgeMap(m) /\ DOMAIN c.segs = SegsOf(k)
    BY DEF CnodeHolds
  <1>2. CnodePrev(c, from) = IF hit = {} THEN NoStep
                           ELSE CnodeEntry(c, at[1], Bit(at[2], Max(BitsDown(c, at[1], at[2], from))))
    BY DEF CnodePrev, Bit
  <1>3. k = c.kind
    OBVIOUS
  <1>4. \A p \in hit : /\ p[1] \in SegsOf(k) /\ p[2] \in Words(k) /\ p = <<p[1], p[2]>>
                       /\ \E i : i \in BitsDown(c, p[1], p[2], from)
    BY <1>1
  <1>5. \A g \in SegsOf(k), w \in Words(k) :
          g <= from \div SegW(k) /\ BitsDown(c, g, w, from) # {} => <<g, w>> \in hit
    BY <1>1
  <1> HIDE DEF k, hit
  <1>6. ASSUME NEW g \in SegsOf(k), NEW w \in Words(k), NEW i
        PROVE  i \in BitsDown(c, g, w, from) <=>
                 i \in 0 .. WordBits - 1 /\ Bit(w, i) \in OffsOf(k) /\ At(k, g, Bit(w, i)) \in A
    BY <1>3, BitsAre
  <1>7. CASE A = {}
    <2>1. hit = {}
      BY <1>4, <1>6, <1>7
    <2> QED
      BY <1>2, <1>7, <2>1 DEF PrevOf
  <1>8. CASE A # {}
    <2> DEFINE x == Max(A)
               g == x \div SegW(k)
               d == x % SegW(k)
               w == d \div WordBits
               i == d % WordBits
               B == BitsDown(c, g, w, from)
    <2>1. x \in A /\ A \subseteq DOMAIN m /\ \A y \in A : x >= y
      BY <1>1, <1>8, NearIs
    <2>2. x \in Byte /\ x \in DOMAIN m /\ x <= from
      BY <1>1, <2>1 DEF EdgeMap, Below
    <2> HIDE DEF x
    <2>3. /\ g \in SegsOf(k) /\ d \in OffsOf(k) /\ w \in Words(k) /\ i \in 0 .. WordBits - 1
          /\ Bit(w, i) = d /\ At(k, g, d) = x /\ g \in Int /\ d \in Int /\ w \in Int /\ i \in Int
      BY <1>1, <2>2, BitOf
    <2>4. g = x \div SegW(k) /\ d = x % SegW(k) /\ w = d \div WordBits /\ i = d % WordBits
      OBVIOUS
    <2> HIDE DEF g, d, w, i
    <2>5. i \in B
      BY <1>6, <2>1, <2>3
    <2>6. g <= from \div SegW(k)
      <3> DEFINE gf == from \div SegW(k)
                 df == from % SegW(k)
      <3>1. gf \in SegsOf(k) /\ df \in OffsOf(k) /\ At(k, gf, df) = from
        BY <1>1, SegOfByte
      <3>2. gf \in Int /\ from \in Int /\ x \in Int
        BY <2>2, <3>1, ByteFacts DEF SegsOf
      <3> HIDE DEF gf, df
      <3>3. ~(x > from)
        BY <2>2, <3>2
      <3>4. ~(g > gf)
        BY <1>1, <2>3, <3>1, <3>3, SegOrder
      <3>5. g <= gf
        BY <2>3, <3>2, <3>4
      <3> QED
        BY <3>5 DEF gf
    <2>7. <<g, w>> \in hit
      BY <1>5, <2>3, <2>5, <2>6
    <2>8. ASSUME NEW p \in hit
          PROVE  g > p[1] \/ (g = p[1] /\ w >= p[2])
      <3> DEFINE e == p[1]
                 v == p[2]
      <3>1. e \in SegsOf(k) /\ v \in Words(k)
        BY <1>4
      <3>2. PICK j : j \in BitsDown(c, e, v, from)
        BY <1>4
      <3> HIDE DEF e, v
      <3> DEFINE f == Bit(v, j)
      <3>3. j \in 0 .. WordBits - 1 /\ f \in OffsOf(k) /\ At(k, e, f) \in A
        BY <1>6, <3>1, <3>2
      <3>4. f \div WordBits = v /\ f % WordBits = j
        BY <1>1, <3>1, <3>3, PlaceOf
      <3>5. x >= At(k, e, f) /\ At(k, e, f) \in Int /\ x \in Int /\ e \in Int /\ f \in Int
        <4>1. At(k, e, f) \in A
          BY <3>3
        <4>2. At(k, e, f) \in Byte
          BY <1>1, <2>1, <4>1 DEF EdgeMap
        <4>3. e \in Int /\ f \in Int
          BY <3>1, <3>3 DEF SegsOf, OffsOf
        <4> HIDE DEF f
        <4> QED
          BY <2>1, <2>2, <4>1, <4>2, <4>3, ByteFacts
      <3> HIDE DEF f
      <3>6. ~(At(k, e, f) > At(k, g, d))
        BY <2>3, <3>5
      <3>7. ~(e > g \/ (e = g /\ f > d))
        BY <1>1, <2>3, <3>1, <3>3, <3>6, SegOrder
      <3>8. g > e \/ (g = e /\ d >= f)
        BY <2>3, <3>5, <3>7
      <3>9. d >= f => w > v \/ (w = v /\ i >= j)
        BY <1>1, <2>3, <2>4, <3>3, <3>4, WordOrder
      <3>10. v \in Int
        BY <1>1, <3>3, <3>4, WordOrder
      <3>11. w > v => w >= v
        BY <2>3, <3>10
      <3>12. w = v => w >= v
        BY <2>3, <3>10
      <3> QED
        BY <3>8, <3>9, <3>11, <3>12 DEF e, v
    <2>9. at[1] = g /\ at[2] = w
      <3>1. \E p \in hit : \A q \in hit : p[1] > q[1] \/ (p[1] = q[1] /\ p[2] >= q[2])
        <4>1. \A q \in hit : <<g, w>>[1] > q[1] \/ (<<g, w>>[1] = q[1] /\ <<g, w>>[2] >= q[2])
          BY <2>8
        <4> QED
          BY <2>7, <4>1
      <3>2. at \in hit /\ \A q \in hit : at[1] > q[1] \/ (at[1] = q[1] /\ at[2] >= q[2])
        BY <3>1
      <3> HIDE DEF at
      <3>3. at[1] > g \/ (at[1] = g /\ at[2] >= w)
        BY <2>7, <3>2
      <3>4. g > at[1] \/ (g = at[1] /\ w >= at[2])
        BY <2>8, <3>2
      <3>5. at[1] \in Int /\ at[2] \in Int
        BY <1>1, <1>4, <3>2, WordsAre DEF SegsOf
      <3> QED
        BY <2>3, <3>3, <3>4, <3>5
    <2>10. Max(B) = i
      <3>1. B \subseteq 0 .. WordBits - 1 /\ WordBits \in Nat
        BY <1>1, <1>6, <2>3, WordsAre
      <3>2. B \in SUBSET Int /\ IsFiniteSet(B)
        <4>1. IsFiniteSet(0 .. WordBits - 1)
          BY <3>1, FS_Interval
        <4>2. B \in SUBSET (0 .. WordBits - 1) /\ B \in SUBSET Int
          BY <3>1
        <4> HIDE DEF B
        <4>3. IsFiniteSet(B)
          BY <4>1, <4>2, FS_Subset
        <4> QED
          BY <4>2, <4>3
      <3> DEFINE j == Max(B)
      <3>3. j \in B /\ j >= i
        <4> HIDE DEF B
        <4> QED
          BY <2>5, <3>2, MaxIs
      <3> HIDE DEF j
      <3>4. j \in 0 .. WordBits - 1 /\ Bit(w, j) \in OffsOf(k) /\ At(k, g, Bit(w, j)) \in A
        BY <1>6, <2>3, <3>3
      <3> DEFINE f == Bit(w, j)
      <3>5. f \div WordBits = w /\ f % WordBits = j
        BY <1>1, <2>3, <3>4, PlaceOf
      <3>6. x >= At(k, g, f)
        BY <2>1, <3>4
      <3>7. At(k, g, f) \in Int /\ x \in Int /\ f \in Int /\ f \in OffsOf(k)
        <4>1. At(k, g, f) \in Byte
          BY <1>1, <2>1, <3>4 DEF EdgeMap
        <4>2. f \in Int /\ f \in OffsOf(k)
          BY <3>4 DEF OffsOf
        <4> HIDE DEF f
        <4> QED
          BY <2>2, <4>1, <4>2, ByteFacts
      <3> HIDE DEF f
      <3>8. ~(At(k, g, f) > At(k, g, d))
        BY <2>3, <3>6, <3>7
      <3>9. ~(f > d)
        BY <1>1, <2>3, <3>7, <3>8, SegOrder
      <3>10. d >= f
        BY <2>3, <3>7, <3>9
      <3>11. w > w \/ (w = w /\ i >= j)
        BY <1>1, <2>3, <2>4, <3>5, <3>7, <3>10, WordOrder
      <3>12. j \in Int
        BY <1>1, <3>5, <3>7, WordOrder
      <3>13. j = i
        BY <2>3, <3>3, <3>11, <3>12
      <3> QED
        BY <3>13 DEF j
    <2>11. CnodeEntry(c, g, d) = <<x, m[x]>>
      <3> DEFINE q == c.segs[g]
      <3>1. g = x \div SegW(k) /\ d = x % SegW(k) /\ k = c.kind
        BY <1>3, <2>4
      <3>2. d \in q.present
        BY <2>2, <3>1, CnodeHas
      <3>3. CnodeFind(c, x) = m[x]
        BY <2>2, CnodeFinds
      <3>4. CnodeFind(c, x) = IF d \in q.present THEN BranchOf(k, q, d) ELSE NoEdge
        BY <3>1 DEF CnodeFind
      <3>5. CnodeEntry(c, g, d) = <<At(k, g, d), BranchOf(k, q, d)>>
        BY <1>3 DEF CnodeEntry, At
      <3> QED
        BY <2>3, <3>2, <3>3, <3>4, <3>5
    <2>12. CnodePrev(c, from) = CnodeEntry(c, g, Bit(w, i))
      <3>1. hit # {}
        BY <2>7
      <3> HIDE DEF at
      <3> QED
        BY <1>2, <2>9, <2>10, <3>1
    <2> QED
      BY <1>8, <2>3, <2>11, <2>12 DEF PrevOf, x
  <1> QED
    BY <1>7, <1>8

-----------------------------------------------------------------------------
(* Lines of slots.                                                         *)

\* The edges of m in line l, and the node that carries m: there is one.
OnLine(m, l) == {b \in DOMAIN m : b \div PerLine = l}
Slot(m, b)   == IF b \in DOMAIN m THEN m[b] ELSE NoEdge
FullOf(m) ==
  [kind |-> "full", nbranch |-> Cardinality(DOMAIN m),
   ptr  |-> [i \in 0 .. Lines * PerLine - 1 |-> Slot(m, i)],
   nset |-> [l \in 0 .. Lines - 1 |-> Cardinality(OnLine(m, l))]]
FullHolds(f, m) == EdgeMap(m) /\ f = FullOf(m)

\* The reciprocal's line and slot are those of the byte, within the node.
LEMMA FullFacts ==
  /\ PerLine \in Nat \ {0} /\ Lines \in Nat
  /\ \A b \in Byte : /\ FullLine(b) = b \div PerLine /\ FullAt(b) = b
                     /\ b \div PerLine \in 0 .. Lines - 1 /\ b \in 0 .. Lines * PerLine - 1
  <1>1. PerLine \in Nat \ {0} /\ \A b \in Byte : FullLine(b) = b \div PerLine
    BY FullAssumption DEF FullLine
  <1>2. MaxB \in Nat
    BY ByteFacts
  <1> DEFINE x == MaxB + PerLine
             q == x \div PerLine
             a == x % PerLine
  <1>3. x \in Int /\ q \in Int /\ a \in 0 .. PerLine - 1 /\ x = (PerLine * q) + a
    <2>1. x \in Int
      BY <1>1, <1>2
    <2> HIDE DEF x
    <2> QED
      BY <1>1, <2>1, Division
  <1>4. Lines = q /\ x = MaxB + PerLine
    BY DEF Lines
  <1> HIDE DEF x, q, a
  <1>5. PerLine * q > MaxB
    <2> DEFINE y == PerLine * q
    <2>1. y \in Int
      BY <1>1, <1>3
    <2> HIDE DEF y
    <2>2. y + a = MaxB + PerLine
      BY <1>3, <1>4 DEF y
    <2>3. y > MaxB
      BY <1>1, <1>2, <1>3, <2>1, <2>2
    <2> QED
      BY <2>3 DEF y
  <1>6. ASSUME NEW b \in Byte
        PROVE  /\ FullAt(b) = b /\ b \div PerLine \in 0 .. q - 1 /\ b \in 0 .. q * PerLine - 1
    <2> DEFINE p == b \div PerLine
               r == b % PerLine
               y == PerLine * q
    <2>1. b \in Int /\ b >= 0 /\ b <= MaxB
      BY <1>2 DEF Byte
    <2>2. p \in Int /\ r \in 0 .. PerLine - 1 /\ b = (PerLine * p) + r
      BY <1>1, <2>1, Division
    <2>3. FullAt(b) = p * PerLine + (b - p * PerLine)
      BY <1>1 DEF FullAt
    <2> HIDE DEF p, r
    <2>4. p * PerLine \in Int
      BY <1>1, <2>2
    <2>5. FullAt(b) = b
      BY <2>1, <2>3, <2>4
    <2>6. y \in Int /\ y > MaxB /\ y = q * PerLine /\ y + 0 = y
      BY <1>1, <1>3, <1>5
    <2>7. b < PerLine * q + 0
      BY <1>2, <2>1, <2>6
    <2>8. 0 \in 0 .. PerLine - 1
      BY <1>1
    <2>9. PerLine * p + r < PerLine * q + 0
      BY <2>2, <2>7
    <2>10. p < q \/ (p = q /\ r < 0)
      BY <1>1, <1>3, <2>2, <2>8, <2>9, OneQuotient
    <2>11. p < q
      BY <1>1, <2>2, <2>10
    <2>12. p >= 0
      <3>1. CASE p < 0
        <4>1. p + 1 <= 0
          BY <2>2, <3>1
        <4>2. PerLine * (p + 1) <= 0
          BY <1>1, <2>2, <4>1
        <4>3. PerLine * (p + 1) = PerLine * p + PerLine
          BY <1>1, <2>2
        <4> DEFINE z == PerLine * p
        <4>4. z \in Int /\ z + PerLine <= 0 /\ b = z + r
          BY <1>1, <2>2, <4>2, <4>3
        <4> HIDE DEF z
        <4> QED
          BY <1>1, <2>1, <2>2, <4>4
      <3> QED
        BY <2>2, <3>1
    <2> HIDE DEF y
    <2>13. b \in 0 .. y - 1
      BY <1>2, <2>1, <2>6
    <2>14. p \in 0 .. q - 1
      BY <1>3, <2>2, <2>11, <2>12
    <2> QED
      BY <2>5, <2>6, <2>13, <2>14 DEF p
  <1>7. q \in Nat
    <2>1. 0 \in Byte
      BY <1>2 DEF Byte
    <2>2. 0 \div PerLine \in 0 .. q - 1
      BY <1>6, <2>1
    <2> DEFINE z == 0 \div PerLine
    <2> HIDE DEF z
    <2>3. z \in 0 .. q - 1
      BY <2>2 DEF z
    <2> QED
      BY <1>3, <2>3
  <1> QED
    BY <1>1, <1>4, <1>6, <1>7

\* What a set counts when one byte comes or goes.
More(X, Y, b) == IF b \in X THEN (IF b \in Y THEN 0 ELSE -1) ELSE (IF b \in Y THEN 1 ELSE 0)
LEMMA CountMoved ==
  ASSUME NEW X \in SUBSET Byte, NEW Y \in SUBSET Byte, NEW b \in Byte,
         \A x \in Byte \ {b} : x \in X <=> x \in Y
  PROVE  /\ Cardinality(Y) = Cardinality(X) + More(X, Y, b)
         /\ Cardinality(X) \in Nat /\ Cardinality(Y) \in Nat
  <1>1. IsFiniteSet(X) /\ IsFiniteSet(Y) /\ Cardinality(X) \in Nat /\ Cardinality(Y) \in Nat
    BY ByteFacts
  <1>2. CASE b \in X /\ b \in Y
    <2>1. X = Y
      BY <1>2
    <2> QED
      BY <1>1, <1>2, <2>1 DEF More
  <1>3. CASE b \notin X /\ b \notin Y
    <2>1. X = Y
      BY <1>3
    <2> QED
      BY <1>1, <1>3, <2>1 DEF More
  <1>4. CASE b \in X /\ b \notin Y
    <2>1. Y = X \ {b}
      BY <1>4
    <2>2. Cardinality(X \ {b}) = Cardinality(X) - 1
      BY <1>1, <1>4, FS_RemoveElement
    <2> QED
      BY <1>1, <1>4, <2>1, <2>2 DEF More
  <1>5. CASE b \notin X /\ b \in Y
    <2>1. Y = X \cup {b}
      BY <1>5
    <2>2. Cardinality(X \cup {b}) = Cardinality(X) + 1
      BY <1>1, <1>5, FS_AddElement
    <2> QED
      BY <1>1, <1>5, <2>1, <2>2 DEF More
  <1> QED
    BY <1>2, <1>3, <1>4, <1>5

\* A slot, its line's population and the count move together.
LEMMA FullMoved ==
  ASSUME NEW f, NEW m, FullHolds(f, m), NEW b \in Byte, NEW v, EdgeMap(v), Agree(m, v, b),
         NEW h, h = Slot(v, b), NEW more, more = More(DOMAIN m, DOMAIN v, b),
         NEW l, l = b \div PerLine
  PROVE  FullHolds([f EXCEPT !.ptr[b] = h, !.nset[l] = @ + more, !.nbranch = @ + more], v)
  <1> DEFINE D == 0 .. Lines * PerLine - 1
             L == 0 .. Lines - 1
             p == [f.ptr EXCEPT ![b] = h]
             n == [f.nset EXCEPT ![l] = @ + more]
             u == [f EXCEPT !.ptr = p]
             w == [u EXCEPT !.nset = n]
             z == f.nbranch + more
  <1>1. b \in D /\ l \in L /\ EdgeMap(m) /\ f = FullOf(m)
    BY FullFacts DEF FullHolds
  <1>2. /\ f = [kind |-> "full", nbranch |-> Cardinality(DOMAIN m), ptr |-> f.ptr, nset |-> f.nset]
        /\ f.ptr = [i \in D |-> Slot(m, i)] /\ f.nset = [i \in L |-> Cardinality(OnLine(m, i))]
        /\ f.nbranch = Cardinality(DOMAIN m)
    BY <1>1 DEF FullOf
  <1>3. DOMAIN m \in SUBSET Byte /\ DOMAIN v \in SUBSET Byte
    BY <1>1 DEF EdgeMap
  <1>4. \A x \in Byte \ {b} : x \in DOMAIN m <=> x \in DOMAIN v
    BY DEF Agree
  <1>5. z = Cardinality(DOMAIN v)
    BY <1>2, <1>3, <1>4, CountMoved
  <1>6. p = [i \in D |-> Slot(v, i)]
    <2>1. \A i \in D : p[i] = Slot(v, i)
      <3> TAKE i \in D
      <3>1. p[i] = IF i = b THEN h ELSE Slot(m, i)
        BY <1>2
      <3>2. i # b => Slot(m, i) = Slot(v, i)
        BY <1>3 DEF Slot, Agree
      <3> HIDE DEF p
      <3> QED
        BY <3>1, <3>2
    <2>2. p = [i \in D |-> p[i]]
      BY <1>2
    <2> HIDE DEF p, D
    <2> QED
      BY <2>1, <2>2
  <1>7. n = [i \in L |-> Cardinality(OnLine(v, i))]
    <2>1. \A i \in L : i # l => OnLine(m, i) = OnLine(v, i)
      <3> TAKE i \in L
      <3>1. i # l => \A x \in Byte : x \in OnLine(m, i) <=> x \in OnLine(v, i)
        BY <1>4 DEF OnLine
      <3>2. OnLine(m, i) \subseteq Byte /\ OnLine(v, i) \subseteq Byte
        BY <1>3 DEF OnLine
      <3> QED
        BY <3>1, <3>2
    <2>2. Cardinality(OnLine(v, l)) = Cardinality(OnLine(m, l)) + more
      <3>1. OnLine(m, l) \in SUBSET Byte /\ OnLine(v, l) \in SUBSET Byte
        BY <1>3 DEF OnLine
      <3>2. \A x \in Byte \ {b} : x \in OnLine(m, l) <=> x \in OnLine(v, l)
        BY <1>4 DEF OnLine
      <3>3. (b \in OnLine(m, l) <=> b \in DOMAIN m) /\ (b \in OnLine(v, l) <=> b \in DOMAIN v)
        BY DEF OnLine
      <3>4. More(OnLine(m, l), OnLine(v, l), b) = more
        BY <3>3 DEF More
      <3> QED
        BY <3>1, <3>2, <3>4, CountMoved
    <2>3. \A i \in L : n[i] = Cardinality(OnLine(v, i))
      <3> TAKE i \in L
      <3>1. n[i] = IF i = l THEN Cardinality(OnLine(m, l)) + more ELSE Cardinality(OnLine(m, i))
        BY <1>1, <1>2
      <3> HIDE DEF n
      <3> QED
        BY <2>1, <2>2, <3>1
    <2>4. n = [i \in L |-> n[i]]
      BY <1>2
    <2> HIDE DEF n, L
    <2> QED
      BY <2>3, <2>4
  <1>8. [f EXCEPT !.ptr[b] = h, !.nset[l] = @ + more, !.nbranch = @ + more] = [w EXCEPT !.nbranch = z]
    OBVIOUS
  <1>9. u = [kind |-> "full", nbranch |-> Cardinality(DOMAIN m), ptr |-> p, nset |-> f.nset]
    <2> DEFINE a == f.ptr
               e == f.nset
               c == Cardinality(DOMAIN m)
    <2>1. f = [kind |-> "full", nbranch |-> c, ptr |-> a, nset |-> e]
      BY <1>2
    <2>2. u = [f EXCEPT !.ptr = p]
      OBVIOUS
    <2>3. e = f.nset
      OBVIOUS
    <2> HIDE DEF p, a, e, c, u
    <2>4. u = [kind |-> "full", nbranch |-> c, ptr |-> p, nset |-> e]
      BY <2>1, <2>2
    <2> QED
      BY <2>3, <2>4 DEF c
  <1> HIDE DEF p, n, u, z, D, L
  <1>10. w = [kind |-> "full", nbranch |-> Cardinality(DOMAIN m), ptr |-> p, nset |-> n]
    BY <1>9
  <1> HIDE DEF w
  <1>11. [w EXCEPT !.nbranch = z] = [kind |-> "full", nbranch |-> z, ptr |-> p, nset |-> n]
    BY <1>10
  <1>12. [kind |-> "full", nbranch |-> z, ptr |-> p, nset |-> n] = FullOf(v)
    BY <1>5, <1>6, <1>7 DEF FullOf, D, L
  <1> QED
    BY <1>8, <1>11, <1>12 DEF FullHolds

\* full_set, with an edge and without: node_full keeps the population of the line.
LEMMA FullSets ==
  ASSUME NEW f, NEW m, FullHolds(f, m), NEW b \in Byte
  PROVE  /\ \A h \in Ext : FullHolds(FullSet(f, b, h), Put(m, b, h))
         /\ FullHolds(FullSet(f, b, NoEdge), Less(m, b))
         /\ f.ptr[FullAt(b)] = Slot(m, b)
  <1>1. FullAt(b) = b /\ FullLine(b) = b \div PerLine /\ b \in 0 .. Lines * PerLine - 1
    BY FullFacts
  <1>2. f.ptr[b] = Slot(m, b) /\ EdgeMap(m)
    BY <1>1 DEF FullHolds, FullOf
  <1>3. \A h \in Ext : h # NoEdge
    BY DEF Ext, NoEdge
  <1>4. f.ptr[b] # NoEdge <=> b \in DOMAIN m
    BY <1>2, <1>3 DEF Slot, EdgeMap
  <1>5. ASSUME NEW v, EdgeMap(v), Agree(m, v, b), NEW h, h = Slot(v, b), h # NoEdge <=> b \in DOMAIN v
        PROVE  FullHolds(FullSet(f, b, h), v)
    <2> DEFINE l == b \div PerLine
               more == More(DOMAIN m, DOMAIN v, b)
               was == f.ptr[b] # NoEdge
               e == IF ~was /\ h # NoEdge THEN 1 ELSE IF was /\ h = NoEdge THEN -1 ELSE 0
    <2>1. FullSet(f, b, h) = [f EXCEPT !.ptr[b] = h, !.nset[l] = @ + e, !.nbranch = @ + e]
      BY <1>1 DEF FullSet
    <2>2. e = more
      BY <1>4, <1>5 DEF More
    <2>3. l = b \div PerLine /\ more = More(DOMAIN m, DOMAIN v, b)
      OBVIOUS
    <2> HIDE DEF e, l, more
    <2>4. FullHolds([f EXCEPT !.ptr[b] = h, !.nset[l] = @ + more, !.nbranch = @ + more], v)
      BY <1>5, <2>3, FullMoved
    <2> QED
      BY <2>1, <2>2, <2>4
  <1>6. ASSUME NEW h \in Ext
        PROVE  FullHolds(FullSet(f, b, h), Put(m, b, h))
    <2> DEFINE v == Put(m, b, h)
    <2>1. EdgeMap(v) /\ Agree(m, v, b) /\ DOMAIN v = DOMAIN m \cup {b} /\ v[b] = h
      BY <1>2, PutAgrees
    <2> HIDE DEF v
    <2>2. h = Slot(v, b) /\ (h # NoEdge <=> b \in DOMAIN v)
      BY <1>3, <2>1 DEF Slot
    <2> QED
      BY <1>5, <2>1, <2>2 DEF v
  <1>7. FullHolds(FullSet(f, b, NoEdge), Less(m, b))
    <2> DEFINE v == Less(m, b)
    <2>1. EdgeMap(v) /\ Agree(m, v, b) /\ DOMAIN v = DOMAIN m \ {b}
      BY <1>2, LessAgrees
    <2> HIDE DEF v
    <2>2. NoEdge = Slot(v, b) /\ (NoEdge # NoEdge <=> b \in DOMAIN v)
      BY <2>1 DEF Slot
    <2> QED
      BY <1>5, <2>1, <2>2 DEF v
  <1> QED
    BY <1>1, <1>2, <1>6, <1>7

\* The slots a scan visits are those of the edges: a line that is skipped has none.
LEMMA FullScans ==
  ASSUME NEW f, NEW m, FullHolds(f, m), NEW from \in Byte
  PROVE  /\ FullNext(f, from) = NextOf(m, from) /\ FullPrev(f, from) = PrevOf(m, from)
         /\ FullForEach(f) = Listing(m)
  <1>1. /\ EdgeMap(m) /\ f.ptr = [i \in 0 .. Lines * PerLine - 1 |-> Slot(m, i)]
        /\ f.nset = [l \in 0 .. Lines - 1 |-> Cardinality(OnLine(m, l))]
    BY DEF FullHolds, FullOf
  <1>2. DOMAIN m \subseteq Byte /\ m \in [DOMAIN m -> Ext]
    BY <1>1 DEF EdgeMap
  <1>3. \A b \in DOMAIN m : /\ b \in DOMAIN f.ptr /\ f.ptr[b] = m[b] /\ m[b] # NoEdge
                            /\ f.nset[b \div PerLine] = Cardinality(OnLine(m, b \div PerLine))
    <2> TAKE b \in DOMAIN m
    <2> DEFINE l == b \div PerLine
    <2>1. b \in Byte /\ m[b] \in Ext
      BY <1>2
    <2>2. l \in 0 .. Lines - 1 /\ b \in 0 .. Lines * PerLine - 1
      BY <2>1, FullFacts
    <2>3. m[b] # NoEdge
      BY <2>1 DEF Ext, NoEdge
    <2> HIDE DEF l
    <2>4. f.ptr[b] = m[b] /\ b \in DOMAIN f.ptr
      BY <1>1, <2>2 DEF Slot
    <2>5. f.nset[l] = Cardinality(OnLine(m, l))
      BY <1>1, <2>2
    <2> QED
      BY <2>3, <2>4, <2>5 DEF l
  <1>4. \A b \in DOMAIN m : f.nset[b \div PerLine] # 0
    <2> TAKE b \in DOMAIN m
    <2> DEFINE E == OnLine(m, b \div PerLine)
    <2>1. b \in E /\ E \subseteq Byte
      BY <1>2 DEF OnLine
    <2> HIDE DEF E
    <2>2. IsFiniteSet(E) /\ E # {}
      BY <2>1, ByteFacts
    <2>3. Cardinality(E) # 0
      BY <2>2, FS_EmptySet
    <2> QED
      BY <1>3, <2>3 DEF E
  <1>5. FullHits(f) = DOMAIN m
    <2>1. \A i \in FullHits(f) : i \in DOMAIN m
      BY <1>1 DEF FullHits, Slot
    <2>2. \A i \in DOMAIN m : i \in FullHits(f)
      BY <1>3, <1>4 DEF FullHits
    <2> QED
      BY <2>1, <2>2
  <1>6. FullAt(from) = from
    BY FullFacts
  <1>7. /\ Above(m, from) \subseteq DOMAIN m /\ Below(m, from) \subseteq DOMAIN m
        /\ Above(m, from) # {} => Min(Above(m, from)) \in Above(m, from)
        /\ Below(m, from) # {} => Max(Below(m, from)) \in Below(m, from)
    BY <1>1, NearIs
  <1>8. FullNext(f, from) = FullEntry(f, Above(m, from), Min(Above(m, from)))
    BY <1>5, <1>6 DEF FullNext, Above
  <1>9. FullPrev(f, from) = FullEntry(f, Below(m, from), Max(Below(m, from)))
    BY <1>5, <1>6 DEF FullPrev, Below
  <1>10. FullNext(f, from) = NextOf(m, from)
    BY <1>2, <1>3, <1>7, <1>8 DEF FullEntry, NextOf
  <1>11. FullPrev(f, from) = PrevOf(m, from)
    BY <1>2, <1>3, <1>7, <1>9 DEF FullEntry, PrevOf
  <1>12. FullForEach(f) = Listing(m)
    <2> DEFINE a == Ascending(DOMAIN m)
    <2>1. FullHits(f) \cap Byte = DOMAIN m
      BY <1>2, <1>5
    <2>2. FullForEach(f) = [i \in 1 .. Len(a) |-> <<a[i], f.ptr[a[i]]>>]
      BY <2>1 DEF FullForEach
    <2>3. DOMAIN m \in SUBSET Int /\ IsFiniteSet(DOMAIN m)
      BY <1>2, ByteFacts
    <2>4. \A i \in 1 .. Len(a) : a[i] \in DOMAIN m
      BY <2>3, AscendingIs
    <2>5. \A i \in 1 .. Len(a) : f.ptr[a[i]] = m[a[i]]
      BY <1>3, <2>4
    <2> HIDE DEF a
    <2>6. FullForEach(f) = [i \in 1 .. Len(a) |-> <<a[i], m[a[i]]>>]
      BY <2>2, <2>5
    <2> QED
      BY <2>6 DEF a, Listing
  <1> QED
    BY <1>10, <1>11, <1>12

-----------------------------------------------------------------------------
(* Any router: what it reads.                                              *)

\* Router r carries m, whatever its format.
Holds(r, m) ==
  \/ HasStems(r) /\ StemsHold(r, m)
  \/ r.kind \in Cnodes /\ CnodeHolds(r, m)
  \/ r.kind = "full" /\ FullHolds(r, m)

LEMMA KindsAre ==
  ASSUME NEW r
  PROVE  /\ HasStems(r) <=> r.kind \in {"set", "u16"}
         /\ HasStems(r) => r.kind \notin Cnodes /\ r.kind # "full"
         /\ r.kind \in Cnodes => ~HasStems(r) /\ r.kind # "full"
         /\ r.kind = "full" => ~HasStems(r) /\ r.kind \notin Cnodes
  BY DEF HasStems, Cnodes

LEMMA HoldsMap ==
  ASSUME NEW r, NEW m, Holds(r, m)
  PROVE  EdgeMap(m) /\ Cardinality(DOMAIN m) \in Nat
  <1>1. EdgeMap(m)
    BY DEF Holds, StemsHold, Carries, CnodeHolds, FullHolds
  <1>2. DOMAIN m \subseteq Byte
    BY <1>1 DEF EdgeMap
  <1> QED
    BY <1>1, <1>2, ByteFacts

\* The stems in order, and the first at or above a byte, the last at or below it.
LEMMA StemsScan ==
  ASSUME NEW s, NEW m, StemsHold(s, m), NEW from \in Byte, HasStems(s)
  PROVE  /\ RouterNext(s, from) = NextOf(m, from) /\ RouterPrev(s, from) = PrevOf(m, from)
         /\ ForEach(s) = Listing(m)
  <1> DEFINE n == Count(s)
             D == DOMAIN m
             bs == s.bytes
  <1>1. /\ n \in Nat /\ EdgeMap(m) /\ D = {bs[i] : i \in 1 .. n}
        /\ \A i \in 1 .. n : bs[i] \in Byte
        /\ \A i, j \in 1 .. n : i < j => bs[i] < bs[j]
    BY SortedIs DEF StemsHold, Sorted, Carries
  <1>2. \A i \in 1 .. n : Child(s, i - 1) = m[bs[i]] /\ bs[i] \in D
    BY <1>1 DEF StemsHold, Carries
  <1>3. \A i \in 1 .. n : bs[i] \in Int
    BY <1>1, ByteFacts
  <1>4. from \in Int
    BY ByteFacts
  <1>5. /\ Above(m, from) # {} => /\ Min(Above(m, from)) \in Above(m, from)
                                  /\ \A y \in Above(m, from) : Min(Above(m, from)) <= y
        /\ Below(m, from) # {} => /\ Max(Below(m, from)) \in Below(m, from)
                                  /\ \A y \in Below(m, from) : Max(Below(m, from)) >= y
    BY <1>1, NearIs
  <1>6. RouterNext(s, from) = NextOf(m, from)
    <2> DEFINE X == {x \in 1 .. n : bs[x] < from}
               i == Cardinality(X)
    <2>1. RouterNext(s, from) = IF i >= n THEN NoStep ELSE <<bs[i + 1], Child(s, i)>>
      BY KindsAre DEF RouterNext
    <2>2. X \in SUBSET (1 .. n) /\ \A x \in X : \A j \in 1 .. x - 1 : j \in X
      <3>1. ASSUME NEW x \in X, NEW j \in 1 .. x - 1
            PROVE  j \in X
        <4>1. j \in 1 .. n /\ x \in 1 .. n /\ j < x /\ bs[x] < from
          BY <1>1
        <4>2. bs[j] < bs[x] /\ bs[j] \in Int /\ bs[x] \in Int
          BY <1>1, <1>3, <4>1
        <4>3. bs[j] < from
          BY <1>4, <4>1, <4>2
        <4> QED
          BY <4>1, <4>3
      <3> QED
        BY <3>1
    <2> DEFINE z == Cardinality(X)
    <2>3. z \in 0 .. n /\ \A x \in 1 .. n : x \in X <=> x <= z
      <3> HIDE DEF X, n
      <3> QED
        BY <1>1, <2>2, Initial
    <2>4. \A x \in 1 .. n : bs[x] < from <=> x <= z
      BY <2>3
    <2>5. z = i
      OBVIOUS
    <2> HIDE DEF X, z, n, i, bs, D
    <2>6. CASE z >= n
      <3>1. Above(m, from) = {}
        <4>1. \A x \in 1 .. n : bs[x] < from
          BY <1>1, <2>3, <2>4, <2>6
        <4>2. \A y \in D : ~(y >= from)
          BY <1>1, <1>3, <1>4, <4>1
        <4> QED
          BY <4>2 DEF Above, D
      <3> QED
        BY <2>1, <2>5, <2>6, <3>1 DEF NextOf
    <2>7. CASE ~(z >= n)
      <3> DEFINE x == bs[z + 1]
      <3>1. z + 1 \in 1 .. n /\ ~(z + 1 <= z) /\ (z + 1) - 1 = z
        BY <1>1, <2>3, <2>7
      <3>2. x \in D /\ x \in Int /\ ~(x < from) /\ Child(s, z) = m[x]
        BY <1>2, <1>3, <2>4, <3>1
      <3>3. x \in Above(m, from)
        BY <1>4, <3>2 DEF Above, D
      <3>4. ASSUME NEW y \in Above(m, from)
            PROVE  x <= y /\ y \in Int
        <4>1. y \in D /\ y >= from
          BY DEF Above, D
        <4>2. PICK j \in 1 .. n : bs[j] = y
          BY <1>1, <4>1
        <4>3. ~(bs[j] < from) /\ bs[j] \in Int
          BY <1>3, <1>4, <4>1, <4>2
        <4>4. ~(j <= z)
          BY <2>4, <4>3
        <4>5. j = z + 1 \/ z + 1 < j
          BY <2>3, <4>4
        <4>6. z + 1 < j => bs[z + 1] < bs[j]
          BY <1>1, <3>1
        <4> QED
          BY <3>2, <4>2, <4>3, <4>5, <4>6
      <3>5. Min(Above(m, from)) = x
        <4> DEFINE y == Min(Above(m, from))
        <4>1. y \in Above(m, from) /\ y <= x
          BY <1>5, <3>3
        <4>2. x <= y /\ y \in Int
          BY <3>4, <4>1
        <4> HIDE DEF y, x
        <4>3. y = x
          BY <3>2, <4>1, <4>2
        <4> QED
          BY <4>3 DEF y
      <3> HIDE DEF x
      <3>6. NextOf(m, from) = <<x, m[x]>>
        BY <3>3, <3>5 DEF NextOf
      <3> QED
        BY <2>1, <2>5, <2>7, <3>2, <3>6 DEF x
    <2> QED
      BY <2>6, <2>7
  <1>7. RouterPrev(s, from) = PrevOf(m, from)
    <2> DEFINE X == {x \in 1 .. n : bs[x] <= from}
               i == Cardinality(X)
    <2>1. RouterPrev(s, from) = IF i = 0 THEN NoStep ELSE <<bs[i], Child(s, i - 1)>>
      BY KindsAre DEF RouterPrev
    <2>2. X \in SUBSET (1 .. n) /\ \A x \in X : \A j \in 1 .. x - 1 : j \in X
      <3>1. ASSUME NEW x \in X, NEW j \in 1 .. x - 1
            PROVE  j \in X
        <4>1. j \in 1 .. n /\ x \in 1 .. n /\ j < x /\ bs[x] <= from
          BY <1>1
        <4>2. bs[j] < bs[x] /\ bs[j] \in Int /\ bs[x] \in Int
          BY <1>1, <1>3, <4>1
        <4>3. bs[j] <= from
          BY <1>4, <4>1, <4>2
        <4> QED
          BY <4>1, <4>3
      <3> QED
        BY <3>1
    <2> DEFINE z == Cardinality(X)
    <2>3. z \in 0 .. n /\ \A x \in 1 .. n : x \in X <=> x <= z
      <3> HIDE DEF X, n
      <3> QED
        BY <1>1, <2>2, Initial
    <2>4. \A x \in 1 .. n : bs[x] <= from <=> x <= z
      BY <2>3
    <2>5. z = i
      OBVIOUS
    <2> HIDE DEF X, z, n, i, bs, D
    <2>6. CASE z = 0
      <3>1. Below(m, from) = {}
        <4>1. \A x \in 1 .. n : ~(bs[x] <= from)
          BY <1>1, <2>3, <2>4, <2>6
        <4>2. \A y \in D : ~(y <= from)
          BY <1>1, <1>3, <1>4, <4>1
        <4> QED
          BY <4>2 DEF Below, D
      <3> QED
        BY <2>1, <2>5, <2>6, <3>1 DEF PrevOf
    <2>7. CASE z # 0
      <3> DEFINE x == bs[z]
      <3>1. z \in 1 .. n /\ z <= z
        BY <1>1, <2>3, <2>7
      <3>2. x \in D /\ x \in Int /\ x <= from /\ Child(s, z - 1) = m[x]
        BY <1>2, <1>3, <2>4, <3>1
      <3>3. x \in Below(m, from)
        BY <1>4, <3>2 DEF Below, D
      <3>4. ASSUME NEW y \in Below(m, from)
            PROVE  x >= y /\ y \in Int
        <4>1. y \in D /\ y <= from
          BY DEF Below, D
        <4>2. PICK j \in 1 .. n : bs[j] = y
          BY <1>1, <4>1
        <4>3. bs[j] <= from /\ bs[j] \in Int
          BY <1>3, <4>1, <4>2
        <4>4. j <= z
          BY <2>4, <4>3
        <4>5. j = z \/ j < z
          BY <2>3, <4>4
        <4>6. j < z => bs[j] < bs[z]
          BY <1>1, <3>1
        <4> QED
          BY <3>2, <4>2, <4>3, <4>5, <4>6
      <3>5. Max(Below(m, from)) = x
        <4> DEFINE y == Max(Below(m, from))
        <4>1. y \in Below(m, from) /\ y >= x
          BY <1>5, <3>3
        <4>2. x >= y /\ y \in Int
          BY <3>4, <4>1
        <4> HIDE DEF y, x
        <4>3. y = x
          BY <3>2, <4>1, <4>2
        <4> QED
          BY <4>3 DEF y
      <3> HIDE DEF x
      <3>6. PrevOf(m, from) = <<x, m[x]>>
        BY <3>3, <3>5 DEF PrevOf
      <3> QED
        BY <2>1, <2>5, <2>7, <3>2, <3>6 DEF x
    <2> QED
      BY <2>6, <2>7
  <1>8. ForEach(s) = Listing(m)
    <2> DEFINE a == Ascending(D)
    <2>1. ForEach(s) = [i \in 1 .. n |-> <<bs[i], Child(s, i - 1)>>]
      BY KindsAre DEF ForEach
    <2>2. Cardinality(D) = n /\ \A i \in 1 .. n : a[i] = bs[i]
      BY StemsCount
    <2>3. D \in SUBSET Int /\ IsFiniteSet(D)
      BY <1>1, ByteFacts DEF EdgeMap
    <2> HIDE DEF D
    <2>4. Len(a) = n
      BY <2>2, <2>3, AscendingIs
    <2> HIDE DEF a, n, bs
    <2>5. [i \in 1 .. n |-> <<bs[i], Child(s, i - 1)>>] = [i \in 1 .. n |-> <<a[i], m[a[i]]>>]
      BY <1>2, <2>2
    <2> QED
      BY <2>1, <2>4, <2>5 DEF Listing, a, D
  <1> QED
    BY <1>6, <1>7, <1>8

\* A find, the count, the steps and the listing of any router.
LEMMA AnyReads ==
  ASSUME NEW r, NEW m, Holds(r, m), NEW b \in Byte
  PROVE  /\ RouterFind(r, b) = Slot(m, b) /\ NBranch(r) = Cardinality(DOMAIN m)
         /\ RouterNext(r, b) = NextOf(m, b) /\ RouterPrev(r, b) = PrevOf(m, b)
         /\ ForEach(r) = Listing(m)
  <1>1. CASE HasStems(r) /\ StemsHold(r, m)
    <2>1. RouterFind(r, b) = IF IndexOf(r, b) < 0 THEN NoEdge ELSE Child(r, IndexOf(r, b))
      BY <1>1, KindsAre DEF RouterFind
    <2>2. RouterFind(r, b) = Slot(m, b)
      BY <1>1, <2>1, StemsFind DEF Slot
    <2>3. NBranch(r) = Cardinality(DOMAIN m)
      BY <1>1, StemsCount DEF NBranch
    <2> QED
      BY <1>1, <2>2, <2>3, StemsScan
  <1>2. CASE r.kind \in Cnodes /\ CnodeHolds(r, m)
    <2>1. ~HasStems(r) /\ r.kind # "full"
      BY <1>2, KindsAre
    <2>2. RouterFind(r, b) = Slot(m, b)
      <3>1. RouterFind(r, b) = CnodeFind(r, b)
        BY <1>2, <2>1 DEF RouterFind
      <3> QED
        BY <1>2, <3>1, CnodeFinds DEF Slot
    <2>3. NBranch(r) = Cardinality(DOMAIN m)
      <3>1. NBranch(r) = r.nbranch
        BY <2>1 DEF NBranch
      <3>2. r = [kind |-> r.kind, nbranch |-> Cardinality(DOMAIN m), segs |-> r.segs]
        BY <1>2 DEF CnodeHolds
      <3> QED
        BY <3>1, <3>2
    <2>4. RouterNext(r, b) = NextOf(m, b)
      <3>1. RouterNext(r, b) = CnodeNext(r, b)
        BY <1>2, <2>1 DEF RouterNext
      <3> QED
        BY <1>2, <3>1, CnodeNextIs
    <2>5. RouterPrev(r, b) = PrevOf(m, b)
      <3>1. RouterPrev(r, b) = CnodePrev(r, b)
        BY <1>2, <2>1 DEF RouterPrev
      <3> QED
        BY <1>2, <3>1, CnodePrevIs
    <2>6. ForEach(r) = Listing(m)
      <3>1. ForEach(r) = CnodeForEach(r)
        BY <1>2, <2>1 DEF ForEach
      <3>2. EdgeMap(m) /\ Lists(CnodeForEach(r), m, DOMAIN m)
        BY <1>2, CnodeLists DEF CnodeHolds
      <3> QED
        BY <3>1, <3>2, ListsAll
    <2> QED
      BY <2>2, <2>3, <2>4, <2>5, <2>6
  <1>3. CASE r.kind = "full" /\ FullHolds(r, m)
    <2>1. ~HasStems(r) /\ r.kind \notin Cnodes
      BY <1>3, KindsAre
    <2>2. /\ RouterFind(r, b) = r.ptr[FullAt(b)] /\ RouterNext(r, b) = FullNext(r, b)
          /\ RouterPrev(r, b) = FullPrev(r, b) /\ ForEach(r) = FullForEach(r) /\ NBranch(r) = r.nbranch
      BY <1>3, <2>1 DEF RouterFind, RouterNext, RouterPrev, ForEach, NBranch
    <2>3. r.nbranch = Cardinality(DOMAIN m)
      BY <1>3 DEF FullHolds, FullOf
    <2>4. r.ptr[FullAt(b)] = Slot(m, b)
      BY <1>3, FullSets
    <2> QED
      BY <1>3, <2>2, <2>3, <2>4, FullScans
  <1> QED
    BY <1>1, <1>2, <1>3 DEF Holds

-----------------------------------------------------------------------------
(* Any router: what it becomes.                                            *)

\* A fresh router carries nothing.
LEMMA FreshHolds ==
  ASSUME NEW m, EdgeMap(m), DOMAIN m = {}
  PROVE  /\ \A kind \in {"set", "u16"} :
              /\ Holds(Stems(kind), m) /\ Stems(kind).kind = kind /\ Stems(kind).inl = {}
         /\ \A k \in Cnodes : Holds(Cnode(k), m) /\ Cnode(k).kind = k
         /\ Holds(FullNode, m) /\ FullNode.kind = "full"
  <1>1. Cardinality({}) = 0 /\ IsFiniteSet({})
    BY FS_EmptySet
  <1>2. ASSUME NEW kind \in {"set", "u16"}
        PROVE  Holds(Stems(kind), m) /\ Stems(kind).kind = kind /\ Stems(kind).inl = {}
    <2> DEFINE bs == [i \in 1 .. Lanes |-> MaxB]
               s == Stemmed(kind, bs, <<>>, {}, {})
    <2>1. Stems(kind) = s
      BY DEF Stems, Stemmed
    <2>2. bs \in [1 .. Lanes -> Byte] /\ Lanes \in Nat
      BY ByteFacts DEF Byte
    <2>3. <<>> \in Seq(Ext \cup Inlined) /\ Len(<<>>) = 0 /\ {} \in SUBSET Nat
          /\ {} \in SUBSET [at : Int, leaf : Byte]
      OBVIOUS
    <2> HIDE DEF s
    <2>4. /\ s \in StemSort /\ s.kind = kind /\ s.bytes = bs /\ s.branch = <<>> /\ s.inl = {}
          /\ s.line = {}
      <3> HIDE DEF bs
      <3> QED
        BY <2>2, <2>3 DEF s, Stemmed, StemSort
    <2>5. Count(s) = 0 /\ Cap(s) \in Nat
      BY <2>3, <2>4, ByteFacts DEF Count, Cap
    <2>6. Sorted(s)
      BY <2>2, <2>4, <2>5 DEF Sorted
    <2>7. Tailed(s)
      BY <2>4, <2>5 DEF Tailed
    <2>8. Apart(s)
      BY <2>4 DEF Apart
    <2>9. Carries(s, m)
      BY <2>5 DEF Carries
    <2>10. HasStems(s) /\ StemsHold(s, m)
      BY <2>4, <2>6, <2>7, <2>8, <2>9 DEF StemsHold, HasStems
    <2> QED
      BY <2>1, <2>4, <2>10 DEF Holds
  <1>3. ASSUME NEW k \in Cnodes
        PROVE  Holds(Cnode(k), m) /\ Cnode(k).kind = k
    <2> DEFINE e == [present |-> {}, branch |-> <<>>]
               c == Cnode(k)
    <2>1. c = [kind |-> k, nbranch |-> 0, segs |-> [g \in SegsOf(k) |-> e]]
      BY DEF Cnode, SegsOf
    <2>2. c.kind = k /\ c.segs = [g \in SegsOf(k) |-> e]
      BY <2>1
    <2>3. ASSUME NEW g \in SegsOf(k)
          PROVE  SegHolds(k, e, m, g)
      <3>1. Held(k, m, g) = {}
        BY DEF Held
      <3>2. Ranked({}, <<>>, SegMap(k, m, g))
        BY <1>1 DEF Ranked
      <3>3. Cardinality({}) <= SegCap[k]
        BY <1>1, SegFacts
      <3>4. e.present = {} /\ e.branch = <<>> /\ e = [present |-> {}, branch |-> <<>>]
        OBVIOUS
      <3> HIDE DEF e
      <3> QED
        BY <3>1, <3>2, <3>3, <3>4 DEF SegHolds
    <2> HIDE DEF c, e
    <2>4. c = [kind |-> c.kind, nbranch |-> Cardinality(DOMAIN m), segs |-> c.segs]
      BY <1>1, <2>1, <2>2
    <2>5. \A g \in SegsOf(k) : SegHolds(k, c.segs[g], m, g)
      BY <2>2, <2>3
    <2>6. DOMAIN c.segs = SegsOf(k) /\ c.segs = [g \in SegsOf(k) |-> c.segs[g]]
      BY <2>2
    <2>7. CnodeHolds(c, m)
      BY <2>2, <2>4, <2>5, <2>6 DEF CnodeHolds
    <2> QED
      BY <2>2, <2>7 DEF Holds, c
  <1>4. Holds(FullNode, m) /\ FullNode.kind = "full"
    <2>1. \A l : OnLine(m, l) = {}
      BY DEF OnLine
    <2>2. \A i : Slot(m, i) = NoEdge
      BY DEF Slot
    <2>3. FullOf(m) = FullNode
      BY <1>1, <2>1, <2>2 DEF FullOf, FullNode
    <2>4. FullNode.kind = "full"
      BY DEF FullNode
    <2> QED
      BY <2>3, <2>4 DEF Holds, FullHolds
  <1> QED
    BY <1>2, <1>3, <1>4

\* Whether a router of this kind that carries m takes an edge at b.
CapOf(kind) == IF kind = "set" THEN SetCap ELSE U16Cap
Room(kind, m, b) ==
  \/ b \in DOMAIN m \/ kind = "full"
  \/ kind \in {"set", "u16"} /\ Cardinality(DOMAIN m) < CapOf(kind)
  \/ kind \in Cnodes /\ Cardinality(Held(kind, m, b \div SegW(kind))) < SegCap[kind]

LEMMA TrySetOk ==
  ASSUME NEW r, NEW m, Holds(r, m), NEW b \in Byte, NEW h
  PROVE  TrySet(r, b, h).ok <=> Room(r.kind, m, b)
  <1>1. CASE HasStems(r) /\ StemsHold(r, m)
    <2>1. TrySet(r, b, h) = StemSet(r, b, h)
      BY <1>1, KindsAre DEF TrySet
    <2>2. Count(r) = Cardinality(DOMAIN m) /\ Cap(r) = CapOf(r.kind)
      BY <1>1, StemsCount DEF Cap, CapOf
    <2> QED
      BY <1>1, <2>1, <2>2, KindsAre, StemSetOk DEF Room
  <1>2. CASE r.kind \in Cnodes /\ CnodeHolds(r, m)
    <2>1. TrySet(r, b, h) = CnodeSet(r, b, h)
      BY <1>2, KindsAre DEF TrySet
    <2> QED
      BY <1>2, <2>1, KindsAre, CnodeSetOk DEF Room
  <1>3. CASE r.kind = "full" /\ FullHolds(r, m)
    <2>1. TrySet(r, b, h) = Done(FullSet(r, b, h))
      BY <1>3, KindsAre DEF TrySet
    <2> QED
      BY <1>3, <2>1 DEF Done, Room
  <1> QED
    BY <1>1, <1>2, <1>3 DEF Holds

\* An edge goes in where there is room; a stem whose leaf is in the line, and a stem
\* more while leaves are there, are never set: the caller moves them out first.
LEMMA TrySetHolds ==
  ASSUME NEW r, NEW m, Holds(r, m), NEW b \in Byte, NEW h \in Ext, Room(r.kind, m, b),
         HasStems(r) /\ b \in DOMAIN m => IndexOf(r, b) \notin r.inl,
         HasStems(r) /\ b \notin DOMAIN m => r.inl = {}
  PROVE  /\ Holds(TrySet(r, b, h).router, Put(m, b, h)) /\ TrySet(r, b, h).router.kind = r.kind
         /\ HasStems(r) => TrySet(r, b, h).router.inl = r.inl
  <1>1. CASE HasStems(r) /\ StemsHold(r, m)
    <2>1. TrySet(r, b, h) = StemSet(r, b, h)
      BY <1>1, KindsAre DEF TrySet
    <2>2. Count(r) = Cardinality(DOMAIN m) /\ Cap(r) = CapOf(r.kind)
      BY <1>1, StemsCount DEF Cap, CapOf
    <2>3. b \notin DOMAIN m => r.inl = {} /\ Count(r) < Cap(r)
      BY <1>1, <2>2, KindsAre DEF Room
    <2> DEFINE u == StemSet(r, b, h).router
    <2>4. StemsHold(u, Put(m, b, h)) /\ u.kind = r.kind /\ u.inl = r.inl
      BY <1>1, <2>3, StemSetHolds
    <2> HIDE DEF u
    <2>5. HasStems(u)
      BY <1>1, <2>4 DEF HasStems
    <2> QED
      BY <2>1, <2>4, <2>5 DEF Holds, u
  <1>2. CASE r.kind \in Cnodes /\ CnodeHolds(r, m)
    <2>1. TrySet(r, b, h) = CnodeSet(r, b, h) /\ ~HasStems(r)
      BY <1>2, KindsAre DEF TrySet
    <2>2. CnodeSet(r, b, h).ok
      BY <2>1, TrySetOk
    <2>3. CnodeHolds(CnodeSet(r, b, h).router, Put(m, b, h)) /\ CnodeSet(r, b, h).router.kind = r.kind
      BY <1>2, <2>2, CnodeSetHolds
    <2> QED
      BY <1>2, <2>1, <2>3 DEF Holds
  <1>3. CASE r.kind = "full" /\ FullHolds(r, m)
    <2>1. TrySet(r, b, h) = Done(FullSet(r, b, h)) /\ ~HasStems(r)
      BY <1>3, KindsAre DEF TrySet
    <2>2. TrySet(r, b, h).router = FullSet(r, b, h)
      BY <2>1 DEF Done
    <2>3. FullHolds(FullSet(r, b, h), Put(m, b, h))
      BY <1>3, FullSets
    <2>4. FullSet(r, b, h).kind = "full"
      BY <2>3 DEF FullHolds, FullOf
    <2> QED
      BY <1>3, <2>1, <2>2, <2>3, <2>4 DEF Holds
  <1> QED
    BY <1>1, <1>2, <1>3 DEF Holds

LEMMA RemoveHolds ==
  ASSUME NEW r, NEW m, Holds(r, m), NEW b \in DOMAIN m
  PROVE  Holds(RouterRemove(r, b), Less(m, b))
  <1>0. b \in Byte
    BY HoldsMap DEF EdgeMap
  <1>1. CASE HasStems(r) /\ StemsHold(r, m)
    <2> DEFINE u == RouterRemove(r, b)
    <2>1. StemsHold(u, Less(m, b))
      BY <1>1, StemsRemove
    <2> HIDE DEF u
    <2>2. HasStems(u)
      BY <2>1, SortedIs DEF StemsHold
    <2> QED
      BY <2>1, <2>2 DEF Holds, u
  <1>2. CASE r.kind \in Cnodes /\ CnodeHolds(r, m)
    <2>1. RouterRemove(r, b) = CnodeRemove(r, b)
      BY <1>2, KindsAre DEF RouterRemove
    <2>2. CnodeHolds(CnodeRemove(r, b), Less(m, b)) /\ CnodeRemove(r, b).kind = r.kind
      BY <1>0, <1>2, CnodeRemoveHolds
    <2> QED
      BY <1>2, <2>1, <2>2 DEF Holds
  <1>3. CASE r.kind = "full" /\ FullHolds(r, m)
    <2>1. RouterRemove(r, b) = FullSet(r, b, NoEdge)
      BY <1>3, KindsAre DEF RouterRemove
    <2>2. FullHolds(FullSet(r, b, NoEdge), Less(m, b))
      BY <1>0, <1>3, FullSets
    <2>3. FullSet(r, b, NoEdge).kind = "full"
      BY <2>2 DEF FullHolds, FullOf
    <2> QED
      BY <2>1, <2>2, <2>3 DEF Holds
  <1> QED
    BY <1>1, <1>2, <1>3 DEF Holds

-----------------------------------------------------------------------------
(* Rebuilding a router.                                                    *)

\* m goes into a router of this kind.
Fits(kind, m) ==
  /\ kind \in {"set", "u16"} => Cardinality(DOMAIN m) <= CapOf(kind)
  /\ kind \in Cnodes => \A g \in SegsOf(kind) : Cardinality(Held(kind, m, g)) <= SegCap[kind]

\* The first n edges of a list.
Prefix(q, m, n) == [b \in {q[i][1] : i \in 1 .. n} |-> m[b]]

LEMMA HeldFacts ==
  ASSUME NEW k \in Cnodes, NEW m, EdgeMap(m), NEW g \in SegsOf(k)
  PROVE  /\ IsFiniteSet(Held(k, m, g)) /\ Cardinality(Held(k, m, g)) \in Nat
         /\ Held(k, m, g) \subseteq OffsOf(k) /\ SegCap[k] \in Nat
  <1>1. SegW(k) \in Nat /\ SegCap[k] \in Nat
    BY SegFacts
  <1>2. IsFiniteSet(OffsOf(k))
    BY <1>1, FS_Interval DEF OffsOf
  <1> DEFINE H == Held(k, m, g)
  <1>3. H \in SUBSET OffsOf(k)
    BY DEF Held
  <1> HIDE DEF H
  <1>4. IsFiniteSet(H)
    BY <1>2, <1>3, FS_Subset
  <1>5. Cardinality(H) \in Nat
    BY <1>4, FS_CardinalityType
  <1> QED
    BY <1>1, <1>3, <1>4, <1>5 DEF H

\* A router's own kind has room for what it carries.
LEMMA HoldsFits ==
  ASSUME NEW r, NEW m, Holds(r, m)
  PROVE  Fits(r.kind, m)
  <1>1. CASE HasStems(r) /\ StemsHold(r, m)
    <2>1. Count(r) = Cardinality(DOMAIN m) /\ Cap(r) = CapOf(r.kind) /\ Count(r) <= Cap(r)
      BY <1>1, StemsCount, SortedIs DEF Cap, CapOf, StemsHold
    <2> QED
      BY <1>1, <2>1, KindsAre DEF Fits
  <1>2. CASE r.kind \in Cnodes /\ CnodeHolds(r, m)
    <2>1. \A g \in SegsOf(r.kind) : SegHolds(r.kind, r.segs[g], m, g)
      BY <1>2 DEF CnodeHolds
    <2>2. \A g \in SegsOf(r.kind) : Cardinality(Held(r.kind, m, g)) <= SegCap[r.kind]
      BY <2>1 DEF SegHolds
    <2> QED
      BY <1>2, <2>2, KindsAre DEF Fits
  <1>3. CASE r.kind = "full"
    BY <1>3, KindsAre DEF Fits
  <1> QED
    BY <1>1, <1>2, <1>3 DEF Holds

\* Where all of m fits, there is room for one edge of it more.
LEMMA FitsRoom ==
  ASSUME NEW kind \in {"set", "u16", "full"} \cup Cnodes, NEW m, EdgeMap(m), Fits(kind, m),
         NEW v, EdgeMap(v), DOMAIN v \subseteq DOMAIN m, NEW b \in DOMAIN m, b \notin DOMAIN v
  PROVE  Room(kind, v, b)
  <1>1. DOMAIN m \subseteq Byte /\ b \in Byte
    BY DEF EdgeMap
  <1>2. CASE kind \in {"set", "u16"}
    <2> DEFINE D == DOMAIN m
               V == DOMAIN v
    <2>1. IsFiniteSet(D) /\ V \in SUBSET D /\ V # D /\ V \subseteq Byte
      BY <1>1, ByteFacts
    <2>2. Cardinality(D) \in Nat /\ Cardinality(V) \in Nat
      BY <1>1, <2>1, ByteFacts
    <2>3. Cardinality(D) <= CapOf(kind) /\ CapOf(kind) \in Nat
      BY <1>2, ByteFacts DEF Fits, CapOf
    <2> HIDE DEF D, V
    <2>4. Cardinality(V) <= Cardinality(D) /\ Cardinality(V) # Cardinality(D)
      BY <2>1, FS_Subset
    <2>5. Cardinality(V) < CapOf(kind)
      BY <2>2, <2>3, <2>4
    <2> QED
      BY <1>2, <2>5 DEF Room, V
  <1>3. CASE kind \in Cnodes
    <2> DEFINE g == b \div SegW(kind)
               d == b % SegW(kind)
               D == Held(kind, m, g)
               V == Held(kind, v, g)
    <2>1. g \in SegsOf(kind) /\ d \in OffsOf(kind) /\ At(kind, g, d) = b
      BY <1>1, <1>3, SegOfByte
    <2> HIDE DEF g, d
    <2>2. d \in D /\ d \notin V /\ V \in SUBSET D
      BY <2>1 DEF Held
    <2>3. IsFiniteSet(D) /\ Cardinality(D) \in Nat /\ Cardinality(V) \in Nat /\ SegCap[kind] \in Nat
      BY <1>3, <2>1, HeldFacts
    <2>4. Cardinality(D) <= SegCap[kind]
      BY <1>3, <2>1 DEF Fits
    <2> HIDE DEF D, V
    <2>5. V # D
      BY <2>2
    <2>6. Cardinality(V) <= Cardinality(D) /\ Cardinality(V) # Cardinality(D)
      BY <2>2, <2>3, <2>5, FS_Subset
    <2>7. Cardinality(V) < SegCap[kind]
      BY <2>3, <2>4, <2>6
    <2> QED
      BY <1>3, <2>7 DEF Room, V, g
  <1>4. CASE kind = "full"
    BY <1>4 DEF Room
  <1> QED
    BY <1>2, <1>3, <1>4

\* The recursive function of SetAll exists.
Setting(fresh, es, f, n) ==
  f = [i \in 0 .. n |-> IF i = 0 THEN fresh ELSE TrySet(f[i - 1], es[i][1], es[i][2]).router]

LEMMA SettingExists ==
  ASSUME NEW fresh, NEW es, NEW n \in Nat
  PROVE  \E f : Setting(fresh, es, f, n)
  <1> DEFINE S == {k \in Nat : \E f : Setting(fresh, es, f, k)}
             next(i, y) == TrySet(y, es[i][1], es[i][2]).router
  <1>1. 0 \in S
    <2> DEFINE f == [i \in 0 .. 0 |-> fresh]
    <2>1. \A i \in 0 .. 0 : i = 0
      OBVIOUS
    <2>2. Setting(fresh, es, f, 0)
      BY <2>1 DEF Setting
    <2> QED
      BY <2>2
  <1>2. ASSUME NEW k \in Nat, k \in S
        PROVE  k + 1 \in S
    <2>1. PICK g : Setting(fresh, es, g, k)
      BY <1>2
    <2> DEFINE f == [i \in 0 .. k + 1 |-> IF i = k + 1 THEN next(k + 1, g[k]) ELSE g[i]]
    <2>2. \A i \in 0 .. k : g[i] = IF i = 0 THEN fresh ELSE next(i, g[i - 1])
      BY <2>1 DEF Setting
    <2> HIDE DEF next
    <2>3. \A i \in 0 .. k + 1 : (i # k + 1 => i \in 0 .. k) /\ (i # 0 => i - 1 \in 0 .. k + 1 /\ i - 1 # k + 1)
      OBVIOUS
    <2>4. \A i \in 0 .. k + 1 : f[i] = IF i = k + 1 THEN next(k + 1, g[k]) ELSE g[i]
      OBVIOUS
    <2>5. \A i \in 0 .. k + 1 : i # 0 => f[i - 1] = g[i - 1]
      BY <2>3
    <2>6. DOMAIN f = 0 .. k + 1 /\ f = [i \in 0 .. k + 1 |-> f[i]]
      OBVIOUS
    <2> HIDE DEF f
    <2>7. \A i \in 0 .. k + 1 : f[i] = IF i = 0 THEN fresh ELSE next(i, f[i - 1])
      <3> TAKE i \in 0 .. k + 1
      <3>1. CASE i = k + 1
        <4>1. i # 0 /\ i - 1 = k
          BY <3>1
        <4> QED
          BY <2>4, <2>5, <3>1, <4>1
      <3>2. CASE i # k + 1
        BY <2>2, <2>3, <2>4, <2>5, <3>2
      <3> QED
        BY <3>1, <3>2
    <2>8. f = [i \in 0 .. k + 1 |-> IF i = 0 THEN fresh ELSE next(i, f[i - 1])]
      BY <2>6, <2>7
    <2>9. Setting(fresh, es, f, k + 1)
      BY <2>8 DEF Setting, next
    <2> QED
      BY <2>9
  <1>3. \A i \in 0 .. n : i \in S
    <2>1. \A i \in 0 .. n - 1 : i \in S => i + 1 \in S
      BY <1>2
    <2> HIDE DEF S
    <2> QED
      BY <1>1, <2>1, UpTo
  <1>4. n \in S
    BY <1>3
  <1> QED
    BY <1>4

\* Setting the edges of a list one after the other makes a router that carries them.
LEMMA SetAllHolds ==
  ASSUME NEW m, EdgeMap(m), NEW q, Lists(q, m, DOMAIN m),
         NEW fresh, NEW kind \in {"set", "u16", "full"} \cup Cnodes, fresh.kind = kind,
         \A v : EdgeMap(v) /\ DOMAIN v = {} => Holds(fresh, v),
         kind \in {"set", "u16"} => fresh.inl = {}, Fits(kind, m)
  PROVE  Holds(SetAll(fresh, q), m) /\ SetAll(fresh, q).kind = kind
  <1> DEFINE n == Len(q)
             F == CHOOSE f : Setting(fresh, q, f, n)
             D(i) == {q[j][1] : j \in 1 .. i}
             P(i) == Prefix(q, m, i)
             S == {i \in 0 .. n : /\ Holds(F[i], P(i)) /\ F[i].kind = kind
                                  /\ kind \in {"set", "u16"} => F[i].inl = {}}
  <1>1. q \in Seq(Edges) /\ n \in Nat /\ DOMAIN q = 1 .. n
    BY DEF Lists
  <1>2. /\ \A i \in 1 .. n : q[i][1] \in DOMAIN m /\ q[i] = <<q[i][1], m[q[i][1]]>>
        /\ \A b \in DOMAIN m : \E i \in 1 .. n : q[i][1] = b
        /\ \A i, j \in 1 .. n : i < j => q[i][1] < q[j][1]
    BY DEF Lists
  <1>3. DOMAIN m \subseteq Byte /\ m \in [DOMAIN m -> Ext]
    BY DEF EdgeMap
  <1>4. Setting(fresh, q, F, n)
    <2> HIDE DEF n
    <2> QED
      BY <1>1, SettingExists
  <1>5. SetAll(fresh, q) = F[n]
    BY DEF SetAll, Setting
  <1> HIDE DEF F
  <1>6. \A i \in 0 .. n : F[i] = IF i = 0 THEN fresh ELSE TrySet(F[i - 1], q[i][1], q[i][2]).router
    BY <1>4 DEF Setting
  <1>7. \A i \in 0 .. n : D(i) \subseteq DOMAIN m /\ DOMAIN P(i) = D(i) /\ EdgeMap(P(i))
    <2> TAKE i \in 0 .. n
    <2>1. D(i) \subseteq DOMAIN m
      <3>1. \A j \in 1 .. i : j \in 1 .. n
        BY <1>1
      <3> QED
        BY <1>2, <3>1
    <2>2. DOMAIN P(i) = D(i) /\ \A b \in D(i) : P(i)[b] = m[b]
      BY DEF Prefix
    <2>3. P(i) = [b \in D(i) |-> m[b]]
      BY DEF Prefix
    <2> HIDE DEF D, P
    <2>4. \A b \in D(i) : b \in Byte /\ m[b] \in Ext
      BY <1>3, <2>1
    <2> QED
      BY <2>1, <2>2, <2>3, <2>4 DEF EdgeMap
  <1>8. 0 \in S
    <2>1. 0 \in 0 .. n /\ F[0] = fresh
      <3> HIDE DEF n
      <3>1. 0 \in 0 .. n
        BY <1>1
      <3> QED
        BY <1>6, <3>1
    <2>2. EdgeMap(P(0)) /\ DOMAIN P(0) = {}
      <3>1. D(0) = {}
        OBVIOUS
      <3> HIDE DEF D, P, n
      <3> QED
        BY <1>7, <2>1, <3>1
    <2> HIDE DEF P, n, D
    <2>3. Holds(F[0], P(0))
      BY <2>1, <2>2
    <2> QED
      BY <2>1, <2>3
  <1>9. ASSUME NEW i \in 0 .. n - 1, i \in S
        PROVE  i + 1 \in S
    <2> DEFINE b == q[i + 1][1]
               v == P(i)
               r == F[i]
               h == m[b]
    <2>1. i + 1 \in 0 .. n /\ i + 1 # 0 /\ (i + 1) - 1 = i /\ i + 1 \in 1 .. n /\ i \in 0 .. n
      BY <1>1
    <2>2. b \in DOMAIN m /\ q[i + 1] = <<b, h>> /\ b \in Byte /\ h \in Ext
      BY <1>2, <1>3, <2>1
    <2>3. F[i + 1] = TrySet(r, b, h).router
      <3>1. F[i + 1] = TrySet(F[(i + 1) - 1], q[i + 1][1], q[i + 1][2]).router
        BY <1>6, <2>1
      <3>2. q[i + 1][1] = b /\ q[i + 1][2] = h
        BY <2>2
      <3> HIDE DEF b, h
      <3> QED
        BY <2>1, <3>1, <3>2
    <2>4. Holds(r, v) /\ r.kind = kind /\ (kind \in {"set", "u16"} => r.inl = {})
      BY <1>9
    <2>5. EdgeMap(v) /\ DOMAIN v = D(i) /\ D(i) \subseteq DOMAIN m
      <3> HIDE DEF D, P
      <3> QED
        BY <1>7, <2>1
    <2>6. b \notin D(i)
      <3>1. ASSUME NEW j \in 1 .. i
            PROVE  q[j][1] # b
        <4>1. j \in 1 .. n /\ j < i + 1
          BY <2>1
        <4>2. q[j][1] < q[i + 1][1]
          BY <1>2, <2>1, <4>1
        <4>3. q[j][1] \in Int /\ b \in Int
          <5>1. q[j][1] \in DOMAIN m
            BY <1>2, <4>1
          <5> HIDE DEF b
          <5>2. q[j][1] \in Byte /\ b \in Byte
            BY <1>3, <2>2, <5>1
          <5> QED
            BY <5>2, ByteFacts
        <4> DEFINE x == q[j][1]
        <4>4. x < b
          BY <4>2
        <4> HIDE DEF x, b
        <4>5. x # b
          BY <4>3, <4>4 DEF x
        <4> QED
          BY <4>5 DEF x
      <3> QED
        BY <3>1
    <2>7. P(i + 1) = Put(v, b, h)
      <3>1. D(i + 1) = D(i) \cup {b}
        <4>1. \A j \in 1 .. i + 1 : j \in 1 .. i \/ j = i + 1
          BY <2>1
        <4>2. \A j \in 1 .. i : j \in 1 .. i + 1
          BY <2>1
        <4>3. i + 1 \in 1 .. i + 1
          BY <2>1
        <4> QED
          BY <4>1, <4>2, <4>3
      <3>2. P(i + 1) = [x \in D(i + 1) |-> m[x]]
        BY DEF Prefix
      <3>3. v = [x \in D(i) |-> m[x]]
        BY DEF Prefix
      <3> HIDE DEF P, D, b, v
      <3>4. P(i + 1) = [x \in D(i) \cup {b} |-> m[x]]
        BY <3>1, <3>2
      <3>5. [x \in D(i) \cup {b} |-> m[x]] = [x \in D(i) \cup {b} |-> IF x = b THEN h ELSE v[x]]
        BY <3>3
      <3> QED
        BY <2>5, <3>4, <3>5 DEF Put
    <2>8. kind \in {"set", "u16"} <=> HasStems(r)
      BY <2>4, KindsAre
    <2> HIDE DEF P, D, b, v, h, r, n
    <2>9. Room(kind, v, b)
      BY <2>2, <2>5, <2>6, FitsRoom
    <2>10. Holds(TrySet(r, b, h).router, Put(v, b, h)) /\ TrySet(r, b, h).router.kind = r.kind
           /\ (HasStems(r) => TrySet(r, b, h).router.inl = r.inl)
      BY <2>2, <2>4, <2>5, <2>6, <2>8, <2>9, TrySetHolds
    <2> QED
      BY <2>1, <2>3, <2>4, <2>7, <2>8, <2>10
  <1>10. n \in S
    <2> HIDE DEF S, n
    <2>1. \A i \in 0 .. n : i \in S
      BY <1>1, <1>8, <1>9, UpTo
    <2>2. n \in 0 .. n
      BY <1>1
    <2> QED
      BY <2>1, <2>2
  <1>11. P(n) = m
    <2>1. D(n) = DOMAIN m
      <3>1. \A b \in DOMAIN m : b \in D(n)
        BY <1>2
      <3>2. \A b \in D(n) : b \in DOMAIN m
        BY <1>2
      <3> HIDE DEF D
      <3> QED
        BY <3>1, <3>2
    <2>2. P(n) = [b \in D(n) |-> m[b]]
      BY DEF Prefix
    <2>3. m = [b \in DOMAIN m |-> m[b]]
      BY <1>3
    <2> HIDE DEF D, P
    <2> QED
      BY <2>1, <2>2, <2>3
  <1>12. Holds(F[n], P(n)) /\ F[n].kind = kind
    BY <1>10
  <1> HIDE DEF P
  <1> QED
    BY <1>5, <1>11, <1>12

\* The router of this kind with no edges.
Fresh(kind) == IF kind \in {"set", "u16"} THEN Stems(kind) ELSE IF kind \in Cnodes THEN Cnode(kind)
               ELSE FullNode
Kinds       == {"set", "u16", "full"} \cup Cnodes

LEMMA FillHolds ==
  ASSUME NEW kind \in Kinds, NEW m, EdgeMap(m), Fits(kind, m)
  PROVE  Holds(SetAll(Fresh(kind), Listing(m)), m) /\ SetAll(Fresh(kind), Listing(m)).kind = kind
  <1> DEFINE fresh == Fresh(kind)
             q == Listing(m)
             none == [b \in {} |-> NoEdge]
  <1>1. \A v : EdgeMap(v) /\ DOMAIN v = {} => Holds(fresh, v)
    BY FreshHolds DEF Fresh, Kinds, Cnodes
  <1>2. EdgeMap(none) /\ DOMAIN none = {}
    BY DEF EdgeMap
  <1>3. fresh.kind = kind /\ (kind \in {"set", "u16"} => fresh.inl = {})
    BY <1>2, FreshHolds DEF Fresh, Kinds, Cnodes
  <1>4. Lists(q, m, DOMAIN m)
    BY ListingIs
  <1> HIDE DEF fresh, q
  <1>5. Holds(SetAll(fresh, q), m) /\ SetAll(fresh, q).kind = kind
    BY <1>1, <1>3, <1>4, SetAllHolds DEF Kinds
  <1> QED
    BY <1>5 DEF fresh, q

\* build_wider, and rm_shrink_ on the way down.
LEMMA RebuiltHolds ==
  ASSUME NEW r, NEW m, Holds(r, m), NEW kind \in Kinds, Fits(kind, m)
  PROVE  Holds(Rebuilt(r, Fresh(kind)), m) /\ Rebuilt(r, Fresh(kind)).kind = kind
  <1>1. EdgeMap(m)
    BY HoldsMap
  <1>2. 0 \in Byte
    BY ByteFacts DEF Byte
  <1>3. ForEach(r) = Listing(m)
    BY <1>2, AnyReads
  <1>4. Rebuilt(r, Fresh(kind)) = SetAll(Fresh(kind), Listing(m))
    BY <1>3 DEF Rebuilt
  <1> QED
    BY <1>1, <1>4, FillHolds

\* Halving the segments never makes one too full.
LEMMA HalvesFit ==
  ASSUME NEW k \in Cnodes, NEW k2 \in Cnodes, NSeg(k2) = 2 * NSeg(k), SegCap[k] <= SegCap[k2],
         NEW m, EdgeMap(m), Fits(k, m)
  PROVE  Fits(k2, m)
  <1> DEFINE W == SegW(k)
             V == SegW(k2)
             N == NSeg(k)
  <1>1. W \in Nat /\ V \in Nat /\ N \in Nat \ {0} /\ W * N = MaxB + 1 /\ V * NSeg(k2) = MaxB + 1
    BY SegFacts
  <1>2. W = 2 * V
    <2> HIDE DEF W, V, N
    <2>1. V * (2 * N) = (2 * V) * N
      BY <1>1
    <2>2. W * N = (2 * V) * N
      BY <1>1, <2>1 DEF N
    <2> DEFINE x == W - 2 * V
    <2>3. x \in Int /\ x * N = 0
      BY <1>1, <2>2
    <2> HIDE DEF x
    <2>4. x = 0
      BY <1>1, <2>3
    <2> QED
      BY <1>1, <2>4 DEF x
  <1>3. ASSUME NEW f \in SegsOf(k2)
        PROVE  Cardinality(Held(k2, m, f)) <= SegCap[k2]
    <2> DEFINE g == f \div 2
               e == f % 2
               T == Held(k, m, g)
    <2>1. f \in Int /\ f >= 0 /\ f <= 2 * N - 1
      BY <1>1 DEF SegsOf
    <2>2. g \in Int /\ g >= 0 /\ g <= N - 1 /\ e \in {0, 1} /\ f = 2 * g + e
      BY <1>1, <2>1
    <2>3. g \in SegsOf(k)
      BY <1>1, <2>2 DEF SegsOf
    <2> HIDE DEF g, e
    <2>4. T \subseteq OffsOf(k) /\ IsFiniteSet(T) /\ SegCap[k] \in Nat /\ Cardinality(T) <= SegCap[k]
      BY <2>3, HeldFacts DEF Fits
    <2>5. T \in SUBSET Int
      BY <2>4 DEF OffsOf
    <2>6. /\ \A d \in OffsOf(k2) : d \in OffsOf(k) /\ d < V /\ d \in Int
          /\ \A d \in OffsOf(k2) : d + V \in OffsOf(k) /\ d + V >= V /\ (d + V) - V = d
          /\ \A d \in OffsOf(k) : d < V => d \in OffsOf(k2)
          /\ \A d \in OffsOf(k) : d >= V => d - V \in OffsOf(k2) /\ (d - V) + V = d
      <3> HIDE DEF W, V
      <3> QED
        BY <1>1, <1>2 DEF OffsOf, W, V
    <2>7. \A d \in OffsOf(k2) : /\ e = 0 => At(k2, f, d) = At(k, g, d)
                                /\ e = 1 => At(k2, f, d) = At(k, g, d + V)
      <3> TAKE d \in OffsOf(k2)
      <3>1. d \in Int
        BY <2>6
      <3>2. At(k2, f, d) = f * V + d /\ At(k, g, d) = g * W + d /\ At(k, g, d + V) = g * W + (d + V)
        BY DEF At
      <3> DEFINE y == g * V
      <3> HIDE DEF W, V
      <3>3. y \in Int /\ g * W = 2 * y
        BY <1>1, <1>2, <2>2
      <3>4. f * V = 2 * y + e * V
        BY <1>1, <2>2
      <3> HIDE DEF y
      <3>5. e = 0 => f * V = 2 * y
        BY <1>1, <3>3, <3>4
      <3>6. e = 1 => f * V = 2 * y + V
        BY <1>1, <3>3, <3>4
      <3>7. e = 0 => f * V + d = g * W + d
        BY <3>3, <3>5
      <3>8. e = 1 => f * V + d = g * W + (d + V)
        BY <1>1, <3>1, <3>3, <3>6
      <3> QED
        BY <3>2, <3>7, <3>8
    <2> DEFINE lo == {i \in T : i < V}
               hi == {i - V : i \in {j \in T : j >= V}}
    <2>8. e = 0 => Held(k2, m, f) = lo
      <3>1. ASSUME e = 0, NEW d
            PROVE  d \in Held(k2, m, f) <=> d \in lo
        <4> HIDE DEF V
        <4>1. d \in OffsOf(k2) => (d \in Held(k2, m, f) <=> d \in T) /\ d < V
          BY <2>6, <2>7, <3>1 DEF Held
        <4>2. d \in Held(k2, m, f) => d \in OffsOf(k2)
          BY DEF Held
        <4>3. d \in lo => d \in OffsOf(k2) /\ d \in T
          BY <2>4, <2>6
        <4> HIDE DEF T
        <4> QED
          BY <4>1, <4>2, <4>3
      <3> HIDE DEF lo
      <3> QED
        BY <3>1
    <2>9. e = 1 => Held(k2, m, f) = hi
      <3>1. ASSUME e = 1, NEW d
            PROVE  d \in Held(k2, m, f) <=> d \in hi
        <4> HIDE DEF V
        <4>1. d \in OffsOf(k2) => (d \in Held(k2, m, f) <=> d + V \in T) /\ d + V >= V /\ (d + V) - V = d
          BY <2>6, <2>7, <3>1 DEF Held
        <4>2. d \in Held(k2, m, f) => d \in OffsOf(k2)
          BY DEF Held
        <4>3. ASSUME d \in hi
              PROVE  d \in OffsOf(k2) /\ d + V \in T
          <5>1. PICK i \in T : i >= V /\ d = i - V
            BY <4>3
          <5> QED
            BY <2>4, <2>6, <5>1
        <4> HIDE DEF T
        <4>4. d \in OffsOf(k2) /\ d + V \in T => d \in hi
          BY <4>1
        <4> HIDE DEF hi
        <4> QED
          BY <4>1, <4>2, <4>3, <4>4
      <3> HIDE DEF hi
      <3> QED
        BY <3>1
    <2>10. /\ Cardinality(lo) + Cardinality(hi) = Cardinality(T)
           /\ Cardinality(lo) \in Nat /\ Cardinality(hi) \in Nat /\ Cardinality(T) \in Nat
      <3>1. V \in Int
        BY <1>1
      <3> HIDE DEF T, V
      <3> QED
        BY <2>4, <2>5, <3>1, SplitCount
    <2>11. SegCap[k2] \in Nat
      BY SegFacts
    <2> HIDE DEF lo, hi, T
    <2>12. Cardinality(lo) <= SegCap[k2] /\ Cardinality(hi) <= SegCap[k2]
      BY <2>4, <2>10, <2>11
    <2> QED
      BY <2>2, <2>8, <2>9, <2>12
  <1>4. k2 \notin {"set", "u16"}
    BY DEF Cnodes
  <1> QED
    BY <1>3, <1>4 DEF Fits

\* What a setlist carries goes into a single segment of the next format.
LEMMA StemsFit ==
  ASSUME NEW m, EdgeMap(m), Cardinality(DOMAIN m) <= SetCap
  PROVE  Fits("c2", m) /\ Fits("set", m)
  <1> DEFINE D == DOMAIN m
  <1>1. D \subseteq Byte /\ IsFiniteSet(D) /\ Cardinality(D) \in Nat
    BY ByteFacts DEF EdgeMap
  <1>2. "c2" \in Cnodes /\ "c2" \notin {"set", "u16"} /\ "set" \notin Cnodes
    BY DEF Cnodes
  <1>3. SetCap \in Nat /\ SegCap["c2"] \in Nat /\ SetCap <= SegCap["c2"]
    BY <1>2, SegFacts, ByteFacts, SegmentAssumption
  <1>4. ASSUME NEW g \in SegsOf("c2")
        PROVE  Cardinality(Held("c2", m, g)) <= SegCap["c2"]
    <2> DEFINE H == Held("c2", m, g)
               f == [d \in H |-> At("c2", g, d)]
    <2>1. H \subseteq OffsOf("c2") /\ Cardinality(H) \in Nat
      BY <1>2, <1>4, HeldFacts
    <2>2. \A d \in H : At("c2", g, d) \in D
      BY DEF Held
    <2>3. \A d, e \in H : At("c2", g, d) = At("c2", g, e) => d = e
      BY <1>2, <1>4, <2>1, SegOrder
    <2> HIDE DEF H, D
    <2>4. f \in Injection(H, D)
      BY <2>2, <2>3 DEF Injection, IsInjective
    <2> HIDE DEF f
    <2>5. Cardinality(H) <= Cardinality(D)
      BY <1>1, <2>4, FS_Injection
    <2> QED
      BY <1>1, <1>3, <2>1, <2>5 DEF H, D
  <1> QED
    BY <1>2, <1>4 DEF Fits, CapOf

\* How far a format is up the ladder.
Level(kind) == CASE kind = "set" -> 0 [] kind = "c2" -> 1 [] kind = "c4" -> 2 [] kind = "c8" -> 3
                 [] kind = "full" -> 4

LEMMA LevelIs ==
  /\ Level("set") = 0 /\ Level("c2") = 1 /\ Level("c4") = 2 /\ Level("c8") = 3 /\ Level("full") = 4
  /\ \A kind \in Kinds \ {"u16"} : Level(kind) \in 0 .. 4 /\ (Level(kind) = 4 => kind = "full")
  BY DEF Level, Kinds, Cnodes

\* widen keeps the edges and goes up the ladder.
LEMMA WiderHolds ==
  ASSUME NEW r, NEW m, Holds(r, m), r.kind # "u16", r.kind # "full", NEW lad
  PROVE  /\ Holds(Wider(r, lad), m) /\ Wider(r, lad).kind \in Kinds \ {"set", "u16"}
         /\ Level(Wider(r, lad).kind) >= Level(r.kind) + 1
  <1>1. EdgeMap(m) /\ Fits(r.kind, m) /\ r.kind \in {"set", "c2", "c4", "c8"}
    BY HoldsMap, HoldsFits, KindsAre DEF Holds, Cnodes
  <1>2. /\ Fresh("c2") = Cnode("c2") /\ Fresh("c4") = Cnode("c4") /\ Fresh("c8") = Cnode("c8")
        /\ Fresh("full") = FullNode
    BY DEF Fresh, Cnodes
  <1>3. Fits("full", m)
    BY DEF Fits, Cnodes
  <1>4. /\ \A kind \in Kinds : Fits(kind, m) =>
             Holds(Rebuilt(r, Fresh(kind)), m) /\ Rebuilt(r, Fresh(kind)).kind = kind
        /\ {"c2", "c4", "c8", "full"} \subseteq Kinds
    BY RebuiltHolds DEF Kinds, Cnodes
  <1>5. CASE lad = "flat"
    <2>1. Wider(r, lad) = Rebuilt(r, Fresh("full"))
      BY <1>2, <1>5 DEF Wider
    <2> QED
      BY <1>1, <1>3, <1>4, <2>1, LevelIs
  <1>6. CASE lad # "flat" /\ r.kind = "set"
    <2> DEFINE e == ExternalizeAll(r)
    <2>1. HasStems(r) /\ StemsHold(r, m)
      BY <1>6, KindsAre DEF Holds, Cnodes
    <2>2. StemsHold(e, m) /\ e.kind = "set"
      BY <1>6, <2>1, ExternalizeAllHolds
    <2>3. Wider(r, lad) = Rebuilt(e, Fresh("c2"))
      BY <1>2, <1>6 DEF Wider
    <2> HIDE DEF e
    <2>4. Holds(e, m)
      BY <2>2, KindsAre DEF Holds
    <2>5. Fits("c2", m)
      <3>1. Cardinality(DOMAIN m) <= SetCap
        BY <1>1, <1>6 DEF Fits, CapOf
      <3> QED
        BY <1>1, <3>1, StemsFit
    <2>6. Holds(Rebuilt(e, Fresh("c2")), m) /\ Rebuilt(e, Fresh("c2")).kind = "c2"
      BY <1>4, <2>4, <2>5, RebuiltHolds
    <2> QED
      BY <1>4, <1>6, <2>3, <2>6, LevelIs
  <1>7. CASE lad # "flat" /\ r.kind = "c2"
    <2>1. Wider(r, lad) = Rebuilt(r, Fresh("c4"))
      BY <1>2, <1>7 DEF Wider
    <2>2. Fits("c4", m)
      <3>1. "c2" \in Cnodes /\ "c4" \in Cnodes /\ NSeg("c4") = 2 * NSeg("c2")
        BY DEF Cnodes, NSeg
      <3>2. SegCap["c2"] <= SegCap["c4"]
        BY SegmentAssumption
      <3> QED
        BY <1>1, <1>7, <3>1, <3>2, HalvesFit
    <2> QED
      BY <1>4, <1>7, <2>1, <2>2, LevelIs
  <1>8. CASE lad # "flat" /\ r.kind = "c4" /\ lad = "c8"
    <2>1. Wider(r, lad) = Rebuilt(r, Fresh("c8"))
      BY <1>2, <1>8 DEF Wider
    <2>2. Fits("c8", m)
      <3>1. "c4" \in Cnodes /\ "c8" \in Cnodes /\ NSeg("c8") = 2 * NSeg("c4")
        BY DEF Cnodes, NSeg
      <3>2. SegCap["c4"] <= SegCap["c8"]
        BY SegmentAssumption
      <3> QED
        BY <1>1, <1>8, <3>1, <3>2, HalvesFit
    <2> QED
      BY <1>4, <1>8, <2>1, <2>2, LevelIs
  <1>9. CASE lad # "flat" /\ ((r.kind = "c4" /\ lad # "c8") \/ r.kind = "c8")
    <2>1. Wider(r, lad) = Rebuilt(r, Fresh("full"))
      BY <1>2, <1>9 DEF Wider
    <2> QED
      BY <1>3, <1>4, <1>9, <2>1, LevelIs
  <1> QED
    BY <1>1, <1>5, <1>6, <1>7, <1>8, <1>9

-----------------------------------------------------------------------------
(* The life of one router.                                                 *)

\* The handles that the edges e stand for.
MeantOf(e) == [b \in DOMAIN e |-> Handle(e[b], b)]
Put2(e, b, kind) == [x \in DOMAIN e \cup {b} |-> IF x = b THEN kind ELSE e[x]]
Less2(e, b)      == [x \in DOMAIN e \ {b} |-> e[x]]
EdgeKinds(e)     == DOMAIN e \subseteq Used /\ e \in [DOMAIN e -> {"leaf", "node"}]

LEMMA MeantIs ==
  ASSUME NEW e, EdgeKinds(e)
  PROVE  /\ EdgeMap(MeantOf(e)) /\ DOMAIN MeantOf(e) = DOMAIN e /\ DOMAIN e \subseteq Byte
         /\ \A b \in DOMAIN e : MeantOf(e)[b] = Handle(e[b], b)
  <1>1. DOMAIN e \subseteq Byte /\ \A b \in DOMAIN e : e[b] \in {"leaf", "node"}
    BY RouterAssumption DEF EdgeKinds
  <1>2. \A b \in DOMAIN e : Handle(e[b], b) \in Ext
    BY <1>1 DEF Handle, LeafAt, NodeAt, Ext
  <1>3. DOMAIN MeantOf(e) = DOMAIN e /\ \A b \in DOMAIN e : MeantOf(e)[b] = Handle(e[b], b)
    BY DEF MeantOf
  <1>4. MeantOf(e) \in [DOMAIN e -> Ext]
    BY <1>2 DEF MeantOf
  <1> QED
    BY <1>1, <1>3, <1>4 DEF EdgeMap

LEMMA MeantMoves ==
  ASSUME NEW e, EdgeKinds(e), NEW b \in Used, NEW kind \in {"leaf", "node"}
  PROVE  /\ EdgeKinds(Put2(e, b, kind)) /\ MeantOf(Put2(e, b, kind)) = Put(MeantOf(e), b, Handle(kind, b))
         /\ EdgeKinds(Less2(e, b)) /\ MeantOf(Less2(e, b)) = Less(MeantOf(e), b)
         /\ Handle(kind, b) \in Ext /\ b \in Byte
  <1> DEFINE m == MeantOf(e)
             p == Put2(e, b, kind)
             l == Less2(e, b)
  <1>1. DOMAIN m = DOMAIN e /\ \A x \in DOMAIN e : m[x] = Handle(e[x], x)
    BY MeantIs
  <1>2. DOMAIN p = DOMAIN e \cup {b} /\ \A x \in DOMAIN p : p[x] = IF x = b THEN kind ELSE e[x]
    BY DEF Put2
  <1>3. DOMAIN l = DOMAIN e \ {b} /\ \A x \in DOMAIN l : l[x] = e[x]
    BY DEF Less2
  <1>4. EdgeKinds(p)
    BY DEF EdgeKinds, Put2
  <1>5. EdgeKinds(l)
    BY DEF EdgeKinds, Less2
  <1> HIDE DEF m, p, l
  <1>6. MeantOf(p) = Put(m, b, Handle(kind, b))
    BY <1>1, <1>2 DEF MeantOf, Put
  <1>7. MeantOf(l) = Less(m, b)
    BY <1>1, <1>3 DEF MeantOf, Less
  <1>8. b \in Byte
    BY RouterAssumption
  <1>9. Handle(kind, b) \in Ext
    BY <1>8 DEF Handle, LeafAt, NodeAt, Ext
  <1> QED
    BY <1>4, <1>5, <1>6, <1>7, <1>8, <1>9 DEF m, p, l

\* A router made with two edges.
LEMMA BuiltHolds ==
  ASSUME NEW kind \in {"set", "u16"}, NEW e, EdgeKinds(e), Cardinality(DOMAIN e) <= CapOf(kind)
  PROVE  Holds(Built(Stems(kind), e), MeantOf(e)) /\ Built(Stems(kind), e).kind = kind
  <1> DEFINE m == MeantOf(e)
  <1>1. /\ EdgeMap(m) /\ DOMAIN m = DOMAIN e /\ \A b \in DOMAIN e : m[b] = Handle(e[b], b)
        /\ DOMAIN e \subseteq Byte
    BY MeantIs
  <1> HIDE DEF m
  <1>2. Built(Stems(kind), e) = SetAll(Stems(kind), Listing(m))
    <2> DEFINE a == Ascending(DOMAIN e)
    <2>1. DOMAIN e \in SUBSET Int /\ IsFiniteSet(DOMAIN e)
      BY <1>1, ByteFacts
    <2>2. \A i \in 1 .. Len(a) : a[i] \in DOMAIN e
      BY <2>1, AscendingIs
    <2> HIDE DEF a
    <2>3. [i \in 1 .. Len(a) |-> <<a[i], Handle(e[a[i]], a[i])>>] = [i \in 1 .. Len(a) |-> <<a[i], m[a[i]]>>]
      BY <1>1, <2>2
    <2> QED
      BY <1>1, <2>3 DEF Built, Listing, a
  <1>3. Fits(kind, m)
    BY <1>1 DEF Fits, Cnodes
  <1>4. Fresh(kind) = Stems(kind) /\ kind \in Kinds
    BY DEF Fresh, Kinds
  <1>5. Holds(SetAll(Fresh(kind), Listing(m)), m) /\ SetAll(Fresh(kind), Listing(m)).kind = kind
    BY <1>1, <1>3, <1>4, FillHolds
  <1> QED
    BY <1>2, <1>4, <1>5 DEF m

LEMMA PairCount ==
  ASSUME NEW a, NEW b
  PROVE  Cardinality({a, b}) <= 2 /\ Cardinality({a, b}) \in Nat
  <1>1. IsFiniteSet({a}) /\ Cardinality({a}) = 1
    BY FS_Singleton
  <1>2. {a, b} = {a} \cup {b}
    OBVIOUS
  <1>3. Cardinality({a} \cup {b}) = IF b \in {a} THEN Cardinality({a}) ELSE Cardinality({a}) + 1
    BY <1>1, FS_AddElement
  <1> QED
    BY <1>1, <1>2, <1>3

\* The stems of what moves out of the line stay where they are.
LEMMA MovedOut ==
  ASSUME NEW s, NEW m, StemsHold(s, m), NEW b \in DOMAIN m, NEW r, r = Externalize(s, IndexOf(s, b))
  PROVE  StemsHold(r, m) /\ r.kind = s.kind /\ IndexOf(r, b) \notin r.inl
  <1> DEFINE i == IndexOf(s, b)
             j == IndexOf(r, b)
  <1>1. b \in Byte
    BY DEF StemsHold, Carries, EdgeMap
  <1>2. StemsHold(r, m) /\ r.kind = s.kind /\ Count(r) = Count(s) /\ i \notin r.inl
    BY ExternalizeHolds
  <1>3. i \in 0 .. Count(s) - 1 /\ s.bytes[i + 1] = b
    BY <1>1, StemsFind
  <1>4. j \in 0 .. Count(s) - 1 /\ r.bytes[j + 1] = b
    BY <1>1, <1>2, StemsFind
  <1>5. /\ \A x \in 1 .. Count(s) : Ascending(DOMAIN m)[x] = s.bytes[x]
        /\ \A x \in 1 .. Count(s) : Ascending(DOMAIN m)[x] = r.bytes[x]
    BY <1>2, StemsCount
  <1>6. Count(s) \in Nat /\ \A x, y \in 1 .. Count(s) : x < y => s.bytes[x] < s.bytes[y]
    BY SortedIs DEF StemsHold, Sorted
  <1>7. \A x \in 1 .. Count(s) : s.bytes[x] \in Int
    BY SortedIs, ByteFacts DEF StemsHold
  <1> HIDE DEF i, j
  <1>8. i + 1 \in 1 .. Count(s) /\ j + 1 \in 1 .. Count(s) /\ i \in Int /\ j \in Int
    BY <1>3, <1>4, <1>6
  <1>9. s.bytes[j + 1] = b
    BY <1>4, <1>5, <1>8
  <1>10. ~(i + 1 < j + 1) /\ ~(j + 1 < i + 1)
    BY <1>3, <1>6, <1>7, <1>8, <1>9
  <1>11. i = j
    BY <1>8, <1>10
  <1> QED
    BY <1>2, <1>11 DEF j

-----------------------------------------------------------------------------
(* The rungs of the ladder.                                                *)

Start(r) == IF HasStems(r) THEN ExternalizeAll(r) ELSE r
Climb(r, lad, f) == f = [i \in 0 .. 4 |-> IF i = 0 THEN Start(r) ELSE Wider(f[i - 1], lad)]

LEMMA ClimbExists ==
  ASSUME NEW r, NEW lad
  PROVE  \E f : Climb(r, lad, f)
  <1> DEFINE next(y) == Wider(y, lad)
             z == Start(r)
             f == [i \in 0 .. 4 |-> IF i = 0 THEN z ELSE IF i = 1 THEN next(z)
                                    ELSE IF i = 2 THEN next(next(z)) ELSE IF i = 3 THEN next(next(next(z)))
                                    ELSE next(next(next(next(z))))]
  <1> HIDE DEF next, z
  <1>1. /\ f[0] = z /\ f[1] = next(z) /\ f[2] = next(next(z)) /\ f[3] = next(next(next(z)))
        /\ f[4] = next(next(next(next(z))))
    OBVIOUS
  <1>2. f = [i \in 0 .. 4 |-> f[i]]
    OBVIOUS
  <1> HIDE DEF f
  <1>3. \A i \in 0 .. 4 : f[i] = IF i = 0 THEN z ELSE next(f[i - 1])
    <2> TAKE i \in 0 .. 4
    <2>1. i = 0 \/ (i = 1 /\ i - 1 = 0) \/ (i = 2 /\ i - 1 = 1) \/ (i = 3 /\ i - 1 = 2) \/ (i = 4 /\ i - 1 = 3)
      OBVIOUS
    <2> QED
      BY <1>1, <2>1
  <1>4. f = [i \in 0 .. 4 |-> IF i = 0 THEN z ELSE next(f[i - 1])]
    BY <1>2, <1>3
  <1> QED
    BY <1>4 DEF Climb, next, z

\* Every rung carries the edges, and the last one has room for one more.
Good(r, m) == Holds(r, m) /\ r.kind \in Kinds \ {"u16"} /\ (HasStems(r) => r.inl = {})
LEMMA RungIs ==
  ASSUME NEW m, Holds(router, m), router.kind # "u16", NEW b \in Byte
  PROVE  \E k \in 0 .. 4 : /\ DOMAIN Rung(b) = 0 .. k /\ Cardinality(DOMAIN Rung(b)) = k + 1
                           /\ \A i \in 0 .. k : Good(Rung(b)[i], m)
                           /\ Room(Rung(b)[k].kind, m, b)
  <1> DEFINE F == CHOOSE f : Climb(router, ladder, f)
             ok(i) == TrySet(F[i], b, LeafAt(b)).ok
             first(i) == ok(i) /\ \A x \in 0 .. i - 1 : ~ok(x)
             k == CHOOSE i \in 0 .. 4 : first(i)
             G(i) == Good(F[i], m) /\ Level(F[i].kind) >= i
  <1>1. Climb(router, ladder, F)
    BY ClimbExists
  <1>2. Rung(b) = [i \in 0 .. k |-> F[i]]
    BY DEF Rung, Climb, Start
  <1> HIDE DEF F
  <1>3. /\ F[0] = Start(router) /\ F[1] = Wider(F[0], ladder) /\ F[2] = Wider(F[1], ladder)
        /\ F[3] = Wider(F[2], ladder) /\ F[4] = Wider(F[3], ladder)
    BY <1>1 DEF Climb
  <1>4. G(0)
    <2>1. CASE HasStems(router)
      <3> DEFINE e == ExternalizeAll(router)
      <3>1. StemsHold(router, m) /\ router.kind = "set"
        BY <2>1, KindsAre DEF Holds
      <3>2. StemsHold(e, m) /\ e.kind = "set" /\ e.inl = {}
        BY <3>1, ExternalizeAllHolds
      <3>3. F[0] = e
        BY <1>3, <2>1 DEF Start
      <3> HIDE DEF e
      <3>4. Holds(e, m)
        BY <3>2, KindsAre DEF Holds
      <3> QED
        BY <3>2, <3>3, <3>4, LevelIs DEF Good, Kinds
    <2>2. CASE ~HasStems(router)
      <3>1. F[0] = router
        BY <1>3, <2>2 DEF Start
      <3>2. router.kind \in Kinds \ {"u16"}
        BY KindsAre DEF Holds, Kinds, Cnodes
      <3>3. Level(router.kind) >= 0
        BY <3>2, LevelIs
      <3> QED
        BY <2>2, <3>1, <3>2, <3>3 DEF Good
    <2> QED
      BY <2>1, <2>2
  <1>5. \A i \in 0 .. 4 : G(i) => (ok(i) <=> Room(F[i].kind, m, b))
    BY TrySetOk DEF Good
  <1>6. ASSUME NEW i \in 0 .. 3, G(i), ~ok(i), F[i + 1] = Wider(F[i], ladder)
        PROVE  G(i + 1)
    <2> DEFINE r == F[i]
               w == Wider(r, ladder)
    <2>1. Holds(r, m) /\ r.kind \in Kinds \ {"u16"} /\ Level(r.kind) >= i
      BY <1>6 DEF Good
    <2>2. ~Room(r.kind, m, b)
      BY <1>5, <1>6
    <2>3. r.kind # "full" /\ r.kind # "u16"
      BY <2>1, <2>2 DEF Room
    <2>4. /\ Holds(w, m) /\ w.kind \in Kinds \ {"set", "u16"} /\ Level(w.kind) >= Level(r.kind) + 1
      <3> HIDE DEF r
      <3> QED
        BY <2>1, <2>3, WiderHolds
    <2>5. Level(r.kind) \in Int /\ Level(w.kind) \in Int
      BY <2>1, <2>4, LevelIs
    <2>6. F[i + 1] = w
      BY <1>6
    <2> HIDE DEF r, w
    <2>7. Level(w.kind) >= i + 1
      BY <2>1, <2>4, <2>5
    <2>8. ~HasStems(w)
      BY <2>4, KindsAre
    <2> QED
      BY <2>4, <2>6, <2>7, <2>8 DEF Good
  <1> HIDE DEF ok
  <1>7. /\ ~ok(0) => G(1) /\ (~ok(0) /\ ~ok(1) => G(2)) /\ (~ok(0) /\ ~ok(1) /\ ~ok(2) => G(3))
        /\ (~ok(0) /\ ~ok(1) /\ ~ok(2) /\ ~ok(3) => G(4))
    <2> HIDE DEF G
    <2>1. /\ 0 + 1 = 1 /\ 1 + 1 = 2 /\ 2 + 1 = 3 /\ 3 + 1 = 4
          /\ 0 \in 0 .. 3 /\ 1 \in 0 .. 3 /\ 2 \in 0 .. 3 /\ 3 \in 0 .. 3
      OBVIOUS
    <2> QED
      BY <1>3, <1>4, <1>6, <2>1
  <1>8. G(4) => ok(4)
    <2>1. G(4) => Level(F[4].kind) = 4
      BY LevelIs DEF Good
    <2>2. G(4) => F[4].kind = "full"
      BY <2>1, LevelIs DEF Good
    <2>3. G(4) => Room(F[4].kind, m, b)
      BY <2>2 DEF Room
    <2>4. 4 \in 0 .. 4
      OBVIOUS
    <2> HIDE DEF G
    <2> QED
      BY <1>5, <2>3, <2>4
  <1> HIDE DEF G
  <1>9. \E i \in 0 .. 4 : first(i)
    <2>1. \A i \in 0 .. 4 : \A x \in 0 .. i - 1 : x = 0 \/ x = 1 \/ x = 2 \/ x = 3
      OBVIOUS
    <2>2. /\ \A x \in 0 .. 0 - 1 : FALSE
          /\ \A x \in 0 .. 1 - 1 : x = 0
          /\ \A x \in 0 .. 2 - 1 : x = 0 \/ x = 1
          /\ \A x \in 0 .. 3 - 1 : x = 0 \/ x = 1 \/ x = 2
          /\ \A x \in 0 .. 4 - 1 : x = 0 \/ x = 1 \/ x = 2 \/ x = 3
      OBVIOUS
    <2>3. CASE ok(0)
      BY <2>2, <2>3
    <2>4. CASE ~ok(0) /\ ok(1)
      BY <2>2, <2>4
    <2>5. CASE ~ok(0) /\ ~ok(1) /\ ok(2)
      BY <2>2, <2>5
    <2>6. CASE ~ok(0) /\ ~ok(1) /\ ~ok(2) /\ ok(3)
      BY <2>2, <2>6
    <2>7. CASE ~ok(0) /\ ~ok(1) /\ ~ok(2) /\ ~ok(3)
      <3>1. ok(4)
        BY <1>7, <1>8, <2>7
      <3> QED
        BY <2>2, <2>7, <3>1
    <2> QED
      BY <2>3, <2>4, <2>5, <2>6, <2>7
  <1>10. k \in 0 .. 4 /\ first(k)
    BY <1>9
  <1> HIDE DEF k
  <1>11. \A i \in 0 .. k : G(i)
    <2> TAKE i \in 0 .. k
    <2>1. k \in 0 .. 4 /\ \A x \in 0 .. k - 1 : ~ok(x)
      BY <1>10
    <2>2. \A x \in 0 .. i - 1 : ~ok(x)
      BY <2>1
    <2>3. CASE i = 0
      BY <1>4, <2>3
    <2>4. CASE i = 1
      <3>1. ~ok(0)
        BY <2>2, <2>4
      <3> QED
        BY <1>7, <2>4, <3>1
    <2>5. CASE i = 2
      <3>1. ~ok(0) /\ ~ok(1)
        BY <2>2, <2>5
      <3> QED
        BY <1>7, <2>5, <3>1
    <2>6. CASE i = 3
      <3>1. ~ok(0) /\ ~ok(1) /\ ~ok(2)
        BY <2>2, <2>6
      <3> QED
        BY <1>7, <2>6, <3>1
    <2>7. CASE i = 4
      <3>1. ~ok(0) /\ ~ok(1) /\ ~ok(2) /\ ~ok(3)
        BY <2>2, <2>7
      <3> QED
        BY <1>7, <2>7, <3>1
    <2> QED
      BY <2>1, <2>3, <2>4, <2>5, <2>6, <2>7
  <1>12. DOMAIN Rung(b) = 0 .. k /\ \A i \in 0 .. k : Rung(b)[i] = F[i]
    BY <1>2
  <1>13. Cardinality(0 .. k) = k + 1
    <2>1. k \in Int /\ 0 \in Int /\ ~(0 > k)
      BY <1>10
    <2>2. Cardinality(0 .. k) = IF 0 > k THEN 0 ELSE k - 0 + 1
      BY <2>1, FS_Interval
    <2> QED
      BY <2>1, <2>2
  <1>14. Room(F[k].kind, m, b)
    <2>1. k \in 0 .. k
      BY <1>10
    <2> QED
      BY <1>5, <1>10, <1>11, <2>1
  <1>15. \A i \in 0 .. k : Good(Rung(b)[i], m)
    BY <1>11, <1>12 DEF G
  <1>16. Room(Rung(b)[k].kind, m, b)
    <2>1. k \in 0 .. k
      BY <1>10
    <2> QED
      BY <1>12, <1>14, <2>1
  <1> QED
    BY <1>10, <1>12, <1>13, <1>15, <1>16

\* What is always so: the edges are leaves and nodes below the bytes in use, and the
\* router, whatever its format, carries just them.
RouterInv ==
  /\ EdgeKinds(edges)
  /\ Live => Holds(router, MeantOf(edges))

\* A find tells whether there is an edge.
LEMMA EdgeFound ==
  ASSUME RouterInv, Live, NEW b \in Used
  PROVE  /\ b \in Byte /\ DOMAIN MeantOf(edges) = DOMAIN edges
         /\ RouterFind(router, b) = NoEdge <=> b \notin DOMAIN MeantOf(edges)
  <1> DEFINE m == MeantOf(edges)
  <1>1. b \in Byte /\ Holds(router, m) /\ DOMAIN m = DOMAIN edges /\ EdgeMap(m)
    BY RouterAssumption, MeantIs DEF RouterInv
  <1> HIDE DEF m
  <1>2. RouterFind(router, b) = Slot(m, b)
    BY <1>1, AnyReads
  <1>3. b \in DOMAIN m => m[b] # NoEdge
    BY <1>1 DEF EdgeMap, Ext, NoEdge
  <1>4. RouterFind(router, b) = NoEdge <=> b \notin DOMAIN m
    BY <1>2, <1>3 DEF Slot
  <1> QED
    BY <1>1, <1>4 DEF m

\* The edges with one more, or one less.
LEMMA EdgesMoved ==
  ASSUME NEW b, NEW kind
  PROVE  With(b, kind) = Put2(edges, b, kind) /\ Without(b) = Less2(edges, b)
  BY DEF With, Without, Put2, Less2

LEMMA SplitKeeps ==
  ASSUME RouterInv, Split
  PROVE  RouterInv'
  <1>1. PICK a \in Used, b \in Used : \E e \in [{a, b} -> {"leaf", "node"}] :
               edges' = e /\ router' = Compact(Built(Stems("set"), e))
    BY DEF Split
  <1>2. PICK e \in [{a, b} -> {"leaf", "node"}] :
               edges' = e /\ router' = Compact(Built(Stems("set"), e))
    BY <1>1
  <1>3. EdgeKinds(e) /\ DOMAIN e = {a, b}
    BY <1>2 DEF EdgeKinds
  <1>4. Cardinality(DOMAIN e) <= CapOf("set")
    <2>1. Cardinality({a, b}) <= 2 /\ Cardinality({a, b}) \in Nat
      BY PairCount
    <2>2. SetCap >= 2 /\ SetCap \in Nat
      BY RouterAssumption, StemAssumption
    <2>3. Cardinality({a, b}) <= SetCap
      BY <2>1, <2>2
    <2> QED
      BY <1>3, <2>3 DEF CapOf
  <1> DEFINE r == Built(Stems("set"), e)
  <1>5. Holds(r, MeantOf(e)) /\ r.kind = "set"
    BY <1>3, <1>4, BuiltHolds
  <1> HIDE DEF r
  <1>6. StemsHold(r, MeantOf(e)) /\ HasStems(r)
    BY <1>5, KindsAre DEF Holds
  <1>7. StemsHold(Compact(r), MeantOf(e)) /\ Compact(r).kind = "set"
    BY <1>5, <1>6, CompactHolds
  <1>8. Holds(Compact(r), MeantOf(e))
    BY <1>7, KindsAre DEF Holds
  <1>9. edges' = e /\ router' = Compact(r)
    BY <1>2 DEF r
  <1> QED
    BY <1>3, <1>8, <1>9 DEF RouterInv

LEMMA FuseKeeps ==
  ASSUME RouterInv, Fuse
  PROVE  RouterInv'
  <1>1. PICK a \in Used, b \in Used : \E e \in [{a, b} -> {"leaf", "node"}] :
               /\ Cardinality({a, b}) <= FuseThresh
               /\ edges' = e /\ router' = Built(Stems("u16"), e)
    BY DEF Fuse
  <1>2. PICK e \in [{a, b} -> {"leaf", "node"}] :
               /\ Cardinality({a, b}) <= FuseThresh
               /\ edges' = e /\ router' = Built(Stems("u16"), e)
    BY <1>1
  <1>3. EdgeKinds(e) /\ DOMAIN e = {a, b}
    BY <1>2 DEF EdgeKinds
  <1>4. Cardinality(DOMAIN e) <= CapOf("u16")
    <2>1. Cardinality({a, b}) \in Nat
      BY PairCount
    <2>2. Cardinality({a, b}) <= U16Cap
      BY <1>2, <2>1, RouterAssumption, StemAssumption
    <2> QED
      BY <1>3, <2>2 DEF CapOf
  <1>5. Holds(Built(Stems("u16"), e), MeantOf(e))
    BY <1>3, <1>4, BuiltHolds
  <1> QED
    BY <1>2, <1>3, <1>5 DEF RouterInv

LEMMA RestrideKeeps ==
  ASSUME Restride
  PROVE  RouterInv'
  <1>1. router' = Gone /\ edges' = <<>>
    BY DEF Restride
  <1>2. EdgeKinds(<<>>)
    BY DEF EdgeKinds
  <1>3. ~Live'
    BY <1>1 DEF Live, Gone
  <1> QED
    BY <1>1, <1>2, <1>3 DEF RouterInv

\* The step that all insertions end with: a router that carries the edges takes one more.
LEMMA TakesEdge ==
  ASSUME RouterInv, NEW r, Holds(r, MeantOf(edges)), NEW b \in Used, NEW kind \in {"leaf", "node"},
         Room(r.kind, MeantOf(edges), b),
         HasStems(r) /\ b \in DOMAIN MeantOf(edges) => IndexOf(r, b) \notin r.inl,
         HasStems(r) /\ b \notin DOMAIN MeantOf(edges) => r.inl = {},
         router' = TrySet(r, b, Handle(kind, b)).router, edges' = With(b, kind)
  PROVE  RouterInv'
  <1> DEFINE m == MeantOf(edges)
             h == Handle(kind, b)
             e == Put2(edges, b, kind)
  <1>1. EdgeKinds(edges)
    BY DEF RouterInv
  <1>2. EdgeKinds(e) /\ MeantOf(e) = Put(m, b, h) /\ h \in Ext /\ b \in Byte
    BY <1>1, MeantMoves
  <1>3. edges' = e
    BY EdgesMoved
  <1>4. /\ Holds(r, m) /\ Room(r.kind, m, b) /\ router' = TrySet(r, b, h).router
        /\ HasStems(r) /\ b \in DOMAIN m => IndexOf(r, b) \notin r.inl
        /\ HasStems(r) /\ b \notin DOMAIN m => r.inl = {}
    OBVIOUS
  <1> HIDE DEF m, h, e
  <1>5. Holds(TrySet(r, b, h).router, Put(m, b, h))
    BY <1>2, <1>4, TrySetHolds
  <1>6. Holds(router', MeantOf(e))
    BY <1>2, <1>4, <1>5
  <1> QED
    BY <1>2, <1>3, <1>6 DEF RouterInv

LEMMA GrowKeeps ==
  ASSUME RouterInv, NEW b \in Used, NEW kind \in {"leaf", "node"}, Grow(b, kind)
  PROVE  RouterInv'
  <1> DEFINE m == MeantOf(edges)
  <1>1. Live /\ router.kind # "u16" /\ RouterFind(router, b) = NoEdge
    BY DEF Grow
  <1>2. b \in Byte /\ b \notin DOMAIN m /\ Holds(router, m)
    BY <1>1, EdgeFound DEF RouterInv
  <1>3. PICK k \in 0 .. 4 : /\ DOMAIN Rung(b) = 0 .. k /\ Cardinality(DOMAIN Rung(b)) = k + 1
                            /\ \A i \in 0 .. k : Good(Rung(b)[i], m)
                            /\ Room(Rung(b)[k].kind, m, b)
    BY <1>1, <1>2, RungIs
  <1> DEFINE r == Rung(b)[k]
  <1>4. Cardinality(DOMAIN Rung(b)) - 1 = k
    BY <1>3
  <1>5. router' = TrySet(r, b, Handle(kind, b)).router /\ edges' = With(b, kind)
    BY <1>4 DEF Grow
  <1>6. k \in 0 .. k
    OBVIOUS
  <1>7. Good(r, m) /\ Room(r.kind, m, b)
    BY <1>3, <1>6
  <1> HIDE DEF r
  <1>8. /\ Holds(r, m) /\ Room(r.kind, m, b)
        /\ HasStems(r) /\ b \in DOMAIN m => IndexOf(r, b) \notin r.inl
        /\ HasStems(r) /\ b \notin DOMAIN m => r.inl = {}
    BY <1>2, <1>7 DEF Good
  <1> QED
    BY <1>5, <1>8, TakesEdge

\* A throw leaves the edges as they were, in the line or out of it, whatever rung it was at.
LEMMA GrowThrowsKeeps ==
  ASSUME RouterInv, NEW b \in Used, GrowThrows(b)
  PROVE  RouterInv'
  <1> DEFINE m == MeantOf(edges)
  <1>1. Live /\ router.kind # "u16" /\ RouterFind(router, b) = NoEdge /\ edges' = edges
    BY DEF GrowThrows
  <1>2. b \in Byte /\ Holds(router, m) /\ EdgeKinds(edges)
    BY <1>1, EdgeFound DEF RouterInv
  <1>3. CASE /\ router.kind = "set"
             /\ \E n \in 0 .. Cardinality(router.inl) : router' = ExternalizeSome(router, n)
    <2>1. PICK n \in 0 .. Cardinality(router.inl) : router' = ExternalizeSome(router, n)
      BY <1>3
    <2>2. StemsHold(router, m)
      BY <1>2, <1>3, KindsAre DEF Holds
    <2>3. StemsHold(router', m) /\ router'.kind = "set"
      BY <1>3, <2>1, <2>2, ExternalizeSomeHolds
    <2>4. HasStems(router')
      BY <2>3 DEF HasStems
    <2>5. Holds(router', m)
      BY <2>3, <2>4 DEF Holds
    <2> QED
      BY <1>1, <1>2, <2>5 DEF RouterInv
  <1>4. CASE \E i \in 0 .. Cardinality(DOMAIN Rung(b)) - 2 : router' = Rung(b)[i]
    <2>1. PICK k \in 0 .. 4 : /\ DOMAIN Rung(b) = 0 .. k /\ Cardinality(DOMAIN Rung(b)) = k + 1
                              /\ \A i \in 0 .. k : Good(Rung(b)[i], m)
                              /\ Room(Rung(b)[k].kind, m, b)
      BY <1>1, <1>2, RungIs
    <2>2. PICK i \in 0 .. Cardinality(DOMAIN Rung(b)) - 2 : router' = Rung(b)[i]
      BY <1>4
    <2>3. i \in 0 .. k
      BY <2>1, <2>2
    <2>4. Holds(router', m)
      BY <2>1, <2>2, <2>3 DEF Good
    <2> QED
      BY <1>1, <1>2, <2>4 DEF RouterInv
  <1> QED
    BY <1>3, <1>4 DEF GrowThrows

LEMMA GrowWideKeeps ==
  ASSUME RouterInv, NEW b \in Used, NEW kind \in {"leaf", "node"}, GrowWide(b, kind)
  PROVE  RouterInv'
  <1> DEFINE m == MeantOf(edges)
  <1>1. /\ router.kind = "u16" /\ RouterFind(router, b) = NoEdge /\ Count(router) < U16Cap
        /\ router' = TrySet(router, b, Handle(kind, b)).router /\ edges' = With(b, kind)
    BY DEF GrowWide
  <1>2. Live
    BY <1>1 DEF Live
  <1>3. b \in Byte /\ b \notin DOMAIN m /\ Holds(router, m)
    BY <1>1, <1>2, EdgeFound DEF RouterInv
  <1>4. StemsHold(router, m)
    BY <1>1, <1>3, KindsAre DEF Holds
  <1> HIDE DEF m
  <1>5. router.inl = {} /\ Cardinality(DOMAIN m) = Count(router)
    BY <1>1, <1>4, StemsCount DEF StemsHold, Tailed
  <1>6. Room(router.kind, m, b)
    BY <1>1, <1>5 DEF Room, CapOf
  <1> QED
    BY <1>1, <1>3, <1>5, <1>6, TakesEdge DEF m

LEMMA DescendKeeps ==
  ASSUME RouterInv, NEW b \in Used, NEW kind \in {"leaf", "node"}, Descend(b, kind)
  PROVE  RouterInv'
  <1> DEFINE m == MeantOf(edges)
             r == IF HasStems(router) THEN Externalize(router, IndexOf(router, b)) ELSE router
  <1>1. /\ Live /\ RouterFind(router, b) # NoEdge
        /\ router' = TrySet(r, b, Handle(kind, b)).router /\ edges' = With(b, kind)
    BY DEF Descend
  <1>2. b \in Byte /\ b \in DOMAIN m /\ Holds(router, m)
    BY <1>1, EdgeFound DEF RouterInv
  <1>3. Room(r.kind, m, b)
    BY <1>2 DEF Room
  <1>4. CASE HasStems(router)
    <2>1. StemsHold(router, m) /\ r = Externalize(router, IndexOf(router, b))
      BY <1>2, <1>4, KindsAre DEF Holds
    <2> HIDE DEF r, m
    <2>2. StemsHold(r, m) /\ r.kind = router.kind /\ IndexOf(r, b) \notin r.inl
      BY <1>2, <2>1, MovedOut
    <2>3. HasStems(r)
      BY <1>4, <2>2 DEF HasStems
    <2>4. Holds(r, m)
      BY <2>2, <2>3 DEF Holds
    <2> QED
      BY <1>1, <1>2, <1>3, <2>2, <2>4, TakesEdge DEF m
  <1>5. CASE ~HasStems(router)
    <2>1. r = router
      BY <1>5
    <2>2. Holds(r, m) /\ ~HasStems(r)
      BY <1>2, <1>5, <2>1
    <2> HIDE DEF r
    <2> QED
      BY <1>1, <1>2, <1>3, <2>2, TakesEdge
  <1> QED
    BY <1>4, <1>5

\* A sparse router goes back into a setlist; the last edge takes the router with it.
LEMMA ShrunkHolds ==
  ASSUME NEW r, NEW m, Holds(r, m)
  PROVE  Shrunk(r) = Gone \/ Holds(Shrunk(r), m)
  <1>1. CASE NBranch(r) <= ShrinkMax
    <2>1. 0 \in Byte
      BY ByteFacts DEF Byte
    <2>2. NBranch(r) = Cardinality(DOMAIN m)
      BY <2>1, AnyReads
    <2>3. EdgeMap(m) /\ Cardinality(DOMAIN m) \in Nat
      BY HoldsMap
    <2>4. Cardinality(DOMAIN m) <= SetCap
      BY <1>1, <2>2, <2>3, RouterAssumption, StemAssumption
    <2>5. Fits("set", m) /\ Fresh("set") = Stems("set") /\ "set" \in Kinds
      BY <2>3, <2>4, StemsFit DEF Fresh, Kinds
    <2>6. Holds(Rebuilt(r, Fresh("set")), m)
      BY <2>5, RebuiltHolds
    <2> QED
      BY <2>5, <2>6 DEF Shrunk
  <1>2. CASE ~(NBranch(r) <= ShrinkMax)
    BY <1>2 DEF Shrunk
  <1> QED
    BY <1>1, <1>2

LEMMA RemoveKeeps ==
  ASSUME RouterInv, NEW b \in Used, RemoveBelow(b)
  PROVE  RouterInv'
  <1> DEFINE m == MeantOf(edges)
             r == RouterRemove(router, b)
             e == Less2(edges, b)
  <1>1. /\ Live /\ RouterFind(router, b) # NoEdge /\ edges' = Without(b)
        /\ router' = Shrunk(r) \/ router' = r
    BY DEF RemoveBelow
  <1>2. b \in DOMAIN m /\ Holds(router, m) /\ EdgeKinds(edges)
    BY <1>1, EdgeFound DEF RouterInv
  <1>3. EdgeKinds(e) /\ MeantOf(e) = Less(m, b) /\ edges' = e
    BY <1>1, <1>2, MeantMoves, EdgesMoved
  <1>4. Holds(r, Less(m, b))
    BY <1>2, RemoveHolds
  <1> HIDE DEF m, r, e
  <1>5. Shrunk(r) = Gone \/ Holds(Shrunk(r), Less(m, b))
    BY <1>4, ShrunkHolds
  <1>6. router' = Gone \/ Holds(router', MeantOf(e))
    BY <1>1, <1>3, <1>4, <1>5
  <1>7. router' = Gone => ~Live'
    BY DEF Live, Gone
  <1> QED
    BY <1>3, <1>6, <1>7 DEF RouterInv

-----------------------------------------------------------------------------
(* The theorems.                                                           *)

LEMMA RouterInit ==
  ASSUME Init
  PROVE  RouterInv
  <1>1. router = Gone /\ edges = <<>>
    BY DEF Init
  <1>2. EdgeKinds(<<>>)
    BY DEF EdgeKinds
  <1> QED
    BY <1>1, <1>2 DEF RouterInv, Live, Gone

LEMMA RouterStep ==
  ASSUME RouterInv, [Next]_vars
  PROVE  RouterInv'
  <1>1. CASE Split
    BY <1>1, SplitKeeps
  <1>2. CASE Fuse
    BY <1>2, FuseKeeps
  <1>3. CASE Restride
    BY <1>3, RestrideKeeps
  <1>4. ASSUME NEW b \in Used, GrowThrows(b)
        PROVE  RouterInv'
    BY <1>4, GrowThrowsKeeps
  <1>5. ASSUME NEW b \in Used, RemoveBelow(b)
        PROVE  RouterInv'
    BY <1>5, RemoveKeeps
  <1>6. ASSUME NEW b \in Used, NEW kind \in {"leaf", "node"},
               Grow(b, kind) \/ GrowWide(b, kind) \/ Descend(b, kind)
        PROVE  RouterInv'
    BY <1>6, GrowKeeps, GrowWideKeeps, DescendKeeps
  <1>7. CASE UNCHANGED vars
    <2>1. router' = router /\ edges' = edges
      BY <1>7 DEF vars
    <2> QED
      BY <2>1 DEF RouterInv, Live
  <1> QED
    BY <1>1, <1>2, <1>3, <1>4, <1>5, <1>6, <1>7 DEF Next

\* Whatever splits, fusions, widenings, throws, descents, removals and shrinkings a
\* router went through, in whichever of its layouts (sorted stems, leaves in the line,
\* segments with bitmaps, lines of slots) it is now, its bytes carry exactly the edges
\* that were put there and not removed.
THEOREM RouterInvariant == Spec => []RouterInv
  <1>1. Init => RouterInv
    BY RouterInit
  <1>2. RouterInv /\ [Next]_vars => RouterInv'
    BY RouterStep
  <1> QED
    BY <1>1, <1>2, PTL DEF Spec

\* A find of any byte, the pad of the stems among them, returns the child put there last
\* or none, and the router's branch count is the number of its edges.
THEOREM RouterFindsEdges == Spec => []FindsEdges
  <1>1. RouterInv => FindsEdges
    <2> SUFFICES ASSUME RouterInv, Live
                 PROVE  /\ \A b \in Byte : RouterFind(router, b) = EdgeAt(b)
                        /\ NBranch(router) = Cardinality(DOMAIN edges)
      BY DEF FindsEdges
    <2> DEFINE m == MeantOf(edges)
    <2>1. /\ Holds(router, m) /\ DOMAIN m = DOMAIN edges
          /\ \A b \in DOMAIN edges : m[b] = Handle(edges[b], b)
      BY MeantIs DEF RouterInv
    <2> HIDE DEF m
    <2>2. ASSUME NEW b \in Byte
          PROVE  RouterFind(router, b) = EdgeAt(b)
      <3>1. RouterFind(router, b) = Slot(m, b)
        BY <2>1, AnyReads
      <3> QED
        BY <2>1, <3>1 DEF Slot, EdgeAt
    <2>3. NBranch(router) = Cardinality(DOMAIN edges)
      <3>1. 0 \in Byte
        BY ByteFacts DEF Byte
      <3> QED
        BY <2>1, <3>1, AnyReads
    <2> QED
      BY <2>2, <2>3
  <1> QED
    BY <1>1, RouterInvariant, PTL

\* From every byte the next edge is the nearest at or above it and the previous one the
\* nearest at or below it, and for_each visits the edges in ascending order, each once,
\* whatever the layout.
THEOREM RouterStepsInOrder == Spec => []StepsInOrder
  <1>1. RouterInv => StepsInOrder
    <2> SUFFICES ASSUME RouterInv, Live
                 PROVE  StepsInOrder
      BY DEF StepsInOrder
    <2> DEFINE m == MeantOf(edges)
    <2>1. /\ Holds(router, m) /\ DOMAIN m = DOMAIN edges /\ EdgeMap(m)
          /\ \A b \in DOMAIN edges : m[b] = Handle(edges[b], b)
      BY MeantIs DEF RouterInv
    <2> HIDE DEF m
    <2>2. \A b \in DOMAIN edges : m[b] = EdgeAt(b)
      BY <2>1 DEF EdgeAt
    <2>3. ASSUME NEW from \in Byte
          PROVE  LET up   == {x \in DOMAIN edges : x >= from}
                     down == {x \in DOMAIN edges : x <= from}
                 IN  /\ RouterNext(router, from) =
                          IF up = {} THEN NoStep
                          ELSE LET x == CHOOSE x \in up : \A y \in up : x <= y IN <<x, EdgeAt(x)>>
                     /\ RouterPrev(router, from) =
                          IF down = {} THEN NoStep
                          ELSE LET x == CHOOSE x \in down : \A y \in down : x >= y IN <<x, EdgeAt(x)>>
      <3> DEFINE up   == {x \in DOMAIN edges : x >= from}
                 down == {x \in DOMAIN edges : x <= from}
                 lo   == CHOOSE x \in up : \A y \in up : x <= y
                 hi   == CHOOSE x \in down : \A y \in down : x >= y
      <3>1. up = Above(m, from) /\ down = Below(m, from)
        BY <2>1 DEF Above, Below
      <3>2. lo = Min(up) /\ hi = Max(down)
        BY DEF Min, Max
      <3>3. up \subseteq DOMAIN edges /\ down \subseteq DOMAIN edges
        OBVIOUS
      <3> HIDE DEF up, down, lo, hi
      <3>4. RouterNext(router, from) = NextOf(m, from) /\ RouterPrev(router, from) = PrevOf(m, from)
        BY <2>1, AnyReads
      <3>5. (up # {} => Min(up) \in up) /\ (down # {} => Max(down) \in down)
        BY <2>1, <3>1, NearIs
      <3>6. RouterNext(router, from) = IF up = {} THEN NoStep ELSE <<lo, EdgeAt(lo)>>
        BY <2>2, <3>1, <3>2, <3>3, <3>4, <3>5 DEF NextOf
      <3>7. RouterPrev(router, from) = IF down = {} THEN NoStep ELSE <<hi, EdgeAt(hi)>>
        BY <2>2, <3>1, <3>2, <3>3, <3>4, <3>5 DEF PrevOf
      <3> QED
        BY <3>6, <3>7 DEF up, down, lo, hi
    <2>4. ForEach(router) = LET bs == Ascending(DOMAIN edges)
                            IN  [i \in 1 .. Len(bs) |-> <<bs[i], EdgeAt(bs[i])>>]
      <3> DEFINE bs == Ascending(DOMAIN edges)
      <3>1. 0 \in Byte
        BY ByteFacts DEF Byte
      <3>2. ForEach(router) = Listing(m)
        BY <2>1, <3>1, AnyReads
      <3>3. DOMAIN edges \in SUBSET Int /\ IsFiniteSet(DOMAIN edges)
        BY <2>1, ByteFacts DEF EdgeMap
      <3>4. \A i \in 1 .. Len(bs) : bs[i] \in DOMAIN edges
        BY <3>3, AscendingIs
      <3>5. Listing(m) = [i \in 1 .. Len(bs) |-> <<bs[i], m[bs[i]]>>]
        BY <2>1 DEF Listing
      <3> HIDE DEF bs
      <3>6. [i \in 1 .. Len(bs) |-> <<bs[i], m[bs[i]]>>] = [i \in 1 .. Len(bs) |-> <<bs[i], EdgeAt(bs[i])>>]
        BY <2>2, <3>4
      <3> QED
        BY <3>2, <3>5, <3>6 DEF bs
    <2> QED
      BY <2>3, <2>4 DEF StepsInOrder
  <1> QED
    BY <1>1, RouterInvariant, PTL

\* The leaves in a setlist's line lie above its branch array and below the end of the
\* line, aligned and apart, and the branches flagged as inline are exactly those whose
\* handle is a tail offset, each leading to a leaf: pulling leaves in, moving them out
\* one at a time with a throw in between, growing the branch array under them and
\* closing the gap a removed edge leaves never break it.
THEOREM RouterLineSound == Spec => []LineSound
  <1>1. RouterInv => LineSound
    <2> SUFFICES ASSUME RouterInv, Live, HasStems(router)
                 PROVE  LineSound
      BY DEF LineSound
    <2> DEFINE m == MeantOf(edges)
               at(i)  == Line - router.branch[i + 1].v
               end(i) == at(i) + LeafSize[Child(router, i).v]
    <2>1. StemsHold(router, m)
      BY KindsAre DEF RouterInv, Holds
    <2> HIDE DEF m
    <2>2. Sorted(router) /\ Tailed(router) /\ Apart(router)
      BY <2>1 DEF StemsHold
    <2>3. \A i : at(i) = Spot(router, i)
      BY DEF Spot
    <2>4. router.inl = {i \in 0 .. Count(router) - 1 : router.branch[i + 1].t = "inline"}
      BY <2>2 DEF Tailed, Ext, Inlined
    <2>5. ASSUME NEW i \in router.inl
          PROVE  InlineLeaf(router, i) # NoEdge
      <3>1. i \in 0 .. Count(router) - 1
        BY <2>2 DEF Tailed
      <3>2. Child(router, i) = InlineLeaf(router, i) /\ Child(router, i).t = "leaf"
        BY <2>2, <2>5, <3>1, ChildIs
      <3> QED
        BY <3>2 DEF NoEdge
    <2>6. ASSUME NEW i \in router.inl
          PROVE  /\ i < InlineMax
                 /\ at(i) >= BranchEnd(Count(router)) /\ at(i) % ValAlign = 0
                 /\ end(i) <= Line
                 /\ \A x \in router.inl : x < i => end(i) <= at(x)
      BY <2>2, <2>6 DEF Apart, Spot
    <2> QED
      BY <2>4, <2>5, <2>6 DEF LineSound
  <1> QED
    BY <1>1, RouterInvariant, PTL

=============================================================================
