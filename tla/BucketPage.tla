----------------------------- MODULE BucketPage -----------------------------
(***************************************************************************)
(* One bucket page: an inline collector of (suffix, value) entries.  The   *)
(* page has Room bytes.  Its index grows from the start: n two-byte stems  *)
(* (div), sorted, then n entry offsets (slot).  The entries grow from the  *)
(* end towards it, in arrival order; an offset is a distance from the end. *)
(*                                                                         *)
(* A page is a value: [n, w, used, tail], w the words of the index (div in *)
(* 0 .. n-1, slot in n .. 2n-1), tail the set of entries [off, suf, val].  *)
(***************************************************************************)
EXTENDS Integers, Sequences, FiniteSets, TLC

CONSTANTS
  Room,      \* bytes of a page (PAGE - 4)
  PairCost,  \* bytes of a stem and its slot, 4
  HeadCost,  \* bytes of an entry before its suffix, sizeof(T) + 2
  Align      \* alignof(T)

ASSUME PageAssumption ==
  /\ {Room, PairCost, HeadCost, Align} \subseteq Nat \ {0}

LOCAL Ord  == INSTANCE OrderedKeys
LOCAL Sets == INSTANCE FiniteSetsExt

\* Slip: down.
RoundDown(x) == (x \div Align) * Align

Round(x) == ((x + Align - 1) \div Align) * Align

\* The first two bytes as a number, a missing one counted as 0.
Stem(s) == 256 * (IF Len(s) > 0 THEN s[1] ELSE 0) + (IF Len(s) > 1 THEN s[2] ELSE 0)

ESize(len)    == Round(HeadCost + len)
BktFits(len)  == PairCost + ESize(len) <= Room
BktFits2(a, b) == (PairCost + ESize(a)) + (PairCost + ESize(b)) <= Room

NewPage == [n |-> 0, w |-> <<>>, used |-> 0, tail |-> {}]

Word(p, i)    == p.w[i + 1]
SlotAt(p, i)  == Word(p, p.n + i)
EntryAt(p, i) == CHOOSE e \in p.tail : e.off = SlotAt(p, i)
Index(p)      == 0 .. p.n - 1

\* memmove of cnt words from src to dst.
Moved(w, dst, src, cnt) ==
  SubSeq(w, 1, dst) \o SubSeq(w, src + 1, src + cnt) \o SubSeq(w, dst + cnt + 1, Len(w))

-----------------------------------------------------------------------------
(* Finding a place.                                                        *)

\* bkt_lower: the number of stems below q.
StemLower(p, q) == Cardinality({i \in Index(p) : Word(p, i) < q})
SameStem(p, q)  == {i \in Index(p) : i >= StemLower(p, q) /\ Word(p, i) = q}

\* The position of suffix s in the index, or -1.
Locate(p, s) ==
  LET at == {i \in SameStem(p, Stem(s)) : EntryAt(p, i).suf = s}
  IN  IF at = {} THEN -1 ELSE CHOOSE i \in at : TRUE

\* Slip: behind the whole run.
PlaceBehind(p, s) == StemLower(p, Stem(s)) + Cardinality(SameStem(p, Stem(s)))

\* Where a new suffix goes: past the smaller ones of its run of equal stems.
Place(p, s) ==
  StemLower(p, Stem(s)) + Cardinality({i \in SameStem(p, Stem(s)) : Ord!Less(EntryAt(p, i).suf, s)})

-----------------------------------------------------------------------------
(* bkt_insert_entry and bkt_remove_entry.                                  *)

Free(p) == Room - PairCost * p.n - p.used

\* Make way for a stem and a slot at pos: the slots move first, for the stems
\* end where the slots begin.
Spread(p, pos) ==
  LET w == p.w \o <<0, 0>>
      a == Moved(w, p.n + 1 + pos + 1, p.n + pos, p.n - pos)
      b == Moved(a, p.n + 1, p.n, pos)
  IN  Moved(b, pos + 1, pos, p.n - pos)

Added(p, s, v) ==
  LET pos  == Place(p, s)
      used == p.used + ESize(Len(s))
  IN  [n |-> p.n + 1, used |-> used,
       tail |-> p.tail \cup {[off |-> used, suf |-> s, val |-> v]},
       w |-> [Spread(p, pos) EXCEPT ![pos + 1] = Stem(s), ![p.n + 1 + pos + 1] = used]]

WithValue(p, i, v) ==
  [p EXCEPT !.tail = {IF e.off = SlotAt(p, i) THEN [e EXCEPT !.val = v] ELSE e : e \in @}]

\* how: "inserted", "assigned", "kept" or "full" (the page is as before).
InsertEntry(p, s, v, assign) ==
  LET at == Locate(p, s)
  IN  CASE at >= 0 /\ assign  -> [how |-> "assigned",
                                  page |-> WithValue(p, at, v)]
        [] at >= 0 /\ ~assign -> [how |-> "kept", page |-> p]
        [] at < 0 /\ Free(p) < PairCost + ESize(Len(s)) -> [how |-> "full", page |-> p]
        [] at < 0 /\ Free(p) >= PairCost + ESize(Len(s)) ->
             [how |-> "inserted", page |-> Added(p, s, v)]

\* The entries below the hole (larger offsets) move up over it, and their slots
\* are corrected.
Shifted(p, pos, size) ==
  LET hole == SlotAt(p, pos)
  IN  [p EXCEPT !.tail = {IF e.off > hole THEN [e EXCEPT !.off = @ - size] ELSE e :
                            e \in {e \in @ : e.off # hole}},
                !.used = @ - size,
                !.w = [i \in DOMAIN @ |-> IF i > p.n /\ @[i] > hole THEN @[i] - size ELSE @[i]]]

\* Drop the stem and the slot at pos; what lies behind is no longer index.
Dropped(p, pos) ==
  LET a == Moved(p.w, pos, pos + 1, p.n - 1 - pos)
      b == Moved(a, p.n - 1, p.n, pos)
      c == Moved(b, p.n - 1 + pos, p.n + pos + 1, p.n - 1 - pos)
  IN  [p EXCEPT !.n = @ - 1, !.w = SubSeq(c, 1, 2 * (p.n - 1))]

\* The page rebuilt without the entry at pos, entries in index order (values
\* that must not be shifted by bytes).
RECURSIVE Rebuilt(_, _, _, _)
Rebuilt(p, pos, i, to) ==
  CASE i = p.n              -> to
    [] i = pos /\ i < p.n   -> Rebuilt(p, pos, i + 1, to)
    [] i # pos /\ i < p.n   ->
         LET e == EntryAt(p, i)
         IN  Rebuilt(p, pos, i + 1, InsertEntry(to, e.suf, e.val, TRUE).page)

\* A trivially copyable T is shifted in place, any other T moved to a new page.
RemovedAt(p, pos, pod) ==
  IF pod THEN Dropped(Shifted(p, pos, ESize(Len(EntryAt(p, pos).suf))), pos)
         ELSE Rebuilt(p, pos, 0, NewPage)

-----------------------------------------------------------------------------
(* What a page must be.                                                    *)

\* The bytes an entry really has, as distances from the end of the page.
Extent(e) == (e.off - (HeadCost + Len(e.suf)) + 1) .. e.off

PageSound(p) ==
  /\ Len(p.w) = 2 * p.n /\ Cardinality(p.tail) = p.n
  /\ {SlotAt(p, i) : i \in Index(p)} = {e.off : e \in p.tail}
  /\ \A i \in Index(p) : Word(p, i) = Stem(EntryAt(p, i).suf)
  /\ \A i \in 1 .. p.n - 1 : Ord!Less(EntryAt(p, i - 1).suf, EntryAt(p, i).suf)
  /\ \A e, f \in p.tail : e # f => Extent(e) \cap Extent(f) = {}
  /\ \A e \in p.tail : e.off % Align = 0 /\ Extent(e) \subseteq 1 .. p.used
  /\ p.used = Sets!MapThenSumSet(LAMBDA e : ESize(Len(e.suf)), p.tail)
  /\ p.used + PairCost * p.n <= Room
=============================================================================
