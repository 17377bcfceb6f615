----------------------------- MODULE OrderedKeys -----------------------------
(***************************************************************************)
(* What the ordered interface of artpp::map promises: encoded keys are in  *)
(* lexicographic order of unsigned bytes, and begin, ++, --, lower_bound   *)
(* and upper_bound name positions in the sorted set of the stored keys.    *)
(* Nothing here knows about nodes.                                         *)
(***************************************************************************)
EXTENDS Integers, Sequences

Past == <<-1>>          \* the position of end(): no key

\* Lexicographic order, a prefix before its extensions.
Less(a, b) ==
  \E c \in 0 .. Len(a) :
    /\ c <= Len(b) /\ SubSeq(a, 1, c) = SubSeq(b, 1, c)
    /\ IF c = Len(a) THEN c < Len(b) ELSE c < Len(b) /\ a[c + 1] < b[c + 1]

\* The first and the last of a set of keys, or Past when there is none.
FirstOf(S) == IF S = {} THEN Past ELSE CHOOSE a \in S : \A b \in S \ {a} : Less(a, b)
LastOf(S)  == IF S = {} THEN Past ELSE CHOOSE a \in S : \A b \in S \ {a} : Less(b, a)

From(S, k)  == {a \in S : ~Less(a, k)}     \* lower_bound's candidates
After(S, k) == {a \in S : Less(k, a)}      \* upper_bound's and the successors
Below(S, k) == {a \in S : Less(a, k)}      \* the predecessors

\* seq lists the keys of S in order, each once.
Lists(seq, S) ==
  /\ {seq[i] : i \in DOMAIN seq} = S
  /\ \A i \in 1 .. Len(seq) - 1 : Less(seq[i], seq[i + 1])
=============================================================================
