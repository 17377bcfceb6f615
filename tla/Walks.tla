-------------------------------- MODULE Walks --------------------------------
(***************************************************************************)
(* for_each and for_each_value: recursive walks over the whole tree, which *)
(* call f once per terminal.  They are const and single-threaded, so a     *)
(* walk is a function of the tree that ArtTree reached.                    *)
(***************************************************************************)
EXTENDS Iterators

LOCAL Seqs == INSTANCE SequencesExt

InOrder(E)   == Seqs!SetToSortSeq(E, Ord!Less)
Concat(seqs) == Seqs!FlattenSeq(seqs)

\* Slip: two-byte routers are not walked into.
RECURSIVE VisitedValuesNoStems(_)
VisitedValuesNoStems(p) ==
  CASE IsLeaf(tree, p) -> <<p>>
    [] IsPn(tree, p)   -> VisitedValuesNoStems(At(tree, p))
    [] IsRouter(tree, p) ->
         (IF tree[p].term # NoVal THEN <<p>> ELSE <<>>)
           \o LET es == IF tree[p].kind = "u16" THEN <<>> ELSE InOrder(tree[p].edges)
              IN  Concat([i \in DOMAIN es |-> VisitedValuesNoStems(ChildOf(p, es[i]))])

\* The terminals walk_v_ visits below the node at p.
RECURSIVE VisitedValues(_)
VisitedValues(p) ==
  CASE IsLeaf(tree, p) -> <<p>>
    [] IsPn(tree, p)   -> VisitedValues(At(tree, p))
    [] IsRouter(tree, p) ->
         (IF tree[p].term # NoVal THEN <<p>> ELSE <<>>)
           \o LET es == InOrder(tree[p].edges)
              IN  Concat([i \in DOMAIN es |-> VisitedValues(ChildOf(p, es[i]))])

\* What walk_ makes of memory that is not a node_full: not determined.
Wild == <<MaxByte + 1>>

\* The keys walk_ reports below the node at p, reached with key bytes k.  It has
\* no case for u16: the default reads the handles of a node_full, all of which
\* would lie beyond the u16 router's one line.
RECURSIVE VisitedKeys(_, _)
VisitedKeys(p, k) ==
  LET cb == k \o tree[p].pfx
  IN  CASE IsLeaf(tree, p) -> <<IF Full(p) THEN KeyAt(tree, p) ELSE k \o tree[p].suf>>
        [] IsPn(tree, p)   -> VisitedKeys(At(tree, p), cb)
        [] IsRouter(tree, p) ->
             (IF tree[p].term # NoVal THEN <<cb>> ELSE <<>>)
               \o IF tree[p].kind = "u16" THEN <<Wild>>
                  ELSE LET es == InOrder(tree[p].edges)
                       IN  Concat([i \in DOMAIN es |->
                                     VisitedKeys(ChildOf(p, es[i]), cb \o es[i])])

-----------------------------------------------------------------------------
(* Properties.                                                             *)

\* for_each_value visits every value once, in key order.
ForEachValueInOrder ==
  pc = "idle" =>
    LET at == IF Empty THEN <<>> ELSE VisitedValues(<<>>)
    IN  Ord!Lists([i \in DOMAIN at |-> KeyAt(tree, at[i])], Stored)

\* for_each reports every key once, in order (README: "Recursive visitor
\* f(std::string_view key_bytes, const T&) in ascending order").
ForEachInOrder ==
  pc = "idle" => Ord!Lists(IF Empty THEN <<>> ELSE VisitedKeys(<<>>, <<>>), Stored)
=============================================================================
