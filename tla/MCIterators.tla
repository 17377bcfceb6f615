---------------------------- MODULE MCIterators ----------------------------
(* Small instances of Iterators and Walks. *)
EXTENDS Walks

\* The empty key and a key that ends below the root make terms and undo the
\* fusion of two-byte stems; two keys with a long common prefix make prefix
\* nodes, with a short one routers that have a prefix.
KeysSeek   == {<<>>, <<0>>, <<0, 0, 0>>, <<0, 0, 1>>, <<0, 1>>}
ProbesSeek == KeysSeek \cup {<<1>>}

CnodeCap4 == [N \in {2, 4, 8} |-> 4]
FullSome  == {<<0>>, <<0, 1>>}
=============================================================================
