----------------------------- MODULE MCArtHeap -----------------------------
(* A small instance of ArtHeap. *)
EXTENDS ArtHeap

\* Every kind of divergence on a short path: inside a prefix, inside a suffix, at
\* the end of a key, and at a full router.
KeysFlat == {<<>>, <<0, 0>>, <<0, 0, 0>>, <<0, 0, 1>>, <<0, 0, 2>>, <<0, 1>>}

CnodeCap2 == [N \in {2, 4, 8} |-> 2]
=============================================================================
