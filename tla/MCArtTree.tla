----------------------------- MODULE MCArtTree -----------------------------
(* Small instances of ArtTree. *)
EXTENDS ArtTree

\* Three bytes of one c8 segment (the whole ladder in one insert) and one of
\* the other c2 segment (a router that rests at c2), below a second router: deeper
\* than a path window of two levels.
KeysLadder == {<<0>>, <<0, 0>>, <<0, 1>>, <<0, 2>>, <<0, 12>>, <<1>>}

\* A chain of two-way routers, one per byte.
KeysChain == {<<0, 0, 0>>, <<0, 0, 1>>, <<0, 1>>, <<1>>}

CnodeCap2 == [N \in {2, 4, 8} |-> 2]
CnodeCap4 == [N \in {2, 4, 8} |-> 4]
=============================================================================
