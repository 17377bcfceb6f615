----------------------------- MODULE MCOneRouter -----------------------------
(* A small instance of OneRouter: 32 bytes, words of 8 bits. *)
EXTENDS OneRouter

Caps == [k \in {"c2", "c4", "c8"} |-> 3]
\* Leaves of 2, 3 and 4 bytes, and one longer than the line.
Sizes == [b \in 0 .. 31 |-> IF b = 8 THEN 20 ELSE 2 + (b % 3)]
=============================================================================
