---------------------------- MODULE MCTransport ----------------------------
(* A small instance of Transport. *)
EXTENDS Transport

CONSTANTS v1, v2

\* Three edges below a prefix, to node_full and back; a router with a term; a
\* term and a leaf with two values.
LoadsThree ==
  {{<<<<0, 0>>, v1>>, <<<<0, 1>>, v1>>, <<<<0, 2, 1>>, v1>>},
   {<<<<0>>, v1>>, <<<<0, 0>>, v1>>, <<<<0, 1, 0>>, v1>>},
   {<<<<0>>, v1>>, <<<<0, 0>>, v1>>, <<<<0, 0>>, v2>>}}
KeysThree == UNION {{kv[1] : kv \in l} : l \in LoadsThree}
CnodeCap2 == [N \in {2, 4, 8} |-> 2]
=============================================================================
