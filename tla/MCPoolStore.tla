---------------------------- MODULE MCPoolStore ----------------------------
(* Three keys: the map goes through leaf, node, in-place growth, collapse   *)
(* and prefix node, and its free lists get longer than one block.           *)
EXTENDS PoolStore
=============================================================================
