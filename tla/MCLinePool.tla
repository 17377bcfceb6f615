----------------------------- MODULE MCLinePool -----------------------------
(* A region of nine units in chunks of four (the last unit cannot be used), *)
(* with one exact-size list and two sizes that share the huge list.        *)
EXTENDS LinePool
=============================================================================
