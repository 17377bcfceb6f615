------------------------------- MODULE MapSpec -------------------------------
(***************************************************************************)
(* What artpp::map promises its caller, independent of any node layout: a  *)
(* dictionary from encoded keys to values with insert (assign), emplace    *)
(* (insert only), update (assign only), remove, find and clear.  A call is *)
(* open until it returns; its effect happens in one indivisible step in    *)
(* between.  insert and emplace may instead throw (bad_alloc), and then    *)
(* the dictionary is exactly what it was before the call.                  *)
(***************************************************************************)
EXTENDS Integers

CONSTANTS Keys,    \* the encoded keys callers use
          Values   \* the mapped values

VARIABLES dict,    \* partial function Keys -> Values
          req,     \* the call being served: [op, key, val]
          phase,   \* "idle", "called" (no effect yet), "applied" (not returned)
          ret      \* the result of the call, "pending" until it is decided

absVars == <<dict, req, phase, ret>>

Ops     == {"insert", "emplace", "update", "remove", "find", "clear"}
Requests == [op : Ops, key : Keys, val : Values]

With(d, k, v)  == [x \in DOMAIN d \cup {k} |-> IF x = k THEN v ELSE d[x]]
Without(d, k)  == [x \in DOMAIN d \ {k} |-> d[x]]

\* The dictionary after request r is applied to d.
Effect(d, r) ==
  CASE r.op = "insert"                           -> With(d, r.key, r.val)
    [] r.op = "emplace" /\ r.key \notin DOMAIN d -> With(d, r.key, r.val)
    [] r.op = "update" /\ r.key \in DOMAIN d     -> With(d, r.key, r.val)
    [] r.op = "remove"                           -> Without(d, r.key)
    [] r.op = "clear"                            -> [x \in {} |-> 0]
    [] OTHER                                     -> d

\* What the call returns: inserted? / assigned? / removed?, or the value found.
Answer(d, r) ==
  CASE r.op \in {"insert", "emplace"} -> IF r.key \in DOMAIN d THEN "false" ELSE "true"
    [] r.op \in {"update", "remove"}  -> IF r.key \in DOMAIN d THEN "true" ELSE "false"
    [] r.op = "find"                  -> IF r.key \in DOMAIN d THEN d[r.key] ELSE "false"
    [] r.op = "clear"                 -> "true"

AbsInit ==
  /\ dict = [x \in {} |-> 0]
  /\ req \in Requests
  /\ phase = "idle"
  /\ ret = "pending"

Call ==
  /\ phase = "idle"
  /\ req' \in Requests
  /\ phase' = "called"
  /\ ret' = "pending"
  /\ UNCHANGED dict

Apply ==
  /\ phase = "called"
  /\ dict' = Effect(dict, req)
  /\ ret' = Answer(dict, req)
  /\ phase' \in {"applied", "idle"}
  /\ UNCHANGED req

Throw ==
  /\ phase = "called"
  /\ req.op \in {"insert", "emplace"}
  /\ ret' = "throw"
  /\ phase' = "idle"
  /\ UNCHANGED <<dict, req>>

Return ==
  /\ phase = "applied"
  /\ phase' = "idle"
  /\ UNCHANGED <<dict, req, ret>>

AbsNext == Call \/ Apply \/ Throw \/ Return

AbsSpec == AbsInit /\ [][AbsNext]_absVars
=============================================================================
