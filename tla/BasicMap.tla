------------------------------ MODULE BasicMap ------------------------------
(***************************************************************************)
(* The dictionary under the basic guarantee: what artpp::map promises in   *)
(* the bucket modes, where a split moves values and a throw may leave some *)
(* of them moved-from.  A call is asked for one key, and if it returns, it *)
(* has changed that key as asked and no other.  A call that throws changes *)
(* no key; every value is what it was or hollow.                           *)
(*                                                                         *)
(* Calls are relations between the dictionary d before and e after.        *)
(***************************************************************************)
CONSTANTS Keys, Values, NoVal, Hollow

VARIABLES dict, asked, ret

basicVars == <<dict, asked, ret>>

Requests  == [op : {"insert", "emplace"}, key : Keys, val : Values]
               \cup [op : {"remove"}, key : Keys, val : {NoVal}]
NoRequest == [op |-> "none"]

With(d, k, v) == [x \in DOMAIN d \cup {k} |-> IF x = k THEN v ELSE d[x]]
Without(d, k) == [x \in DOMAIN d \ {k} |-> d[x]]

\* One clause for each way a call can end.
Inserted(r, d, e) == /\ r.op \in {"insert", "emplace"} /\ r.key \notin DOMAIN d
                     /\ e = With(d, r.key, r.val)
Assigned(r, d, e) == r.op = "insert" /\ r.key \in DOMAIN d /\ e = With(d, r.key, r.val)
Kept(r, d, e)     == r.op = "emplace" /\ r.key \in DOMAIN d /\ e = d
Removed(r, d, e)  == r.op = "remove" /\ r.key \in DOMAIN d /\ e = Without(d, r.key)
Absent(r, d, e)   == r.op = "remove" /\ r.key \notin DOMAIN d /\ e = d
Thrown(r, d, e)   == /\ r.op \in {"insert", "emplace"} /\ DOMAIN e = DOMAIN d
                     /\ \A k \in DOMAIN d : e[k] \in {d[k], Hollow}

Call(r, d, e, out) ==
  \/ out = "inserted" /\ Inserted(r, d, e)
  \/ out = "assigned" /\ Assigned(r, d, e)
  \/ out = "kept"     /\ Kept(r, d, e)
  \/ out = "removed"  /\ Removed(r, d, e)
  \/ out = "absent"   /\ Absent(r, d, e)
  \/ out = "throw"    /\ Thrown(r, d, e)

BasicInit == dict = [x \in {} |-> Hollow] /\ asked = NoRequest /\ ret = "none"
BasicNext == asked' \in Requests /\ Call(asked', dict, dict', ret')
BasicSpec == BasicInit /\ [][BasicNext]_basicVars
=============================================================================
