----------------------------- MODULE MCBuckets -----------------------------
(* Small instances of Buckets. *)
EXTENDS Buckets

CONSTANTS v1, v2

Ones(n) == [i \in 1 .. n |-> 1]

\* Suffixes that tie in their padded stem, up to three in one page; three that
\* part below a two-byte prefix, more than one page holds at any depth, where the
\* router holds two edges; the last one fits no page at the root.
LoadTies ==
  ({<<>>, <<0>>, <<0, 0>>, <<0, 0, 0>> \o Ones(9), <<0, 0, 1>> \o Ones(9),
    <<0, 0, 2>> \o Ones(17)} \X {v1}) \cup {<<<<0>>, v2>>, <<<<0, 0>>, v2>>}

\* Below two routers of low fanout, five keys that share more bytes than a setlist
\* takes in line.  A page holds four of them, more than a setlist does: when the
\* fifth splits it, the router is widened and fused while it is rebuilt.
LoadFusing ==
  ({<<>>, <<0>>} \cup {<<0, 0, 1, 1, b>> : b \in 0 .. 4}) \X {v1}

InMode(m, pods, l) == {[mode |-> m, pod |-> p, load |-> l] : p \in pods}

AllSetups ==
  UNION {InMode(m, BOOLEAN, LoadTies) \cup InMode(m, {TRUE}, LoadFusing)
         : m \in {"buckets", "adaptive"}}
BucketSetups == InMode("buckets", {TRUE}, LoadTies)
FusingSetups == InMode("adaptive", {TRUE}, LoadFusing)

AllKeys == {kv[1] : kv \in LoadTies \cup LoadFusing}

\* What a call does depends on nothing else.
View == <<root, blocks, mode, pod, load>>
=============================================================================
