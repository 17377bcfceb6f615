------------------------------ MODULE PoolStore ------------------------------
(***************************************************************************)
(* The life of a file-backed artpp::line_pool and the one map on it: open  *)
(* or reopen, construct or attach, insert and remove, checkpoint, detach,  *)
(* close; and the process may be killed at any point.                      *)
(*                                                                         *)
(* Both regions are mapped MAP_SHARED, so a write to a block is a write to *)
(* the file (mem), and survives the process; the carving state (frontier   *)
(* and free lists), root and count reach the file only in the superblock   *)
(* that checkpoint writes.  Pages that a machine crash loses are not       *)
(* modelled: the pool promises nothing about them.                         *)
(*                                                                         *)
(* A block is one unit (LinePool has the sizes).  The map is the radix     *)
(* tree over one-byte keys: a leaf, or one node over two leaves or more,   *)
(* which a lone leaf collapses to a prefix node.                           *)
(***************************************************************************)
EXTENDS Naturals, FiniteSets

CONSTANTS
  Keys,               \* one-byte keys
  Cap,                \* units in a region
  NIL,                \* 0xFFFFFFFF
  DetachesSaved,      \* the program detaches a checkpointed map before it destroys it
  AttachesSaved       \* ... and attaches only to an image it has checkpointed

ASSUME KeysAssumption == IsFiniteSet(Keys)
ASSUME CapAssumption == Cap \in Nat /\ Cap > Cardinality(Keys) + 1   \* the map always fits
ASSUME NILAssumption == NIL \notin Nat
ASSUME ProgramAssumption == {DetachesSaved, AttachesSaved} \subseteq BOOLEAN

VARIABLES
  stamp,      \* the nodes file: "absent", "zeros" (no magic yet) or "image"
  sb,         \* the superblock
  mem,        \* the blocks of both files
  proc,       \* what the process is doing
  frontier,   \* frontier_, tfrontier_
  head,       \* free_[1], tfree_[1]
  root,       \* the map's root_
  count,      \* ... and count_
  image,      \* history: what the superblock is worth
  saved,      \* history: the keys of the map at the last checkpoint
  leaked      \* history: a failed open left its files open and mapped

vars == <<stamp, sb, mem, proc, frontier, head, root, count, image, saved, leaked>>

Regions == {"nodes", "terms"}
Unit    == 0 .. Cap - 1
Link    == Unit \cup {NIL}

Handle == [tag : {"leaf", "node"}, u : Unit]
Null   == [tag |-> "null", u |-> 0]         \* all ones
Zero   == [tag |-> "leaf", u |-> 0]         \* raw 0: the tag value_ptr is 0

LeafCell(k)    == [kind |-> "leaf", key |-> k]
NodeCell(kids) == [kind |-> "node", kids |-> kids]
FreeCell(next) == [kind |-> "free", next |-> next]
Blank          == [kind |-> "blank"]
Cells == [kind : {"leaf"}, key : Keys] \cup [kind : {"free"}, next : Link] \cup {Blank}
           \cup [kind : {"node"}, kids : UNION {[K -> Handle] : K \in SUBSET Keys}]

RegionOf(h) == IF h.tag = "leaf" THEN "terms" ELSE "nodes"
Cell(h)     == mem[RegionOf(h)][h.u]

-----------------------------------------------------------------------------
(* The pool.  A carving is what alloc and free read and write.             *)

Carving == [f |-> frontier, h |-> head, m |-> mem]

NextUnit(s, r) == IF s.h[r] # NIL THEN s.h[r] ELSE s.f[r]

\* Slip: the frontier moves too far.
AllocSkips(s, r, cell) ==
  LET u == NextUnit(s, r)
  IN  [f |-> IF s.h[r] # NIL THEN s.f ELSE [s.f EXCEPT ![r] = @ + 2],
       h |-> IF s.h[r] # NIL THEN [s.h EXCEPT ![r] = s.m[r][u].next] ELSE s.h,
       m |-> [s.m EXCEPT ![r][u] = cell]]

\* alloc_lines / alloc_term, and the write of the new block.
Alloc(s, r, cell) ==
  LET u == NextUnit(s, r)
  IN  [f |-> IF s.h[r] # NIL THEN s.f ELSE [s.f EXCEPT ![r] = @ + 1],
       h |-> IF s.h[r] # NIL THEN [s.h EXCEPT ![r] = s.m[r][u].next] ELSE s.h,
       m |-> [s.m EXCEPT ![r][u] = cell]]

\* free_lines / free_term: the link overwrites the block.
Give(s, x) ==
  LET r == RegionOf(x)
  IN  [s EXCEPT !.m[r][x.u] = FreeCell(s.h[r]), !.h[r] = x.u]

Becomes(s) == frontier' = s.f /\ head' = s.h /\ mem' = s.m

NoBlocks   == [r \in Regions |-> [u \in Unit |-> Blank]]
NoFrontier == [r \in Regions |-> 0]
NoHeads    == [r \in Regions |-> NIL]

\* Slips: checkpoint does not write the root, or the free lists.
SuperblockOldRoot == [frontier |-> frontier, head |-> head, root |-> sb.root, count |-> count]
SuperblockNoLists == [frontier |-> frontier, head |-> NoHeads, root |-> root, count |-> count]

Superblock == [frontier |-> frontier, head |-> head, root |-> root, count |-> count]

\* The keys below handle x; "garbage" for a block that is not what x says.
KeysBelow(x) ==
  LET Key(h) == IF Cell(h).kind = "leaf" THEN Cell(h).key ELSE "garbage"
  IN  CASE x.tag = "null" -> {}
        [] x.tag = "leaf" -> {Key(x)}
        [] x.tag = "node" -> IF Cell(x).kind = "node"
                             THEN {Key(Cell(x).kids[k]) : k \in DOMAIN Cell(x).kids}
                             ELSE {"garbage"}

-----------------------------------------------------------------------------
(* Open: line_pool::init_.                                                 *)

\* No nodes file, or one too short for a header: make room for one.  A later
\* mmap fails, or the process dies here, or Stamp follows.
OpenFresh ==
  /\ proc = "down" /\ stamp = "absent"
  /\ stamp' = "zeros" /\ mem' = NoBlocks
  /\ proc' = "opening"
  /\ UNCHANGED <<sb, frontier, head, root, count, image, saved, leaked>>

OpenFails ==
  /\ proc = "opening"
  /\ proc' = "down"                   \* destroy_(), bad_alloc
  /\ UNCHANGED <<stamp, sb, mem, frontier, head, root, count, image, saved, leaked>>

\* checkpoint(0, 0).
Stamp ==
  /\ proc = "opening"
  /\ frontier' = NoFrontier /\ head' = NoHeads
  /\ sb' = [frontier |-> NoFrontier, head |-> NoHeads, root |-> Zero, count |-> 0]
  /\ stamp' = "image"
  /\ image' = "stamped" /\ saved' = {}
  /\ proc' = "created"
  /\ UNCHANGED <<mem, root, count, leaked>>

\* The file is there but has no magic.
OpenRejects ==
  /\ proc = "down" /\ stamp = "zeros"
  /\ proc' = "rejected"
  /\ UNCHANGED <<stamp, sb, mem, frontier, head, root, count, image, saved, leaked>>

Reopen ==
  /\ proc = "down" /\ stamp = "image"
  /\ frontier' = sb.frontier /\ head' = sb.head
  /\ proc' = "restored"
  /\ UNCHANGED <<stamp, sb, mem, root, count, image, saved, leaked>>

\* commit_ throws while it maps the written part again: no destroy_() here,
\* and no destructor runs.
ReopenFails ==
  /\ proc = "down" /\ stamp = "image" /\ sb.frontier # NoFrontier
  /\ leaked' = TRUE
  /\ UNCHANGED <<stamp, sb, mem, proc, frontier, head, root, count, image, saved>>

-----------------------------------------------------------------------------
(* The map.                                                                *)

Construct ==
  /\ proc = "created"
  /\ proc' = "mapped"
  /\ root' = Null /\ count' = 0
  /\ UNCHANGED <<stamp, sb, mem, frontier, head, image, saved, leaked>>

\* map(alloc, attach, pool.root(), pool.count()).  Only of an image that the
\* documentation gives a meaning: one that a program left by its own rules.
Attach ==
  /\ proc = "restored"
  /\ image = "saved" \/ (image = "stamped" /\ ~AttachesSaved)
  /\ proc' = "mapped"
  /\ root' = sb.root /\ count' = sb.count
  /\ UNCHANGED <<stamp, sb, mem, frontier, head, image, saved, leaked>>

Kids == Cell(root).kids
LeafOf(u) == [tag |-> "leaf", u |-> u]
NodeOf(u) == [tag |-> "node", u |-> u]

Mutates == proc = "mapped" /\ image' = "stale" /\ UNCHANGED <<stamp, sb, proc, saved, leaked>>

\* The new leaf is the root, or a child of the node, written in place; or it
\* makes a node of a lone leaf or of a prefix node over one.
Insert(k) ==
  /\ Mutates
  /\ k \notin KeysBelow(root)
  /\ count' = count + 1
  /\ LET u  == NextUnit(Carving, "terms")
         s1 == Alloc(Carving, "terms", LeafCell(k))
         v  == NextUnit(s1, "nodes")
         More(kids) == [x \in DOMAIN kids \cup {k} |-> IF x = k THEN LeafOf(u) ELSE kids[x]]
     IN  \/ /\ root = Null
            /\ root' = LeafOf(u)
            /\ Becomes(s1)
         \/ /\ root.tag = "leaf"
            /\ root' = NodeOf(v)
            /\ Becomes(Alloc(s1, "nodes", NodeCell(More([x \in {Cell(root).key} |-> root]))))
         \/ /\ root.tag = "node" /\ Cardinality(DOMAIN Kids) = 1
            /\ root' = NodeOf(v)
            /\ Becomes(Give(Alloc(s1, "nodes", NodeCell(More(Kids))), root))
         \/ /\ root.tag = "node" /\ Cardinality(DOMAIN Kids) > 1
            /\ root' = root
            /\ Becomes([s1 EXCEPT !.m["nodes"][root.u] = NodeCell(More(Kids))])

\* The leaf is freed; a node left with one child collapses to a prefix node,
\* and a prefix node left with none goes too.
RemoveKey(k) ==
  /\ Mutates
  /\ k \in KeysBelow(root)
  /\ count' = count - 1
  /\ \/ /\ root.tag = "leaf"
        /\ root' = Null
        /\ Becomes(Give(Carving, root))
     \/ /\ root.tag = "node"
        /\ LET rest == [x \in DOMAIN Kids \ {k} |-> Kids[x]]
               s1   == Give(Carving, Kids[k])
           IN  \/ /\ DOMAIN rest = {}
                  /\ root' = Null
                  /\ Becomes(Give(s1, root))
               \/ /\ Cardinality(DOMAIN rest) = 1
                  /\ root' = NodeOf(NextUnit(s1, "nodes"))
                  /\ Becomes(Give(Alloc(s1, "nodes", NodeCell(rest)), root))
               \/ /\ Cardinality(DOMAIN rest) > 1
                  /\ root' = root
                  /\ Becomes([s1 EXCEPT !.m["nodes"][root.u] = NodeCell(rest)])

\* checkpoint(m.root_handle(), m.size()).
Checkpoint ==
  /\ proc = "mapped"
  /\ sb' = Superblock
  /\ image' = "saved" /\ saved' = KeysBelow(root)
  /\ UNCHANGED <<stamp, mem, proc, frontier, head, root, count, leaked>>

Detach ==
  /\ proc = "mapped"
  /\ root' = Null /\ count' = 0
  /\ proc' = "released"
  /\ UNCHANGED <<stamp, sb, mem, frontier, head, image, saved, leaked>>

\* ~map without detach: free_all_ frees the leaves, then the node.  The links
\* land in the file, also in blocks the superblock takes for live.
DestroyMap ==
  /\ proc = "mapped"
  /\ DetachesSaved => image # "saved"
  /\ LET GiveAll[S \in SUBSET Keys] ==
           IF S = {} THEN Carving
           ELSE LET k == CHOOSE x \in S : TRUE IN Give(GiveAll[S \ {k}], Kids[k])
     IN  Becomes(CASE root.tag = "null" -> Carving
                   [] root.tag = "leaf" -> Give(Carving, root)
                   [] root.tag = "node" -> Give(GiveAll[DOMAIN Kids], root))
  /\ root' = Null /\ count' = 0
  /\ proc' = "released"
  /\ UNCHANGED <<stamp, sb, image, saved, leaked>>

-----------------------------------------------------------------------------
(* The process.                                                            *)

\* ~line_pool: unmap and close.  Nothing is written.
Close ==
  /\ proc \in {"created", "restored", "released"}
  /\ proc' = "down"
  /\ UNCHANGED <<stamp, sb, mem, frontier, head, root, count, image, saved, leaked>>

Kill ==
  /\ proc # "down"
  /\ proc' = "down" /\ leaked' = FALSE
  /\ root' = Null /\ count' = 0
  /\ UNCHANGED <<stamp, sb, mem, frontier, head, image, saved>>

\* The user removes the store directory.
Discard ==
  /\ proc = "down" /\ stamp # "absent"
  /\ stamp' = "absent" /\ image' = "none" /\ saved' = {}
  /\ UNCHANGED <<sb, mem, proc, frontier, head, root, count, leaked>>

Init ==
  /\ stamp = "absent" /\ mem = NoBlocks
  /\ sb = [frontier |-> NoFrontier, head |-> NoHeads, root |-> Null, count |-> 0]
  /\ proc = "down" /\ frontier = NoFrontier /\ head = NoHeads
  /\ root = Null /\ count = 0
  /\ image = "none" /\ saved = {} /\ leaked = FALSE

Next ==
  \/ OpenFresh \/ OpenFails \/ Stamp \/ OpenRejects \/ Reopen \/ ReopenFails
  \/ Construct \/ Attach \/ (\E k \in Keys : Insert(k) \/ RemoveKey(k))
  \/ Checkpoint \/ Detach \/ DestroyMap \/ Close \/ Kill \/ Discard

Spec == Init /\ [][Next]_vars

-----------------------------------------------------------------------------
\* Every variable has its type.
TypeOK ==
  /\ stamp \in {"absent", "zeros", "image"}
  /\ proc \in {"down", "opening", "rejected", "created", "restored", "mapped", "released"}
  /\ frontier \in [Regions -> 0 .. Cap] /\ head \in [Regions -> Link]
  /\ root \in Handle \cup {Null} /\ count \in Nat
  /\ sb.frontier \in [Regions -> 0 .. Cap] /\ sb.head \in [Regions -> Link]
  /\ sb.root \in Handle \cup {Null} /\ sb.count \in Nat
  /\ mem \in [Regions -> [Unit -> Cells]]
  /\ image \in {"none", "stamped", "stale", "saved"}
  /\ saved \subseteq Keys /\ leaked \in BOOLEAN

\* The map over an image that nothing has changed since its checkpoint is the
\* map that was checkpointed: right after the checkpoint, after a reopen and
\* an attach, and after a kill.  (pool.hpp: "Call checkpoint(root, count)
\* before close to persist; a later line_pool(dir) restores it"; the stamp of a
\* new store is "an initial empty image".)
CheckpointSurvives ==
  proc = "mapped" /\ image \in {"saved", "stamped"} =>
    KeysBelow(root) = saved /\ count = Cardinality(saved)

\* The blocks a tree over handle x holds, by region.
Held(x, r) ==
  CASE x.tag = "null" -> {}
    [] x.tag = "leaf" -> IF r = "terms" THEN {x.u} ELSE {}
    [] x.tag = "node" -> IF r = "nodes" THEN {x.u}
                         ELSE {Cell(x).kids[k].u : k \in DOMAIN Cell(x).kids}

\* The blocks on the free list of region r.
Chain(r) ==
  LET Reach[i \in 0 .. Cap] ==
        IF i = 0 THEN {head[r]} \ {NIL}
        ELSE LET s == Reach[i - 1] IN s \cup ({mem[r][u].next : u \in s} \ {NIL})
  IN  Reach[Cap]

\* An allocation never gets a block of the tree, whatever was restored: the
\* free list and the frontier that a reopen brings back fit the tree it brings
\* back, and every block below the frontier is in one of the two (the reopened
\* pool has lost none).
CarvingFitsTree ==
  proc = "mapped" => \A r \in Regions :
    /\ Held(root, r) \cap Chain(r) = {}
    /\ Held(root, r) \cup Chain(r) = 0 .. frontier[r] - 1

\* line_pool(dir) is "Reopen-or-create": a directory that only this pool has
\* written to is never taken for a foreign or corrupt one.
ReopenOrCreate == proc # "rejected"

\* An open that fails keeps no file open and no mapping ("unwind a
\* partially-constructed pool").
FailedOpenUnwinds == ~leaked
=============================================================================
