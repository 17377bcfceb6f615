------------------------------- MODULE LinePool -------------------------------
(***************************************************************************)
(* One region of artpp::line_pool: the node region (128-byte lines) or its *)
(* twin, the terminal region (16-byte units).  A block is a run of units;  *)
(* it comes from the free list of exactly its size, or from the frontier,  *)
(* which commits whole chunks as it grows.  Blocks above FreeMax units     *)
(* share one list, list 0, that is searched for an exact fit.              *)
(*                                                                         *)
(* A list is intrusive: head is in the pool, link in the first bytes of    *)
(* each freed block.  live and idle are history variables: the blocks the  *)
(* tree holds, and the ones it has given back.                             *)
(***************************************************************************)
EXTENDS Integers

CONSTANTS
  FreeMax,   \* FREE_MAX / TFREE_MAX: 1024 lines / 4096 units
  Chunk,     \* chunk_bytes, in units
  Cap,       \* ncap_ / tcap_, in units
  Sizes,     \* the block sizes the tree asks for
  NIL        \* 0xFFFFFFFF

ASSUME FreeMaxAssumption == FreeMax \in Nat
ASSUME ChunkAssumption == Chunk \in Nat \ {0}
ASSUME CapAssumption == Cap \in Nat
ASSUME SizesAssumption == Sizes \subseteq Nat \ {0}
ASSUME NILAssumption == NIL \notin Nat

VARIABLES
  frontier,    \* frontier_: the first unit never handed out
  committed,   \* committed_, in units
  head,        \* free_[1 .. FREE_MAX], and huge_ as head[0]
  link,        \* the next index stored in each freed block
  live,        \* start -> size of the blocks in use
  idle         \* start -> size of the blocks given back

vars == <<frontier, committed, head, link, live, idle>>

ListOf(sz) == IF sz <= FreeMax THEN sz ELSE 0
Lists      == 0 .. FreeMax

Extend(f, x, v)  == [y \in DOMAIN f \cup {x} |-> IF y = x THEN v ELSE f[y]]
\* Slip: a popped block stays on the list.
RemoveNot(f, x)  == f

Remove(f, x)     == [y \in DOMAIN f \ {x} |-> f[y]]
\* Slip: the commit rounds down.
RoundDown(need)  == (need \div Chunk) * Chunk

RoundUp(need)    == ((need + Chunk - 1) \div Chunk) * Chunk

\* Block u can be reached over list c: it is its head or the link of a block on it.
Linked(c, u) == head[c] = u \/ \E w \in DOMAIN idle : ListOf(idle[w]) = c /\ link[w] = u

\* Slips: the huge list gives its first block, whatever its size, or one that
\* is larger than asked for.
FitAnyHuge(sz, u) ==
  /\ u \in DOMAIN idle
  /\ IF sz <= FreeMax THEN head[sz] = u ELSE head[0] = u
FitLargerHuge(sz, u) ==
  /\ u \in DOMAIN idle
  /\ IF sz <= FreeMax THEN head[sz] = u ELSE Linked(0, u) /\ idle[u] >= sz

\* Block u can be taken for a request of sz units: the head of the exact-size
\* list, or any block of that size on the huge list (pop_huge_).
Fit(sz, u) ==
  /\ u \in DOMAIN idle
  /\ IF sz <= FreeMax THEN head[sz] = u ELSE Linked(0, u) /\ idle[u] = sz

\* Slips: the predecessor is not relinked; the head is cleared.
UnlinkedHeadOnly(c, u) ==
  /\ head' = [head EXCEPT ![c] = IF @ = u THEN link[u] ELSE @]
  /\ link' = Remove(link, u)
UnlinkedClearsHead(c, u) ==
  /\ head' = [head EXCEPT ![c] = IF @ = u THEN NIL ELSE @]
  /\ link' = [w \in DOMAIN link \ {u} |->
                IF link[w] = u /\ ListOf(idle[w]) = c THEN link[u] ELSE link[w]]

\* Take block u off list c: the head moves on, or u's predecessor skips it.
Unlinked(c, u) ==
  /\ head' = [head EXCEPT ![c] = IF @ = u THEN link[u] ELSE @]
  /\ link' = [w \in DOMAIN link \ {u} |->
                IF link[w] = u /\ ListOf(idle[w]) = c THEN link[u] ELSE link[w]]

\* alloc_lines / alloc_term from a free list.
AllocReuse(sz) ==
  \E u \in DOMAIN idle :
    /\ Fit(sz, u)
    /\ Unlinked(ListOf(sz), u)
    /\ live' = Extend(live, u, sz)
    /\ idle' = Remove(idle, u)
    /\ UNCHANGED <<frontier, committed>>

\* Slip: the huge list is not searched.
NoFitSmall(sz) == IF sz > FreeMax THEN TRUE ELSE head[sz] = NIL

NoFit(sz) == \A u \in DOMAIN idle : ~Fit(sz, u)

\* ... from the frontier; commit_ maps more chunks first if it must.
AllocBump(sz) ==
  LET need == frontier + sz
      comm == IF need > committed THEN RoundUp(need) ELSE committed
  IN  /\ NoFit(sz)
      /\ need > committed => comm <= Cap
      /\ committed' = comm
      /\ frontier' = need
      /\ live' = Extend(live, frontier, sz)
      /\ UNCHANGED <<head, link, idle>>

\* commit_ throws: the region is at its cap, or the OS refuses.
AllocThrows(sz) ==
  /\ NoFit(sz)
  /\ frontier + sz > committed
  /\ UNCHANGED vars

\* free_lines / free_term: push the block on the list of its size.
Free(u) ==
  LET c == ListOf(live[u])
  IN  /\ link' = Extend(link, u, head[c])
      /\ head' = [head EXCEPT ![c] = u]
      /\ idle' = Extend(idle, u, live[u])
      /\ live' = Remove(live, u)
      /\ UNCHANGED <<frontier, committed>>

Init ==
  /\ frontier = 0 /\ committed = 0
  /\ head = [c \in Lists |-> NIL]
  /\ link = [u \in {} |-> NIL] /\ live = [u \in {} |-> 0] /\ idle = [u \in {} |-> 0]

Next ==
  \/ \E sz \in Sizes : AllocReuse(sz) \/ AllocBump(sz) \/ AllocThrows(sz)
  \/ \E u \in DOMAIN live : Free(u)

Spec == Init /\ [][Next]_vars

-----------------------------------------------------------------------------
\* Every variable has its type.
TypeOK ==
  /\ frontier \in Nat /\ committed \in Nat
  /\ head \in [Lists -> Nat \cup {NIL}]
  /\ DOMAIN live \subseteq Nat /\ live \in [DOMAIN live -> Nat \ {0}]
  /\ DOMAIN idle \subseteq Nat /\ idle \in [DOMAIN idle -> Nat \ {0}]
  /\ link \in [DOMAIN idle -> Nat \cup {NIL}]

Starts   == DOMAIN live \cup DOMAIN idle
SizeOf(u) == IF u \in DOMAIN live THEN live[u] ELSE idle[u]

\* No unit belongs to two blocks, whether in use or on a list: the tree never
\* gets memory that another node or a free-list link occupies.
Disjoint ==
  /\ DOMAIN live \cap DOMAIN idle = {}
  /\ \A u, w \in Starts : u < w => u + SizeOf(u) <= w

\* All blocks lie below the frontier and the frontier in committed memory
\* that does not exceed the cap.
InBounds ==
  /\ \A u \in Starts : u + SizeOf(u) <= frontier
  /\ frontier <= committed
  /\ committed > 0 => committed <= Cap

\* Heads and links lead to freed blocks of their own list or nowhere, every
\* freed block is led to, and only from one place: an unlink in the middle of
\* the huge list neither strands nor doubles the blocks behind it.
ListsExact ==
  /\ \A c \in Lists : head[c] # NIL => head[c] \in DOMAIN idle /\ ListOf(idle[head[c]]) = c
  /\ \A u \in DOMAIN idle :
       /\ link[u] # NIL => link[u] \in DOMAIN idle /\ ListOf(idle[link[u]]) = ListOf(idle[u])
       /\ Linked(ListOf(idle[u]), u)
       /\ head[ListOf(idle[u])] = u => \A w \in DOMAIN idle : link[w] # u
  /\ \A u, w \in DOMAIN idle : link[u] # NIL /\ link[u] = link[w] => u = w

\* The blocks that a walk from head c comes by.
Chain(c) ==
  LET Reach[i \in 0 .. Cap] ==
        IF i = 0 THEN {head[c]} \ {NIL}
        ELSE LET r == Reach[i - 1] IN r \cup ({link[u] : u \in r} \ {NIL})
  IN  Reach[Cap]

\* No unit below the frontier is ever lost: a block covers it ...
Covered == \A x \in 0 .. frontier - 1 : \E u \in Starts : u <= x /\ x < u + SizeOf(u)

\* ... and a block that is not in use is one that a walk over the list of its
\* size comes by, where the next allocation of that size finds it.
Reached == \A u \in DOMAIN idle : u \in Chain(ListOf(idle[u]))

\* The frontier moves only if no freed block of the requested size exists,
\* and then by exactly that size; no step takes it back.
GrowsOnlyIfMust ==
  [][frontier' # frontier =>
       /\ frontier' > frontier
       /\ \A u \in DOMAIN idle : idle[u] # frontier' - frontier]_vars
=============================================================================
