# A TLA+ model of libartpp

libartpp is a header-only C++ ordered map, `artpp::map<Key, T, Alloc, Mode>`:
an adaptive radix tree whose nodes are 128-byte lines, with its own allocator,
`artpp::line_pool`, that can keep the tree in a file. This directory holds
TLA+ modules of its core, the TLC configurations that check them on small
instances, and proofs that TLAPS checks. Line numbers are those of
`include/artpp/map.hpp` unless another file is named.

## 1. The system

The library has no threads. What makes it hard is elsewhere: a tree that moves
between ten node formats in long sequences of calls; allocations (and value
constructors) that may throw at any point of a call that promises to leave the
map as it was; handles that are kept while what they lead to moves; and a file
image that a process may leave at any moment.

| part | state | operations | how it interacts | what makes it correct |
|---|---|---|---|---|
| Radix tree (`map.hpp`) | `root_`, `count_`, the nodes: leaf, prefix node, setlist, setlist16 (two-byte), c2/c4/c8, node_full with and without header prefix | `insert`/`emplace`/`update`/`remove`/`find`/`clear` | allocates nodes (128-byte lines) and terminals (16-byte units); iterators walk its nodes | it is a dictionary; every node has one owner; every router leads to a key; formats are within their limits; a throw changes nothing |
| Ordered iterators | a stack of frames, the key built so far | `begin`, `++`, `--`, `find`, `lower_bound`, `upper_bound`, `erase(pos)`, `==` | follow handles without null tests | sorted order, no key skipped or repeated; one place, one stack of frames |
| Bucket engine (`mode::buckets`, `mode::adaptive`) | pages of entries: sorted stems, slots, a tail heap | insert, remove, burst (`bkt_split`), `collapse_to_bucket` | replaces leaves by pages | entries sorted and disjoint; a burst keeps all |
| Setlist line | branches from the front, inline leaves from the tail of one line | add, remove, externalize, compact, repack | below the radix tree | branches and leaves do not overlap |
| Router tiers (`cnode.hpp`, `node_full`, `setlist16`) | presence bitmaps and rank-dense slots | find, set, remove, iterate | below the radix tree | each represents its set of edges |
| Line pool, regions (`pool.hpp`) | `frontier_`, `committed_`, `free_[]`, `huge_` and the terminal twins; links inside freed blocks | `alloc_lines`, `alloc_term`, `free_lines`, `free_term`, `commit_` | serves the tree; its carving goes into the superblock | blocks disjoint and in bounds, lists exact, nothing lost |
| Line pool, store | two mapped files, superblock | `init_` (create or reopen), `checkpoint`, destructor; the map's `attach`, `detach`, destructor | tree blocks are file pages | what a checkpoint saved is what an attach finds |
| Value lifetime (`value_ops.hpp`) | constructed values | construct, relocate, destroy | user code that may throw | each value destroyed once |
| Whole-tree operations | two maps, two pools | move, clone, swap, `adopt`, `==` | hand over regions and roots | contents preserved, no node in two maps |
| Whole-tree walk | recursion | `for_each`, `for_each_value` | reads all formats | each key once, in order |
| Key codec, v2 node address | none | pure functions | called on every operation | order preserving; right line |

`include/artpp/v2/` holds line-for-line copies of six headers in another
namespace, and one new header (`node_addr.hpp`) that only its test uses. The
psio codec, `external/libart` and `bench/` are not part of the core.

PROJECT.json lists every hazard found in the survey, at its line, with the
property that would catch it going wrong or the reason why none does.

## 2. Modules

    MapSpec        the dictionary, strong guarantee
       ^ refines
    ArtTree        the radix tree                      MCArtTree
       ^ extends                     ^ extends
    Iterators      iterators         Transport         MCIterators  MCTransport
       ^ extends                     ArtHeap           MCArtHeap
    Walks          for_each,           (the blocks ArtTree's steps
                   for_each_value       allocate and free)
    RouterFormats  the layouts of a router, as bytes
       ^ extends
    OneRouter      the life of one router              MCOneRouter
    BasicMap       the dictionary, basic guarantee
       ^ refines
    Buckets        the bucket engine                   MCBuckets
       ^ extends
    BucketPage     one page
    OrderedKeys    byte sequences in key order
    LinePool       one region of the pool              MCLinePool
    PoolStore      the store and one map               MCPoolStore

    ArtTreeProofs  types, live pointers, the trie:
                   unique keys, one parent             (extends ArtTree)
    ArtTreeFormat  room in every node, no empty router,
                   leaves in their parent's line,
                   no edge to a node that is gone      (extends ArtTreeProofs)
    ArtTreeMap     the refinement of MapSpec, count    (extends ArtTreeProofs)
    IterMoves      what each step of an iterator does
                   in a sound tree                     (extends Iterators, ArtTreeProofs)
    IterProofs     where iterators go, and the key
                   they report                         (extends IterMoves, ArtTreeMap,
                                                        ArtTreeFormat)
    OneRouterProofs  every layout carries its edges    (extends OneRouter)
    LinePoolProofs                                     (extends LinePool)
    PoolStoreProofs                                    (extends PoolStore)

The MC modules hold the sets and capacities that the configurations use.
`OrderedKeys` is the reference that orders are compared to: the order of byte
sequences, the first and last of a set of keys, and what it means that a sequence
lists a set.

### MapSpec
A dictionary `dict` with an open call `req`. A call takes effect in one step
(`Apply`), `insert` and `emplace` may throw instead and then `dict` is
untouched.

### BasicMap
The same under the basic guarantee. A step is a whole call: `asked` is its request,
`ret` how it ended. A call changes the key it was asked for, as it was asked, and no
other (`Inserted`, `Assigned`, `Removed`, ...); one that throws changes no key, but may
leave values moved-from (`Hollow`).

### ArtTree
`tree` is a function from slots to nodes. A *slot* is the key bytes consumed
above a node: routers and prefix nodes always consume bytes, so slots are
unique, and a path in the tree is a slot. A slot with no node is a null handle.
What an iteration builds and gives back before it ends is not in the tree:
ArtHeap counts it.

One action is one iteration of a loop of the code:

| code | actions |
|---|---|
| `insert_` (834) | `PutNull`, `PutSameLeaf`, `PutSplitLeaf`, `PutLazyFuse`, `PutSplitPrefix`, `PutTerm`, `PutDescend`, `PutExternalizeAll`, `PutAdd`, `PutAddStem`, `PutRestride` |
| `grow_router_` (4799), `widen` | `GrowLift`, `GrowWiden`, `GrowLink` |
| `try_fuse_parent` (4350) | `FuseParent` |
| `descend_read`, `descend_mut` (`find`, `contains`, `update`) | `GetDescend`, `GetMiss`, `GetHit` |
| `remove_bytes_` (3209) | `RemDescend`, `RemMiss`, `RemLeaf`, `RemTerm`, `RemInline` |
| `rm_unwind_` (3155) | `UnlinkPn`, `UnlinkEdge` |
| `rm_shrink_` (3037), `rm_collapse_` | `ShrinkEmpty`, `ShrinkToTerm`, `ShrinkLone`, `ShrinkDewiden`, `ShrinkStands` |
| `clear`, `free_all_` | `Clear` |

An action that allocates has a second outcome, `Throw` (or, where the code
catches the exception, "leave it as it is"). `PutExternalizeAll` also stops half
way, because that is the one place where a throwing call has written to the
tree before.

Abstractions. A leaf child that lives in its setlist's line has `inl`; whether
the leaves fit into the line is a choice (`fits`); their bytes are in
RouterFormats. Capacities are constants, so that TLC reaches every format with few
keys. A router's degree is the number of its edges; the code keeps a count
besides. Values are opaque and their constructors do not throw. `Inlineable` and
`InlineChildren` stand for the type traits that decide whether a value can live
in a handle, and a leaf in a line.

### ArtHeap
ArtTree with one more variable, `heap`: how many blocks the map has taken from its
allocator and not given back. It is kept by what each step allocates and frees
(`Builds`, `Frees`), never computed from the tree. What an iteration builds is a
sequence with an element for each allocation, in the order of the code
(`SplitLeafBuilds`, `SplitPrefixBuilds`, `RestrideBuilds`), which says whether a
`build_guard` or `restride_guard` reaches that block from then on; when the step
throws, it throws at any of its allocations, the guarded blocks are given back and
the others are not. `grow_router_` spends an iteration on each rung, and its caller
holds the new value meanwhile (`InHand`). `NoBlockLost` then compares `heap` with what `free_all_`
would give back from the root (`FreeAll`). A block is one allocation: a node, or a
leaf that is neither in a handle nor in a line.

### Iterators
One `const_iterator` over the trees of ArtTree. `it` has the stack of frames
(node, cursor and the two key lengths), the terminal it stands on, the key buffer
and whether the key is maintained (it is only from the first `key()` on). `ask` is
the operation, `go` the loop it is in and the node it looks at. One action is one
iteration of a loop:

| code | actions |
|---|---|
| `seek_` (1731) | `SeekPn`, `SeekTerm`, `SeekEdge`, `SeekPop`, `SeekEnd` |
| `retreat_` (2210) | `RetreatEdge`, `RetreatTerm`, `RetreatPop`, `RetreatEnd` |
| `descend_min_` (2092) | `MinLeaf`, `MinPn`, `MinTerm`, `MinEdgeDown` |
| `descend_max_` (1974) | `MaxLeaf`, `MaxPn`, `MaxTerm`, `MaxEdgeDown` |
| `descend_lb_` (1838) | `LbLeaf`, `LbParts`, `LbPn`, `LbTerm`, `LbEdge`, `LbNoEdge` |
| `key_bytes` (2395) | `ReadFrame`, `ReadSuffix`, `ReadEnd` (and `FindEnd` of `find`) |
| `erase(pos)` (2511) | `Erase`, the reading, `EraseRemove`, ArtTree's remove (`MapRuns`), `EraseSeek` |

`Begin`, `End`, `LowerBound`, `UpperBound`, `Find`, `Increment`, `Decrement`, `Read` and
`Erase` are the entries. An operation of the iterator is const and runs between two
calls of the map; a call that may restructure ends the iterator (`Change`). A
leaf in its parent's line has its own slot like any other, so `emit_inline_leaf_` is
`Emit`. What the code finds in the key buffer beyond its length is `MaxByte + 1`, a byte
no key has. Frames of an iterator whose key was not read keep no key lengths (the code
stores numbers there that the first read overwrites).

### Walks
`VisitedKeys` is `walk_` (`for_each`) and `VisitedValues` is `walk_v_`
(`for_each_value`), recursive as in the code. A walk is const and calls nothing of the map,
so it is a function of the tree that ArtTree reached; the module extends Iterators for
the leaves that store their whole key and the order of edges.

### RouterFormats and OneRouter
ArtTree takes a router for a set of edges with a capacity. RouterFormats says how
five layouts keep that set: sorted, padded stems beside a branch array
(`setlist`, `setlist16`), with small leaves packed at the tail of a setlist's own
line (`Compact`, `Repack`, `Externalize`, `RemoveBranch` - every offset, alignment
and flag); presence bitmaps per segment with branches in rank order, read in
words of `WordBits` (`c2`, `c4`, `c8`); and lines of slots with their populations,
addressed by a multiplication and a shift (`node_full`). The byte range, the word
size, the line and the capacities are constants; the relations between them that
the code asserts are `StemAssumption`, `LineAssumption`, `SegmentAssumption` and
`FullAssumption`.

OneRouter drives one router through what the tree does to it: it is made by a
split or a fusion, gets edges (climbing the rungs that the mode allows), has a
child change between leaf and node, loses edges (`RemoveBelow`), is rebuilt as a setlist, and any
allocation may throw in between. `edges` is the set of edges put in so far.

### BucketPage and Buckets
A page is a value: the words of its index (stems, then slots) and the entries of
its tail, with offsets in bytes. `InsertEntry` is `bkt_insert_entry` with its three
`memmove`s, `RemovedAt` is `bkt_remove_entry` for values that are trivially
copyable (compaction) and for others (a fresh page).

In Buckets a call is one step, because no state of it can be seen from outside
before it ends; where it may end early, by an allocation that throws, it has an
outcome of its own. An outcome is what the *slots* of the tree refer to then:
`bkt_put` recurses and writes a slot only on return, `insert_` in adaptive mode
writes it at once (`Then`). `blocks` counts allocations and releases, so that
`NoLeak` compares it with what the root leads to; a handle to a released block is
a node `Freed`. `Split` is `bkt_split` with its entry-by-entry move; when an entry's
`bkt_put` throws, the guard gives back what the handle from before that call leads to
(`Unwound`). `Collapse` is `collapse_to_bucket`. `asked` and `ret` are the request and
the ending of the last call, for the refinement of BasicMap, and `seen` is the
dictionary that `for_each` shows (`Contents`).

`Faulty` is the set of modes in which an allocation of an insertion may throw.
`FusionFaults` says whether one may throw that `bkt_put` makes below a prefix node it has
just fused (`AfterFusion`); section 6 has what happens then. `Setups` are the maps that
an instance looks at: a mode, whether values are trivially copyable, and the pairs
(key, value) that calls use.

### Transport
A second map beside ArtTree's. `Swap` and `Take` (move construction; move
assignment that steals or adopts an image) are single steps, since nothing in
them can fail; `TakeThrows` is the `bad_alloc` of `adopt`. A structural clone runs
block by block (`CloneBegin`, `CloneBlock`, `CloneEnd`), and `CloneThrows` may end
it at any of them: then the guards of the open levels run, and `strays` collects the
blocks that none or two of them free. `EqWalk` is `eq_walk_`.

### LinePool
One region: `frontier`, `committed`, `head` (list 0 is the huge list), `link`
(the word in each freed block), and the history variables `live` and `idle`.
`AllocReuse`, `AllocBump`, `AllocThrows` are the ways through
`alloc_lines`/`alloc_term`; `Free` is `free_lines`/`free_term`. The search of
`pop_huge_` may take any block of the size on the list: more than the code does
(it takes the first).

### PoolStore
A store on disk (`stamp`, `sb`, `mem`), the process that has it open (`proc`,
`frontier`, `head`) and its one map (`root`, `count`). The files are mapped
MAP_SHARED, so block writes and free-list links are file contents at once,
while the carving gets there only by `checkpoint`. `Kill` happens in any state.
The loss of pages in a machine crash is not modelled: the pool makes no promise
about it. Two constants say how the program uses the API: `DetachesSaved`
(detach a checkpointed map before it is destroyed) and `AttachesSaved` (attach
only to an image that was checkpointed by a map).

## 3. Runs

| run | question | bounds |
|---|---|---|
| `flat` | (ArtHeap) the structural invariants, the blocks and the refinement without dense tiers; leaves inline in setlists; two-byte routers; `OOM` anywhere; termination, although a re-stride undoes what a fusion did | 6 keys of up to 3 bytes over 4 byte values: three edges below a prefix, to node_full and back, and a chain that fuses; setlist of 2, prefix of 1 and 2 |
| `ladder` | the rungs c2, c4, c8, full and the way back, with values in handles, for keys deeper than the path window; termination | 6 keys over 24 byte values: three of one c8 segment, so that one insert climbs all rungs, and one of the other half, so that a router rests at c2; `RmLvn` 2, wide stems on as well |
| `iter` | iterators and walks over trees with prefix nodes and with two-byte routers that fuse and re-stride; every operation of an iterator ends | 5 keys, capacity 2, `FuseThresh` 2; bounds are asked for the keys, stored or not (they are prefixes and extensions of each other), and a key beyond all |
| `formats` | the layouts against a set of edges | 32 bytes in words of 8 bits (two words per c2 segment, one per c4 segment, half a word per c8 segment), lines of 5 slots (the last one partial), 7 bytes used, a line of 16 bytes with leaves of 2, 3, 4 and 20 bytes |
| `buckets` | pages, splits, collapses and the dictionary with the basic guarantee | a page of 21 units; `LoadTies`: 6 keys with equal stems up to three in a page, a common prefix and a suffix that fits no page, two values of two of them; `LoadFusing`: 7 keys, five of which share more bytes than a setlist of 2 takes in line: a page holds four of them, and the fifth splits it |
| `transport` | swap, move, clone and equality of two maps | three loads of three (key, value) pairs: three edges below a prefix, up to node_full and back; a router with a term; two values of one key |
| `pool` | free lists, frontier, cap | 9 units in chunks of 4 (one unit can never be used), one exact-size list, two sizes on the huge list |
| `reopen` | checkpoint, kill, reopen, attach | 3 keys: leaf, node, in-place growth, collapse; free lists of more than one block |
| `deadedge` | a remove below the path window (section 6) | 4 keys of up to 3 bytes that part at each depth, below a window of 2 levels; flat |
| `foreach`, `bktdangling`, `fresh` | the other disagreements of section 6 | those of `iter`, of `buckets` with `LoadTies` only, and of `reopen` |

Why small bounds suffice: each format transition depends on one router, its
parent and one child, and on comparing a degree or a prefix length to a
capacity. The instances put each comparison on both of its sides, and all
passing runs together fire every action. An iterator step depends on the top
frames of its stack and the kind of node it enters; `iter` has each kind below and
above each, and section 5 proves the iterators' five invariants for every set of keys
shorter than the window. It has no leaves in lines: their slots are like any other, and
`flat` has them. In `formats` every kind of router is full at least once and every word, segment and line boundary has edges on both sides. The pool's cases depend
on whether a list is empty, whether a block is head, middle or last of it, and on
the commit's rounding: nine units hold three blocks and more on one list.

`ladder` keeps the fan-out such that the code's separate branch count (see
hazards) cannot differ from the number of live edges where it matters. `iter`
has a window that no path exceeds: below a dead edge (section 6) an iterator follows a
null handle. `buckets` lets allocations throw in adaptive mode only, and not below a
fused node (`FusionFaults` is FALSE): in mode buckets the dangling slot of section 6
would end every other property's run, and so would the freed prefix node below a
fusion. What the rebuild of a page does is all there: in `LoadFusing` its third entry
widens the router and the fourth meets the prefix node above it and fuses the two, in
the split itself. States of `buckets` are told apart without `asked`, `ret` and `seen`
(`View`): no call depends on the first two, and `seen` is a function of the root; the
refinement is still checked at every step that TLC generates.

`flat` has values that do not fit a handle, `ladder` has values that do; both
have leaves in lines and two-byte routers. In `transport` values do not fit a handle
and no router is wide, so the arms of `EqWalk` for `setlist_u16` and `value_inline` are
not reached there, and no path is longer than the window.

Fairness. `FairSpec` has weak fairness of the steps of `Step`, the union of all
actions of a running call, that do not throw, and none of `Call`: the library
has one thread, takes no lock and waits for nothing, so a call that has begun
runs on until it returns; a caller need never call, and an allocation need
never fail. `EveryCallReturns` then says that no loop of the code runs forever.
`FairIterSpec` has weak fairness of the steps of the map's running call and of
`Loop`, the iterations of an iterator's loops, for the same reason, and none of the
operations' entries: `EveryMoveEnds` says that no loop of an iterator runs forever.
The other modules have safety properties only: their actions are whole calls, or, in a clone,
allocations that a caller waits for.

Each property of a passing run comes with a mutant: the definitions marked
`Slip:` in the modules are plausible bugs, not code, and TLC finds the property
violated with them.

## 4. Properties

* `ImplementsMap` - every step is a step of the dictionary or none; with it,
  `insert`'s strong guarantee under allocation failure, and the answers.
* `UniqueKeys` - every key has one place, in *all* intermediate states, also where
  a throw leaves the loop.
* `NoBlockLost` - what was allocated is what the tree and the running call hold, at
  every step, whichever of a step's allocations throws: nothing is lost and nothing
  is given back twice. Two pieces of bookkeeping that nothing in the code compares.
* `NoDeadEdge`, `NoEmptyRouter` - "every subtree holds a terminal", which
  `descend_min_` relies on.
* `InlineUnderSetlist` - a tail offset never ends up where an address is read.
* `PointersLive` - what a call keeps across iterations (`slot`, `pslot`, the
  router being grown, the levels of remove's window) still leads to a node of the
  right kind after every split, fusion, widening, unlink and collapse.
* `WithinFormat`, `CountMatches`, `EveryCallReturns`.
* `BoundsFollowOrder`, `StepsFollowOrder`, `ForEachValueInOrder`, `ForEachInOrder` -
  wherever an iterator or a walk goes, it goes where the sorted set of stored keys
  says, whatever route it came by.
* `SamePlaceSameFrames` - two iterators at one element are equal, which the code
  decides by frames and not by keys.
* `KeyBytesRight` - the lazily built key is the key, over any mix of steps before and
  after it was first read.
* `EraseReturnsSuccessor` - although the remove restructured the iterator's frames.
* `EveryMoveEnds` - a popped frame is not pushed again, and no loop looks at one frame
  for ever.
* `FindsEdges`, `StepsInOrder`, `LineSound` - each layout *is* the set of edges put
  into it, in order, and the leaves in a line neither meet its branches nor each
  other, through every order of growth, shrinking and failure.
* `PagesSound`, `WalkAgreesWithFind`, `NoLeak`, `NoDanglingSlot`,
  `ImplementsBasicMap` - a page is an exact ordered index; index order, lookup and
  dictionary agree, value by value; a throw half way loses no block and no key, and
  leaves no handle to a released block; a call changes no key but its own. Values may
  be left moved-from (`Hollow`): that is the difference between the basic and the
  strong guarantee.
* `EqualityDecides` - a structural verdict of `operator==` is right for any two
  histories; only "undecided" goes to the element-wise comparison.
* `NoStray` - a clone that throws frees what it had built, once.
* `Disjoint`, `InBounds`, `ListsExact`, `Covered`, `Reached`, `GrowsOnlyIfMust` -
  the pool hands out each unit once, loses none, and grows only if it must.
* `CheckpointSurvives`, `CarvingFitsTree` - the attached map is the checkpointed
  one, and the restored free lists and the tree share the region exactly.

## 5. Proofs

All theorems hold for every value of the constants that the ASSUMEs of the modules
allow, which are the `static_assert`s and the relations between the constants of
the code.

### ArtTree

| module | theorem | property |
|---|---|---|
| ArtTreeProofs | `TypeCorrect` | `TypeOK` |
| | `PointersStayLive` | `PointersLive` |
| | `KeysStayUnique` | `UniqueKeys` |
| | `EveryNodeHasOneParent` | `OnlyOneParent` (proved, no run needs it) |
| ArtTreeFormat | `FormatsHold` | `WithinFormat` |
| | `RoutersStayAlive` | `NoEmptyRouter` |
| | `InlineHoused` | `InlineUnderSetlist` |
| | `NoEdgeHangs` | `NoDeadEdge`, for keys shorter than the window |
| ArtTreeMap | `MapImplemented` | `ImplementsMap`, the refinement of MapSpec |
| | `CountStaysRight` | `CountMatches` |

None of the properties is inductive. There are six invariants: types and pointers,
on top of it the trie, and on top of that the other four.

*Types and pointers.* `IInv` adds the format of each node (`Formed`, a part of
`WithinFormat`): without it an empty prefix node would let a descent stand still,
and the slots of a path would not be different nodes. The argument is that slots get
strictly longer along a path. So a freed node is none of the levels above it
(`FreedOK`); the node that a lazy fusion absorbs is not the parent `pslot`; and
because a ring of `RmLvn` slots gives different places to levels less than `RmLvn`
apart (`ModDiffers`), the window holds the last slots of the descent. The proof goes
in layers: byte sequences (`ConcatFacts`, `PassEdge`, `LcpFacts`, ...), nodes, the tree
each action builds (`SplitPrefixOK`, `RestrideOK`, `CollapseOK`, ...), then one lemma
per action; the actions share lemmas for a call that returns (`FinishOK`) and for a
loop that goes on (`PutAgainOK`, `GrowAgainOK`, `ShrinkAgainOK`).

*The trie.* A shape maps each slot to the slots its edges lead to, and nothing
else; `Good` says that it is a trie: a child's slot extends its parent's, the children
of a node are at one depth, every slot below a node is at or below one of its
children, and every node but the root is some node's child. The
second part of ArtTreeProofs proves of half a dozen moves (put a node in for an edge, take out a leaf, let a node
absorb its child, splice a piece of the tree, ...) that they keep a shape good.
The third part shows that what each action does to the tree is such a move, or a few
of them in a row, and what is known between two of them: while `rm_unwind_` runs,
the freed slot still hangs from an edge (`Hanging`). `OnlyOneParent` is then a part of the
invariant: it is about the tree between two iterations, and says nothing of blocks that a
throwing iteration had built; `UniqueKeys` follows because two terminals of one key would lie on one
path, and a terminal that is passed on the way down has a shorter key.

*The formats.* `Sounds`: every node is `Roomy`, that is, within the capacities of its
format, and every router is `Alive`, has an edge or a term; while `rm_shrink_` looks at
a router, that one may be dead. Where a router is rebuilt, what has to be shown is that
the new format has room for what the old one held. For `widen` that is
`FinerSegments`: each segment of a wider cnode lies within one segment of the narrower
one (`HalfSegments`, division by `MaxByte + 1`), so a rung that is at its cap in one
segment still fits the next. A re-stride makes setlists of no more edges than the u16
router had stems; a fusion is bounded by `FUSE_THRESH` and a shrink by `SHRINK_MAX`,
both within the capacity they shrink to; a prefix that moves was compared with the
header it moves to, and what a split leaves of it is shorter.

*The lines.* `Homes`: the root lives in no line, every node that is not a setlist is
`Bare`, has no child in a line, and while `grow_router_` runs, the router it widens is
bare too, although it may still be a setlist. Each rebuild that hands children to a
node of another format does so for a reason of its own: `widen` because
`sl_externalize_all_` has run before, `try_fuse_parent` because a child with leaves in its
line is not `Absorbable`, a descent because it moves its leaf out first, `rm_collapse_`
because a lone leaf in the line stays where it is, and a re-stride and a split because
the nodes they make are setlists or take over what a bare node led to.
`BareAgain` and `StaysHoused` are common to all of them: a tree in which no leaf moved
into a line is as sound as the nodes that the new edges come from.
`InlineUnderSetlist` follows with the trie: a leaf in a line has a parent, and it is no
other kind of node.

*Edges.* `NoDeadEdge` has a hypothesis, `ShortKeys`: every key has fewer bytes than the
window has levels. Each level consumes a byte, so `n <= Len(slot) + 1` and the ring
never wraps: its level 0 stays the root, and an unwind ends only there or at a router
that survives. The invariant `Linkage` adds that every edge leads to a node, except the
one to the child an unwind has just freed. That no *other* edge leads to that child is
the trie again (`OneParent`), and it is what makes the steps that move a node (a
collapse, a fusion, a prefix that goes into a header) leave nothing behind. Without
`ShortKeys` the property is false (section 6).

*The dictionary.* `Facts` is the set of (key, value) pairs that the leaves and the
terms of a tree hold. Each action has a lemma of what it does to the facts (`Stays`,
`Gains`, `Swaps`, `Loses`, `Clears`) and what it answers (`Returns`, `Throws`,
`Answers`); `MissIsRight` says that a lookup that ends without a hit has missed
nothing, since the key would have to be below an edge that is not there or below a
prefix that differs. `OutcomeMaps` maps each of these outcomes to a step of MapSpec or
to a stutter, `OutcomeCounts` keeps `count` equal to the number of facts: that also
covers the calls that throw after they have externalized half of a setlist.

The theorems are about ArtTree; Iterators, Walks and Transport extend it and take its
calls as they are.

### Iterators

| module | theorem | property |
|---|---|---|
| IterProofs | `PlaceHasOneStack` | `SamePlaceSameFrames` |
| | `KeyIsTheElements` | `KeyBytesRight` |
| | `BoundsAreRight` | `BoundsFollowOrder` |
| | `StepsAreRight` | `StepsFollowOrder` |
| | `EraseIsRight` | `EraseReturnsSuccessor` |

All five have the hypothesis `ShortKeys`, as `NoDeadEdge` has: with longer keys a remove may
leave an edge to nothing, and an iterator follows it.

The properties speak of an iterator at rest, and none says why it will be right after
the next step. `IterInv` is the conjunction of `Ground`, the invariants of ArtTree proved
above (types, the trie, live edges, living routers, the dictionary), that stored keys are
keys of the instance, and `Tracked`: either there is no iterator, or `erase(pos)` waits for
its remove (whose key is `Gone` once the remove is decided), or no call of the map runs
and the iterator is in the `Mode` of its loop. There is one clause of `Mode` for each
loop, and it says what the loop has done so far in terms of the answer it will give:

* The frames always are the way from the root to where the loop is: `Stack`, and each
  `Aims` at the next. A terminal `Pends` in a frame if it lies at an edge the cursor has
  not taken, or is a term still to report; it was `Passed` if the cursor is past it.
  `PendsAfter` and `PassedBefore` are the order of the keys: what pends in a frame on the way to a
  node comes after every key below the node, and what was passed comes before. They
  rest on `LessIs` (two keys part after some bytes), on the trie (which edge a key
  takes is decided by its bytes behind the prefix) and, for two-byte routers, on the
  cursor being a rank among stems.
* `Seeking`: the terminals that pend are those that qualify as the answer. A
  pop changes nothing of it, because a frame whose edges are all taken has nothing
  pending; taking the least edge leaves `MinAt`: what qualifies is at or below the node, or
  pends behind it. `Retreating` and `MaxAt` are the mirror image.
* `LbAt`: the key looked for begins with the bytes down to the node, so it lies between
  what the frames passed and what pends in them. `LbParts` decides for the whole
  subtree by its first differing byte, `LbNoEdge` by the cursor that the missing edge
  would have (`StemCursor` pads a missing second byte with 0).
* `Kept`: once the key is maintained, the buffer holds the bytes down to where the loop is,
  and each frame the lengths to cut it back to (`Lens`). `Replayed` is the same for a
  read under way, frame by frame.
* `Done`: the iterator is `Seated`, on the way to its terminal with the cursors of that
  way, and stands where `AnswerTo` says. Every descent ends at a terminal because
  routers are alive and no edge is dead.

IterMoves has one lemma per action and mode, in a fixed tree; IterProofs adds what the
map's calls do between them: `StoredStays` and `Gone` follow a remove with the outcomes of
ArtTreeMap, so `EraseSeek` starts from a tree without the key, and the first key
not below it is the successor.

### OneRouter

| module | theorem | property |
|---|---|---|
| OneRouterProofs | `RouterInvariant` | the router carries exactly its edges |
| | `RouterFindsEdges` | `FindsEdges` |
| | `RouterStepsInOrder` | `StepsInOrder` |
| | `RouterLineSound` | `LineSound` |

None of the three properties is inductive: that the next removal shifts the right
flags, or that the next rank is right, takes the whole layout. The invariant is
`RouterInv`: the router `Holds` the map from bytes to handles that `edges` means. What
that says depends on the format, and each format has its own layer of lemmas that
read and update the map `m` through it:

* `StemsHold(s, m)`: the stems ascend and are padded behind (`Sorted`), tail offsets are
  flagged and each leads to one leaf (`Tailed`), the leaves in the line are apart from
  each other and from the branches (`Apart`), and the children are those of `m`
  (`Carries`). `StemsFind` includes the search of the two halves of a setlist's lanes,
  where byte `MaxB` first meets its pads. `PackedBy` and `PackedHigher` say where packing
  from the tail puts leaves: above those of later branches, aligned, and, when it packs
  fewer or the same leaves again, never below where they were; so `sl_repack_` after a
  removal needs no check of room.
* `CnodeHolds(c, m)`: each segment has the bits of the bytes it holds and their branches
  in order. `BmIs` shows that a bitmap read in words, with the over-read of a short one
  masked off or not, has the right count and ranks; `RankAdded` and `RankLost` what an
  edge more or less does to the ranks of the others; `WordOrder` that the first word of
  the first segment with a bit has the nearest byte.
* `FullHolds(f, m)`: the slots and the population of each line are those of `m`. Here the
  reciprocal (`FullAssumption`, which the code asserts statically) is used.

`AnyReads`, `TrySetHolds` and `RemoveHolds` put these together for a router of any
format, and the steps need nothing else. `build_wider` asserts that "next tier always
has room for a rebuild"; `HalvesFit`, `StemsFit` and `RebuiltHolds` prove it, from
`SetCap <= SegCap["c2"] <= SegCap["c4"] <= SegCap["c8"]` and the halving of segments, and
`RungIs` that the loop of `grow_router_` ends at a rung with room, with every
router it passes, at any of which it may throw, carrying the same edges.

### LinePool

`TypeCorrect`, `BlocksDisjoint`, `BlocksInBounds`, `FreeListsExact`, `RegionCovered`,
`FreedReached` and `GrowthIsNeeded` state all invariants and the action property of the
`pool` run, for every `FreeMax`, `Chunk > 0`, `Cap` and set of positive `Sizes`.

The first five are one inductive invariant, `IInv`, their conjunction. None of them
is inductive by itself: a block that is reused is disjoint from the others because
the list leads only to freed blocks of its own size (`ListsExact`); a bumped block is
disjoint because all blocks end below the frontier (`InBounds`); relinking in the
middle of the huge list keeps `ListsExact` because no two links are equal.

The other two need that the links run in no cycle, which `ListsExact` does not say.
`ListsInOrder` (`Placed`) says that the freed blocks can be numbered from the heads of
their lists, each link leading to the next number: a push moves the whole list by one,
an unlink what is behind it. That a block is reached from its head follows by induction
on its number; that a list of freed blocks has a head, which `GrowsOnlyIfMust` needs,
because no number on a list is missing (`PlacesFilled`).

### PoolStore

`TypeCorrect`, `CheckpointKept` and `CarvingFits` state `TypeOK`, `CheckpointSurvives` and
`CarvingFitsTree`, for programs that detach a map before they destroy it once it is
checkpointed and that attach only to images a map was saved in: the theorems have
`DetachesSaved /\ AttachesSaved` as a hypothesis. Both are needed: the run `fresh` and
section 6 show what happens otherwise.

The invariant is that a *carving* (frontier, list heads, block contents) `Holds` the tree
below a root: the tree's blocks are cells of the tree and the rest of the region below
the frontier is exactly what the lists lead to. It is stated for the open pool and, in
the same words, for what the superblock saves together with the mapped blocks. An
allocation takes a block off what the lists lead to, or moves the frontier
(`AllocFacts`); a release puts it back (`GiveFacts`). A map that is destroyed is, by the
first of the two rules, not the saved one, and the second lets nothing attach to what it
leaves: of it only the types are followed (`GivenAllType`). In `CarvingFits` the recursive functions that walk a list
(`WalkExists`, `WalkTakes`) are shown to collect all of it, by induction on its length.

### Only model-checked

* Liveness (`EveryCallReturns`, `EveryMoveEnds`), which this prover does not do.
* `NoBlockLost`, `ForEachValueInOrder`, and everything of Buckets and Transport. Their operators are
  recursive, and the prover takes no recursive operators; where a proof here does
  induct (over lists and heights), it is over recursive *functions*, by looking at
  a smallest counterexample.
* Iterators over keys as long as remove's window or longer, short of a dead edge.

## 6. Where the code and its documentation disagree

Four are runs that TLC must find violated; the lines are quoted in
PROJECT.json. All four were also reproduced with the library itself or follow from
a line of it.

1. `deadedge` (3183): a remove whose parent is out of the 64-level window leaves
   an edge to a null handle, and perhaps a subtree with no key, while iterators
   assume there is none.
2. `foreach` (3887): `for_each` has no case for two-byte routers and reads the one
   line of such a router as a node_full. The same bug was fixed in
   `for_each_value`.
3. `bktdangling` (2871): when a page overflows, it is split and freed, and the
   insertion goes on below the new router; a throw there leaves the parent's slot
   at the freed page.
4. `fresh` (`pool.hpp:374`): the "empty image" that a new store is stamped with
   has root 0, a leaf at offset 0, instead of the null handle.

Others show up in the models, and no configuration is kept for them:

* 4882: the arm of `split_leaf` for a value that lives in a handle takes a setlist with
  no guard; when the leaf for the new value throws, the setlist is lost, against
  README.md:423 ("zero leaks"). ArtHeap has the arm (`SplitLeafBuilds`): with
  `Inlineable = TRUE` in the instance of `flat`, `NoBlockLost` is violated by an insert of
  the empty key and an emplace that throws after its first allocation. With the arm
  guarded it holds.
* 2884-2891, 2833: `bkt_put` fuses a prefix node with the full node below it, frees the
  prefix node and goes on below. If that throws in the rebuild of `bkt_split`, `top` still
  is the prefix node: the guard frees it again, and the fused node is lost. It takes a
  page whose entries share more bytes than a setlist's prefix and have two next bytes
  more than a setlist has branches. With `Setups <- FusingSetups` and
  `FusionFaults = TRUE` in the instance of `buckets`, `NoLeak` and `NoDanglingSlot` are
  violated.
* 2944: in mode buckets a full setlist with a prefix loses it when `widen` throws;
  every key below is then found under other bytes (`WidenFails`; `ImplementsBasicMap` does not hold when `Faulty` has
  `"buckets"`).
* 1033, 979: `insert` on a present key may move the leaf or fuse a prefix node; the
  README says it never restructures (`AssignNeverRestructures` of ArtTree, violated
  in the instance of `flat`).
* 790, `pool.hpp:218`: checkpoint and then the map's destructor destroys the
  checkpoint; `detach` is necessary, not only fast (`CheckpointSurvives` with
  `DetachesSaved = FALSE`).
* `pool.hpp:334`: a creation that stops between `ftruncate` and the stamp makes the
  directory unusable (`ReopenOrCreate`). `pool.hpp:369`: a reopen whose commit
  fails does not unwind (`FailedOpenUnwinds`). Both are violated in the instance of
  `reopen`.

## 7. Not modelled, and the plan

Left out, and why:

* Values whose constructors throw (`value_ops.hpp`; 4208, 2690, 2726), the values a
  clone moves one by one (5083), and the fresh page that a remove from a page of
  non-trivial values allocates (2790). A value is opaque in every module; giving it
  a life would add a failing outcome to every action that builds a leaf or an entry.
* In ArtHeap: the sizes of blocks (they are counted), and the value that `make_leaf`
  (4208) constructs in a block it has taken, if its constructor throws.
* The superblock while it is written: `checkpoint` (`pool.hpp:153-168`) writes field by
  field, magic first, and `Stamp` and `Checkpoint` are one step. A process that dies in
  between leaves a valid magic over fields of two moments, in a new store over free
  lists of zeros.
* What follows a checkpoint: an insert, a remove or the map's destructor changes the
  mapped blocks while the superblock stays. README.md:410-416 promises an image only
  for a store that is closed cleanly after its checkpoint; so an image that was changed
  is `stale` and `Attach` does not take it, and with `DetachesSaved` no destructor runs on a
  saved map. `CheckpointSurvives` and `CarvingFitsTree` are about what remains: close, kill
  and reopen while the image is current.
* The branch count of a router together with the path window: ArtTree derives the
  degree from the edges, RouterFormats keeps counts but has no window. The two
  differ only after a dead edge.
* A pool that backs more than the map that adopts into it: a misuse that README.md:363
  forbids.
* Bucket modes with dense tiers, wide stems and values in handles: the engine meets
  the radix tree only through the operations that `Put` uses.
* The key codec and the v2 node address: pure functions, tested over their domains.
* Copies of the headers in `include/artpp/v2/`, the psio adapter, `external/` and
  `bench/`.

Next would be, with the recursive operators of BucketPage written as recursive
functions, that a page's offsets stay disjoint.
