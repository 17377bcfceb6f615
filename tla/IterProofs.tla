----------------------------- MODULE IterProofs -----------------------------
(***************************************************************************)
(* Proofs about Iterators, for every set of keys, every capacity and mode: *)
(* the map's calls leave the tree that IterMoves asks for.                 *)
(***************************************************************************)
EXTENDS IterMoves, ArtTreeMap, ArtTreeFormat

-----------------------------------------------------------------------------
(* The map's calls and the iterator.                                       *)

\* What the tree's own proofs keep.
Ground == IInv /\ Shape /\ Linkage /\ Sounds /\ Served

LEMMA GroundInit == Init => Ground
  BY InitOK, InitShape, InitLinks, InitSound, ServedInit DEF Ground

LEMMA GroundStays ==
  ASSUME ShortKeys, Ground, [Next]_vars
  PROVE  Ground'
  <1>1. IInv /\ Shape /\ Linkage /\ Sounds /\ Served
    BY DEF Ground
  <1>2. Served'
    BY <1>1, ServedStays
  <1>3. CASE Next
    <2>1. IInv'
      BY <1>1, <1>3, StepOK
    <2>2. Shape'
      BY <1>1, <1>3, StepShape
    <2>3. Linkage'
      BY <1>1, <1>3, StepLinks
    <2>4. Sounds'
      BY <1>1, <1>3, StepSound
    <2> QED
      BY <1>2, <2>1, <2>2, <2>3, <2>4 DEF Ground
  <1>4. CASE UNCHANGED vars
    <2>1. IInv'
      BY <1>1, <1>4, StutterOK
    <2>2. Shape'
      BY <1>1, <1>4, StutterShape
    <2>3. Linkage'
      BY <1>1, <1>4, StutterLinks
    <2>4. Sounds'
      BY <1>1, <1>4, StutterSound
    <2> QED
      BY <1>2, <2>1, <2>2, <2>3, <2>4 DEF Ground
  <1> QED
    BY <1>3, <1>4

LEMMA TrunkHolds ==
  ASSUME IInv, Shape, Linkage, Sounds, pc = "idle"
  PROVE  Trunk
  <1>1. TreeOK(tree) /\ Good(Kids(tree))
    BY StateFacts DEF Shape
  <1>2. Linked(tree, {})
    BY DEF Linkage
  <1>5. \A p \in DOMAIN tree : KidsOf(p, tree[p]) \subseteq DOMAIN tree
    BY <1>2 DEF Linked
  <1>6. \A p \in DOMAIN tree : IsRouter(tree, p) => tree[p].edges # {} \/ tree[p].term # NoVal
    BY DEF IsRouter, Sounds, AllSound, SoundBut, Sound, Alive
  <1> QED
    BY <1>1, <1>5, <1>6 DEF Trunk

LEMMA GroundTrunk ==
  ASSUME Ground, pc = "idle"
  PROVE  Trunk
  BY TrunkHolds DEF Ground

\* The stored keys are those of the facts.
LEMMA StoredFacts ==
  ASSUME NEW k
  PROVE  k \in Stored <=> \E v : <<k, v>> \in Facts(tree)
  <1>1. k \in Stored <=> \E p \in Terminals(tree) : k = KeyAt(tree, p)
    BY DEF Stored
  <1>2. ASSUME NEW p \in Terminals(tree), k = KeyAt(tree, p)
        PROVE  <<k, ValAt(tree, p)>> \in Facts(tree)
    BY <1>2, FactIs
  <1>3. ASSUME NEW v, <<k, v>> \in Facts(tree)
        PROVE  \E p \in Terminals(tree) : k = KeyAt(tree, p)
    BY <1>3, FactIs
  <1> QED
    BY <1>1, <1>2, <1>3

LEMMA StoredFactsNext ==
  ASSUME NEW k
  PROVE  k \in Stored' <=> \E v : <<k, v>> \in Facts(tree')
  <1>1. k \in Stored' <=> \E p \in Terminals(tree') : k = KeyAt(tree', p)
    BY DEF Stored
  <1>2. ASSUME NEW p \in Terminals(tree'), k = KeyAt(tree', p)
        PROVE  <<k, ValAt(tree', p)>> \in Facts(tree')
    BY <1>2, FactIs
  <1>3. ASSUME NEW v, <<k, v>> \in Facts(tree')
        PROVE  \E p \in Terminals(tree') : k = KeyAt(tree', p)
    BY <1>3, FactIs
  <1> QED
    BY <1>1, <1>2, <1>3

\* Only the call's own key comes or goes.
LEMMA StoredStays ==
  ASSUME Outcome, Stored \subseteq Keys, req.key \in Keys
  PROVE  Stored' \subseteq Keys
  <1> SUFFICES ASSUME NEW k \in Stored'
               PROVE  k \in Stored \/ k = req.key
    OBVIOUS
  <1>1. PICK v : <<k, v>> \in Facts(tree')
    BY StoredFactsNext
  <1>2. <<k, v>> \in Facts(tree) => k \in Stored
    BY StoredFacts
  <1>3. CASE Stays \/ Returns \/ Throws \/ Answers
    BY <1>1, <1>2, <1>3 DEF Stays, Returns, Throws, Answers, Quiet
  <1>4. CASE Calls
    BY <1>1, <1>2, <1>4 DEF Calls
  <1>5. CASE Gains
    <2>1. <<k, v>> \in Facts(tree) \/ <<k, v>> = <<req.key, req.val>>
      BY <1>1, <1>5 DEF Gains
    <2> QED
      BY <1>2, <2>1
  <1>6. CASE Swaps
    BY <1>1, <1>2, <1>6 DEF Swaps, Assigns
  <1>7. CASE Loses
    BY <1>1, <1>2, <1>7 DEF Loses, Removes
  <1>8. CASE Clears
    BY <1>1, <1>8 DEF Clears
  <1> QED
    BY <1>3, <1>4, <1>5, <1>6, <1>7, <1>8 DEF Outcome

\* The key a remove is called for is gone from when the call is decided.
Gone == phase # "called" => req.key \notin Stored

LEMMA GoneStays ==
  ASSUME Outcome, Gone, phase # "idle", req.op = "remove"
  PROVE  Gone' /\ req' = req
  <1> DEFINE k == req.key
  <1>1. /\ k \in Stored <=> \E v : <<k, v>> \in Facts(tree)
        /\ k \in Stored' <=> \E v : <<k, v>> \in Facts(tree')
    BY StoredFacts, StoredFactsNext
  <1>2. CASE Stays \/ Returns
    BY <1>1, <1>2 DEF Stays, Returns, Quiet, Gone
  <1>3. CASE Answers
    BY <1>1, <1>3 DEF Answers, Quiet, Absent, Gone
  <1>4. CASE Loses
    BY <1>1, <1>4 DEF Loses, Decides, Removes, Gone
  <1>5. ~Throws /\ ~Gains /\ ~Swaps /\ ~Clears /\ ~Calls
    BY DEF Throws, Gains, Swaps, Clears, Calls
  <1> QED
    BY <1>2, <1>3, <1>4, <1>5 DEF Outcome

-----------------------------------------------------------------------------
(* The invariant.                                                          *)

ModeAt == \A y, g, a : y = it /\ g = go /\ a = ask => Mode(y, g, a)

\* No iterator, or one that a call of the map invalidated.
Parked == it = NoIt /\ go.do = "rest"

\* erase(pos) runs the map's remove.
Erasing ==
  /\ it = NoIt /\ go.do = "remove" /\ ask.op = "erase" /\ req.op = "remove"
  /\ req.key = ask.key /\ Gone

\* Between calls of the map the iterator is in the mode of its loop.
Tracked == (pc = "idle" /\ ModeAt) \/ Parked \/ Erasing

IterInv == Ground /\ Stored \subseteq Keys /\ Tracked

LEMMA GroundKeys ==
  ASSUME Ground
  PROVE  req.key \in Keys /\ req.key \in Path
  BY KeysAssumption DEF Ground, IInv, LocalsOK

LEMMA SteadyIs ==
  ASSUME UNCHANGED vars
  PROVE  Steady /\ pc' = pc /\ Gone' = Gone /\ Stored' = Stored
  <1>1. tree' = tree /\ req' = req /\ pc' = pc
    BY DEF vars
  <1>2. Stored' = Stored
    BY <1>1 DEF Stored
  <1>3. phase' = phase
    BY <1>1 DEF phase
  <1> QED
    BY <1>1, <1>2, <1>3 DEF Steady, Gone

\* An operation that leaves the map alone.
LEMMA LastsTracked ==
  ASSUME UNCHANGED vars, pc = "idle", Lasts
  PROVE  Tracked'
  <1>1. Steady /\ pc' = "idle"
    BY SteadyIs
  <1>2. ASSUME NEW y, NEW g, NEW a, y = it' /\ g = go' /\ a = ask'
        PROVE  Mode(y, g, a)'
    <2>1. Mode(y, g, a)
      BY <1>2 DEF Lasts
    <2> QED
      BY <1>1, <2>1, CarryMode
  <1>3. ModeAt'
    BY <1>2 DEF ModeAt
  <1> QED
    BY <1>1, <1>3 DEF Tracked

LEMMA NowIs ==
  ASSUME ModeAt
  PROVE  Mode(it, go, ask)
  BY DEF ModeAt

\* Where no iterator is, none moves.
LEMMA Stood ==
  ASSUME Tracked, go.do \notin {"rest", "remove"}
  PROVE  pc = "idle" /\ Mode(it, go, ask)
  BY NowIs DEF Tracked, Parked, Erasing

LEMMA LoopTracked ==
  ASSUME Ground, Tracked, Loop, ~EraseRemove, ~EraseSeek
  PROVE  Tracked' /\ UNCHANGED vars
  <1>1. CASE MinLeaf \/ MinPn \/ MinTerm \/ MinEdgeDown
    <2>1. go.do = "min" /\ UNCHANGED vars
      BY <1>1 DEF MinLeaf, MinPn, MinTerm, MinEdgeDown, Through, In
    <2>2. pc = "idle" /\ Mode(it, go, ask) /\ Trunk
      BY <2>1, Stood, GroundTrunk
    <2>3. Lasts
      BY <1>1, <2>2, MinStep
    <2> QED
      BY <2>1, <2>2, <2>3, LastsTracked
  <1>2. CASE MaxLeaf \/ MaxPn \/ MaxTerm \/ MaxEdgeDown
    <2>1. go.do = "max" /\ UNCHANGED vars
      BY <1>2 DEF MaxLeaf, MaxPn, MaxTerm, MaxEdgeDown, Through, In
    <2>2. pc = "idle" /\ Mode(it, go, ask) /\ Trunk
      BY <2>1, Stood, GroundTrunk
    <2>3. Lasts
      BY <1>2, <2>2, MaxStep
    <2> QED
      BY <2>1, <2>2, <2>3, LastsTracked
  <1>3. CASE SeekEnd \/ SeekPn \/ SeekTerm \/ SeekEdge \/ SeekPop
    <2>1. go.do = "seek" /\ UNCHANGED vars
      BY <1>3 DEF SeekEnd, SeekPn, SeekTerm, SeekEdge, SeekPop, In
    <2>2. pc = "idle" /\ Mode(it, go, ask) /\ Trunk
      BY <2>1, Stood, GroundTrunk
    <2>3. Lasts
      BY <1>3, <2>2, SeekStep
    <2> QED
      BY <2>1, <2>2, <2>3, LastsTracked
  <1>4. CASE RetreatEnd \/ RetreatEdge \/ RetreatTerm \/ RetreatPop
    <2>1. go.do = "retreat" /\ UNCHANGED vars
      BY <1>4 DEF RetreatEnd, RetreatEdge, RetreatTerm, RetreatPop, In
    <2>2. pc = "idle" /\ Mode(it, go, ask) /\ Trunk
      BY <2>1, Stood, GroundTrunk
    <2>3. Lasts
      BY <1>4, <2>2, RetreatStep
    <2> QED
      BY <2>1, <2>2, <2>3, LastsTracked
  <1>5. CASE LbLeaf \/ LbParts \/ LbPn \/ LbTerm \/ LbEdge \/ LbNoEdge
    <2>1. go.do = "lb" /\ UNCHANGED vars
      BY <1>5 DEF LbLeaf, LbParts, LbPn, LbTerm, LbEdge, LbNoEdge, In
    <2>2. pc = "idle" /\ Mode(it, go, ask) /\ Trunk
      BY <2>1, Stood, GroundTrunk
    <2>3. Lasts
      BY <1>5, <2>2, LbStep
    <2> QED
      BY <2>1, <2>2, <2>3, LastsTracked
  <1>6. CASE ReadFrame \/ ReadSuffix \/ ReadEnd \/ FindEnd
    <2>1. go.do = "read" /\ UNCHANGED vars
      BY <1>6 DEF ReadFrame, ReadSuffix, ReadEnd, FindEnd, Reading, In
    <2>2. pc = "idle" /\ Mode(it, go, ask) /\ Trunk
      BY <2>1, Stood, GroundTrunk
    <2>3. Lasts
      BY <1>6, <2>2, ReadStep
    <2> QED
      BY <2>1, <2>2, <2>3, LastsTracked
  <1> QED
    BY <1>1, <1>2, <1>3, <1>4, <1>5, <1>6 DEF Loop

\* An operation of the iterator that begins.
LEMMA NewTracked ==
  ASSUME Ground, Tracked,
         \/ Begin \/ End \/ Increment \/ Decrement \/ Read \/ Erase
         \/ \E k \in Probes : LowerBound(k) \/ UpperBound(k) \/ Find(k)
  PROVE  Tracked' /\ UNCHANGED vars
  <1>1. pc = "idle" /\ UNCHANGED vars
    BY DEF Begin, End, Increment, Decrement, Read, Erase, LowerBound, UpperBound, Find, New,
           Moves, Reads, Starts
  <1>2. Trunk
    BY <1>1, GroundTrunk
  <1>3. it.live => Mode(it, go, ask)
    <2>1. ~NoIt.live
      BY DEF NoIt
    <2> QED
      BY <2>1, NowIs DEF Tracked, Parked, Erasing
  <1>4. CASE \/ Begin \/ End
             \/ \E k \in Probes : LowerBound(k) \/ UpperBound(k) \/ Find(k)
    <2>1. Lasts
      BY <1>2, <1>4, NewStep
    <2> QED
      BY <1>1, <2>1, LastsTracked
  <1>5. CASE Increment \/ Decrement \/ Read \/ Erase
    <2>1. Lasts
      BY <1>2, <1>3, <1>5, MoveStep
    <2> QED
      BY <1>1, <2>1, LastsTracked
  <1> QED
    BY <1>4, <1>5

\* erase(pos) after its remove: the key is gone.
LEMMA EraseSeekTracked ==
  ASSUME Ground, Tracked, EraseSeek
  PROVE  Tracked' /\ UNCHANGED vars
  <1>1. pc = "idle" /\ go.do = "remove" /\ Bound /\ UNCHANGED vars /\ ask' = ask
    BY DEF EraseSeek, In
  <1>2. Trunk
    BY <1>1, GroundTrunk
  <1>3. Erasing
    <2>1. ~Mode(it, go, ask)
      BY <1>1, ModeIs
    <2> QED
      BY <1>1, <2>1, NowIs DEF Tracked, Parked
  <1>4. phase = "idle"
    BY <1>1, PhaseIs
  <1>5. ask'.op = "erase" /\ ask'.key = req.key /\ req.key \notin Stored
    BY <1>1, <1>3, <1>4 DEF Erasing, Gone
  <1>6. AskOK(ask') /\ ask'.op \in Bounds
    BY <1>5, GroundKeys DEF AskOK, Bounds
  <1>7. Lasts
    BY <1>1, <1>2, <1>5, <1>6, BoundStep
  <1> QED
    BY <1>1, <1>7, LastsTracked

\* erase(pos) has the key: it is the element's, and it is stored.
LEMMA EraseRemoveTracked ==
  ASSUME Ground, Tracked, Stored \subseteq Keys, EraseRemove
  PROVE  Tracked' /\ Next
  <1>1. go.do = "read" /\ HasKey /\ ask.op = "erase" /\ ask' = ask /\ it' = NoIt
        /\ go' = Go("remove", <<>>, 0)
    BY DEF EraseRemove
  <1>2. PICK v \in Values : Call("remove", KeyBytes, v)
    BY DEF EraseRemove
  <1>3. Mode(it, go, ask) /\ pc = "idle"
    BY <1>1, Stood
  <1>4. Trunk
    BY <1>3, GroundTrunk
  <1>5. ReadAt(it, go.m, ask)
    BY <1>1, <1>3, ModeIs
  <1>6. Known(it)
    BY <1>1 DEF HasKey, Known
  <1>7. KeyRest(it) /\ ask.key = Key(it.at) /\ it.at \in TSet
    BY <1>1, <1>5, <1>6 DEF ReadAt, Seated
  <1>8. KeyBytes = Key(it.at)
    <2>1. KeyBytes = BytesOf(it)
      BY DEF KeyBytes, BytesOf
    <2> QED
      BY <1>6, <1>7, <2>1, BytesAre
  <1>9. KeyBytes \in Stored
    BY <1>4, <1>7, <1>8, StoredIs
  <1>10. KeyBytes \in Keys
    BY <1>9
  <1>11. Next
    BY <1>2, <1>10 DEF Next, Ops
  <1>12. req' = [op |-> "remove", key |-> KeyBytes, val |-> v] /\ pc' = "rem"
    BY <1>2 DEF Call, Entry
  <1>13. req'.op = "remove" /\ req'.key = KeyBytes /\ phase' = "called"
    BY <1>12, PhaseWillBe
  <1>14. go'.do = "remove"
    BY <1>1 DEF Go
  <1>15. Erasing'
    BY <1>1, <1>7, <1>8, <1>13, <1>14 DEF Erasing, Gone
  <1> QED
    BY <1>11, <1>15 DEF Tracked

\* A call of the map, as it runs.
LEMMA RunsTracked ==
  ASSUME Ground, Tracked, MapRuns
  PROVE  Tracked' /\ Next
  <1>1. Step /\ it' = it /\ go' = go /\ ask' = ask
    BY DEF MapRuns, iterVars
  <1>2. Next
    BY <1>1 DEF Next
  <1>3. pc # "idle" /\ pc \in PCs
    <2>1. Put => pc # "idle"
      BY DEF Put, PutNull, PutSameLeaf, PutSplitLeaf, PutLazyFuse, PutSplitPrefix, PutTerm,
             PutDescend, PutExternalizeAll, PutAdd, PutAddStem, PutRestride, GrowLift,
             GrowWiden, GrowLink, FuseParent, Putting, NoChild
    <2>2. Get \/ Clear => pc # "idle"
      BY DEF Get, GetDescend, GetMiss, GetHit, Clear, Getting
    <2>3. Rem => pc # "idle"
      BY DEF Rem, RemDescend, RemMiss, RemLeaf, RemTerm, RemInline, UnlinkPn, UnlinkEdge,
             ShrinkEmpty, ShrinkToTerm, ShrinkLone, ShrinkDewiden, ShrinkStands, Shrinking, Removing
    <2> QED
      BY <1>1, <2>1, <2>2, <2>3 DEF Step, Ground, IInv, LocalsOK
  <1>4. phase # "idle"
    BY <1>3, PhaseIs DEF PCs
  <1>5. Outcome
    BY <1>2, StepOutcome DEF Ground
  <1>6. CASE Parked
    BY <1>1, <1>2, <1>6 DEF Parked, Tracked
  <1>7. CASE Erasing
    <2>1. Gone' /\ req' = req
      BY <1>4, <1>5, <1>7, GoneStays DEF Erasing
    <2> QED
      BY <1>1, <1>2, <1>7, <2>1 DEF Erasing, Tracked
  <1> QED
    BY <1>2, <1>3, <1>6, <1>7 DEF Tracked

LEMMA RestTracked ==
  ASSUME Tracked, Discard \/ Change
  PROVE  Tracked' /\ [Next]_vars
  <1>1. it' = NoIt /\ go'.do = "rest"
    BY DEF Discard, Change
  <1>2. Discard => UNCHANGED vars
    BY DEF Discard
  <1>3. Change => Next
    BY DEF Change, Next, Ops
  <1> QED
    BY <1>1, <1>2, <1>3 DEF Tracked, Parked

LEMMA StutterTracked ==
  ASSUME Tracked, UNCHANGED allVars
  PROVE  Tracked' /\ UNCHANGED vars
  <1>1. UNCHANGED vars /\ it' = it /\ go' = go /\ ask' = ask
    BY DEF allVars, iterVars
  <1>2. CASE pc = "idle" /\ ModeAt
    <2>1. Lasts
      BY <1>1, <1>2 DEF ModeAt, Lasts
    <2> QED
      BY <1>1, <1>2, <2>1, LastsTracked
  <1>3. CASE Parked
    BY <1>1, <1>3 DEF Parked, Tracked
  <1>4. CASE Erasing
    <2>1. req' = req /\ Gone' = Gone
      BY <1>1, SteadyIs DEF Steady
    <2> QED
      BY <1>1, <1>4, <2>1 DEF Erasing, Tracked
  <1> QED
    BY <1>1, <1>2, <1>3, <1>4 DEF Tracked

LEMMA StepTracked ==
  ASSUME Ground, Stored \subseteq Keys, Tracked, [IterNext]_allVars
  PROVE  Tracked' /\ [Next]_vars
  <1>1. CASE Loop /\ ~EraseRemove /\ ~EraseSeek
    BY <1>1, LoopTracked
  <1>2. CASE EraseRemove
    BY <1>2, EraseRemoveTracked
  <1>3. CASE EraseSeek
    BY <1>3, EraseSeekTracked
  <1>4. CASE Change \/ Discard
    BY <1>4, RestTracked
  <1>5. CASE MapRuns
    BY <1>5, RunsTracked
  <1>6. CASE \/ Begin \/ End \/ Increment \/ Decrement \/ Read \/ Erase
             \/ \E k \in Probes : LowerBound(k) \/ UpperBound(k) \/ Find(k)
    BY <1>6, NewTracked
  <1>7. CASE UNCHANGED allVars
    BY <1>7, StutterTracked
  <1> QED
    BY <1>1, <1>2, <1>3, <1>4, <1>5, <1>6, <1>7 DEF IterNext

LEMMA StoredIn ==
  ASSUME Ground, Stored \subseteq Keys, [Next]_vars
  PROVE  Stored' \subseteq Keys
  <1>1. CASE Next
    <2>1. Outcome
      BY <1>1, StepOutcome DEF Ground
    <2> QED
      BY <2>1, GroundKeys, StoredStays
  <1>2. CASE UNCHANGED vars
    BY <1>2, SteadyIs
  <1> QED
    BY <1>1, <1>2

LEMMA IterInvInit == IterInit => IterInv
  <1> SUFFICES ASSUME IterInit
               PROVE  IterInv
    OBVIOUS
  <1>1. Ground
    BY GroundInit DEF IterInit
  <1>2. Stored = {}
    BY EmptyWants DEF IterInit, Init, Empty
  <1>3. Parked
    BY DEF IterInit, Parked, Rests, Go
  <1> QED
    BY <1>1, <1>2, <1>3 DEF IterInv, Tracked

LEMMA IterInvStays ==
  ASSUME ShortKeys, IterInv, [IterNext]_allVars
  PROVE  IterInv'
  <1>1. Tracked' /\ [Next]_vars
    BY StepTracked DEF IterInv
  <1>2. Ground'
    BY <1>1, GroundStays DEF IterInv
  <1>3. (Stored \subseteq Keys)'
    BY <1>1, StoredIn DEF IterInv
  <1> QED
    BY <1>1, <1>2, <1>3 DEF IterInv

LEMMA IterInvHolds == ShortKeys => (IterSpec => []IterInv)
  <1> SUFFICES ASSUME ShortKeys
               PROVE  IterSpec => []IterInv
    OBVIOUS
  <1>1. IterInit => IterInv
    BY IterInvInit
  <1>2. IterInv /\ [IterNext]_allVars => IterInv'
    BY IterInvStays
  <1> QED
    BY <1>1, <1>2, PTL DEF IterSpec

-----------------------------------------------------------------------------
(* What the invariant is for.                                              *)

\* The iterator between its operations.
LEMMA RestIs ==
  ASSUME IterInv, Resting
  PROVE  /\ Trunk /\ it \in Iter /\ Done(it, ask) /\ Place(it) = Answer
         /\ ~it.end => Seated(it) /\ KeyRest(it)
  <1>1. go.do = "rest" /\ it.live
    BY DEF Resting
  <1>2. ~NoIt.live
    BY DEF NoIt
  <1>3. pc = "idle" /\ Mode(it, go, ask)
    BY <1>1, <1>2, NowIs DEF IterInv, Tracked, Parked, Erasing
  <1>4. Trunk
    BY <1>3, GroundTrunk DEF IterInv
  <1>5. it \in Iter /\ Done(it, ask)
    BY <1>1, <1>3, ModeIs
  <1> QED
    BY <1>4, <1>5 DEF Done, AtEnd, Answer

LEMMA PlaceRight ==
  ASSUME IterInv
  PROVE  BoundsFollowOrder /\ StepsFollowOrder /\ EraseReturnsSuccessor
  BY RestIs DEF BoundsFollowOrder, StepsFollowOrder, EraseReturnsSuccessor

LEMMA BytesRight ==
  ASSUME IterInv
  PROVE  KeyBytesRight
  <1> SUFFICES ASSUME Resting, ~it.end, HasKey
               PROVE  KeyBytes = KeyAt(tree, it.at)
    BY DEF KeyBytesRight
  <1>1. KeyRest(it) /\ Known(it)
    BY RestIs DEF HasKey, Known
  <1>2. KeyBytes = BytesOf(it)
    BY DEF KeyBytes, BytesOf
  <1> QED
    BY <1>1, <1>2, BytesAre DEF Key

\* The one cursor on the way to a place.
LEMMA AimsCursor ==
  ASSUME Trunk, NEW fr, Inner(fr), NEW q \in Path, Aims(fr, q)
  PROVE  fr.cur = CursorTo(fr.node, q)
  <1> DEFINE p == fr.node
  <1>1. /\ p \in DOMAIN tree /\ (IsPn(tree, p) \/ IsRouter(tree, p))
        /\ ~(IsPn(tree, p) /\ IsRouter(tree, p)) /\ p # q
    BY InnerIs, AimsUnder
  <1>2. CASE IsPn(tree, p)
    <2>1. fr.cur = 1
      BY <1>2 DEF Aims
    <2> QED
      BY <1>1, <1>2, <2>1 DEF CursorTo
  <1>3. CASE IsRouter(tree, p)
    <2>1. PICK e \in tree[p].edges : fr.cur = Taken(p, e) /\ StartsWith(q, ChildOf(p, e))
      BY <1>3 DEF Aims
    <2> DEFINE f == CHOOSE e1 \in tree[p].edges : StartsWith(q, ChildOf(p, e1))
    <2>2. f \in tree[p].edges /\ StartsWith(q, ChildOf(p, f))
      BY <2>1
    <2> HIDE DEF f
    <2>3. f = e
      BY <1>1, <1>3, <2>1, <2>2, OneEdge
    <2>4. CursorTo(p, q) = Taken(p, f)
      BY <1>1, <1>3 DEF CursorTo, f
    <2> QED
      BY <2>1, <2>3, <2>4
  <1> QED
    BY <1>1, <1>2, <1>3

LEMMA FramesRight ==
  ASSUME IterInv
  PROVE  SamePlaceSameFrames
  <1> DEFINE s == it.stk
             q == it.at
             W == {p \in DOMAIN tree : StartsWith(q, p) /\ ~IsLeaf(tree, p)}
  <1> SUFFICES ASSUME Resting, ~it.end
               PROVE  /\ {s[i].node : i \in DOMAIN s} = W
                      /\ \A a, b \in DOMAIN s : a < b => Len(s[a].node) < Len(s[b].node)
                      /\ \A i \in DOMAIN s : s[i].cur = CursorTo(s[i].node, q)
    BY DEF SamePlaceSameFrames
  <1>1. Trunk /\ it \in Iter /\ Seated(it)
    BY RestIs
  <1>2. /\ Len(s) \in Nat /\ DOMAIN s = 1 .. Len(s)
        /\ Stack(s) /\ q \in TSet
    BY <1>1, IterIs DEF Seated
  <1>3. q \in DOMAIN tree /\ q \in Path /\ (IsLeaf(tree, q) \/ IsRouter(tree, q))
        /\ ~(IsLeaf(tree, q) /\ IsRouter(tree, q))
    BY <1>1, <1>2, KindIs DEF TSet, Terminals
  <1>4. /\ IsLeaf(tree, q) => Trail(s, Len(s), q)
        /\ IsRouter(tree, q) => s # <<>> /\ s[Len(s)].node = q /\ s[Len(s)].cur = 0
    BY <1>1 DEF Seated, Top
  <1>5. \A i \in 1 .. Len(s) : Inner(s[i]) /\ Trail(s, i - 1, s[i].node)
    BY <1>2 DEF Stack
  <1>6. \A a, b \in 1 .. Len(s) : a < b => Len(s[a].node) < Len(s[b].node)
    BY <1>1, <1>2, Deepens
  <1> HIDE DEF s, q
  \* Every frame aims at the element, but for the one of its own router.
  <1>7. ASSUME NEW i \in 1 .. Len(s)
        PROVE  Aims(s[i], q) \/ (IsRouter(tree, q) /\ s[i].node = q /\ s[i].cur = 0)
    <2>1. CASE IsLeaf(tree, q)
      BY <1>4, <2>1 DEF Trail
    <2>2. CASE IsRouter(tree, q)
      <3>1. CASE i = Len(s)
        BY <1>4, <2>2, <3>1
      <3>2. CASE i # Len(s)
        <4>1. i < Len(s) /\ Len(s) \in 1 .. Len(s)
          <5>1. ASSUME NEW k \in Nat, NEW l \in 1 .. k, l # k
                PROVE  l < k /\ k \in 1 .. k
            BY <5>1
          <5> QED
            BY <1>2, <3>2, <5>1
        <4>2. Aims(s[i], s[Len(s)].node)
          BY <1>1, <1>2, <4>1, Deepens
        <4> QED
          BY <1>4, <2>2, <4>2
      <3> QED
        BY <3>1, <3>2
    <2> QED
      BY <1>3, <2>1, <2>2
  <1>8. ASSUME NEW i \in 1 .. Len(s)
        PROVE  s[i].cur = CursorTo(s[i].node, q) /\ s[i].node \in W
    <2>1. Inner(s[i]) /\ s[i].node \in DOMAIN tree /\ ~IsLeaf(tree, s[i].node)
      BY <1>5 DEF Inner
    <2>2. CASE Aims(s[i], q)
      <3>1. s[i].cur = CursorTo(s[i].node, q)
        BY <1>1, <1>3, <2>1, <2>2, AimsCursor
      <3>2. StartsWith(q, s[i].node)
        BY <1>1, <1>3, <2>1, <2>2, AimsUnder
      <3> QED
        BY <2>1, <3>1, <3>2
    <2>3. CASE IsRouter(tree, q) /\ s[i].node = q /\ s[i].cur = 0
      <3>1. CursorTo(q, q) = 0
        BY DEF CursorTo
      <3>2. StartsWith(q, q)
        BY <1>3, StartsRefl
      <3> QED
        BY <2>1, <2>3, <3>1, <3>2
    <2> QED
      BY <1>7, <2>2, <2>3
  \* ... and there is one for every node on the way.
  <1>9. ASSUME NEW p \in W
        PROVE  \E i \in 1 .. Len(s) : s[i].node = p
    <2>1. CASE IsLeaf(tree, q)
      <3>1. p # q
        BY <2>1
      <3> QED
        BY <1>4, <2>1, <3>1 DEF Trail
    <2>2. CASE IsRouter(tree, q)
      <3>1. Len(s) \in 1 .. Len(s) /\ s[Len(s)].node = q
        BY <1>2, <1>4, <2>2
      <3>2. CASE p = q
        BY <3>1, <3>2
      <3>3. CASE p # q
        <4>1. Trail(s, Len(s) - 1, q)
          BY <1>5, <3>1
        <4>2. PICK i \in 1 .. Len(s) - 1 : s[i].node = p
          BY <3>3, <4>1 DEF Trail
        <4>3. i \in 1 .. Len(s)
          BY <1>2
        <4> QED
          BY <4>2, <4>3
      <3> QED
        BY <3>2, <3>3
    <2> QED
      BY <1>3, <2>1, <2>2
  <1>10. {s[i].node : i \in DOMAIN s} = W
    BY <1>2, <1>8, <1>9
  <1> QED
    BY <1>2, <1>6, <1>8, <1>10

\* Two iterators at the same element have the same frames with the same cursors,
\* whatever moves took them there: the frames are those of the routers and prefix
\* nodes from the root to the element, and each cursor is the one of that way.
\* operator== (map.hpp), which compares nodes and cursors only, is right for every
\* set of keys shorter than the remove window.
THEOREM PlaceHasOneStack == ShortKeys => (IterSpec => []SamePlaceSameFrames)
  <1>1. IterInv => SamePlaceSameFrames
    BY FramesRight
  <1> QED
    BY <1>1, IterInvHolds, PTL

\* key_bytes() answers the key of the element, whether it is read for the first
\* time, replayed from the frames, or was maintained over any mix of ++, --, --end()
\* and reads.
THEOREM KeyIsTheElements == ShortKeys => (IterSpec => []KeyBytesRight)
  <1>1. IterInv => KeyBytesRight
    BY BytesRight
  <1> QED
    BY <1>1, IterInvHolds, PTL

\* begin(), lower_bound, upper_bound and find go where the sorted set of the
\* stored keys has it, for every key and every tree that calls can build.
THEOREM BoundsAreRight == ShortKeys => (IterSpec => []BoundsFollowOrder)
  <1>1. IterInv => BoundsFollowOrder
    BY PlaceRight
  <1> QED
    BY <1>1, IterInvHolds, PTL

\* ++ and -- go to the next and the previous stored key, --end() to the last one,
\* by whatever operations the iterator got where it is.
THEOREM StepsAreRight == ShortKeys => (IterSpec => []StepsFollowOrder)
  <1>1. IterInv => StepsFollowOrder
    BY PlaceRight
  <1> QED
    BY <1>1, IterInvHolds, PTL

\* erase(pos) removes pos's element and returns the one that followed it, however
\* the remove restructured the nodes that pos's frames stood on.
THEOREM EraseIsRight == ShortKeys => (IterSpec => []EraseReturnsSuccessor)
  <1>1. IterInv => EraseReturnsSuccessor
    BY PlaceRight
  <1> QED
    BY <1>1, IterInvHolds, PTL

=============================================================================
