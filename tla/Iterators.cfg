CONSTANTS
  Keys <- KeysSeek
  Values = {v1}
  NoVal = NoVal
  MaxByte = 2
  SetlistCap = 2
  PrefixCap = 1
  FullPfxCap = 2
  U16Cap = 2
  FuseThresh = 2
  CnodeCap <- CnodeCap4
  ShrinkMax = 1
  RmLvn = 8
  DenseTiers = FALSE
  LadderC8 = FALSE
  WideStems = TRUE
  Inlineable = FALSE
  InlineChildren = FALSE
  Probes <- ProbesSeek
  FullLeaves <- FullSome
SPECIFICATION FairIterSpec
INVARIANTS SamePlaceSameFrames KeyBytesRight BoundsFollowOrder StepsFollowOrder EraseReturnsSuccessor ForEachValueInOrder
PROPERTIES EveryMoveEnds
