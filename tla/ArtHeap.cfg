CONSTANTS
  Keys <- KeysFlat
  Values = {v1}
  NoVal = NoVal
  MaxByte = 3
  SetlistCap = 2
  PrefixCap = 1
  FullPfxCap = 2
  U16Cap = 2
  FuseThresh = 2
  CnodeCap <- CnodeCap2
  ShrinkMax = 1
  RmLvn = 8
  DenseTiers = FALSE
  LadderC8 = FALSE
  WideStems = TRUE
  Inlineable = FALSE
  InlineChildren = TRUE
SPECIFICATION FairHeapSpec
INVARIANTS TypeOK UniqueKeys CountMatches NoDeadEdge NoEmptyRouter NoBlockLost InlineUnderSetlist PointersLive
PROPERTIES ImplementsMap EveryCallReturns
