CONSTANTS
  Keys <- KeysLadder
  Values = {v1}
  NoVal = NoVal
  MaxByte = 23
  SetlistCap = 2
  PrefixCap = 1
  FullPfxCap = 2
  U16Cap = 2
  FuseThresh = 2
  CnodeCap <- CnodeCap2
  ShrinkMax = 1
  RmLvn = 2
  DenseTiers = TRUE
  LadderC8 = TRUE
  WideStems = TRUE
  Inlineable = TRUE
  InlineChildren = TRUE
SPECIFICATION FairSpec
INVARIANTS WithinFormat
PROPERTIES ImplementsMap EveryCallReturns
