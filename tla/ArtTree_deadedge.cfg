CONSTANTS
  Keys <- KeysChain
  Values = {v1}
  NoVal = NoVal
  MaxByte = 1
  SetlistCap = 4
  PrefixCap = 1
  FullPfxCap = 2
  U16Cap = 4
  FuseThresh = 4
  CnodeCap <- CnodeCap4
  ShrinkMax = 1
  RmLvn = 2
  DenseTiers = FALSE
  LadderC8 = FALSE
  WideStems = FALSE
  Inlineable = FALSE
  InlineChildren = FALSE
SPECIFICATION Spec
INVARIANTS NoDeadEdge
