CONSTANTS
  Keys <- KeysThree
  v1 = v1
  v2 = v2
  Loads <- LoadsThree
  Values = {v1, v2}
  NoVal = NoVal
  MaxByte = 3
  SetlistCap = 2
  PrefixCap = 1
  FullPfxCap = 2
  U16Cap = 2
  FuseThresh = 2
  CnodeCap <- CnodeCap2
  ShrinkMax = 1
  RmLvn = 8
  DenseTiers = FALSE
  LadderC8 = FALSE
  WideStems = FALSE
  Inlineable = FALSE
  InlineChildren = TRUE
  Transports = {"steal", "adopt", "clone"}
SPECIFICATION TransSpec
INVARIANTS EqualityDecides NoStray
