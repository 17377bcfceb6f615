CONSTANTS
  v1 = v1
  v2 = v2
  Keys <- AllKeys
  Values = {v1, v2}
  NoVal = NoVal
  Hollow = Hollow
  Room = 21
  PairCost = 1
  HeadCost = 1
  Align = 2
  SetlistCap = 2
  PrefixCap = 1
  FullPfxCap = 2
  ShrinkMax = 1
  Setups <- BucketSetups
  Faulty = {"buckets"}
  FusionFaults = TRUE
VIEW View
SPECIFICATION Spec
INVARIANTS NoDanglingSlot
