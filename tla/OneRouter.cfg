CONSTANTS
  MaxB = 31
  Lanes = 4
  SetCap = 3
  U16Cap = 3
  SegCap <- Caps
  WordBits = 8
  PerLine = 5
  RecipBits = 8
  InlineMax = 2
  Line = 16
  BranchOff = 6
  PtrSize = 2
  ValAlign = 2
  LeafSize <- Sizes
  Used = {0, 1, 2, 3, 5, 8, 31}
  Ladders = {"flat", "c4", "c8"}
  FuseThresh = 2
  ShrinkMax = 2
SPECIFICATION Spec
INVARIANTS FindsEdges StepsInOrder LineSound
