CONSTANTS
  FreeMax = 1
  Chunk = 4
  Cap = 9
  Sizes = {1, 2, 3}
  NIL = NIL
SPECIFICATION Spec
INVARIANTS TypeOK Disjoint InBounds ListsExact Covered Reached
PROPERTIES GrowsOnlyIfMust
