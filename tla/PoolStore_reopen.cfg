CONSTANTS
  Keys = {"a", "b", "c"}
  Cap = 5
  NIL = NIL
  DetachesSaved = TRUE
  AttachesSaved = TRUE
SPECIFICATION Spec
INVARIANTS TypeOK CheckpointSurvives CarvingFitsTree
