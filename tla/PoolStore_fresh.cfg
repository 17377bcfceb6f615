CONSTANTS
  Keys = {"a", "b", "c"}
  Cap = 5
  NIL = NIL
  DetachesSaved = TRUE
  AttachesSaved = FALSE
SPECIFICATION Spec
INVARIANT CheckpointSurvives
