SPECIFICATION Spec
CONSTANTS
  Handles = {h1}
  Main = Main
  Gone = Gone
  None = None
  Kinds = {"op", "query", "read"}
  MaxSteps = 3
  MaxTotal = 3
  EditAfterReplace = FALSE
  EditAfterMeasure = TRUE
INVARIANTS NoEditLost
CHECK_DEADLOCK FALSE
