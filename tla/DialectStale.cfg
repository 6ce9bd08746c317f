SPECIFICATION Spec
CONSTANTS
  Handles = {h1}
  Main = Main
  Gone = Gone
  None = None
  Kinds = {"op", "noop", "query", "replace", "read"}
  MaxSteps = 4
  MaxTotal = 4
  EditAfterReplace = TRUE
  EditAfterMeasure = FALSE
INVARIANTS ReplacementKept
CHECK_DEADLOCK FALSE
