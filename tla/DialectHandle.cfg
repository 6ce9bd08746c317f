SPECIFICATION Spec
CONSTANTS
  Handles = {h1, h2}
  Main = Main
  Gone = Gone
  None = None
  Kinds = {"op", "async", "noop", "query", "throw", "spoil", "replace", "remove", "read"}
  MaxSteps = 3
  MaxTotal = 4
  EditAfterReplace = FALSE
  EditAfterMeasure = FALSE
INVARIANTS ReadsSeeTheChain CommitHoldsEveryEdit FailureIsFinal
PROPERTIES ImplementsSequentialEdits
CHECK_DEADLOCK FALSE
