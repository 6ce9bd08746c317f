CONSTANTS
  Names <- MCNames
  Modules <- MCModules
  Core <- React
  Start <- NoStart
  MaxEdits = 2
  Trees <- NoTrees
  Pages <- MCWildPages
SPECIFICATION Spec
CHECK_DEADLOCK FALSE
INVARIANT CommentsAreNeverSplit
