CONSTANTS
  Names <- MCNames
  Modules <- MCModules
  Core <- React
  Start <- MCStart
  MaxEdits = 2
  Trees <- MCTrees
  Pages <- MCPages
SPECIFICATION Spec
CHECK_DEADLOCK FALSE
INVARIANTS NoNameTwice AskedIsDone NothingElseChanges JsonEditsAreExact NamesakesAgree RefusalsChangeNothing AliasesStayResolved
