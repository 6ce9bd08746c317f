SPECIFICATION Spec
CONSTANTS
  d1 = d1
  a = a
  b = b
  x = x
  y = y
  z = z
  None = None
  Dirs = {d1}
  Names = {a}
  Contents = {x, y}
  Unrepresentable = {}
  Seed <- MCSeed
  Verbs <- MCFloatingVerbs
  Main = Main
  Readers = {r1, r2}
  Chunks = {c1}
  BatchBudget = 2
  MaxJournal = 2
  MaxFaults = 1
  MayCatch = TRUE
  MayFloat = TRUE
INVARIANTS EveryDirectiveAccountedFor ReadYourOwnWrites FailedRunWritesNothing
PROPERTIES AuthorOrder FirstErrorKept RunSettles
