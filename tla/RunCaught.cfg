SPECIFICATION Spec
CONSTANTS
  d1 = d1
  a = a
  b = b
  x = x
  y = y
  z = z
  None = None
  Dirs = {d1}
  Names = {a, b}
  Contents = {x, y, z}
  Unrepresentable = {z}
  Seed <- MCSeed
  Verbs <- MCVerbs
  Main = Main
  Readers = {r1}
  Chunks = {c1}
  BatchBudget = 2
  MaxJournal = 2
  MaxFaults = 0
  MayCatch = TRUE
  MayFloat = FALSE
INVARIANT RejectionDiscardsEverything
