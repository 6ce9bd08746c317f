SPECIFICATION Spec
CONSTANTS
  Base = 5
  Cap = 3
  a1 = a1
  a2 = a2
  Attempts = {a1, a2}
  Hosts <- MCHosts
  MaxChunk = 3
INVARIANTS OneRunAtATime ChunksDoNotMatter ZeroMeansCommitted StdoutCarriesFramesOnly
PROPERTIES EveryRunEnds
CHECK_DEADLOCK FALSE
