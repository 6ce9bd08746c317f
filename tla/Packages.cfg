SPECIFICATION PackagesSpec
CONSTANTS
  Call <- MCCall
  Seeds <- MCSeeds
  Bound = 4
  Cap = 14
  FrameSize = 3
  LongestId = 2
  Envelope = 2
  CopyInSize = 1
  Reserved <- MCReserved
  Forbidden <- MCForbidden
  BaseVerbs <- MCBaseVerbs
  Retired <- MCRetired
  Entry = 1
  Sanctioned = 2
  Anchor = 3
INVARIANTS EveryFileOnce EveryBatchFits GateKeepsTheType RejectionIsFaithful DialectsCompose ProjectIsAccountedFor GatesAgree ManifestNamesWhatRuns VerbsReachTheEngine InputsAreTakenAsGiven SourceEditsAreExact
CHECK_DEADLOCK FALSE
