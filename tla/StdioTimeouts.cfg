SPECIFICATION Spec
CONSTANTS
  MaxCalls = 3
  MaxFrames = 3
INVARIANTS EveryFrameSeenOnce AnswerNotMissed
PROPERTIES ImplementsSerialCalls EveryCallSettles
