SPECIFICATION MCSpec
CONSTANTS
  CardBlocks = 2
  MaxBlocks = 2
  Word = 4
  CommandReads = 2
  Timeout = 2
  Conditions <- MCConditions
  Cards <- MCCards
INVARIANTS AllTypeOK TransfersExact SlowUntilReady
PROPERTIES WritesOnlyAsked TransferEnded SuccessMeansReady EveryCallReturns
