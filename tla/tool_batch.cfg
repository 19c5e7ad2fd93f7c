SPECIFICATION Spec
CONSTANTS
  N = 2
  Tool <- MCTool
  NoArg = NoArg
  AtMostOnce = {2}
  Controlled = {2}
  MaxRuns = 2
  MaxSnapshots = 2
  MaxFacts = 2
  MaxResumes = 1
  MaxTroubles = 1
CHECK_DEADLOCK FALSE
INVARIANTS
  ToolTypeOK
  HoldsExclusive
  AuthorisedForThisRequest
  OneResultPerRequest
  AbandonedIsRecorded
  RoundBarrier
  CompletionHasResult
  HoldsNeverDeadlock
  CancelNeverWaits
PROPERTIES
  AtMostOnceReplay
