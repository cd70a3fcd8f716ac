SPECIFICATION Spec
CONSTANTS
  blackbox = blackbox
  whitebox = whitebox
  audit = audit
  Missing = Missing
  Role <- Agents
  Total <- audit
  TokenLimit <- TokenLimits
  CallLimit <- CallLimits
  MaxCall = 3
  Size = {2}
  ModelLimit = 2
  MaxTurn = 2
  ContextLimit = 1
  MaxRetries = 1
  MaxAttempt <- Claims
  Faults <- Struck
  Replies <- Answers
CONSTRAINT BriefCompetitor
CHECK_DEADLOCK FALSE
INVARIANT WithinAllowance
INVARIANT NothingUncharged
PROPERTY TranscriptContinues
