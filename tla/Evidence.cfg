SPECIFICATION FromOneDay
CONSTANTS
  stage = stage
  probe = probe
  k1 = k1
  k2 = k2
  x = x
  y = y
  None = None
  Job <- Jobs
  Kind <- Kinds2
  Contents <- Captures
  MaxAttempt <- Claims
  Worker = {k1, k2}
  BatchLimit = 2
  Days = {1, 2}
  MaxNow = 1
  MaxChanges = 1
  MaxFaults = 1
CHECK_DEADLOCK FALSE
INVARIANT BytesUntilExpiry
INVARIANT ReportedIsStored
PROPERTY CommitmentKept
PROPERTY ExpiredGoes
