SPECIFICATION FairSpec
CONSTANTS
  ReconShare = 2
  AuditRequests = 3
  MaxRequested = 2
  MaxAttempt = 2
  Faults = {"crash", "redis", "timeout", "settle"}
CONSTRAINT VerifyOverlaps
VIEW SentAside
CHECK_DEADLOCK FALSE
INVARIANT WithinLimit
INVARIANT OneToolPerHost
PROPERTY ReservationsEnd
