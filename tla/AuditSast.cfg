SPECIFICATION FairSpec
CONSTANTS
  NoJob = NoJob
  Mode = "security"
  Categories = {"sast"}
  ToolCalls = {}
  RetryCap = 1
  FaultKind = {"transient", "timeout", "slip", "delay", "enqueue", "crash"}
  Struck = {"semgrep"}
  ToolFault = {}
  MaxJobsPerAudit = 4
  MaxAttempt = 3
  Job <- MCJob
  Kind <- MCKind
  DependsOn <- MCDependsOn
  Parent <- MCParent
  FirstJob <- MCFirstJob
  Smoke <- MCSmoke
  MaxRetries <- MCMaxRetries
  Faults <- MCFaults
CHECK_DEADLOCK FALSE
INVARIANT DependencyOrder
INVARIANT AttemptBound
PROPERTY KeepsPromise
PROPERTY AuditSettles
