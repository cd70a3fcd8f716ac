SPECIFICATION FairSpec
CONSTANTS
  NoJob = NoJob
  Mode = "full"
  Categories = {"blackbox"}
  ToolCalls = {"probe"}
  RetryCap = 1
  FaultKind = {"crash", "deadline"}
  Struck = {"blackbox_agent"}
  ToolFault = {"enqueue"}
  MaxJobsPerAudit = 4
  MaxAttempt = 3
  Job <- MCJob
  Kind <- MCKind
  DependsOn <- MCDependsOn
  Parent <- MCParent
  FirstJob <- MCFirstJob
  Smoke <- MCSmoke
  MaxRetries <- MCMaxRetries
  Faults <- MCFaults
CHECK_DEADLOCK FALSE
CONSTRAINT PromptReturn
CONSTRAINT Uncancelled
INVARIANT CompletedIsClean
INVARIANT WaitsForOwnCall
PROPERTY AuditSettles
