SPECIFICATION Spec
CONSTANTS
  NoJob = NoJob
  Mode = "full"
  Categories = {"sast", "http"}
  ToolCalls = {}
  RetryCap = 0
  FaultKind = {"abort"}
  Struck = {"katana_discover"}
  ToolFault = {}
  MaxJobsPerAudit = 4
  MaxAttempt = 1
  Job <- MCJob
  Kind <- MCKind
  DependsOn <- MCDependsOn
  Parent <- MCParent
  FirstJob <- MCFirstJob
  Smoke <- MCSmoke
  MaxRetries <- MCMaxRetries
  Faults <- MCFaults
CHECK_DEADLOCK FALSE
CONSTRAINT PromptReturn
INVARIANT CompletedIsClean
