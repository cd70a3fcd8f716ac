SPECIFICATION Spec
CONSTANTS
  NoJob = NoJob
  Mode = "smoke"
  Categories = {}
  ToolCalls = {}
  RetryCap = 2
  FaultKind = {"transient", "slip", "delay", "crash", "enqueue", "abort", "dispatch"}
  Struck = {"recon"}
  ToolFault = {}
  MaxJobsPerAudit = 4
  MaxAttempt = 4
  Job <- MCJob
  Kind <- MCKind
  DependsOn <- MCDependsOn
  Parent <- MCParent
  FirstJob <- MCFirstJob
  Smoke <- MCSmoke
  MaxRetries <- MCMaxRetries
  Faults <- MCFaults
CHECK_DEADLOCK FALSE
INVARIANT SettledAudit
PROPERTY OnlyDispatchOverwrites
