----------------------------- MODULE MCAuditCore -----------------------------
(***************************************************************************)
(* Instances of AuditCore. A job is named by its kind; retry allowances are *)
(* the template's, capped by RetryCap, and the faults of FaultKind strike   *)
(* the jobs of Struck, those of ToolFault the tool calls, to keep the       *)
(* instances small.                                                         *)
(***************************************************************************)
EXTENDS AuditRefinement, GraphTemplate

CONSTANTS Mode, Categories, ToolCalls, RetryCap, FaultKind, Struck, ToolFault

MCJob == TemplateKinds(Mode, Categories) \cup ToolCalls
MCKind == [j \in MCJob |-> IF j = "probe" THEN "http" ELSE IF j = "scan" THEN "semgrep" ELSE j]
MCDependsOn == [j \in MCJob |-> IF j \in ToolCalls THEN {} ELSE DependsOnKinds(j)]
MCParent == [j \in MCJob |->
  CASE j = "probe" -> "blackbox_agent" [] j = "scan" -> "whitebox_agent" [] OTHER -> NoJob]
MCFirstJob == IF Mode = "smoke" THEN "recon" ELSE "build_provenance"
MCSmoke == Mode = "smoke"
MCMaxRetries == [j \in MCJob |->
  IF TemplateMaxRetries(MCKind[j]) < RetryCap THEN TemplateMaxRetries(MCKind[j]) ELSE RetryCap]

\* A bound: at most one processor at a time is between its last write and its
\* return to BullMQ.
PromptReturn ==
  Cardinality({j \in Job : \E a \in Attempt : run[j][a] \in Settling}) <= 1

\* A bound: what follows the cancellation of an agent's audit is not looked at.
Uncancelled == ~cancelRequested

MCFaults == (FaultKind \X Struck) \cup (ToolFault \X ToolCalls)
=============================================================================
