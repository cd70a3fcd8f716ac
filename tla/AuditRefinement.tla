--------------------------- MODULE AuditRefinement ---------------------------
(***************************************************************************)
(* The orchestrator implements AuditPromise: a job suspended on a tool call  *)
(* is work that returned to the queue, an audit is open until its status is  *)
(* terminal, and everything else of AuditCore is hidden.                     *)
(***************************************************************************)
EXTENDS AuditCore

Verdict == IF Active THEN "open" ELSE auditStatus
Work == [j \in Job |-> IF jobStatus[j] = "waiting" THEN "queued" ELSE jobStatus[j]]

Promise == INSTANCE AuditPromise WITH
  verdict <- Verdict, cancelled <- cancelRequested, work <- Work

\* Every behaviour of the orchestrator, with its retries, recoveries, crashes and
\* redelivered messages, is one the promise allows.
KeepsPromise == Promise!Spec
=============================================================================
