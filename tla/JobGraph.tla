------------------------------ MODULE JobGraph ------------------------------
(***************************************************************************)
(* The pure half of the orchestrator: job and audit statuses, readiness     *)
(* and blocking over the dependency graph, the retry policy and the policy  *)
(* that turns a settled graph into the audit's terminal status              *)
(* (orchestrator/job-graph.ts, retry-policy.ts, audit-state-machine.ts).    *)
(* An assignment of statuses to jobs is a function st; a job that does not  *)
(* exist yet (a tool call an agent has not made) has status "absent".       *)
(***************************************************************************)
EXTENDS Integers, FiniteSets

CONSTANTS Job,        \* the jobs of one audit, tool calls of agents included
          Kind,       \* Kind[j]: AuditJob.kind
          DependsOn   \* DependsOn[j]: the jobs AuditJob.dependsOn names

TerminalJob == {"succeeded", "failed", "skipped", "timed_out", "cancelled"}
JobStatus == TerminalJob \cup {"queued", "running", "waiting"}

TerminalAudit == {"completed", "partial", "failed", "cancelled"}
AuditStatus == TerminalAudit \cup {"queued", "running"}

\* assertAuditTransition: re-applying a status is legal, a terminal one is final.
LegalTransition(from, to) ==
  \/ from = to
  \/ from = "queued" /\ to \in {"running", "failed", "cancelled"}
  \/ from = "running" /\ to \in TerminalAudit

\* validateJobGraph: dependencies exist and there is no cycle. (In every
\* non-empty set of jobs, one depends on none of the others.)
ValidJobGraph ==
  /\ DependsOn \in [Job -> SUBSET Job]
  /\ \A S \in (SUBSET Job) \ {{}} : \E j \in S : DependsOn[j] \cap S = {}

ASSUME GraphAssumption ==
  /\ IsFiniteSet(Job)
  /\ ValidJobGraph
  /\ \A j \in Job : Kind[j] = "normalize_severity" => DependsOn[j] # {}

DepsTerminal(st, j) == \A d \in DependsOn[j] : st[d] \in TerminalJob
SomeDepSucceeded(st, j) == \E d \in DependsOn[j] : st[d] = "succeeded"
AllDepsSucceeded(st, j) == \A d \in DependsOn[j] : st[d] = "succeeded"

\* What readyJobs asks of the dependencies: normalization runs over what the
\* adapters left, every other job needs all of them to have succeeded.
DepsSatisfied(st, j) ==
  IF Kind[j] = "normalize_severity"
  THEN DepsTerminal(st, j) /\ SomeDepSucceeded(st, j)
  ELSE AllDepsSucceeded(st, j)

\* Mutant: whatever is not blocked is ready.
ReadyUnlessBlocked(st) ==
  {j \in Job : /\ st[j] = "queued"
               /\ ~(DependsOn[j] # {} /\ DepsTerminal(st, j) /\ ~DepsSatisfied(st, j))}

ReadyJobs(st) == {j \in Job : st[j] = "queued" /\ DepsSatisfied(st, j)}

Blocked(st, j) ==
  /\ DependsOn[j] # {}
  /\ DepsTerminal(st, j)
  /\ ~DepsSatisfied(st, j)

Skip(st, S) == [j \in Job |-> IF j \in S THEN "skipped" ELSE st[j]]

\* S is what advance's loop over blockedJobs skips: each member is blocked once
\* the members are skipped, and nothing else is. The graph has no cycle, so
\* there is exactly one such set.
IsCascade(st, S) ==
  /\ \A j \in S : st[j] = "queued" /\ Blocked(Skip(st, S), j)
  /\ \A j \in Job \ S : st[j] = "queued" => ~Blocked(Skip(st, S), j)

\* Mutant: one retry too many.
RetryOnceMore(errorClass, attempts, maxRetries) ==
  CASE errorClass = "cancelled" -> "cancelled"
    [] errorClass = "permanent" -> "failed"
    [] errorClass = "timeout" -> IF attempts = 1 THEN "queued" ELSE "timed_out"
    [] OTHER -> IF attempts <= maxRetries + 1 THEN "queued" ELSE "failed"
\* retryDecision; attempts counts the one that failed. The terminal status, or
\* "queued" for a retry.
RetryDecision(errorClass, attempts, maxRetries) ==
  CASE errorClass = "cancelled" -> "cancelled"
    [] errorClass = "permanent" -> "failed"
    [] errorClass = "timeout" -> IF attempts = 1 THEN "queued" ELSE "timed_out"
    [] OTHER -> IF attempts <= maxRetries THEN "queued" ELSE "failed"

FailedJobs(st) == {j \in Job : st[j] \in {"failed", "timed_out"}}

\* Mutant: degradation is forgotten.
CompletionUndegraded(st, cancellationRequested, degraded) ==
  LET setupFailed == \E j \in FailedJobs(st) : Kind[j] = "build_provenance"
      usable == \E j \in Job : st[j] = "succeeded" /\ Kind[j] # "build_provenance"
  IN  CASE cancellationRequested -> "cancelled"
        [] ~cancellationRequested /\ (setupFailed \/ ~usable) -> "failed"
        [] ~cancellationRequested /\ ~setupFailed /\ usable ->
             IF FailedJobs(st) # {} THEN "partial" ELSE "completed"

\* completionStatus over the inputs finishSettledGraph gives it. Every job the
\* program creates has required = true.
CompletionStatus(st, cancellationRequested, degraded) ==
  LET setupFailed == \E j \in FailedJobs(st) : Kind[j] = "build_provenance"
      usable == \E j \in Job : st[j] = "succeeded" /\ Kind[j] # "build_provenance"
  IN  CASE cancellationRequested -> "cancelled"
        [] ~cancellationRequested /\ (setupFailed \/ ~usable) -> "failed"
        [] ~cancellationRequested /\ ~setupFailed /\ usable ->
             IF FailedJobs(st) # {} \/ degraded THEN "partial" ELSE "completed"
=============================================================================
