------------------------------ MODULE AuditCore ------------------------------
(***************************************************************************)
(* One audit, from dispatch to its terminal status: the durable scheduler,  *)
(* the job lifecycle the workers drive, user cancellation, the suspension   *)
(* of agents on tool calls, the BullMQ transport between them, and the      *)
(* failures they meet (worker and scheduler crashes, leases that expire     *)
(* under a live worker, queue errors).                                      *)
(*                                                                         *)
(* PostgreSQL rows are the variables auditStatus ... deadlinePassed; Redis  *)
(* is bull, stalls and holder; the rest is the memory of processes.         *)
(* Transactions that lock the Audit row are one step. So is a conditional   *)
(* updateMany. A worker's reads and writes that no lock joins are separate  *)
(* steps, told apart by run[j][a], the position of attempt a of job j.      *)
(*                                                                         *)
(* wakeScheduler has no action: recover calls advance every 30 seconds, so  *)
(* an advance is possible at any time with or without a wake.               *)
(***************************************************************************)
EXTENDS JobGraph

CONSTANTS
  NoJob,            \* no job: the parent of a template job, nothing waited for
  Parent,           \* Parent[j]: the agent whose tool call j is, or NoJob
  FirstJob,         \* templates[0], the job dispatch enqueues or wakes for
  Smoke,            \* whether Audit.mode = 'smoke'
  MaxRetries,       \* MaxRetries[j]: AuditJob.maxRetries
  MaxJobsPerAudit,  \* MAX_JOBS_PER_AUDIT
  MaxAttempt,       \* bound on the attempts of one job
  Faults            \* which fault strikes which job: pairs <<fault, job>>

FaultKinds == {
  "transient",  \* its work fails in a way worth retrying
  "timeout",    \* its work exceeds the job's time limit
  "crash",      \* the process that executes or enqueues it dies
  "slip",       \* its worker stalls past the lease and goes on afterwards
  "delay",      \* its enqueue call or its delivery takes more than a minute
  "enqueue",    \* Queue.add fails for it
  "dispatch",   \* dispatch's own queue call for it fails, or seems to
  "abort",      \* its work aborts although nobody cancelled the audit
  "deadline" }  \* its deadline, an agent's, passes
Strikes(fault, j) == <<fault, j>> \in Faults

ASSUME CoreAssumption ==
  /\ NoJob \notin Job /\ FirstJob \in Job
  /\ Parent \in [Job -> Job \cup {NoJob}]
  /\ Parent[FirstJob] = NoJob /\ DependsOn[FirstJob] = {}
  /\ \A j \in Job : Parent[j] # NoJob => DependsOn[j] = {}
  /\ Smoke \in BOOLEAN
  /\ MaxRetries \in [Job -> Nat]
  /\ MaxJobsPerAudit \in Nat \ {0} /\ MaxAttempt \in Nat \ {0}
  /\ Faults \subseteq FaultKinds \X Job

VARIABLES
  auditStatus, cancelRequested, degraded,                       \* Audit
  jobStatus, attempts, continuations, leaseLive, enqueued,      \* AuditJob
  waitingFor, deadlinePassed, invocation,                       \* AgentRun
  bull, stalls, holder,   \* the BullMQ job of each AuditJob and who processes it
  dispatch,               \* the API call that created the audit
  outbox,                 \* enqueue calls some process is about to make
  removing,               \* removePending calls cancel is about to make
  run                     \* run[j][a]: position of attempt a of job j

auditVars == <<auditStatus, cancelRequested, degraded>>
jobVars == <<jobStatus, attempts, continuations, leaseLive, enqueued>>
agentVars == <<waitingFor, deadlinePassed, invocation>>
bullVars == <<bull, stalls, holder>>
vars == <<auditVars, jobVars, agentVars, bullVars, dispatch, outbox, removing, run>>

Attempt == 1..MaxAttempt
Executing == {"working", "dispatching", "enqueueing", "suspending"}
Settling == {"succeeded", "suspended", "retrying", "gaveup", "rejected"}
Position == {"none", "dead"} \cup Executing \cup Settling

PipelineKinds == {"katana_discover", "scope_filter", "httpx_verify",
                  "inventory_merge", "inventory_drift"}
AgentKinds == {"blackbox_agent", "whitebox_agent"}

\* The consumers that pass their attempt number to the lifecycle. The SAST,
\* HTTP and smoke recon consumers do not.
Fenced(j) == Kind[j] \in PipelineKinds \cup AgentKinds

Active == auditStatus \notin TerminalAudit

\* Mutant: an update whose condition lost the status.
CurrentAnyStatus(j, a) == attempts[j] = a

Current(j, a) == jobStatus[j] = "running" /\ (Fenced(j) => attempts[j] = a)
Queued(st) == {j \in Job : st[j] = "queued"}
AllTerminal(st) == \A j \in Job : st[j] \in TerminalJob \cup {"absent"}
Children(j) == {c \in Job : Parent[c] = j}

TypeOK ==
  /\ auditStatus \in AuditStatus /\ cancelRequested \in BOOLEAN /\ degraded \in BOOLEAN
  /\ jobStatus \in [Job -> JobStatus \cup {"absent"}]
  /\ attempts \in [Job -> 0..MaxAttempt]
  /\ continuations \in [Job -> Nat]
  /\ leaseLive \in [Job -> BOOLEAN] /\ enqueued \in [Job -> BOOLEAN]
  /\ waitingFor \in [Job -> Job \cup {NoJob}]
  /\ deadlinePassed \in [Job -> BOOLEAN]
  /\ invocation \in [Job -> {"none", "dispatched", "answered"}]
  /\ bull \in [Job -> {"none", "waiting", "active", "failed"}]
  /\ stalls \in [Job -> 0..1] /\ holder \in [Job -> 0..MaxAttempt]
  /\ dispatch \in {"pending", "queued", "failed"}
  /\ outbox \subseteq Job /\ removing \subseteq Job
  /\ run \in [Job -> [Attempt -> Position]]

\* The state after the transaction of OrchestratorService.dispatch.
Init ==
  /\ auditStatus = "queued" /\ cancelRequested = FALSE /\ degraded = FALSE
  /\ jobStatus = [j \in Job |-> IF Parent[j] = NoJob THEN "queued" ELSE "absent"]
  /\ attempts = [j \in Job |-> 0] /\ continuations = [j \in Job |-> 0]
  /\ leaseLive = [j \in Job |-> FALSE] /\ enqueued = [j \in Job |-> FALSE]
  /\ waitingFor = [j \in Job |-> NoJob]
  /\ deadlinePassed = [j \in Job |-> FALSE]
  /\ invocation = [j \in Job |-> "none"]
  /\ bull = [j \in Job |-> "none"]
  /\ stalls = [j \in Job |-> 0] /\ holder = [j \in Job |-> 0]
  /\ dispatch = "pending" /\ outbox = {} /\ removing = {}
  /\ run = [j \in Job |-> [a \in Attempt |-> "none"]]
-----------------------------------------------------------------------------
(* The queue transport. *)

\* Mutant: a failed BullMQ job with the same id counts as enqueued.
EnqueueOnce(j) ==
  /\ bull' = [bull EXCEPT ![j] = IF @ = "none" THEN "waiting" ELSE @]
  /\ UNCHANGED <<stalls, holder>>

\* DurableQueueDispatcher.enqueue: a BullMQ job that is neither failed nor
\* completed makes the call return without adding anything.
Enqueue(j) ==
  /\ bull' = [bull EXCEPT ![j] = IF @ \in {"none", "failed"} THEN "waiting" ELSE @]
  /\ UNCHANGED <<stalls, holder>>

\* The processor of attempt a returned (result "none": the completed job is
\* removed) or threw (result "failed"). BullMQ ignores a processor that no
\* longer holds the job.
Acknowledge(j, a, result) ==
  /\ run' = [run EXCEPT ![j][a] = "none"]
  /\ IF holder[j] = a
     THEN /\ bull' = [bull EXCEPT ![j] = result]
          /\ stalls' = [stalls EXCEPT ![j] = 0]
          /\ holder' = [holder EXCEPT ![j] = 0]
     ELSE UNCHANGED bullVars

EnqueueReady(j) ==
  /\ j \in outbox
  /\ outbox' = outbox \ {j}
  /\ Enqueue(j)
  /\ UNCHANGED <<auditVars, jobVars, agentVars, dispatch, removing, run>>

\* The catch of advance: forget enqueuedAt and abandon the rest of the batch.
EnqueueFails(j) ==
  /\ Strikes("enqueue", j)
  /\ j \in outbox
  /\ \E rest \in SUBSET (outbox \ {j}) : outbox' = rest
  /\ enqueued' = [enqueued EXCEPT ![j] = FALSE]
  /\ UNCHANGED <<auditVars, jobStatus, attempts, continuations, leaseLive,
                 agentVars, bullVars, dispatch, removing, run>>

SchedulerCrash(j) ==
  /\ Strikes("crash", j)
  /\ j \in outbox
  /\ \E rest \in SUBSET (outbox \ {j}) : outbox' = rest
  /\ UNCHANGED <<auditVars, jobVars, agentVars, bullVars, dispatch, removing, run>>

\* BullMQ's stalled check on a job whose lock nobody renews: back to waiting
\* once (maxStalledCount 1), failed the second time.
Stall(j) ==
  /\ bull[j] = "active"
  /\ run[j][holder[j]] = "dead" \/ Strikes("slip", j)
  /\ bull' = [bull EXCEPT ![j] = IF stalls[j] = 0 THEN "waiting" ELSE "failed"]
  /\ stalls' = [stalls EXCEPT ![j] = 1 - @]
  /\ holder' = [holder EXCEPT ![j] = 0]
  /\ run' = [run EXCEPT ![j][holder[j]] = IF @ = "dead" THEN "none" ELSE @]
  /\ UNCHANGED <<auditVars, jobVars, agentVars, dispatch, outbox, removing>>
-----------------------------------------------------------------------------
(* OrchestratorService.dispatch after its transaction. *)

\* The wake that every other mode sends instead changes nothing here, so there
\* dispatch stays "pending" until it fails or for good.
DispatchQueued ==
  /\ Smoke
  /\ dispatch = "pending" /\ dispatch' = "queued"
  /\ Enqueue(FirstJob)
  /\ UNCHANGED <<auditVars, jobVars, agentVars, outbox, removing, run>>

\* The compensation. It reads nothing: whatever the scheduler, the workers or
\* a cancellation did since the transaction is overwritten.
DispatchFails ==
  /\ Strikes("dispatch", FirstJob)
  /\ dispatch = "pending" /\ dispatch' = "failed"
  /\ (Smoke /\ Enqueue(FirstJob)) \/ UNCHANGED bullVars
  /\ jobStatus' = [jobStatus EXCEPT ![FirstJob] = "failed"]
  /\ auditStatus' = "failed"
  /\ UNCHANGED <<cancelRequested, degraded, attempts, continuations, leaseLive,
                 enqueued, agentVars, outbox, removing, run>>
-----------------------------------------------------------------------------
(* AuditSchedulerService.advance and recover. *)

\* Mutant: the settled child is forgotten.
WokenLate == {j \in Job : jobStatus[j] = "waiting" /\ (waitingFor[j] = NoJob \/ deadlinePassed[j])}

\* Suspended agents whose child is gone or settled, or whose deadline passed.
Woken == {j \in Job :
  /\ jobStatus[j] = "waiting"
  /\ \/ waitingFor[j] = NoJob
     \/ jobStatus[waitingFor[j]] \in TerminalJob
     \/ deadlinePassed[j]}

AfterWake == [j \in Job |-> IF j \in Woken THEN "queued" ELSE jobStatus[j]]

\* finishSettledGraph; the transition assertion is a guard because a throw
\* rolls the transaction back.
Finish(st) ==
  /\ auditStatus' = CompletionStatus(st, cancelRequested, degraded)
  /\ LegalTransition(auditStatus, auditStatus')
  /\ degraded' = (degraded \/ FailedJobs(st) # {})
  /\ UNCHANGED cancelRequested

\* Mutant: the cancelled audit is finished while jobs run.
AdvanceCancelledEarly ==
  /\ Active /\ cancelRequested
  /\ LET drained == {j \in Job : AfterWake[j] \in {"queued", "waiting"}}
         st == [j \in Job |-> IF j \in drained THEN "cancelled" ELSE AfterWake[j]]
     IN  /\ jobStatus' = st
         /\ enqueued' = [j \in Job |-> enqueued[j] /\ j \notin drained]
         /\ Finish(st)
  /\ UNCHANGED <<attempts, continuations, leaseLive, agentVars, bullVars,
                 dispatch, outbox, removing, run>>

AdvanceCancelled ==
  /\ Active /\ cancelRequested
  /\ LET drained == {j \in Job : AfterWake[j] \in {"queued", "waiting"}}
         st == [j \in Job |-> IF j \in drained THEN "cancelled" ELSE AfterWake[j]]
     IN  /\ jobStatus' = st
         /\ enqueued' = [j \in Job |-> enqueued[j] /\ j \notin drained]
         /\ IF \E j \in Job : st[j] = "running" THEN UNCHANGED auditVars ELSE Finish(st)
  /\ UNCHANGED <<attempts, continuations, leaseLive, agentVars, bullVars,
                 dispatch, outbox, removing, run>>

\* The graph settled, the last jobs perhaps by being skipped just now.
AdvanceFinish ==
  /\ Active /\ ~cancelRequested
  /\ \E S \in SUBSET Queued(AfterWake) :
       LET st == Skip(AfterWake, S)
       IN  /\ IsCascade(AfterWake, S)
           /\ AllTerminal(st)
           /\ Finish(st)
           /\ jobStatus' = st
           /\ enqueued' = [j \in Job |-> enqueued[j] /\ j \notin S]
  /\ UNCHANGED <<attempts, continuations, leaseLive, agentVars, bullVars,
                 dispatch, outbox, removing, run>>

\* Marks at most as many ready jobs as there are free slots; which ones depends
\* on the order of their random ids.
AdvanceSchedule ==
  /\ Active /\ ~cancelRequested
  /\ \E S \in SUBSET Queued(AfterWake) :
       LET st == Skip(AfterWake, S)
           running == Cardinality({j \in Job : st[j] = "running"})
           available == IF running < MaxJobsPerAudit THEN MaxJobsPerAudit - running ELSE 0
           ready == {j \in ReadyJobs(st) : ~enqueued[j]}
       IN  /\ IsCascade(AfterWake, S)
           /\ ~AllTerminal(st)
           /\ jobStatus' = st
           /\ \E batch \in SUBSET ready :
                /\ \/ Cardinality(batch) = available
                   \/ batch = ready /\ Cardinality(batch) <= available
                /\ enqueued' = [j \in Job |-> (enqueued[j] /\ j \notin S) \/ j \in batch]
                /\ outbox' = outbox \cup batch
  /\ UNCHANGED <<auditVars, attempts, continuations, leaseLive, agentVars,
                 bullVars, dispatch, removing, run>>

Advance == AdvanceCancelled \/ AdvanceFinish \/ AdvanceSchedule

\* recover's first loop: the lease of a running job has expired.
RecoverLease(j) ==
  /\ jobStatus[j] = "running" /\ ~leaseLive[j]
  /\ jobStatus' = [jobStatus EXCEPT ![j] =
       IF attempts[j] - continuations[j] <= MaxRetries[j] THEN "queued" ELSE "failed"]
  /\ enqueued' = [enqueued EXCEPT ![j] = FALSE]
  /\ UNCHANGED <<auditVars, attempts, continuations, leaseLive, agentVars,
                 bullVars, dispatch, outbox, removing, run>>

\* recover's last update: a queued job enqueued more than a minute ago.
RecoverEnqueued(j) ==
  /\ jobStatus[j] = "queued" /\ enqueued[j]
  /\ Strikes("delay", j) \/ (j \notin outbox /\ bull[j] # "waiting")
  /\ enqueued' = [enqueued EXCEPT ![j] = FALSE]
  /\ UNCHANGED <<auditVars, jobStatus, attempts, continuations, leaseLive,
                 agentVars, bullVars, dispatch, outbox, removing, run>>
-----------------------------------------------------------------------------
(* AuditCancellationService.cancel: its transaction, then a removal from the *)
(* queue per job it drained.                                                *)

\* A message of j exists or may come: the removals of other jobs find nothing.
Addressed(j) ==
  bull[j] # "none" \/ j \in outbox \/ Parent[j] # NoJob \/ (Smoke /\ j = FirstJob)

Cancel ==
  /\ Active /\ ~cancelRequested
  /\ cancelRequested' = TRUE
  /\ LET drained == {j \in Job : jobStatus[j] \in {"queued", "waiting"}}
     IN  /\ jobStatus' = [j \in Job |-> IF j \in drained THEN "cancelled" ELSE jobStatus[j]]
         /\ enqueued' = [j \in Job |-> enqueued[j] /\ j \notin drained]
         /\ removing' = removing \cup {j \in drained : Addressed(j)}
  /\ UNCHANGED <<auditStatus, degraded, attempts, continuations, leaseLive,
                 agentVars, bullVars, dispatch, outbox, run>>

RemovePending(j) ==
  /\ j \in removing
  /\ removing' = removing \ {j}
  /\ bull' = [bull EXCEPT ![j] = IF @ = "waiting" THEN "none" ELSE @]
  /\ stalls' = [stalls EXCEPT ![j] = IF bull[j] = "waiting" THEN 0 ELSE @]
  /\ UNCHANGED <<auditVars, jobVars, agentVars, holder, dispatch, outbox, run>>
-----------------------------------------------------------------------------
(* AuditJobLifecycleService, called by the consumer that BullMQ handed j.    *)

Claimable(j) == Active /\ ~cancelRequested /\ jobStatus[j] = "queued"

Claim(j) ==
  LET a == attempts[j] + 1
  IN  /\ bull[j] = "waiting"
      /\ Claimable(j)
      /\ a <= MaxAttempt
      /\ jobStatus' = [jobStatus EXCEPT ![j] = "running"]
      /\ attempts' = [attempts EXCEPT ![j] = a]
      /\ leaseLive' = [leaseLive EXCEPT ![j] = TRUE]
      /\ enqueued' = [enqueued EXCEPT ![j] = FALSE]
      /\ auditStatus' = "running"
      /\ bull' = [bull EXCEPT ![j] = "active"]
      /\ holder' = [holder EXCEPT ![j] = a]
      /\ run' = [run EXCEPT ![j][a] = "working"]
  /\ UNCHANGED <<cancelRequested, degraded, continuations, agentVars, stalls,
                 dispatch, outbox, removing>>

\* claim returns null: the work is already done.
ClaimNothing(j) ==
  /\ bull[j] = "waiting"
  /\ Active /\ ~cancelRequested
  /\ jobStatus[j] = "succeeded"
  /\ bull' = [bull EXCEPT ![j] = "none"]
  /\ stalls' = [stalls EXCEPT ![j] = 0]
  /\ UNCHANGED <<auditVars, jobVars, agentVars, holder, dispatch, outbox,
                 removing, run>>

\* The row update of fail for the attempt the row now counts.
FailRow(j, errorClass) ==
  LET next == RetryDecision(errorClass, attempts[j] - continuations[j], MaxRetries[j])
  IN  /\ jobStatus' = [jobStatus EXCEPT ![j] = next]
      /\ enqueued' = [enqueued EXCEPT ![j] = @ /\ next # "queued"]
      /\ leaseLive' = [leaseLive EXCEPT ![j] = FALSE]
      /\ UNCHANGED <<attempts, continuations>>

\* Mutants: a retry ends the audit too, or a finished audit is ended again.
SmokeAfterFailAlways(j, s) ==
  /\ auditStatus' = IF Active THEN "failed" ELSE auditStatus
  /\ outbox' = IF s = "queued" THEN outbox \cup {j} ELSE outbox
  /\ UNCHANGED <<cancelRequested, degraded>>
SmokeAfterFailAgain(j, s) ==
  /\ auditStatus' = IF s \in TerminalJob THEN IF s = "cancelled" THEN "cancelled" ELSE "failed"
                    ELSE auditStatus
  /\ outbox' = IF s = "queued" THEN outbox \cup {j} ELSE outbox
  /\ UNCHANGED <<cancelRequested, degraded>>

\* What fail does to a smoke audit once a job has reached status s: end the
\* audit, or set the timer that enqueues the job again.
SmokeAfterFail(j, s) ==
  /\ auditStatus' = IF s \in TerminalJob /\ Active
                    THEN IF s = "cancelled" THEN "cancelled" ELSE "failed"
                    ELSE auditStatus
  /\ outbox' = IF s = "queued" THEN outbox \cup {j} ELSE outbox
  /\ UNCHANGED <<cancelRequested, degraded>>

\* claim throws. The smoke consumer calls it inside the try whose catch calls
\* fail, without an attempt; every other consumer outside.
ClaimRefused(j, errorClass) ==
  /\ bull[j] = "waiting"
  /\ ~Active \/ cancelRequested \/ jobStatus[j] \notin {"queued", "succeeded"}
  /\ bull' = [bull EXCEPT ![j] = "failed"]
  /\ stalls' = [stalls EXCEPT ![j] = 0]
  /\ IF Kind[j] = "recon" /\ jobStatus[j] = "running"
     THEN FailRow(j, errorClass) /\ SmokeAfterFail(j, jobStatus'[j])
     ELSE UNCHANGED <<auditVars, jobVars, outbox>>
  /\ UNCHANGED <<agentVars, holder, dispatch, removing, run>>

Heartbeat(j, a) ==
  /\ run[j][a] \in Executing
  /\ Current(j, a)
  /\ leaseLive' = [leaseLive EXCEPT ![j] = TRUE]
  /\ UNCHANGED <<auditVars, jobStatus, attempts, continuations, enqueued,
                 agentVars, bullVars, dispatch, outbox, removing, run>>

\* Time passes beyond leaseExpiresAt. Without slips only because no process is
\* left that renews the lease.
LeaseExpires(j) ==
  /\ jobStatus[j] = "running" /\ leaseLive[j]
  /\ \/ Strikes("slip", j)
     \/ \A a \in Attempt : ~(run[j][a] \in Executing /\ Current(j, a))
  /\ leaseLive' = [leaseLive EXCEPT ![j] = FALSE]
  /\ UNCHANGED <<auditVars, jobStatus, attempts, continuations, enqueued,
                 agentVars, bullVars, dispatch, outbox, removing, run>>

Succeed(j, a) ==
  /\ run[j][a] = "working"
  /\ \A c \in Children(j) : invocation[c] # "dispatched"
  /\ run' = [run EXCEPT ![j][a] = "succeeded"]
  /\ IF Current(j, a)
     THEN /\ jobStatus' = [jobStatus EXCEPT ![j] = "succeeded"]
          /\ leaseLive' = [leaseLive EXCEPT ![j] = FALSE]
     ELSE UNCHANGED <<jobStatus, leaseLive>>
  /\ UNCHANGED <<auditVars, attempts, continuations, enqueued, agentVars,
                 bullVars, dispatch, outbox, removing>>

\* succeed goes on whether or not it changed the row: a smoke audit completes.
AfterSucceed(j, a) ==
  /\ run[j][a] = "succeeded"
  /\ auditStatus' = IF Smoke /\ Active /\ ~cancelRequested THEN "completed" ELSE auditStatus
  /\ Acknowledge(j, a, "none")
  /\ UNCHANGED <<cancelRequested, degraded, jobVars, agentVars, dispatch, outbox, removing>>

\* A cancelled signal without a cancellation: the pipeline's ownership signal
\* after a heartbeat or renewal error, the smoke queue's own time limit.
MayAbort(j) == Strikes("abort", j) /\ Kind[j] \in PipelineKinds \cup {"recon"}

ErrorClasses(j) ==
  {"permanent"}
    \cup (IF Strikes("transient", j) THEN {"transient"} ELSE {})
    \cup (IF Strikes("timeout", j) /\ Kind[j] # "recon" THEN {"timeout"} ELSE {})
    \cup (IF cancelRequested \/ MayAbort(j) THEN {"cancelled"} ELSE {})

\* fail reads the row, decides and updates it if it still counts the attempt
\* read: without a fence a stale worker fails the current attempt, or nothing
\* when that attempt was claimed between its read and its update.
Fail(j, a, errorClass) ==
  /\ run[j][a] \in Executing
  /\ errorClass \in ErrorClasses(j)
  /\ \/ /\ Current(j, a)
        /\ FailRow(j, errorClass)
        /\ run' = [run EXCEPT ![j][a] = IF jobStatus'[j] = "queued" THEN "retrying" ELSE "gaveup"]
     \/ /\ ~Current(j, a) \/ a # attempts[j]
        /\ UNCHANGED jobVars
        /\ run' = [run EXCEPT ![j][a] = "rejected"]
  /\ UNCHANGED <<auditVars, agentVars, bullVars, dispatch, outbox, removing>>

AfterFail(j, a) ==
  /\ run[j][a] \in {"retrying", "gaveup", "rejected"}
  /\ IF Smoke /\ run[j][a] # "rejected"
     THEN SmokeAfterFail(j, IF run[j][a] = "retrying" THEN "queued" ELSE jobStatus[j])
     ELSE UNCHANGED <<auditVars, outbox>>
  /\ Acknowledge(j, a, "failed")
  /\ UNCHANGED <<jobVars, agentVars, dispatch, removing>>

\* The attempt that dies holding the BullMQ job leaves it to the stalled check.
WorkerCrash(j, a) ==
  /\ Strikes("crash", j)
  /\ run[j][a] \in Executing \cup Settling
  /\ run' = [run EXCEPT ![j][a] = IF holder[j] = a THEN "dead" ELSE "none"]
  /\ UNCHANGED <<auditVars, jobVars, agentVars, bullVars, dispatch, outbox, removing>>
-----------------------------------------------------------------------------
(* An agent and its tool calls: AgentLoopService, CapabilityExecutor and     *)
(* waitForChild. c is a tool call of agent j.                               *)

\* The checks at the top of a turn.
TurnAllowed(j) == Active /\ ~cancelRequested /\ ~deadlinePassed[j]

\* execute reads that the audit is active; the child row comes later.
BeginTool(j, a, c) ==
  /\ run[j][a] = "working" /\ TurnAllowed(j)
  /\ invocation[c] = "none"
  /\ \A d \in Children(j) : invocation[d] # "dispatched"
  /\ run' = [run EXCEPT ![j][a] = "dispatching"]
  /\ UNCHANGED <<auditVars, jobVars, agentVars, bullVars, dispatch, outbox, removing>>

\* The upserts of the child and of the invocation, under deterministic ids.
CreateChild(j, a, c) ==
  /\ run[j][a] = "dispatching"
  /\ invocation[c] # "answered"
  /\ invocation' = [invocation EXCEPT ![c] = "dispatched"]
  /\ jobStatus' = [jobStatus EXCEPT ![c] = IF @ = "absent" THEN "queued" ELSE @]
  /\ run' = [run EXCEPT ![j][a] = "enqueueing"]
  /\ UNCHANGED <<auditVars, attempts, continuations, leaseLive, enqueued,
                 waitingFor, deadlinePassed, bullVars, dispatch, outbox, removing>>

EnqueueChild(j, a, c) ==
  /\ run[j][a] = "enqueueing" /\ invocation[c] = "dispatched"
  /\ Enqueue(c)
  /\ waitingFor' = [waitingFor EXCEPT ![j] = c]
  /\ run' = [run EXCEPT ![j][a] = "suspending"]
  /\ UNCHANGED <<auditVars, jobVars, deadlinePassed, invocation, dispatch, outbox, removing>>

\* Mutant: the agent suspends as if the child had been enqueued.
EnqueueChildFailsUnseen(j, a, c) ==
  /\ Strikes("enqueue", c)
  /\ run[j][a] = "enqueueing" /\ invocation[c] = "dispatched"
  /\ invocation' = [invocation EXCEPT ![c] = "answered"]
  /\ run' = [run EXCEPT ![j][a] = "suspending"]
  /\ UNCHANGED <<auditVars, jobVars, waitingFor, deadlinePassed, bullVars,
                 dispatch, outbox, removing>>

\* The queue refuses: execute answers capability_failed, the child row stays.
EnqueueChildFails(j, a, c) ==
  /\ Strikes("enqueue", c)
  /\ run[j][a] = "enqueueing" /\ invocation[c] = "dispatched"
  /\ invocation' = [invocation EXCEPT ![c] = "answered"]
  /\ run' = [run EXCEPT ![j][a] = "working"]
  /\ UNCHANGED <<auditVars, jobVars, waitingFor, deadlinePassed, bullVars,
                 dispatch, outbox, removing>>

\* A later attempt finds the unanswered call: wait for the child again, or
\* deliver what it left.
ResumeWait(j, a, c) ==
  /\ run[j][a] = "working" /\ TurnAllowed(j)
  /\ invocation[c] = "dispatched" /\ jobStatus[c] \notin TerminalJob
  /\ waitingFor' = [waitingFor EXCEPT ![j] = c]
  /\ run' = [run EXCEPT ![j][a] = "suspending"]
  /\ UNCHANGED <<auditVars, jobVars, deadlinePassed, invocation, bullVars,
                 dispatch, outbox, removing>>

DeliverResult(j, a, c) ==
  /\ run[j][a] = "working" /\ TurnAllowed(j)
  /\ invocation[c] = "dispatched" /\ jobStatus[c] \in TerminalJob
  /\ invocation' = [invocation EXCEPT ![c] = "answered"]
  /\ waitingFor' = [waitingFor EXCEPT ![j] = NoJob]
  /\ UNCHANGED <<auditVars, jobVars, deadlinePassed, bullVars, dispatch,
                 outbox, removing, run>>

WaitForChild(j, a) ==
  /\ run[j][a] = "suspending"
  /\ run' = [run EXCEPT ![j][a] = "suspended"]
  /\ IF Current(j, a)
     THEN /\ jobStatus' = [jobStatus EXCEPT ![j] = "waiting"]
          /\ continuations' = [continuations EXCEPT ![j] = @ + 1]
          /\ leaseLive' = [leaseLive EXCEPT ![j] = FALSE]
          /\ enqueued' = [enqueued EXCEPT ![j] = FALSE]
     ELSE UNCHANGED <<jobStatus, continuations, leaseLive, enqueued>>
  /\ UNCHANGED <<auditVars, attempts, agentVars, bullVars, dispatch, outbox, removing>>

AfterSuspend(j, a) ==
  /\ run[j][a] = "suspended"
  /\ Acknowledge(j, a, "none")
  /\ UNCHANGED <<auditVars, jobVars, agentVars, dispatch, outbox, removing>>

\* degrade and report_blocked: unconditional writes to the Audit row.
Degrade(j, a) ==
  /\ run[j][a] = "working" /\ Kind[j] \in AgentKinds
  /\ degraded' = TRUE
  /\ UNCHANGED <<auditStatus, cancelRequested, jobVars, agentVars, bullVars,
                 dispatch, outbox, removing, run>>

DeadlinePasses(j) ==
  /\ Strikes("deadline", j)
  /\ Kind[j] \in AgentKinds /\ attempts[j] > 0 /\ ~deadlinePassed[j]
  /\ deadlinePassed' = [deadlinePassed EXCEPT ![j] = TRUE]
  /\ UNCHANGED <<auditVars, jobVars, waitingFor, invocation, bullVars,
                 dispatch, outbox, removing, run>>
-----------------------------------------------------------------------------
Queue(j) == EnqueueReady(j) \/ EnqueueFails(j) \/ Stall(j) \/ RemovePending(j)

Scheduler ==
  Advance \/ \E j \in Job : SchedulerCrash(j) \/ RecoverLease(j) \/ RecoverEnqueued(j)

Api == DispatchQueued \/ DispatchFails \/ Cancel

Delivery(j) ==
  \/ Claim(j) \/ ClaimNothing(j)
  \/ \E errorClass \in {"transient", "cancelled"} :
       (errorClass = "cancelled" => cancelRequested) /\ ClaimRefused(j, errorClass)

Outcome(j, a) ==
  Succeed(j, a) \/ \E errorClass \in ErrorClasses(j) : Fail(j, a, errorClass)

ToolCall(j, a) ==
  \E c \in Children(j) :
    \/ BeginTool(j, a, c) \/ CreateChild(j, a, c)
    \/ EnqueueChild(j, a, c) \/ EnqueueChildFails(j, a, c)
    \/ ResumeWait(j, a, c) \/ DeliverResult(j, a, c)

\* What attempt a does next, failures aside.
Progress(j, a) ==
  \/ Outcome(j, a) \/ AfterSucceed(j, a) \/ AfterFail(j, a)
  \/ ToolCall(j, a) \/ WaitForChild(j, a) \/ AfterSuspend(j, a)

Worker(j) ==
  \/ Delivery(j) \/ LeaseExpires(j) \/ DeadlinePasses(j)
  \/ \E a \in Attempt :
       Progress(j, a) \/ Heartbeat(j, a) \/ WorkerCrash(j, a) \/ Degrade(j, a)

Next == Api \/ Scheduler \/ \E j \in Job : Queue(j) \/ Worker(j)

Spec == Init /\ [][Next]_vars

(***************************************************************************)
(* What the code runs again and again: recover and with it advance every 30 *)
(* seconds, BullMQ's delivery and stalled check, every worker until its job *)
(* timeout. A queue that keeps being asked answers some day (SF). Nothing   *)
(* obliges the API call that created the audit to return, a user to cancel  *)
(* or anything to fail.                                                     *)
(***************************************************************************)
Fairness ==
  /\ WF_vars(Advance)
  /\ \A j \in Job :
       /\ WF_vars(RecoverLease(j)) /\ WF_vars(RecoverEnqueued(j))
       /\ SF_vars(EnqueueReady(j)) /\ WF_vars(Stall(j))
       /\ WF_vars(Delivery(j)) /\ WF_vars(LeaseExpires(j))
       /\ \A a \in Attempt : WF_vars(Progress(j, a))

FairSpec == Spec /\ Fairness
-----------------------------------------------------------------------------
(* Properties. *)

\* A job runs, waits or has succeeded only if what it depends on let it
\* (readyJobs): claim never looks at dependencies, so no message, batch entry or
\* stale enqueuedAt may outlive the decision that made it.
DependencyOrder ==
  \A j \in Job : jobStatus[j] \in {"running", "waiting", "succeeded"}
                   => DepsSatisfied(jobStatus, j)

\* "maxRetries=2 allows attempts 1,2,3 and no fourth attempt" across failures,
\* crashes and expired leases, suspensions on tool calls not counted; the one
\* retry of a timeout is allowed whatever maxRetries is.
AttemptLimit(j) == IF MaxRetries[j] = 0 THEN 2 ELSE MaxRetries[j] + 1
AttemptBound == \A j \in Job : attempts[j] - continuations[j] <= AttemptLimit(j)

\* A smoke worker that stalled past its lease may have completed the audit: its
\* succeed does so whether or not it changed the row, whose recovered job may be
\* queued, run again or have failed meanwhile.
LateSuccess == Smoke /\ Strikes("slip", FirstJob) /\ auditStatus = "completed"

\* The audit reaches a terminal status only over a settled graph: no job of a
\* finished audit can still start, run or wait. Two writers do not ask: dispatch's
\* compensation and the late success of a smoke worker.
SettledAudit == ~Active /\ dispatch # "failed" /\ ~LateSuccess => AllTerminal(jobStatus)

\* A completed audit, the only one eligible to pass the gate, has run every job
\* and met no degradation, the late success of a smoke worker excepted.
CompletedIsClean ==
  auditStatus = "completed" /\ ~LateSuccess =>
    /\ ~degraded
    /\ \A j \in Job : jobStatus[j] \in {"succeeded", "absent"}

\* Of all the writers of Audit.status only dispatch's compensation ever changes a
\* terminal one, and it fails the audit.
OnlyDispatchOverwrites ==
  [][~Active => \/ auditStatus' = auditStatus
                \/ dispatch' # dispatch /\ auditStatus' = "failed"]_vars

\* A settled job stays as it settled, whatever late worker, recovery or
\* cancellation comes.
JobTerminalImmutable ==
  [][\A j \in Job : jobStatus[j] \in TerminalJob => jobStatus'[j] = jobStatus[j]]_vars

\* While the lease of a running job lives, only the attempt the row counts takes
\* the job out of running: no stale worker whose lease was recovered decides for
\* the attempt that replaced it.
DecidedByOwner(j) ==
  jobStatus[j] = "running" /\ leaseLive[j] /\ jobStatus'[j] # "running"
    => /\ run[j][attempts[j]] \in Executing
       /\ run'[j][attempts[j]] \in Settling

\* Every consumer keeps it, as the comment in fail has it.
EveryOwner == [][\A j \in Job : DecidedByOwner(j)]_vars

\* A suspended agent waits for a tool call of its own whose answer it has not
\* consumed: the suspension is recorded in three rows (AgentRun, the invocation,
\* the job) by separate writes, and crashes, refused enqueues, deadlines and
\* redeliveries come between them. Agents that stall past their lease break it.
WaitsForOwnCall ==
  \A j \in Job : jobStatus[j] = "waiting" =>
    \E c \in Children(j) : waitingFor[j] = c /\ invocation[c] = "dispatched"

\* Every audit ends, through worker and scheduler crashes, lost or refused queue
\* messages and BullMQ jobs that a dead worker still holds.
AuditSettles == <>(~Active)
=============================================================================
