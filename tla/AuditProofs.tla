----------------------------- MODULE AuditProofs -----------------------------
(***************************************************************************)
(* Proofs about the orchestrator: facts about the graph of jobs, the type of *)
(* AuditCore, its safety, who decides what becomes of a job and of the audit, *)
(* and that it implements AuditPromise.                                     *)
(***************************************************************************)
EXTENDS AuditRefinement, TLAPS
-----------------------------------------------------------------------------
(***************************************************************************)
(* Facts about the graph that hold for every graph validateJobGraph accepts. *)
(***************************************************************************)

LEMMA NoDependenciesSatisfied ==
  ASSUME NEW st, NEW j \in Job, DependsOn[j] = {}
  PROVE  DepsSatisfied(st, j)
BY GraphAssumption DEF DepsSatisfied, AllDepsSucceeded

\* Dependencies once satisfied stay so while settled jobs stay as they settled.
LEMMA SatisfiedStays ==
  ASSUME NEW st, NEW next, NEW j \in Job, DepsSatisfied(st, j),
         \A d \in Job : st[d] \in TerminalJob => next[d] = st[d]
  PROVE  DepsSatisfied(next, j)
<1>1. DependsOn[j] \subseteq Job
  BY GraphAssumption DEF ValidJobGraph
<1> QED
  BY <1>1 DEF DepsSatisfied, DepsTerminal, SomeDepSucceeded, AllDepsSucceeded, TerminalJob

\* The loop over blockedJobs has one outcome, whatever order it visits jobs in:
\* IsCascade names one set of skipped jobs.
THEOREM CascadeUnique ==
  ASSUME NEW st, NEW S \in SUBSET Job, NEW T \in SUBSET Job,
         IsCascade(st, S), IsCascade(st, T)
  PROVE  S = T
<1>1. SUFFICES ASSUME S # T PROVE FALSE
  OBVIOUS
<1> DEFINE D == (S \ T) \cup (T \ S)
<1>2. PICK j \in D : DependsOn[j] \cap D = {}
  <2>1. D \in (SUBSET Job) \ {{}}
    BY <1>1
  <2> QED BY <2>1, GraphAssumption DEF ValidJobGraph
<1>3. \A d \in DependsOn[j] : d \in Job /\ Skip(st, S)[d] = Skip(st, T)[d]
  BY <1>2, GraphAssumption DEF ValidJobGraph, Skip
<1>4. Blocked(Skip(st, S), j) <=> Blocked(Skip(st, T), j)
  BY <1>3 DEF Blocked, DepsTerminal, DepsSatisfied, SomeDepSucceeded, AllDepsSucceeded
<1>5. CASE j \in S /\ j \notin T
  BY <1>4, <1>5 DEF IsCascade
<1>6. CASE j \in T /\ j \notin S
  BY <1>4, <1>6 DEF IsCascade
<1> QED BY <1>2, <1>5, <1>6

\* advance cannot get stuck on a graph: once what is blocked has been skipped, a
\* job that waits for nothing but its dependencies is ready as long as any job
\* is queued and none runs, waits for a tool or is yet to be created.
THEOREM GraphNeverStuck ==
  ASSUME NEW st, NEW S \in SUBSET Job, IsCascade(st, S),
         \A j \in Job : st[j] \in TerminalJob \cup {"queued"},
         NEW q \in Job, Skip(st, S)[q] = "queued"
  PROVE  ReadyJobs(Skip(st, S)) # {}
<1> DEFINE after == Skip(st, S)
           Q == {j \in Job : after[j] = "queued"}
<1>1. \A j \in Job : after[j] \in TerminalJob \cup {"queued"}
  BY DEF Skip, TerminalJob
<1>2. PICK j \in Q : DependsOn[j] \cap Q = {}
  <2>1. Q \in (SUBSET Job) \ {{}}
    OBVIOUS
  <2> QED BY <2>1, GraphAssumption DEF ValidJobGraph
<1>3. DepsTerminal(after, j)
  BY <1>1, <1>2, GraphAssumption DEF DepsTerminal, ValidJobGraph
<1>4. j \in Job \ S /\ st[j] = "queued"
  BY <1>2 DEF Skip
<1>5. ~Blocked(after, j)
  BY <1>4 DEF IsCascade
<1>6. DepsSatisfied(after, j)
  BY <1>2, <1>3, <1>5, NoDependenciesSatisfied DEF Blocked
<1> QED
  BY <1>2, <1>6 DEF ReadyJobs

-----------------------------------------------------------------------------
(***************************************************************************)
(* Theorems about AuditCore, for every graph of jobs, every assignment of   *)
(* faults and every bound on retries and concurrency.                       *)
(***************************************************************************)

LEMMA RetryDecisionType ==
  ASSUME NEW e, NEW n, NEW m
  PROVE  RetryDecision(e, n, m) \in {"queued", "failed", "timed_out", "cancelled"}
BY DEF RetryDecision

LEMMA CompletionStatusType ==
  ASSUME NEW st, NEW c \in BOOLEAN, NEW d \in BOOLEAN
  PROVE  CompletionStatus(st, c, d) \in TerminalAudit
BY DEF CompletionStatus, TerminalAudit

USE DEF TerminalJob, JobStatus, TerminalAudit, AuditStatus

LEMMA TypeInit == Init => TypeOK
<1> SUFFICES ASSUME Init PROVE TypeOK
  OBVIOUS
<1>1. run \in [Job -> [Attempt -> Position]]
  BY DEF Init, Position
<1>2. /\ attempts \in [Job -> 0..MaxAttempt] /\ continuations \in [Job -> Nat]
      /\ stalls \in [Job -> 0..1] /\ holder \in [Job -> 0..MaxAttempt]
  BY CoreAssumption DEF Init
<1>3. jobStatus \in [Job -> JobStatus \cup {"absent"}]
  BY DEF Init
<1> QED
  BY <1>1, <1>2, <1>3 DEF Init, TypeOK

LEMMA RunUpdate ==
  ASSUME NEW r \in [Job -> [Attempt -> Position]], NEW j \in Job, NEW a, NEW p \in Position
  PROVE  [r EXCEPT ![j][a] = p] \in [Job -> [Attempt -> Position]]
OBVIOUS

LEMMA EnqueueType ==
  ASSUME TypeOK, NEW j \in Job, Enqueue(j)
  PROVE  /\ bull' \in [Job -> {"none", "waiting", "active", "failed"}]
         /\ stalls' \in [Job -> 0..1] /\ holder' \in [Job -> 0..MaxAttempt]
BY DEF TypeOK, Enqueue

LEMMA AcknowledgeType ==
  ASSUME TypeOK, NEW j \in Job, NEW a \in Attempt, NEW r \in {"none", "failed"},
         Acknowledge(j, a, r)
  PROVE  /\ bull' \in [Job -> {"none", "waiting", "active", "failed"}]
         /\ stalls' \in [Job -> 0..1] /\ holder' \in [Job -> 0..MaxAttempt]
         /\ run' \in [Job -> [Attempt -> Position]]
<1>1. run' \in [Job -> [Attempt -> Position]]
  BY RunUpdate DEF TypeOK, Acknowledge, Position
<1>2. CASE holder[j] = a
  <2>1. /\ bull' = [bull EXCEPT ![j] = r]
        /\ stalls' = [stalls EXCEPT ![j] = 0] /\ holder' = [holder EXCEPT ![j] = 0]
    BY <1>2 DEF Acknowledge
  <2>2. 0 \in 0..1 /\ 0 \in 0..MaxAttempt
    BY CoreAssumption
  <2> QED
    BY <1>1, <2>1, <2>2 DEF TypeOK
<1>3. CASE holder[j] # a
  BY <1>1, <1>3 DEF TypeOK, Acknowledge, bullVars
<1> QED BY <1>2, <1>3

LEMMA QueueType ==
  ASSUME TypeOK, NEW j \in Job, Queue(j)
  PROVE  TypeOK'
<1>1. CASE EnqueueReady(j)
  BY <1>1, EnqueueType DEF TypeOK, EnqueueReady, auditVars, jobVars, agentVars
<1>2. CASE EnqueueFails(j)
  BY <1>2 DEF TypeOK, EnqueueFails, auditVars, agentVars, bullVars
<1>3. CASE Stall(j)
  <2>1. run' \in [Job -> [Attempt -> Position]]
    BY <1>3 DEF TypeOK, Stall, Position
  <2>2. /\ bull' \in [Job -> {"none", "waiting", "active", "failed"}]
        /\ stalls' \in [Job -> 0..1] /\ holder' \in [Job -> 0..MaxAttempt]
    BY <1>3, CoreAssumption DEF TypeOK, Stall
  <2> QED
    BY <1>3, <2>1, <2>2 DEF TypeOK, Stall, auditVars, jobVars, agentVars
<1>4. CASE RemovePending(j)
  BY <1>4 DEF TypeOK, RemovePending, auditVars, jobVars, agentVars
<1> QED BY <1>1, <1>2, <1>3, <1>4 DEF Queue

LEMMA AfterWakeType ==
  ASSUME TypeOK
  PROVE  AfterWake \in [Job -> JobStatus \cup {"absent"}]
BY DEF TypeOK, AfterWake

LEMMA FinishType ==
  ASSUME TypeOK, NEW st, Finish(st)
  PROVE  auditStatus' \in AuditStatus /\ cancelRequested' \in BOOLEAN /\ degraded' \in BOOLEAN
BY CompletionStatusType DEF TypeOK, Finish

LEMMA SchedulerType ==
  ASSUME TypeOK, Scheduler
  PROVE  TypeOK'
<1>1. CASE AdvanceCancelled
  <2> DEFINE drained == {j \in Job : AfterWake[j] \in {"queued", "waiting"}}
             st == [j \in Job |-> IF j \in drained THEN "cancelled" ELSE AfterWake[j]]
  <2>1. st \in [Job -> JobStatus \cup {"absent"}]
    BY AfterWakeType
  <2>2. auditStatus' \in AuditStatus /\ cancelRequested' \in BOOLEAN /\ degraded' \in BOOLEAN
    BY <1>1, FinishType DEF AdvanceCancelled, TypeOK, auditVars
  <2>3. jobStatus' = st /\ enqueued' \in [Job -> BOOLEAN]
    BY <1>1 DEF AdvanceCancelled, TypeOK
  <2> QED
    BY <1>1, <2>1, <2>2, <2>3 DEF AdvanceCancelled, TypeOK, agentVars, bullVars
<1>2. CASE AdvanceFinish
  <2> PICK S \in SUBSET Queued(AfterWake) :
        /\ Finish(Skip(AfterWake, S))
        /\ jobStatus' = Skip(AfterWake, S)
        /\ enqueued' = [j \in Job |-> enqueued[j] /\ j \notin S]
    BY <1>2 DEF AdvanceFinish
  <2>1. jobStatus' \in [Job -> JobStatus \cup {"absent"}]
    BY AfterWakeType DEF Skip
  <2>2. auditStatus' \in AuditStatus /\ cancelRequested' \in BOOLEAN /\ degraded' \in BOOLEAN
    BY FinishType
  <2>3. enqueued' \in [Job -> BOOLEAN]
    BY DEF TypeOK
  <2> QED
    BY <1>2, <2>1, <2>2, <2>3 DEF AdvanceFinish, TypeOK, agentVars, bullVars
<1>3. CASE AdvanceSchedule
  <2> PICK S \in SUBSET Queued(AfterWake) :
        /\ jobStatus' = Skip(AfterWake, S)
        /\ \E batch \in SUBSET {j \in ReadyJobs(Skip(AfterWake, S)) : ~enqueued[j]} :
             /\ enqueued' = [j \in Job |-> (enqueued[j] /\ j \notin S) \/ j \in batch]
             /\ outbox' = outbox \cup batch
    BY <1>3 DEF AdvanceSchedule
  <2>1. jobStatus' \in [Job -> JobStatus \cup {"absent"}]
    BY AfterWakeType DEF Skip
  <2>2. enqueued' \in [Job -> BOOLEAN]
    BY DEF TypeOK
  <2>3. outbox' \subseteq Job
    BY DEF TypeOK, ReadyJobs
  <2> QED
    BY <1>3, <2>1, <2>2, <2>3 DEF AdvanceSchedule, TypeOK, auditVars, agentVars, bullVars
<1>4. ASSUME NEW j \in Job, SchedulerCrash(j) PROVE TypeOK'
  BY <1>4 DEF TypeOK, SchedulerCrash, auditVars, jobVars, agentVars, bullVars
<1>5. ASSUME NEW j \in Job, RecoverLease(j) PROVE TypeOK'
  BY <1>5 DEF TypeOK, RecoverLease, auditVars, agentVars, bullVars
<1>6. ASSUME NEW j \in Job, RecoverEnqueued(j) PROVE TypeOK'
  BY <1>6 DEF TypeOK, RecoverEnqueued, auditVars, agentVars, bullVars
<1> QED
  BY <1>1, <1>2, <1>3, <1>4, <1>5, <1>6 DEF Scheduler, Advance

LEMMA ApiType ==
  ASSUME TypeOK, Api
  PROVE  TypeOK'
<1>1. CASE DispatchQueued
  BY <1>1, EnqueueType, CoreAssumption DEF TypeOK, DispatchQueued, auditVars, jobVars, agentVars
<1>2. CASE DispatchFails
  <2>1. /\ bull' \in [Job -> {"none", "waiting", "active", "failed"}]
        /\ stalls' \in [Job -> 0..1] /\ holder' \in [Job -> 0..MaxAttempt]
    BY <1>2, EnqueueType, CoreAssumption DEF TypeOK, DispatchFails, bullVars
  <2> QED
    BY <1>2, <2>1 DEF TypeOK, DispatchFails, agentVars
<1>3. CASE Cancel
  <2> DEFINE drained == {j \in Job : jobStatus[j] \in {"queued", "waiting"}}
  <2>1. /\ jobStatus' = [j \in Job |-> IF j \in drained THEN "cancelled" ELSE jobStatus[j]]
        /\ enqueued' = [j \in Job |-> enqueued[j] /\ j \notin drained]
        /\ removing' \subseteq Job
    BY <1>3 DEF TypeOK, Cancel
  <2>2. jobStatus' \in [Job -> JobStatus \cup {"absent"}] /\ enqueued' \in [Job -> BOOLEAN]
    BY <2>1 DEF TypeOK
  <2> QED
    BY <1>3, <2>1, <2>2 DEF TypeOK, Cancel, agentVars, bullVars
<1> QED BY <1>1, <1>2, <1>3 DEF Api

LEMMA FailRowType ==
  ASSUME TypeOK, NEW j \in Job, NEW e, FailRow(j, e)
  PROVE  /\ jobStatus' \in [Job -> JobStatus \cup {"absent"}]
         /\ enqueued' \in [Job -> BOOLEAN] /\ leaseLive' \in [Job -> BOOLEAN]
         /\ UNCHANGED <<attempts, continuations>>
<1> DEFINE next == RetryDecision(e, attempts[j] - continuations[j], MaxRetries[j])
<1>1. next \in {"queued", "failed", "timed_out", "cancelled"}
  BY RetryDecisionType
<1>2. jobStatus' = [jobStatus EXCEPT ![j] = next]
  BY DEF FailRow
<1>3. (enqueued[j] /\ next # "queued") \in BOOLEAN
  OBVIOUS
<1>4. enqueued' \in [Job -> BOOLEAN]
  BY <1>3 DEF FailRow, TypeOK
<1> HIDE DEF next
<1> QED
  BY <1>1, <1>2, <1>4 DEF FailRow, TypeOK

LEMMA SmokeAfterFailType ==
  ASSUME TypeOK, NEW j \in Job, NEW s, SmokeAfterFail(j, s)
  PROVE  /\ auditStatus' \in AuditStatus /\ outbox' \subseteq Job
         /\ UNCHANGED <<cancelRequested, degraded>>
BY DEF TypeOK, SmokeAfterFail

LEMMA DeliveryType ==
  ASSUME TypeOK, NEW j \in Job, Delivery(j)
  PROVE  TypeOK'
<1>1. CASE Claim(j)
  <2> DEFINE a == attempts[j] + 1
  <2>1. a \in Attempt
    BY <1>1, CoreAssumption DEF TypeOK, Claim, Attempt
  <2>2. run' \in [Job -> [Attempt -> Position]]
    BY <1>1, RunUpdate DEF TypeOK, Claim, Position, Executing
  <2>3. attempts' \in [Job -> 0..MaxAttempt] /\ holder' \in [Job -> 0..MaxAttempt]
    BY <1>1, <2>1, CoreAssumption DEF TypeOK, Claim, Attempt
  <2>4. jobStatus' \in [Job -> JobStatus \cup {"absent"}]
    BY <1>1 DEF TypeOK, Claim
  <2> QED
    BY <1>1, <2>2, <2>3, <2>4 DEF TypeOK, Claim, agentVars
<1>2. CASE ClaimNothing(j)
  BY <1>2 DEF TypeOK, ClaimNothing, auditVars, jobVars, agentVars
<1>3. ASSUME NEW e, ClaimRefused(j, e) PROVE TypeOK'
  <2>1. CASE Kind[j] = "recon" /\ jobStatus[j] = "running"
    <3>1. FailRow(j, e) /\ SmokeAfterFail(j, jobStatus'[j])
      BY <1>3, <2>1 DEF ClaimRefused
    <3> QED
      BY <1>3, <3>1, FailRowType, SmokeAfterFailType DEF TypeOK, ClaimRefused, agentVars
  <2>2. CASE ~(Kind[j] = "recon" /\ jobStatus[j] = "running")
    BY <1>3, <2>2 DEF TypeOK, ClaimRefused, auditVars, jobVars, agentVars
  <2> QED BY <2>1, <2>2
<1> QED BY <1>1, <1>2, <1>3 DEF Delivery

LEMMA ProgressType ==
  ASSUME TypeOK, NEW j \in Job, NEW a \in Attempt, Progress(j, a)
  PROVE  TypeOK'
<1>1. CASE Succeed(j, a)
  <2>1. run' \in [Job -> [Attempt -> Position]]
    BY <1>1, RunUpdate DEF TypeOK, Succeed, Position, Settling
  <2> QED
    BY <1>1, <2>1 DEF TypeOK, Succeed, auditVars, agentVars, bullVars
<1>2. ASSUME NEW e, Fail(j, a, e) PROVE TypeOK'
  <2>1. run' \in [Job -> [Attempt -> Position]]
    <3>1. \E p \in Position : run' = [run EXCEPT ![j][a] = p]
      BY <1>2 DEF Fail, Position, Settling
    <3> QED BY <3>1, RunUpdate DEF TypeOK
  <2>2. CASE FailRow(j, e)
    BY <1>2, <2>1, <2>2, FailRowType DEF TypeOK, Fail, auditVars, agentVars, bullVars
  <2>3. CASE UNCHANGED jobVars
    BY <1>2, <2>1, <2>3 DEF TypeOK, Fail, auditVars, jobVars, agentVars, bullVars
  <2> QED BY <1>2, <2>2, <2>3 DEF Fail
<1>3. CASE AfterSucceed(j, a)
  BY <1>3, AcknowledgeType DEF TypeOK, AfterSucceed, jobVars, agentVars
<1>4. CASE AfterFail(j, a)
  <2>1. auditStatus' \in AuditStatus /\ outbox' \subseteq Job /\ UNCHANGED <<cancelRequested, degraded>>
    <3>1. CASE Smoke /\ run[j][a] # "rejected"
      BY <1>4, <3>1, SmokeAfterFailType DEF AfterFail
    <3>2. CASE ~(Smoke /\ run[j][a] # "rejected")
      BY <1>4, <3>2 DEF AfterFail, auditVars, TypeOK
    <3> QED BY <3>1, <3>2
  <2> QED
    BY <1>4, <2>1, AcknowledgeType DEF TypeOK, AfterFail, jobVars, agentVars
<1>5. ASSUME NEW c \in Job, BeginTool(j, a, c) PROVE TypeOK'
  BY <1>5, RunUpdate DEF TypeOK, BeginTool, Position, Executing, auditVars, jobVars, agentVars, bullVars
<1>6. ASSUME NEW c \in Job, CreateChild(j, a, c) PROVE TypeOK'
  <2>1. run' \in [Job -> [Attempt -> Position]]
    BY <1>6, RunUpdate DEF TypeOK, CreateChild, Position, Executing
  <2> QED
    BY <1>6, <2>1 DEF TypeOK, CreateChild, auditVars, bullVars
<1>7. ASSUME NEW c \in Job, EnqueueChild(j, a, c) PROVE TypeOK'
  <2>1. run' \in [Job -> [Attempt -> Position]]
    BY <1>7, RunUpdate DEF TypeOK, EnqueueChild, Position, Executing
  <2>2. /\ bull' \in [Job -> {"none", "waiting", "active", "failed"}]
        /\ stalls' \in [Job -> 0..1] /\ holder' \in [Job -> 0..MaxAttempt]
    BY <1>7, EnqueueType DEF EnqueueChild
  <2> QED
    BY <1>7, <2>1, <2>2 DEF TypeOK, EnqueueChild, auditVars, jobVars
<1>8. ASSUME NEW c \in Job, EnqueueChildFails(j, a, c) PROVE TypeOK'
  BY <1>8, RunUpdate DEF TypeOK, EnqueueChildFails, Position, Executing, auditVars, jobVars, bullVars
<1>9. ASSUME NEW c \in Job, ResumeWait(j, a, c) PROVE TypeOK'
  BY <1>9, RunUpdate DEF TypeOK, ResumeWait, Position, Executing, auditVars, jobVars, bullVars
<1>10. ASSUME NEW c \in Job, DeliverResult(j, a, c) PROVE TypeOK'
  BY <1>10 DEF TypeOK, DeliverResult, auditVars, jobVars, bullVars
<1>11. CASE WaitForChild(j, a)
  <2>1. run' \in [Job -> [Attempt -> Position]]
    BY <1>11, RunUpdate DEF TypeOK, WaitForChild, Position, Settling
  <2>2. CASE Current(j, a)
    <3>1. continuations' \in [Job -> Nat]
      BY <1>11, <2>2, SMTT(30) DEF TypeOK, WaitForChild
    <3> QED
      BY <1>11, <2>1, <2>2, <3>1, ZenonT(40) DEF TypeOK, WaitForChild, auditVars, agentVars, bullVars
  <2>3. CASE ~Current(j, a)
    BY <1>11, <2>1, <2>3 DEF TypeOK, WaitForChild, auditVars, agentVars, bullVars
  <2> QED BY <2>2, <2>3
<1>12. CASE AfterSuspend(j, a)
  BY <1>12, AcknowledgeType DEF TypeOK, AfterSuspend, auditVars, jobVars, agentVars
<1> QED
  BY <1>1, <1>2, <1>3, <1>4, <1>5, <1>6, <1>7, <1>8, <1>9, <1>10, <1>11, <1>12
     DEF Progress, Outcome, ToolCall, Children

LEMMA WorkerType ==
  ASSUME TypeOK, NEW j \in Job, Worker(j)
  PROVE  TypeOK'
<1>1. CASE LeaseExpires(j)
  BY <1>1 DEF TypeOK, LeaseExpires, auditVars, agentVars, bullVars
<1>2. CASE DeadlinePasses(j)
  BY <1>2 DEF TypeOK, DeadlinePasses, auditVars, jobVars, bullVars
<1>3. ASSUME NEW a \in Attempt, Heartbeat(j, a) PROVE TypeOK'
  BY <1>3 DEF TypeOK, Heartbeat, auditVars, agentVars, bullVars
<1>4. ASSUME NEW a \in Attempt, WorkerCrash(j, a) PROVE TypeOK'
  BY <1>4, RunUpdate DEF TypeOK, WorkerCrash, Position, auditVars, jobVars, agentVars, bullVars
<1>5. ASSUME NEW a \in Attempt, Degrade(j, a) PROVE TypeOK'
  BY <1>5 DEF TypeOK, Degrade, jobVars, agentVars, bullVars
<1> QED
  BY <1>1, <1>2, <1>3, <1>4, <1>5, DeliveryType, ProgressType DEF Worker

LEMMA StutterType ==
  ASSUME TypeOK, UNCHANGED vars
  PROVE  TypeOK'
BY DEF TypeOK, vars, auditVars, jobVars, agentVars, bullVars

LEMMA NextType ==
  ASSUME TypeOK, [Next]_vars
  PROVE  TypeOK'
BY ApiType, SchedulerType, QueueType, WorkerType, StutterType DEF Next

\* The variables keep their types: the statuses written are statuses, the fence
\* of a row is an attempt that was claimed.
THEOREM TypeCorrect == Spec => []TypeOK
<1>1. Init => TypeOK
  BY TypeInit
<1>2. TypeOK /\ [Next]_vars => TypeOK'
  BY NextType
<1> QED
  BY <1>1, <1>2, PTL DEF Spec

-----------------------------------------------------------------------------
(***************************************************************************)
(* The safety theorems about AuditCore. Their argument: JobMove says what a *)
(* step may do to one job's row; from it follow that settled jobs stay      *)
(* settled and that attempts stay within the retry allowance. InOrder is    *)
(* the invariant that makes DependencyOrder inductive: whatever can still   *)
(* bring a job to run (its enqueuedAt, a batch of advance, a BullMQ job, a  *)
(* process) only exists once the dependencies are satisfied.                *)
(***************************************************************************)

USE DEF TerminalJob, JobStatus

Allowance(j) == attempts[j] - continuations[j] < AttemptLimit(j)

JobMove(j) ==
  \/ /\ attempts'[j] = attempts[j] /\ continuations'[j] = continuations[j]
     /\ \/ jobStatus'[j] = jobStatus[j]
        \/ /\ jobStatus[j] \in {"absent", "queued", "waiting"}
           /\ jobStatus'[j] \in {"queued", "cancelled", "skipped"}
        \/ jobStatus[j] = "running" /\ jobStatus'[j] \in TerminalJob
        \/ jobStatus[j] = "running" /\ jobStatus'[j] = "queued" /\ Allowance(j)
  \/ /\ jobStatus[j] = "queued" /\ jobStatus'[j] = "running"
     /\ attempts'[j] = attempts[j] + 1 /\ continuations'[j] = continuations[j]
  \/ /\ jobStatus[j] = "running" /\ jobStatus'[j] = "waiting"
     /\ attempts'[j] = attempts[j] /\ continuations'[j] = continuations[j] + 1

LEMMA RowsUnchanged ==
  ASSUME UNCHANGED <<jobStatus, attempts, continuations>>, NEW k \in Job
  PROVE  JobMove(k)
BY DEF JobMove

LEMMA RetryWithinAllowance ==
  ASSUME TypeOK, NEW j \in Job, NEW e,
         RetryDecision(e, attempts[j] - continuations[j], MaxRetries[j]) = "queued"
  PROVE  Allowance(j)
<1>1. attempts[j] - continuations[j] \in Int /\ MaxRetries[j] \in Nat
  BY CoreAssumption DEF TypeOK
<1>2. attempts[j] - continuations[j] = 1 \/ attempts[j] - continuations[j] <= MaxRetries[j]
  BY DEF RetryDecision
<1> QED
  BY <1>1, <1>2 DEF Allowance, AttemptLimit

LEMMA FailRowMove ==
  ASSUME TypeOK, NEW j \in Job, NEW e, jobStatus[j] = "running", FailRow(j, e), NEW k \in Job
  PROVE  JobMove(k)
<1> DEFINE next == RetryDecision(e, attempts[j] - continuations[j], MaxRetries[j])
<1>1. next \in {"queued", "failed", "timed_out", "cancelled"}
  BY RetryDecisionType
<1>2. next = "queued" => Allowance(j)
  BY RetryWithinAllowance
<1>3. jobStatus' = [jobStatus EXCEPT ![j] = next] /\ UNCHANGED <<attempts, continuations>>
  BY DEF FailRow
<1> HIDE DEF next
<1> QED
  BY <1>1, <1>2, <1>3 DEF JobMove, TypeOK

LEMMA SkipMove ==
  ASSUME TypeOK, NEW S \in SUBSET Queued(AfterWake), jobStatus' = Skip(AfterWake, S),
         UNCHANGED <<attempts, continuations>>, NEW k \in Job
  PROVE  JobMove(k)
BY DEF JobMove, Skip, AfterWake, Woken, Queued

LEMMA SchedulerMove ==
  ASSUME TypeOK, Scheduler, NEW k \in Job
  PROVE  JobMove(k)
<1>1. CASE AdvanceCancelled
  BY <1>1 DEF AdvanceCancelled, JobMove, AfterWake, Woken
<1>2. CASE AdvanceFinish
  BY <1>2, SkipMove DEF AdvanceFinish
<1>3. CASE AdvanceSchedule
  BY <1>3, SkipMove DEF AdvanceSchedule
<1>4. ASSUME NEW j \in Job, SchedulerCrash(j) \/ RecoverEnqueued(j) PROVE JobMove(k)
  BY <1>4, RowsUnchanged DEF SchedulerCrash, RecoverEnqueued, jobVars
<1>5. ASSUME NEW j \in Job, RecoverLease(j) PROVE JobMove(k)
  <2>1. attempts[j] - continuations[j] \in Int /\ MaxRetries[j] \in Nat
    BY CoreAssumption DEF TypeOK
  <2>2. attempts[j] - continuations[j] <= MaxRetries[j] => Allowance(j)
    BY <2>1 DEF Allowance, AttemptLimit
  <2> QED
    BY <1>5, <2>2 DEF RecoverLease, JobMove, TypeOK
<1> QED
  BY <1>1, <1>2, <1>3, <1>4, <1>5 DEF Scheduler, Advance

LEMMA ProgressMove ==
  ASSUME TypeOK, NEW j \in Job, NEW a \in Attempt, Progress(j, a), NEW k \in Job
  PROVE  JobMove(k)
<1>1. CASE Succeed(j, a)
  <2>1. CASE Current(j, a)
    BY <1>1, <2>1 DEF Succeed, Current, JobMove, TypeOK
  <2>2. CASE ~Current(j, a)
    BY <1>1, <2>2, RowsUnchanged DEF Succeed
  <2> QED BY <2>1, <2>2
<1>2. ASSUME NEW e, Fail(j, a, e) PROVE JobMove(k)
  BY <1>2, FailRowMove, RowsUnchanged DEF Fail, Current, jobVars
<1>3. CASE AfterSucceed(j, a) \/ AfterFail(j, a) \/ AfterSuspend(j, a)
  BY <1>3, RowsUnchanged DEF AfterSucceed, AfterFail, AfterSuspend, jobVars
<1>4. ASSUME NEW c \in Job, BeginTool(j, a, c) \/ EnqueueChild(j, a, c) \/ EnqueueChildFails(j, a, c)
                              \/ ResumeWait(j, a, c) \/ DeliverResult(j, a, c)
      PROVE  JobMove(k)
  BY <1>4, RowsUnchanged
     DEF BeginTool, EnqueueChild, EnqueueChildFails, ResumeWait, DeliverResult, jobVars
<1>5. ASSUME NEW c \in Job, CreateChild(j, a, c) PROVE JobMove(k)
  BY <1>5 DEF CreateChild, JobMove, TypeOK
<1>6. CASE WaitForChild(j, a)
  <2>1. CASE Current(j, a)
    BY <1>6, <2>1 DEF WaitForChild, Current, JobMove, TypeOK
  <2>2. CASE ~Current(j, a)
    BY <1>6, <2>2, RowsUnchanged DEF WaitForChild
  <2> QED BY <2>1, <2>2
<1> QED
  BY <1>1, <1>2, <1>3, <1>4, <1>5, <1>6 DEF Progress, Outcome, ToolCall, Children

LEMMA WorkerMove ==
  ASSUME TypeOK, NEW j \in Job, Worker(j), NEW k \in Job
  PROVE  JobMove(k)
<1>1. CASE Claim(j)
  BY <1>1 DEF Claim, Claimable, JobMove, TypeOK
<1>2. CASE ClaimNothing(j) \/ LeaseExpires(j) \/ DeadlinePasses(j)
  BY <1>2, RowsUnchanged DEF ClaimNothing, LeaseExpires, DeadlinePasses, jobVars
<1>3. ASSUME NEW e, ClaimRefused(j, e) PROVE JobMove(k)
  BY <1>3, FailRowMove, RowsUnchanged DEF ClaimRefused, jobVars
<1>4. ASSUME NEW a \in Attempt, Heartbeat(j, a) \/ WorkerCrash(j, a) \/ Degrade(j, a) PROVE JobMove(k)
  BY <1>4, RowsUnchanged DEF Heartbeat, WorkerCrash, Degrade, jobVars
<1> QED
  BY <1>1, <1>2, <1>3, <1>4, ProgressMove DEF Worker, Delivery

LEMMA NextMove ==
  ASSUME TypeOK, ~DispatchFails, [Next]_vars, NEW k \in Job
  PROVE  JobMove(k)
<1>1. CASE DispatchQueued
  BY <1>1, RowsUnchanged DEF DispatchQueued, jobVars
<1>2. CASE Cancel
  BY <1>2 DEF Cancel, JobMove, TypeOK
<1>3. CASE Scheduler
  BY <1>3, SchedulerMove
<1>4. ASSUME NEW j \in Job, Queue(j) PROVE JobMove(k)
  BY <1>4, RowsUnchanged DEF Queue, EnqueueReady, EnqueueFails, Stall, RemovePending, jobVars
<1>5. CASE UNCHANGED vars
  BY <1>5, RowsUnchanged DEF vars, jobVars
<1> QED
  BY <1>1, <1>2, <1>3, <1>4, <1>5, WorkerMove DEF Next, Api

LEMMA DispatchNeverFails ==
  ASSUME ~Strikes("dispatch", FirstJob)
  PROVE  ~DispatchFails
BY DEF DispatchFails
-----------------------------------------------------------------------------
\* No late worker, recovery, cancellation or pass of the scheduler changes the
\* outcome of a settled job; only the compensation of dispatch could.
THEOREM JobOutcomesFinal ==
  ASSUME ~Strikes("dispatch", FirstJob)
  PROVE  Spec => JobTerminalImmutable
<1>1. TypeOK /\ [Next]_vars
        => [\A j \in Job : jobStatus[j] \in TerminalJob => jobStatus'[j] = jobStatus[j]]_vars
  BY NextMove, DispatchNeverFails DEF JobMove
<1> QED
  BY <1>1, TypeCorrect, PTL DEF Spec, JobTerminalImmutable

AttemptInv ==
  \A j \in Job :
    /\ attempts[j] - continuations[j] <= AttemptLimit(j)
    /\ jobStatus[j] \in {"absent", "queued", "waiting"} => Allowance(j)

\* No interleaving of failures, timeouts, expired leases, crashes and suspensions
\* gives a job more attempts than its retry allowance.
THEOREM AttemptsBounded ==
  ASSUME ~Strikes("dispatch", FirstJob)
  PROVE  Spec => []AttemptBound
<1> USE DEF AttemptInv, Allowance
<1>1. Init => AttemptInv
  BY CoreAssumption DEF Init, AttemptLimit
<1>2. TypeOK /\ AttemptInv /\ [Next]_vars => AttemptInv'
  <2> SUFFICES ASSUME TypeOK, AttemptInv, [Next]_vars, NEW j \in Job
               PROVE  (/\ attempts[j] - continuations[j] <= AttemptLimit(j)
                       /\ jobStatus[j] \in {"absent", "queued", "waiting"} => Allowance(j))'
    OBVIOUS
  <2>1. JobMove(j)
    BY NextMove, DispatchNeverFails
  <2>2. attempts[j] \in Int /\ continuations[j] \in Int /\ AttemptLimit(j) \in Nat
    BY CoreAssumption DEF TypeOK, AttemptLimit
  <2>3. AttemptLimit(j)' = AttemptLimit(j)
    BY DEF AttemptLimit
  <2> QED
    BY <2>1, <2>2, <2>3 DEF JobMove
<1>3. AttemptInv => AttemptBound
  BY DEF AttemptBound
<1> QED
  BY <1>1, <1>2, <1>3, TypeCorrect, PTL DEF Spec
-----------------------------------------------------------------------------
\* What can bring job j to run, or shows that it was brought.
Involved(j) ==
  \/ enqueued[j] \/ j \in outbox \/ bull[j] # "none"
  \/ jobStatus[j] \in {"running", "waiting", "succeeded"}
  \/ \E a \in Attempt : run[j][a] # "none"

InOrder == \A j \in Job : Involved(j) => DepsSatisfied(jobStatus, j)

\* What a step may add to the involved jobs.
Entitled(k) == Involved(k) \/ DependsOn[k] = {} \/ DepsSatisfied(jobStatus', k)

LEMMA SchedulerInvolves ==
  ASSUME TypeOK, Scheduler, NEW k \in Job, Involved(k)'
  PROVE  Entitled(k)
<1> USE DEF Involved, Entitled
<1>1. CASE AdvanceCancelled
  BY <1>1 DEF AdvanceCancelled, AfterWake, Woken, TypeOK, bullVars
<1>2. CASE AdvanceFinish
  BY <1>2, SMTT(30) DEF AdvanceFinish, Skip, AfterWake, Woken, TypeOK, bullVars
<1>3. CASE AdvanceSchedule
  BY <1>3 DEF AdvanceSchedule, ReadyJobs, Skip, AfterWake, Woken, TypeOK, bullVars
<1>4. ASSUME NEW j \in Job, SchedulerCrash(j) \/ RecoverEnqueued(j) \/ RecoverLease(j)
      PROVE  Entitled(k)
  BY <1>4 DEF SchedulerCrash, RecoverEnqueued, RecoverLease, TypeOK, jobVars, bullVars
<1> QED
  BY <1>1, <1>2, <1>3, <1>4 DEF Scheduler, Advance

LEMMA QueueInvolves ==
  ASSUME TypeOK, NEW j \in Job, Queue(j), NEW k \in Job, Involved(k)'
  PROVE  Entitled(k)
<1> USE DEF Involved, Entitled
<1>1. CASE EnqueueReady(j)
  BY <1>1 DEF EnqueueReady, Enqueue, TypeOK, jobVars
<1>2. CASE EnqueueFails(j)
  BY <1>2 DEF EnqueueFails, TypeOK, bullVars
<1>3. CASE Stall(j)
  <2>1. CASE k = j
    BY <1>3, <2>1 DEF Stall
  <2>2. CASE k # j
    BY <1>3, <2>2 DEF Stall, TypeOK, jobVars
  <2> QED BY <2>1, <2>2
<1>4. CASE RemovePending(j)
  BY <1>4 DEF RemovePending, TypeOK, jobVars
<1> QED BY <1>1, <1>2, <1>3, <1>4 DEF Queue

\* An acknowledged job was already involved, by the attempt that ends.
LEMMA AcknowledgeInvolves ==
  ASSUME TypeOK, NEW j \in Job, NEW a \in Attempt, NEW r, Acknowledge(j, a, r),
         run[j][a] # "none", UNCHANGED jobVars, outbox' \subseteq outbox \cup {j},
         NEW k \in Job, Involved(k)'
  PROVE  Involved(k)
<1>1. CASE k = j
  BY <1>1 DEF Involved
<1>2. CASE k # j
  <2>1. run'[k] = run[k] /\ bull'[k] = bull[k]
    BY <1>2 DEF Acknowledge, TypeOK, bullVars
  <2> QED
    BY <1>2, <2>1 DEF Involved, jobVars
<1> QED BY <1>1, <1>2

LEMMA ProgressInvolves ==
  ASSUME TypeOK, NEW j \in Job, NEW a \in Attempt, Progress(j, a), NEW k \in Job, Involved(k)'
  PROVE  Entitled(k)
<1> USE DEF Involved, Entitled
<1>0. run[j][a] # "none"
  BY DEF Progress, Outcome, ToolCall, Succeed, Fail, AfterSucceed, AfterFail, AfterSuspend, BeginTool,
         CreateChild, EnqueueChild, EnqueueChildFails, ResumeWait, DeliverResult, WaitForChild, Executing
<1>1. CASE k = j
  BY <1>0, <1>1
<1>2. CASE k # j /\ (AfterSucceed(j, a) \/ AfterFail(j, a) \/ AfterSuspend(j, a))
  BY <1>0, <1>2, AcknowledgeInvolves DEF AfterSucceed, AfterFail, AfterSuspend, SmokeAfterFail
<1>3. CASE k # j /\ Succeed(j, a)
  BY <1>3 DEF Succeed, TypeOK, bullVars
<1>4. ASSUME k # j, NEW e, Fail(j, a, e) PROVE Entitled(k)
  BY <1>4 DEF Fail, FailRow, TypeOK, jobVars, bullVars
<1>5. CASE k # j /\ WaitForChild(j, a)
  BY <1>5 DEF WaitForChild, TypeOK, bullVars
<1>6. ASSUME k # j, NEW c \in Job, BeginTool(j, a, c) \/ EnqueueChildFails(j, a, c)
                                     \/ ResumeWait(j, a, c) \/ DeliverResult(j, a, c)
      PROVE  Entitled(k)
  BY <1>6 DEF BeginTool, EnqueueChildFails, ResumeWait, DeliverResult, TypeOK, jobVars, bullVars
<1>7. ASSUME k # j, NEW c \in Children(j), CreateChild(j, a, c) PROVE Entitled(k)
  BY <1>7 DEF CreateChild, TypeOK, bullVars
<1>8. ASSUME k # j, NEW c \in Children(j), EnqueueChild(j, a, c) PROVE Entitled(k)
  <2>1. CASE k = c
    BY <2>1, CoreAssumption DEF Children
  <2>2. CASE k # c
    BY <1>8, <2>2 DEF EnqueueChild, Enqueue, TypeOK, jobVars
  <2> QED BY <2>1, <2>2
<1> QED
  BY <1>1, <1>2, <1>3, <1>4, <1>5, <1>6, <1>7, <1>8 DEF Progress, Outcome, ToolCall, Children

LEMMA WorkerInvolves ==
  ASSUME TypeOK, NEW j \in Job, Worker(j), NEW k \in Job, Involved(k)'
  PROVE  Entitled(k)
<1> USE DEF Involved, Entitled
<1>1. CASE Claim(j)
  BY <1>1 DEF Claim, TypeOK
<1>2. CASE ClaimNothing(j) \/ LeaseExpires(j) \/ DeadlinePasses(j)
  BY <1>2 DEF ClaimNothing, LeaseExpires, DeadlinePasses, TypeOK, jobVars, bullVars
<1>3. ASSUME NEW e, ClaimRefused(j, e) PROVE Entitled(k)
  <2>1. CASE k = j
    BY <1>3, <2>1 DEF ClaimRefused
  <2>2. CASE k # j
    BY <1>3, <2>2 DEF ClaimRefused, FailRow, SmokeAfterFail, TypeOK, jobVars
  <2> QED BY <2>1, <2>2
<1>4. ASSUME NEW a \in Attempt, Heartbeat(j, a) \/ Degrade(j, a) PROVE Entitled(k)
  BY <1>4 DEF Heartbeat, Degrade, jobVars, bullVars
<1>5. ASSUME NEW a \in Attempt, WorkerCrash(j, a) PROVE Entitled(k)
  <2>1. CASE k = j
    BY <1>5, <2>1 DEF WorkerCrash, Executing, Settling
  <2>2. CASE k # j
    BY <1>5, <2>2 DEF WorkerCrash, TypeOK, jobVars, bullVars
  <2> QED BY <2>1, <2>2
<1> QED
  BY <1>1, <1>2, <1>3, <1>4, <1>5, ProgressInvolves DEF Worker, Delivery

LEMMA NextInvolves ==
  ASSUME TypeOK, ~Strikes("dispatch", FirstJob), [Next]_vars, NEW k \in Job, Involved(k)'
  PROVE  Entitled(k)
<1>1. CASE DispatchQueued
  BY <1>1, CoreAssumption DEF DispatchQueued, Enqueue, Involved, Entitled, TypeOK, jobVars
<1>2. CASE Cancel
  BY <1>2 DEF Cancel, Involved, Entitled, TypeOK, bullVars
<1>3. CASE UNCHANGED vars
  BY <1>3 DEF vars, jobVars, bullVars, Involved, Entitled
<1> QED
  BY <1>1, <1>2, <1>3, SchedulerInvolves, QueueInvolves, WorkerInvolves DEF Next, Api, DispatchFails

\* The dependencies of an involved job are and stay satisfied.
LEMMA InvolvedInOrder ==
  ASSUME ~Strikes("dispatch", FirstJob)
  PROVE  Spec => []InOrder
<1>1. Init => InOrder
  BY DEF Init, InOrder, Involved
<1>2. TypeOK /\ InOrder /\ [Next]_vars => InOrder'
  <2> SUFFICES ASSUME TypeOK, InOrder, [Next]_vars, NEW k \in Job, Involved(k)'
               PROVE  DepsSatisfied(jobStatus', k)
    BY DEF InOrder
  <2>1. \A d \in Job : jobStatus[d] \in TerminalJob => jobStatus'[d] = jobStatus[d]
    BY NextMove, DispatchNeverFails DEF JobMove
  <2>2. CASE Involved(k)
    BY <2>1, <2>2, SatisfiedStays DEF InOrder
  <2>3. CASE DependsOn[k] = {}
    BY <2>3, NoDependenciesSatisfied
  <2> QED
    BY <2>2, <2>3, NextInvolves DEF Entitled
<1> QED
  BY <1>1, <1>2, TypeCorrect, PTL DEF Spec

\* No job runs, waits or succeeds before its dependencies allow it, although
\* claim never looks at them: whatever message, batch or retry timer brings a
\* job to a worker was made when they did, and settled dependencies stay settled.
THEOREM JobsRunInOrder ==
  ASSUME ~Strikes("dispatch", FirstJob)
  PROVE  Spec => []DependencyOrder
<1>1. InOrder => DependencyOrder
  BY DEF InOrder, Involved, DependencyOrder
<1> QED
  BY <1>1, InvolvedInOrder, PTL

-----------------------------------------------------------------------------
(***************************************************************************)
(* Who decides what becomes of a job and of the audit. Ownership is the     *)
(* invariant behind it: as long as no worker of a job outlives its lease,   *)
(* an attempt that executes is the one its row counts, holds the BullMQ job *)
(* and has a live lease, so that nothing else touches the job meanwhile.    *)
(***************************************************************************)

USE DEF TerminalJob, JobStatus, TerminalAudit, AuditStatus

\* No worker of j stalls past its lease, and dispatch did not overwrite its row.
Reliable(j) == ~Strikes("slip", j) /\ (dispatch = "failed" => j # FirstJob)

Holds(j, a) ==
  /\ jobStatus[j] = "running" /\ attempts[j] = a /\ leaseLive[j]
  /\ holder[j] = a /\ bull[j] = "active"

Owned(j, a) ==
  /\ run[j][a] \in Executing => Holds(j, a)
  /\ run[j][a] = "succeeded" => jobStatus[j] = "succeeded"

Ownership == \A j \in Job, a \in Attempt : Reliable(j) => Owned(j, a)

\* Steps that leave the attempts of k alone, and its row and message while one
\* executes, keep it.
LEMMA OwnedFrame ==
  ASSUME TypeOK, NEW k \in Job, NEW b \in Attempt, Owned(k, b), JobMove(k),
         run'[k][b] = run[k][b],
         run[k][b] \in Executing =>
           /\ jobStatus'[k] = jobStatus[k] /\ attempts'[k] = attempts[k]
           /\ leaseLive'[k] = leaseLive[k] /\ holder'[k] = holder[k] /\ bull'[k] = bull[k]
  PROVE  Owned(k, b)'
BY DEF Owned, Holds, JobMove, Executing

LEMMA QueueOwned ==
  ASSUME TypeOK, Ownership, NEW j \in Job, Queue(j), NEW k \in Job, JobMove(k), Reliable(k), NEW b \in Attempt
  PROVE  Owned(k, b)'
<1>0. Owned(k, b)
  BY DEF Ownership
<1>1. CASE EnqueueReady(j)
  BY <1>0, <1>1, OwnedFrame DEF EnqueueReady, Enqueue, TypeOK, jobVars, Owned, Holds
<1>2. CASE EnqueueFails(j)
  BY <1>0, <1>2, OwnedFrame DEF EnqueueFails, bullVars
<1>3. CASE Stall(j)
  <2>1. CASE k = j
    <3>1. ASSUME run[k][b] \in Executing PROVE FALSE
      BY <1>0, <1>3, <2>1, <3>1 DEF Stall, Owned, Holds, Reliable, Executing
    <3>2. run'[k][b] = run[k][b] \/ run'[k][b] = "none"
      BY <1>3, <2>1 DEF Stall, TypeOK
    <3> QED
      BY <1>0, <1>3, <3>1, <3>2 DEF Stall, Owned, Executing, jobVars
  <2>2. CASE k # j
    BY <1>0, <1>3, <2>2, OwnedFrame DEF Stall, TypeOK, jobVars
  <2> QED BY <2>1, <2>2
<1>4. CASE RemovePending(j)
  BY <1>0, <1>4, OwnedFrame DEF RemovePending, TypeOK, jobVars, Owned, Holds
<1> QED BY <1>1, <1>2, <1>3, <1>4 DEF Queue

LEMMA SchedulerOwned ==
  ASSUME TypeOK, Ownership, Scheduler, NEW k \in Job, JobMove(k), Reliable(k), NEW b \in Attempt
  PROVE  Owned(k, b)'
<1>0. Owned(k, b)
  BY DEF Ownership
<1>1. CASE AdvanceCancelled
  BY <1>0, <1>1, OwnedFrame DEF AdvanceCancelled, AfterWake, Woken, Owned, Holds, bullVars
<1>2. CASE AdvanceFinish
  BY <1>0, <1>2, OwnedFrame, ZenonT(60) DEF AdvanceFinish, Skip, AfterWake, Woken, Queued, Owned, Holds, bullVars
<1>3. CASE AdvanceSchedule
  <2>1. PICK S \in SUBSET Queued(AfterWake) : jobStatus' = Skip(AfterWake, S)
    BY <1>3 DEF AdvanceSchedule
  <2> QED
    BY <1>0, <1>3, <2>1, OwnedFrame DEF AdvanceSchedule, Skip, AfterWake, Woken, Queued, Owned, Holds, bullVars
<1>4. ASSUME NEW j \in Job, SchedulerCrash(j) \/ RecoverEnqueued(j) PROVE Owned(k, b)'
  BY <1>0, <1>4, OwnedFrame DEF SchedulerCrash, RecoverEnqueued, jobVars, bullVars
<1>5. ASSUME NEW j \in Job, RecoverLease(j) PROVE Owned(k, b)'
  BY <1>0, <1>5, OwnedFrame DEF RecoverLease, TypeOK, bullVars, Owned, Holds
<1> QED
  BY <1>1, <1>2, <1>3, <1>4, <1>5 DEF Scheduler, Advance

\* The end of a processor takes the message only from the attempt that holds it.
LEMMA AcknowledgeOwned ==
  ASSUME TypeOK, NEW j \in Job, NEW a \in Attempt, NEW r, Acknowledge(j, a, r),
         run[j][a] \in Settling, UNCHANGED jobVars,
         NEW k \in Job, JobMove(k), NEW b \in Attempt, Owned(k, b)
  PROVE  Owned(k, b)'
<1>1. CASE k = j /\ b = a
  <2>1. run'[k][b] = "none"
    BY <1>1 DEF Acknowledge, TypeOK
  <2> QED BY <2>1 DEF Owned, Executing
<1>2. CASE ~(k = j /\ b = a)
  <2>1. run'[k][b] = run[k][b]
    BY <1>2 DEF Acknowledge, TypeOK
  <2>2. ASSUME run[k][b] \in Executing PROVE holder'[k] = holder[k] /\ bull'[k] = bull[k]
    BY <1>2, <2>2 DEF Acknowledge, TypeOK, Owned, Holds, bullVars
  <2> QED
    BY <2>1, <2>2, OwnedFrame DEF jobVars
<1> QED BY <1>1, <1>2

LEMMA ProgressOwned ==
  ASSUME TypeOK, Ownership, NEW j \in Job, NEW a \in Attempt, Progress(j, a),
         NEW k \in Job, JobMove(k), Reliable(k), NEW b \in Attempt
  PROVE  Owned(k, b)'
<1>0. Owned(k, b) /\ (k = j => Owned(k, a))
  BY DEF Ownership
<1>1. CASE Succeed(j, a)
  <2>1. CASE k = j
    <3>1. Holds(j, a) /\ Current(j, a)
      BY <1>0, <1>1, <2>1 DEF Succeed, Owned, Executing, Holds, Current
    <3>2. b # a => run[k][b] \notin Executing
      BY <1>0, <2>1, <3>1 DEF Owned, Holds
    <3>3. run'[k][b] = IF b = a THEN "succeeded" ELSE run[k][b]
      BY <1>1, <2>1 DEF Succeed, TypeOK
    <3>4. jobStatus'[k] = "succeeded"
      BY <1>1, <2>1, <3>1 DEF Succeed, TypeOK
    <3> QED
      BY <3>2, <3>3, <3>4 DEF Owned, Executing
  <2>2. CASE k # j
    BY <1>0, <1>1, <2>2, OwnedFrame DEF Succeed, TypeOK, bullVars
  <2> QED BY <2>1, <2>2
<1>2. ASSUME NEW e, Fail(j, a, e) PROVE Owned(k, b)'
  <2>1. CASE k = j
    <3>1. b # a => run[k][b] \notin Executing
      BY <1>0, <1>2, <2>1 DEF Fail, Owned, Holds
    <3>2. run'[k][b] \in (IF b = a THEN {"retrying", "gaveup", "rejected"} ELSE {run[k][b]})
      BY <1>2, <2>1 DEF Fail, TypeOK
    <3> QED
      BY <1>0, <3>1, <3>2 DEF Owned, Executing, JobMove
  <2>2. CASE k # j
    BY <1>0, <1>2, <2>2, OwnedFrame DEF Fail, FailRow, TypeOK, bullVars, jobVars
  <2> QED BY <2>1, <2>2
<1>3. CASE AfterSucceed(j, a) \/ AfterFail(j, a) \/ AfterSuspend(j, a)
  BY <1>0, <1>3, AcknowledgeOwned DEF AfterSucceed, AfterFail, AfterSuspend, Settling
<1>4. ASSUME NEW c \in Job, BeginTool(j, a, c) \/ EnqueueChildFails(j, a, c) \/ ResumeWait(j, a, c)
                              \/ DeliverResult(j, a, c)
      PROVE  Owned(k, b)'
  <2>1. CASE k = j /\ b = a
    BY <1>0, <1>4, <2>1 DEF BeginTool, EnqueueChildFails, ResumeWait, DeliverResult, Owned, Holds,
                            Executing, TypeOK, jobVars, bullVars
  <2>2. CASE ~(k = j /\ b = a)
    BY <1>0, <1>4, <2>2, OwnedFrame DEF BeginTool, EnqueueChildFails, ResumeWait, DeliverResult,
                            TypeOK, jobVars, bullVars
  <2> QED BY <2>1, <2>2
<1>5. ASSUME NEW c \in Job, CreateChild(j, a, c) PROVE Owned(k, b)'
  <2>1. run'[k][b] = IF k = j /\ b = a THEN "enqueueing" ELSE run[k][b]
    BY <1>5 DEF CreateChild, TypeOK
  <2>2. jobStatus[k] # "absent" => jobStatus'[k] = jobStatus[k]
    BY <1>5 DEF CreateChild, TypeOK
  <2> QED
    BY <1>0, <1>5, <2>1, <2>2 DEF CreateChild, Owned, Holds, Executing, bullVars
<1>6. ASSUME NEW c \in Job, EnqueueChild(j, a, c) PROVE Owned(k, b)'
  <2>1. run'[k][b] = IF k = j /\ b = a THEN "suspending" ELSE run[k][b]
    BY <1>6 DEF EnqueueChild, TypeOK
  <2>2. bull[k] = "active" => bull'[k] = bull[k]
    BY <1>6 DEF EnqueueChild, Enqueue, TypeOK
  <2> QED
    BY <1>0, <1>6, <2>1, <2>2 DEF EnqueueChild, Enqueue, Owned, Holds, Executing, jobVars
<1>7. CASE WaitForChild(j, a)
  <2>1. CASE k = j
    <3>1. b # a => run[k][b] \notin Executing
      BY <1>0, <1>7, <2>1 DEF WaitForChild, Owned, Holds, Executing
    <3>2. run'[k][b] = IF b = a THEN "suspended" ELSE run[k][b]
      BY <1>7, <2>1 DEF WaitForChild, TypeOK
    <3> QED
      BY <1>0, <3>1, <3>2 DEF Owned, Executing, JobMove
  <2>2. CASE k # j
    BY <1>0, <1>7, <2>2, OwnedFrame DEF WaitForChild, TypeOK, bullVars
  <2> QED BY <2>1, <2>2
<1> QED
  BY <1>1, <1>2, <1>3, <1>4, <1>5, <1>6, <1>7 DEF Progress, Outcome, ToolCall, Children

LEMMA WorkerOwned ==
  ASSUME TypeOK, Ownership, NEW j \in Job, Worker(j), NEW k \in Job, JobMove(k), Reliable(k), NEW b \in Attempt
  PROVE  Owned(k, b)'
<1>0. Owned(k, b)
  BY DEF Ownership
<1>1. CASE Claim(j)
  <2> DEFINE a == attempts[j] + 1
  <2>1. a \in Attempt
    BY <1>1, CoreAssumption DEF TypeOK, Claim, Attempt
  <2>2. run'[k][b] = IF k = j /\ b = a THEN "working" ELSE run[k][b]
    BY <1>1, <2>1 DEF Claim, TypeOK
  <2>3. CASE k = j /\ b = a
    BY <1>1, <2>1, <2>2, <2>3 DEF Claim, TypeOK, Owned, Holds
  <2>4. CASE k = j /\ b # a
    BY <1>0, <1>1, <2>2, <2>4 DEF Claim, Claimable, Owned, Holds
  <2>5. CASE k # j
    BY <1>0, <1>1, <2>2, <2>5, OwnedFrame DEF Claim, TypeOK
  <2> QED BY <2>3, <2>4, <2>5
<1>2. CASE ClaimNothing(j)
  BY <1>0, <1>2, OwnedFrame DEF ClaimNothing, TypeOK, jobVars, Owned, Holds
<1>3. ASSUME NEW e, ClaimRefused(j, e) PROVE Owned(k, b)'
  <2>1. CASE k = j
    BY <1>0, <1>3, <2>1 DEF ClaimRefused, Owned, Holds, JobMove
  <2>2. CASE k # j
    BY <1>0, <1>3, <2>2, OwnedFrame DEF ClaimRefused, FailRow, TypeOK, jobVars
  <2> QED BY <2>1, <2>2
<1>4. CASE LeaseExpires(j)
  <2>1. k = j => run[k][b] \notin Executing
    BY <1>0, <1>4 DEF LeaseExpires, Reliable, Owned, Holds, Current
  <2> QED
    BY <1>0, <1>4, <2>1, OwnedFrame DEF LeaseExpires, TypeOK, bullVars
<1>5. CASE DeadlinePasses(j)
  BY <1>0, <1>5, OwnedFrame DEF DeadlinePasses, jobVars, bullVars
<1>6. ASSUME NEW a \in Attempt, Heartbeat(j, a) PROVE Owned(k, b)'
  BY <1>0, <1>6 DEF Heartbeat, Owned, Holds, TypeOK, bullVars
<1>7. ASSUME NEW a \in Attempt, WorkerCrash(j, a) PROVE Owned(k, b)'
  <2>1. run'[k][b] = run[k][b] \/ run'[k][b] \in {"dead", "none"}
    BY <1>7 DEF WorkerCrash, TypeOK
  <2> QED
    BY <1>0, <1>7, <2>1 DEF WorkerCrash, Owned, Holds, Executing, jobVars, bullVars
<1>8. ASSUME NEW a \in Attempt, Degrade(j, a) PROVE Owned(k, b)'
  BY <1>0, <1>8, OwnedFrame DEF Degrade, jobVars, bullVars
<1> QED
  BY <1>1, <1>2, <1>3, <1>4, <1>5, <1>6, <1>7, <1>8, ProgressOwned DEF Worker, Delivery

LEMMA ApiOwned ==
  ASSUME TypeOK, Ownership, Api, NEW k \in Job, Reliable(k)', NEW b \in Attempt
  PROVE  Owned(k, b)'
<1>0. Reliable(k) /\ Owned(k, b)
  BY DEF Ownership, Reliable, Api, DispatchQueued, DispatchFails, Cancel
<1>1. CASE DispatchQueued
  BY <1>0, <1>1 DEF DispatchQueued, Enqueue, TypeOK, jobVars, Owned, Holds
<1>2. CASE DispatchFails
  <2>1. k # FirstJob
    BY <1>2 DEF Reliable, DispatchFails
  <2> QED
    BY <1>0, <1>2, <2>1 DEF DispatchFails, Enqueue, TypeOK, bullVars, Owned, Holds
<1>3. CASE Cancel
  BY <1>0, <1>3 DEF Cancel, Owned, Holds, bullVars
<1> QED BY <1>1, <1>2, <1>3 DEF Api

\* Which steps write dispatch and the columns of the audit.
LEMMA Writers ==
  ASSUME [Next]_vars
  PROVE  /\ dispatch' = dispatch \/ DispatchQueued \/ DispatchFails
         /\ \/ auditStatus' = auditStatus
            \/ DispatchFails \/ AdvanceCancelled \/ AdvanceFinish
            \/ \E j \in Job : \/ Claim(j) \/ \E e : ClaimRefused(j, e)
                              \/ \E a \in Attempt : AfterSucceed(j, a) \/ AfterFail(j, a)
         /\ cancelRequested' = cancelRequested \/ Cancel
         /\ \/ degraded' = degraded \/ AdvanceCancelled \/ AdvanceFinish
            \/ \E j \in Job, a \in Attempt : Degrade(j, a)
<1> USE DEF auditVars
<1>1. CASE Api
  BY <1>1 DEF Api, DispatchQueued, DispatchFails, Cancel
<1>2. CASE Scheduler
  <2>1. CASE AdvanceCancelled \/ AdvanceFinish
    BY <2>1 DEF AdvanceCancelled, AdvanceFinish, Finish
  <2>2. CASE AdvanceSchedule
    BY <2>2 DEF AdvanceSchedule
  <2>3. ASSUME NEW j \in Job, SchedulerCrash(j) \/ RecoverLease(j) \/ RecoverEnqueued(j)
        PROVE  UNCHANGED <<auditVars, dispatch>>
    BY <2>3 DEF SchedulerCrash, RecoverLease, RecoverEnqueued
  <2> QED
    BY <1>2, <2>1, <2>2, <2>3 DEF Scheduler, Advance
<1>3. ASSUME NEW j \in Job, Queue(j) PROVE UNCHANGED <<auditVars, dispatch>>
  BY <1>3 DEF Queue, EnqueueReady, EnqueueFails, Stall, RemovePending
<1>4. ASSUME NEW j \in Job, Claim(j) PROVE UNCHANGED <<cancelRequested, degraded, dispatch>>
  BY <1>4 DEF Claim
<1>5. ASSUME NEW j \in Job, NEW e, ClaimRefused(j, e) PROVE UNCHANGED <<cancelRequested, degraded, dispatch>>
  BY <1>5 DEF ClaimRefused, SmokeAfterFail
<1>6. ASSUME NEW j \in Job, ClaimNothing(j) \/ LeaseExpires(j) \/ DeadlinePasses(j)
      PROVE  UNCHANGED <<auditVars, dispatch>>
  BY <1>6 DEF ClaimNothing, LeaseExpires, DeadlinePasses
<1>7. ASSUME NEW j \in Job, NEW a \in Attempt, AfterSucceed(j, a) \/ AfterFail(j, a)
      PROVE  UNCHANGED <<cancelRequested, degraded, dispatch>>
  BY <1>7 DEF AfterSucceed, AfterFail, SmokeAfterFail
<1>8. ASSUME NEW j \in Job, NEW a \in Attempt, Degrade(j, a)
      PROVE  UNCHANGED <<auditStatus, cancelRequested, dispatch>>
  BY <1>8 DEF Degrade
<1>9. ASSUME NEW j \in Job, NEW a \in Attempt,
             Outcome(j, a) \/ ToolCall(j, a) \/ WaitForChild(j, a) \/ AfterSuspend(j, a)
             \/ Heartbeat(j, a) \/ WorkerCrash(j, a)
      PROVE  UNCHANGED <<auditVars, dispatch>>
  BY <1>9 DEF Outcome, Succeed, Fail, ToolCall, BeginTool, CreateChild, EnqueueChild, EnqueueChildFails,
              ResumeWait, DeliverResult, WaitForChild, AfterSuspend, Heartbeat, WorkerCrash
<1>10. CASE UNCHANGED vars
  BY <1>10 DEF vars
<1>11. ASSUME NEW j \in Job, Worker(j)
       PROVE \/ UNCHANGED <<auditVars, dispatch>>
             \/ UNCHANGED <<cancelRequested, degraded, dispatch>>
                /\ \/ Claim(j) \/ \E e : ClaimRefused(j, e)
                   \/ \E a \in Attempt : AfterSucceed(j, a) \/ AfterFail(j, a)
             \/ \E a \in Attempt : Degrade(j, a) /\ UNCHANGED <<auditStatus, cancelRequested, dispatch>>
  BY <1>4, <1>5, <1>6, <1>7, <1>8, <1>9, <1>11 DEF Worker, Delivery, Progress
<1> QED
  BY <1>1, <1>2, <1>3, <1>10, <1>11 DEF Next

LEMMA DispatchMove ==
  ASSUME [Next]_vars
  PROVE  /\ dispatch = "failed" => dispatch' = "failed" /\ ~DispatchFails
         /\ DispatchFails => dispatch' = "failed"
BY Writers DEF DispatchQueued, DispatchFails

LEMMA NextOwned ==
  ASSUME TypeOK, Ownership, [Next]_vars
  PROVE  Ownership'
<1> SUFFICES ASSUME NEW k \in Job, NEW b \in Attempt, Reliable(k)' PROVE Owned(k, b)'
  BY DEF Ownership
<1>1. CASE Api
  BY <1>1, ApiOwned
<1>2. CASE ~Api
  <2>1. ~DispatchFails /\ JobMove(k)
    BY <1>2, NextMove DEF Api
  <2>2. Reliable(k) /\ Owned(k, b)
    BY DispatchMove DEF Reliable, Ownership
  <2>3. CASE UNCHANGED vars
    BY <2>2, <2>3 DEF vars, jobVars, bullVars, Owned, Holds
  <2> QED
    BY <1>2, <2>1, <2>2, <2>3, SchedulerOwned, QueueOwned, WorkerOwned DEF Next
<1> QED BY <1>1, <1>2

\* While no worker of a job outlives its lease, whatever attempt of it executes is
\* the one the row counts: it holds the BullMQ job, its lease lives and the job runs.
THEOREM ExecutorsOwn == Spec => []Ownership
<1>1. Init => Ownership
  BY DEF Init, Ownership, Owned, Executing
<1>2. TypeOK /\ Ownership /\ [Next]_vars => Ownership'
  BY NextOwned
<1> QED
  BY <1>1, <1>2, TypeCorrect, PTL DEF Spec
-----------------------------------------------------------------------------
LEMMA Overwritten ==
  ASSUME [Next]_vars, ~Active, auditStatus' # auditStatus
  PROVE  dispatch' # dispatch /\ dispatch' = "failed" /\ auditStatus' = "failed"
BY Writers DEF DispatchFails, AdvanceCancelled, AdvanceFinish, Claim, Claimable, ClaimRefused,
               SmokeAfterFail, AfterSucceed, AfterFail, auditVars

\* Of all the writers of Audit.status only the compensation of dispatch does not
\* look whether the audit is over.
THEOREM VerdictOverwrittenByDispatch == Spec => OnlyDispatchOverwrites
<1>1. [Next]_vars
        => [~Active => \/ auditStatus' = auditStatus
                       \/ dispatch' # dispatch /\ auditStatus' = "failed"]_vars
  BY Overwritten
<1> QED
  BY <1>1, PTL DEF Spec, OnlyDispatchOverwrites
-----------------------------------------------------------------------------
(* The end of an audit. *)

\* No agent stalls past its lease; templates[0] is none.
AgentsPrompt ==
  \A j \in Job : Children(j) # {} \/ Kind[j] \in AgentKinds => j # FirstJob /\ ~Strikes("slip", j)

\* The smoke template is one recon job, and no other template has one.
SmokeAlone ==
  /\ \A j \in Job : Smoke <=> Kind[j] = "recon"
  /\ Smoke => Job = {FirstJob}

LEMMA CreatedByAgent ==
  ASSUME TypeOK, [Next]_vars, ~DispatchFails, NEW k \in Job,
         jobStatus[k] = "absent", jobStatus'[k] # "absent"
  PROVE  \E j \in Job, a \in Attempt :
            k \in Children(j) /\ run[j][a] = "dispatching" /\ CreateChild(j, a, k)
<1> DEFINE Goal == \E j \in Job, a \in Attempt :
                     k \in Children(j) /\ run[j][a] = "dispatching" /\ CreateChild(j, a, k)
<1>1. CASE DispatchQueued \/ Cancel
  BY <1>1 DEF DispatchQueued, Cancel, jobVars
<1>2. CASE AdvanceCancelled
  BY <1>2 DEF AdvanceCancelled, AfterWake, Woken
<1>3. ASSUME NEW S \in SUBSET Queued(AfterWake), jobStatus' = Skip(AfterWake, S) PROVE FALSE
  BY <1>3 DEF Skip, Queued, AfterWake, Woken
<1>4. CASE AdvanceFinish \/ AdvanceSchedule
  BY <1>3, <1>4 DEF AdvanceFinish, AdvanceSchedule
<1>5. ASSUME NEW j \in Job, SchedulerCrash(j) \/ RecoverLease(j) \/ RecoverEnqueued(j) PROVE FALSE
  BY <1>5 DEF SchedulerCrash, RecoverLease, RecoverEnqueued, TypeOK, jobVars
<1>6. ASSUME NEW j \in Job, Queue(j) PROVE FALSE
  BY <1>6 DEF Queue, EnqueueReady, EnqueueFails, Stall, RemovePending, jobVars
<1>7. ASSUME NEW j \in Job, Delivery(j) \/ LeaseExpires(j) \/ DeadlinePasses(j) PROVE FALSE
  BY <1>7 DEF Delivery, Claim, Claimable, ClaimNothing, ClaimRefused, FailRow, LeaseExpires,
              DeadlinePasses, TypeOK, jobVars
<1>8. ASSUME NEW j \in Job, NEW a \in Attempt,
             Outcome(j, a) \/ AfterSucceed(j, a) \/ AfterFail(j, a) \/ WaitForChild(j, a)
             \/ AfterSuspend(j, a) \/ Heartbeat(j, a) \/ WorkerCrash(j, a) \/ Degrade(j, a)
      PROVE  FALSE
  BY <1>8 DEF Outcome, Succeed, Fail, FailRow, Current, AfterSucceed, AfterFail, WaitForChild,
              AfterSuspend, Heartbeat, WorkerCrash, Degrade, TypeOK, jobVars
<1>9. ASSUME NEW j \in Job, NEW a \in Attempt, ToolCall(j, a) PROVE Goal
  <2> PICK c \in Children(j) :
        \/ BeginTool(j, a, c) \/ CreateChild(j, a, c)
        \/ EnqueueChild(j, a, c) \/ EnqueueChildFails(j, a, c)
        \/ ResumeWait(j, a, c) \/ DeliverResult(j, a, c)
    BY <1>9 DEF ToolCall
  <2>1. CreateChild(j, a, c)
    BY DEF BeginTool, EnqueueChild, EnqueueChildFails, ResumeWait, DeliverResult, jobVars
  <2>2. c = k
    BY <2>1 DEF CreateChild, TypeOK
  <2> QED BY <2>1, <2>2 DEF CreateChild
<1>10. CASE UNCHANGED vars
  BY <1>10 DEF vars, jobVars
<1> QED
  BY <1>1, <1>2, <1>4, <1>5, <1>6, <1>7, <1>8, <1>9, <1>10
     DEF Next, Api, Scheduler, Advance, Worker, Progress

\* The steps that end an audit leave no job that could still do something.
LEMMA EndsSettled ==
  ASSUME TypeOK, Ownership, SmokeAlone, [Next]_vars, Active, ~Active', dispatch' # "failed",
         ~LateSuccess'
  PROVE  AllTerminal(jobStatus')
<1>0. ~DispatchFails /\ dispatch # "failed"
  BY DispatchMove
<1>1. CASE AdvanceCancelled
  <2> DEFINE drained == {j \in Job : AfterWake[j] \in {"queued", "waiting"}}
  <2>1. /\ jobStatus' = [j \in Job |-> IF j \in drained THEN "cancelled" ELSE AfterWake[j]]
        /\ ~ \E j \in Job : jobStatus'[j] = "running"
    BY <1>1 DEF AdvanceCancelled, auditVars, Active
  <2> QED
    BY <2>1, AfterWakeType DEF AllTerminal
<1>2. CASE AdvanceFinish
  BY <1>2 DEF AdvanceFinish
<1>3. ASSUME NEW j \in Job, NEW e, ClaimRefused(j, e) PROVE AllTerminal(jobStatus')
  <2>1. Kind[j] = "recon" /\ jobStatus[j] = "running" /\ jobStatus'[j] \in TerminalJob
    BY <1>3 DEF ClaimRefused, SmokeAfterFail, auditVars, Active
  <2> QED
    BY <2>1 DEF SmokeAlone, AllTerminal
<1>4. ASSUME NEW j \in Job, NEW a \in Attempt, AfterFail(j, a) PROVE AllTerminal(jobStatus')
  <2>1. Smoke /\ jobStatus[j] \in TerminalJob
    BY <1>4 DEF AfterFail, SmokeAfterFail, auditVars, Active
  <2>2. jobStatus' = jobStatus
    BY <1>4 DEF AfterFail, jobVars
  <2> QED
    BY <2>1, <2>2 DEF SmokeAlone, AllTerminal
<1>5. ASSUME NEW j \in Job, NEW a \in Attempt, AfterSucceed(j, a) PROVE AllTerminal(jobStatus')
  <2>1. Smoke /\ auditStatus' = "completed" /\ jobStatus' = jobStatus /\ run[j][a] = "succeeded"
    BY <1>5 DEF AfterSucceed, jobVars, Active
  <2>2. Reliable(j)
    BY <1>0, <2>1 DEF SmokeAlone, Reliable, LateSuccess
  <2>3. jobStatus[j] = "succeeded"
    BY <2>1, <2>2 DEF Ownership, Owned
  <2> QED
    BY <2>1, <2>3 DEF SmokeAlone, AllTerminal
<1>6. ASSUME NEW j \in Job, Claim(j) PROVE FALSE
  BY <1>6 DEF Claim, Active
<1> QED
  BY <1>0, <1>1, <1>2, <1>3, <1>4, <1>5, <1>6, Writers DEF Active

\* A settled graph stays settled: a tool call is made only by an agent that runs.
LEMMA SettledStays ==
  ASSUME TypeOK, Ownership, AgentsPrompt, [Next]_vars, ~DispatchFails, AllTerminal(jobStatus)
  PROVE  jobStatus' = jobStatus
<1>1. ASSUME NEW k \in Job, jobStatus[k] = "absent", jobStatus'[k] # "absent" PROVE FALSE
  <2>1. PICK j \in Job, a \in Attempt : k \in Children(j) /\ run[j][a] = "dispatching"
    BY <1>1, CreatedByAgent
  <2>2. jobStatus[j] = "running"
    BY <2>1 DEF AgentsPrompt, Reliable, Ownership, Owned, Holds, Executing
  <2> QED BY <2>2 DEF AllTerminal
<1>2. ASSUME NEW k \in Job PROVE jobStatus'[k] = jobStatus[k]
  BY <1>1, <1>2, NextMove DEF AllTerminal, JobMove
<1>3. jobStatus \in [Job -> JobStatus \cup {"absent"}] /\ jobStatus' \in [Job -> JobStatus \cup {"absent"}]
  BY NextType DEF TypeOK
<1> QED
  BY <1>2, <1>3

\* An audit ends over a settled graph, and nothing in the graph moves afterwards:
\* whoever ends it saw no running job, and no agent creates work for an audit that
\* is over. The two writers that do not ask are named in SettledAudit: dispatch's
\* compensation, and in a smoke audit the success of a worker past its lease.
THEOREM AuditEndsSettled ==
  ASSUME AgentsPrompt, SmokeAlone
  PROVE  Spec => []SettledAudit
<1>1. Init => SettledAudit
  BY DEF Init, SettledAudit, Active, TerminalAudit
<1>2. TypeOK /\ Ownership /\ SettledAudit /\ [Next]_vars => SettledAudit'
  <2> SUFFICES ASSUME TypeOK, Ownership, SettledAudit, [Next]_vars, ~Active', dispatch' # "failed",
                      ~LateSuccess'
               PROVE  AllTerminal(jobStatus')
    BY DEF SettledAudit, AllTerminal
  <2>1. dispatch # "failed" /\ ~DispatchFails
    BY DispatchMove
  <2>2. CASE ~Active
    <3>1. ~LateSuccess
      BY <2>1, <2>2, Overwritten DEF LateSuccess
    <3> QED
      BY <2>1, <2>2, <3>1, SettledStays DEF SettledAudit
  <2> QED
    BY <2>2, EndsSettled
<1> QED
  BY <1>1, <1>2, TypeCorrect, ExecutorsOwn, PTL DEF Spec
-----------------------------------------------------------------------------
(* Suspended agents. *)

\* An agent that waits, or is about to, waits for a call of its own.
Awaiting(j) == jobStatus[j] = "waiting" \/ \E a \in Attempt : run[j][a] = "suspending"
AwaitsOwn ==
  \A j \in Job : Awaiting(j) => \E c \in Children(j) : waitingFor[j] = c /\ invocation[c] = "dispatched"

LEMMA FailRowStatus ==
  ASSUME TypeOK, NEW j \in Job, NEW e, FailRow(j, e)
  PROVE  /\ jobStatus'[j] \in {"queued", "failed", "timed_out", "cancelled"}
         /\ \A k \in Job : k # j => jobStatus'[k] = jobStatus[k]
<1>1. PICK next \in {"queued", "failed", "timed_out", "cancelled"} : jobStatus' = [jobStatus EXCEPT ![j] = next]
  BY RetryDecisionType DEF FailRow
<1> QED
  BY <1>1 DEF TypeOK

\* The steps that can begin a wait or end what one waits for.
LEMMA AwaitMove ==
  ASSUME TypeOK, [Next]_vars, NEW k \in Job
  PROVE  \/ /\ Awaiting(k)' => Awaiting(k)
            /\ waitingFor'[k] = waitingFor[k]
            /\ \A c \in Children(k) : invocation[c] = "dispatched" => invocation'[c] = "dispatched"
         \/ \E a \in Attempt, c \in Children(k) :
               \/ EnqueueChild(k, a, c) \/ EnqueueChildFails(k, a, c)
               \/ ResumeWait(k, a, c) \/ DeliverResult(k, a, c)
<1> DEFINE Kept == /\ Awaiting(k)' => Awaiting(k)
                   /\ UNCHANGED <<waitingFor, invocation>>
<1>1. CASE Api
  BY <1>1 DEF Api, DispatchQueued, DispatchFails, Cancel, Awaiting, jobVars, agentVars, TypeOK
<1>2. CASE AdvanceCancelled
  BY <1>2 DEF AdvanceCancelled, AfterWake, Woken, Awaiting, agentVars
<1>3. ASSUME NEW S \in SUBSET Queued(AfterWake), jobStatus' = Skip(AfterWake, S), UNCHANGED <<agentVars, run>>
      PROVE  Kept
  BY <1>3 DEF Skip, AfterWake, Woken, Awaiting, agentVars
<1>4. CASE AdvanceFinish \/ AdvanceSchedule
  BY <1>3, <1>4 DEF AdvanceFinish, AdvanceSchedule
<1>5. ASSUME NEW j \in Job, SchedulerCrash(j) \/ RecoverLease(j) \/ RecoverEnqueued(j) PROVE Kept
  BY <1>5 DEF SchedulerCrash, RecoverLease, RecoverEnqueued, Awaiting, TypeOK, jobVars, agentVars
<1>6. ASSUME NEW j \in Job, Queue(j) PROVE Kept
  <2>1. jobStatus' = jobStatus /\ UNCHANGED agentVars
    BY <1>6 DEF Queue, EnqueueReady, EnqueueFails, Stall, RemovePending, jobVars
  <2>2. \A a \in Attempt : run'[k][a] = "suspending" => run[k][a] = "suspending"
    BY <1>6 DEF Queue, EnqueueReady, EnqueueFails, Stall, RemovePending, TypeOK
  <2> QED
    BY <2>1, <2>2 DEF Awaiting, agentVars
<1>7. ASSUME NEW j \in Job, Delivery(j) PROVE Kept
  <2>1. CASE Claim(j)
    BY <2>1 DEF Claim, Awaiting, agentVars, TypeOK
  <2>2. CASE ClaimNothing(j)
    BY <2>2 DEF ClaimNothing, Awaiting, agentVars, jobVars
  <2>3. ASSUME NEW e, ClaimRefused(j, e) PROVE Kept
    <3>1. jobStatus'[k] = "waiting" => jobStatus[k] = "waiting"
      BY <2>3, FailRowStatus DEF ClaimRefused, jobVars
    <3> QED
      BY <2>3, <3>1 DEF ClaimRefused, Awaiting, agentVars
  <2> QED BY <1>7, <2>1, <2>2, <2>3 DEF Delivery
<1>8. ASSUME NEW j \in Job, LeaseExpires(j) PROVE Kept
  BY <1>8 DEF LeaseExpires, Awaiting, agentVars
<1>9. ASSUME NEW j \in Job, DeadlinePasses(j) PROVE UNCHANGED <<waitingFor, invocation, jobStatus, run>>
  BY <1>9 DEF DeadlinePasses, jobVars
<1>10. ASSUME NEW j \in Job, NEW a \in Attempt,
              AfterSucceed(j, a) \/ AfterFail(j, a) \/ AfterSuspend(j, a) \/ Heartbeat(j, a)
              \/ WorkerCrash(j, a) \/ Degrade(j, a)
       PROVE  Kept
  BY <1>10 DEF AfterSucceed, AfterFail, AfterSuspend, Acknowledge, Heartbeat, WorkerCrash, Degrade,
               Awaiting, jobVars, agentVars, TypeOK
<1>11. ASSUME NEW j \in Job, NEW a \in Attempt, Succeed(j, a) PROVE Kept
  BY <1>11 DEF Succeed, Awaiting, agentVars, TypeOK
<1>12. ASSUME NEW j \in Job, NEW a \in Attempt, NEW e, Fail(j, a, e) PROVE Kept
  <2>1. jobStatus'[k] = "waiting" => jobStatus[k] = "waiting"
    BY <1>12, FailRowStatus DEF Fail, jobVars
  <2>2. \A b \in Attempt : run'[k][b] = "suspending" => run[k][b] = "suspending"
    BY <1>12 DEF Fail, TypeOK
  <2> QED
    BY <1>12, <2>1, <2>2 DEF Fail, Awaiting, agentVars
<1>13. ASSUME NEW j \in Job, NEW a \in Attempt, WaitForChild(j, a) PROVE Kept
  <2>1. CASE k = j
    BY <1>13, <2>1 DEF WaitForChild, Awaiting, agentVars
  <2>2. CASE k # j
    BY <1>13, <2>2 DEF WaitForChild, Awaiting, agentVars, TypeOK
  <2> QED BY <2>1, <2>2
<1>14. ASSUME NEW j \in Job, NEW a \in Attempt, NEW c \in Job, BeginTool(j, a, c) PROVE Kept
  BY <1>14 DEF BeginTool, Awaiting, agentVars, jobVars, TypeOK
<1>15. ASSUME NEW j \in Job, NEW a \in Attempt, NEW c \in Job, CreateChild(j, a, c)
       PROVE /\ Awaiting(k)' => Awaiting(k)
             /\ waitingFor'[k] = waitingFor[k]
             /\ \A d \in Children(k) : invocation[d] = "dispatched" => invocation'[d] = "dispatched"
  BY <1>15 DEF CreateChild, Awaiting, Children, TypeOK
<1>16. ASSUME NEW j \in Job, NEW a \in Attempt, NEW c \in Children(j), j # k,
              EnqueueChild(j, a, c) \/ EnqueueChildFails(j, a, c)
              \/ ResumeWait(j, a, c) \/ DeliverResult(j, a, c)
       PROVE /\ Awaiting(k)' => Awaiting(k)
             /\ waitingFor'[k] = waitingFor[k]
             /\ \A d \in Children(k) : invocation[d] = "dispatched" => invocation'[d] = "dispatched"
  BY <1>16 DEF EnqueueChild, EnqueueChildFails, ResumeWait, DeliverResult, Awaiting, Children, TypeOK, jobVars
<1>17. CASE UNCHANGED vars
  BY <1>17 DEF vars, jobVars, agentVars, Awaiting
<1>18. Kept => /\ Awaiting(k)' => Awaiting(k)
               /\ waitingFor'[k] = waitingFor[k]
               /\ \A c \in Children(k) : invocation[c] = "dispatched" => invocation'[c] = "dispatched"
  OBVIOUS
<1>19. UNCHANGED <<waitingFor, invocation, jobStatus, run>> => Kept
  BY DEF Awaiting
<1> HIDE DEF Kept
<1> QED
  BY <1>1, <1>2, <1>4, <1>5, <1>6, <1>7, <1>8, <1>9, <1>10, <1>11, <1>12, <1>13, <1>14, <1>15, <1>16, <1>17,
     <1>18, <1>19 DEF Next, Scheduler, Advance, Worker, Progress, Outcome, ToolCall, Children

\* A suspended agent always waits for a tool call of its own that is still to be
\* answered, whatever crashes, refused enqueues and deadlines come between the three
\* writes that suspend it.
THEOREM AgentsAwaitOwnCalls ==
  ASSUME AgentsPrompt
  PROVE  Spec => []WaitsForOwnCall
<1>1. Init => AwaitsOwn
  BY DEF Init, AwaitsOwn, Awaiting
<1>2. TypeOK /\ Ownership /\ AwaitsOwn /\ [Next]_vars => AwaitsOwn'
  <2> SUFFICES ASSUME TypeOK, Ownership, AwaitsOwn, [Next]_vars, NEW k \in Job, Awaiting(k)'
               PROVE  \E c \in Children(k) : waitingFor'[k] = c /\ invocation'[c] = "dispatched"
    BY DEF AwaitsOwn, Children
  <2>1. CASE /\ Awaiting(k)' => Awaiting(k)
             /\ waitingFor'[k] = waitingFor[k]
             /\ \A c \in Children(k) : invocation[c] = "dispatched" => invocation'[c] = "dispatched"
    BY <2>1 DEF AwaitsOwn
  <2>2. ASSUME NEW a \in Attempt, NEW c \in Children(k), EnqueueChild(k, a, c) \/ ResumeWait(k, a, c)
        PROVE  waitingFor'[k] = c /\ invocation'[c] = "dispatched"
    BY <2>2 DEF EnqueueChild, ResumeWait, TypeOK
  <2>3. ASSUME NEW a \in Attempt, NEW c \in Children(k), EnqueueChildFails(k, a, c) \/ DeliverResult(k, a, c)
        PROVE  FALSE
    \* The attempt that executes is the only one, and its agent does not wait.
    <3>1. Reliable(k)
      BY <2>3 DEF AgentsPrompt, Reliable
    <3>2. run[k][a] \in {"enqueueing", "working"}
      BY <2>3 DEF EnqueueChildFails, DeliverResult
    <3>3. jobStatus[k] = "running" /\ attempts[k] = a
      BY <3>1, <3>2 DEF Ownership, Owned, Holds, Executing
    <3>4. ~Awaiting(k)
      BY <3>1, <3>2, <3>3 DEF Awaiting, Ownership, Owned, Holds, Executing
    <3>5. jobStatus' = jobStatus
      BY <2>3 DEF EnqueueChildFails, DeliverResult, jobVars
    <3>6. \A b \in Attempt : run'[k][b] = "suspending" => run[k][b] = "suspending"
      BY <2>3 DEF EnqueueChildFails, DeliverResult, TypeOK
    <3> QED
      BY <3>4, <3>5, <3>6 DEF Awaiting
  <2> QED
    BY <2>1, <2>2, <2>3, AwaitMove
<1>3. AwaitsOwn => WaitsForOwnCall
  BY DEF AwaitsOwn, Awaiting, WaitsForOwnCall
<1> QED
  BY <1>1, <1>2, <1>3, TypeCorrect, ExecutorsOwn, PTL DEF Spec
-----------------------------------------------------------------------------
(* Completed audits. *)

\* No job is cancelled although nobody cancelled the audit.
NoAborts == \A j \in Job : ~Strikes("abort", j)

LEMMA CancelledOnRequest ==
  ASSUME TypeOK, NoAborts, [Next]_vars, ~cancelRequested', NEW k \in Job, jobStatus'[k] = "cancelled"
  PROVE  jobStatus[k] = "cancelled" /\ ~cancelRequested
<1>0. ~cancelRequested
  BY Writers DEF Cancel
<1> SUFFICES jobStatus[k] = "cancelled"
  BY <1>0
<1>1. CASE Api
  BY <1>1 DEF Api, DispatchQueued, DispatchFails, Cancel, jobVars, TypeOK
<1>2. CASE AdvanceCancelled
  BY <1>0, <1>2 DEF AdvanceCancelled
<1>3. ASSUME NEW S \in SUBSET Queued(AfterWake), jobStatus' = Skip(AfterWake, S) PROVE jobStatus[k] = "cancelled"
  BY <1>3 DEF Skip, AfterWake, Woken
<1>4. CASE AdvanceFinish \/ AdvanceSchedule
  BY <1>3, <1>4 DEF AdvanceFinish, AdvanceSchedule
<1>5. ASSUME NEW j \in Job, SchedulerCrash(j) \/ RecoverLease(j) \/ RecoverEnqueued(j)
      PROVE  jobStatus[k] = "cancelled"
  BY <1>5 DEF SchedulerCrash, RecoverLease, RecoverEnqueued, TypeOK, jobVars
<1>6. ASSUME NEW j \in Job, Queue(j) PROVE jobStatus[k] = "cancelled"
  BY <1>6 DEF Queue, EnqueueReady, EnqueueFails, Stall, RemovePending, jobVars
<1>7. ASSUME NEW j \in Job, NEW e, FailRow(j, e), e # "cancelled" PROVE jobStatus[k] = "cancelled"
  <2>1. RetryDecision(e, attempts[j] - continuations[j], MaxRetries[j]) # "cancelled"
    BY <1>7 DEF RetryDecision
  <2> QED
    BY <1>7, <2>1 DEF FailRow, TypeOK
<1>8. ASSUME NEW j \in Job, Delivery(j) PROVE jobStatus[k] = "cancelled"
  <2>1. CASE Claim(j) \/ ClaimNothing(j)
    BY <2>1 DEF Claim, ClaimNothing, TypeOK, jobVars
  <2>2. ASSUME NEW e, e # "cancelled", ClaimRefused(j, e) PROVE jobStatus[k] = "cancelled"
    BY <1>7, <2>2 DEF ClaimRefused, jobVars
  <2> QED BY <1>0, <1>8, <2>1, <2>2 DEF Delivery
<1>9. ASSUME NEW j \in Job, NEW a \in Attempt, Outcome(j, a) PROVE jobStatus[k] = "cancelled"
  <2>1. "cancelled" \notin ErrorClasses(j)
    BY <1>0 DEF ErrorClasses, MayAbort, NoAborts
  <2>2. CASE Succeed(j, a)
    BY <2>2 DEF Succeed, TypeOK
  <2>3. ASSUME NEW e, e # "cancelled", Fail(j, a, e) PROVE jobStatus[k] = "cancelled"
    BY <1>7, <2>3 DEF Fail, jobVars
  <2> QED BY <1>9, <2>1, <2>2, <2>3 DEF Outcome
<1>10. ASSUME NEW j \in Job, LeaseExpires(j) \/ DeadlinePasses(j) PROVE jobStatus[k] = "cancelled"
  BY <1>10 DEF LeaseExpires, DeadlinePasses, jobVars
<1>11. ASSUME NEW j \in Job, NEW a \in Attempt,
              AfterSucceed(j, a) \/ AfterFail(j, a) \/ ToolCall(j, a) \/ WaitForChild(j, a)
              \/ AfterSuspend(j, a) \/ Heartbeat(j, a) \/ WorkerCrash(j, a) \/ Degrade(j, a)
       PROVE  jobStatus[k] = "cancelled"
  BY <1>11 DEF AfterSucceed, AfterFail, ToolCall, BeginTool, CreateChild, EnqueueChild, EnqueueChildFails,
               ResumeWait, DeliverResult, WaitForChild, AfterSuspend, Heartbeat, WorkerCrash, Degrade,
               TypeOK, jobVars
<1>12. CASE UNCHANGED vars
  BY <1>12 DEF vars, jobVars
<1> QED
  BY <1>0, <1>1, <1>2, <1>4, <1>5, <1>6, <1>8, <1>9, <1>10, <1>11, <1>12
     DEF Next, Scheduler, Advance, Worker, Progress

\* Only advance skips jobs, and only blocked ones.
LEMMA SkippedByCascade ==
  ASSUME TypeOK, [Next]_vars, NEW k \in Job, jobStatus'[k] = "skipped", jobStatus[k] # "skipped"
  PROVE  Blocked(jobStatus', k)
<1>1. CASE Api
  BY <1>1 DEF Api, DispatchQueued, DispatchFails, Cancel, jobVars, TypeOK
<1>2. CASE AdvanceCancelled
  BY <1>2 DEF AdvanceCancelled, AfterWake, Woken
<1>3. ASSUME NEW S \in SUBSET Queued(AfterWake), IsCascade(AfterWake, S), jobStatus' = Skip(AfterWake, S)
      PROVE  Blocked(jobStatus', k)
  <2>1. k \in S
    BY <1>3 DEF Skip, AfterWake, Woken
  <2> QED
    BY <1>3, <2>1 DEF IsCascade
<1>4. CASE AdvanceFinish
  BY <1>3, <1>4 DEF AdvanceFinish
<1>5. CASE AdvanceSchedule
  <2>1. PICK S \in SUBSET Queued(AfterWake) : IsCascade(AfterWake, S) /\ jobStatus' = Skip(AfterWake, S)
    BY <1>5 DEF AdvanceSchedule
  <2> QED BY <1>3, <2>1
<1>6. ASSUME NEW j \in Job, SchedulerCrash(j) \/ RecoverLease(j) \/ RecoverEnqueued(j) PROVE FALSE
  BY <1>6 DEF SchedulerCrash, RecoverLease, RecoverEnqueued, TypeOK, jobVars
<1>7. ASSUME NEW j \in Job, Queue(j) PROVE FALSE
  BY <1>7 DEF Queue, EnqueueReady, EnqueueFails, Stall, RemovePending, jobVars
<1>8. ASSUME NEW j \in Job, Delivery(j) PROVE FALSE
  BY <1>8, FailRowStatus DEF Delivery, Claim, ClaimNothing, ClaimRefused, TypeOK, jobVars
<1>9. ASSUME NEW j \in Job, NEW a \in Attempt, Outcome(j, a) PROVE FALSE
  BY <1>9, FailRowStatus DEF Outcome, Succeed, Fail, TypeOK, jobVars
<1>10. ASSUME NEW j \in Job, LeaseExpires(j) \/ DeadlinePasses(j) PROVE FALSE
  BY <1>10 DEF LeaseExpires, DeadlinePasses, jobVars
<1>11. ASSUME NEW j \in Job, NEW a \in Attempt,
              AfterSucceed(j, a) \/ AfterFail(j, a) \/ ToolCall(j, a) \/ WaitForChild(j, a)
              \/ AfterSuspend(j, a) \/ Heartbeat(j, a) \/ WorkerCrash(j, a) \/ Degrade(j, a)
       PROVE  FALSE
  BY <1>11 DEF AfterSucceed, AfterFail, ToolCall, BeginTool, CreateChild, EnqueueChild, EnqueueChildFails,
               ResumeWait, DeliverResult, WaitForChild, AfterSuspend, Heartbeat, WorkerCrash, Degrade,
               TypeOK, jobVars
<1>12. CASE UNCHANGED vars
  BY <1>12 DEF vars, jobVars
<1> QED
  BY <1>1, <1>2, <1>4, <1>5, <1>6, <1>7, <1>8, <1>9, <1>10, <1>11, <1>12
     DEF Next, Scheduler, Advance, Worker, Progress

\* A blocked job stays blocked while settled jobs stay as they settled.
LEMMA BlockedStays ==
  ASSUME NEW st, NEW next, NEW j \in Job, Blocked(st, j),
         \A d \in Job : st[d] \in TerminalJob => next[d] = st[d]
  PROVE  Blocked(next, j)
<1>1. DependsOn[j] \subseteq Job
  BY GraphAssumption DEF ValidJobGraph
<1>2. \A d \in DependsOn[j] : next[d] = st[d]
  BY <1>1 DEF Blocked, DepsTerminal
<1> QED
  BY <1>2 DEF Blocked, DepsTerminal, DepsSatisfied, SomeDepSucceeded, AllDepsSucceeded

\* What is skipped goes back to a job that failed or was cancelled: without such
\* jobs a settled graph has succeeded.
LEMMA NothingSkippedAlone ==
  ASSUME NEW st, AllTerminal(st), FailedJobs(st) = {}, \A j \in Job : st[j] # "cancelled",
         \A j \in Job : st[j] = "skipped" => Blocked(st, j)
  PROVE  \A j \in Job : st[j] \in {"succeeded", "absent"}
<1> DEFINE K == {j \in Job : st[j] = "skipped"}
<1>1. \A j \in Job \ K : st[j] \in {"succeeded", "absent"}
  BY DEF AllTerminal, FailedJobs
<1>2. ASSUME K # {} PROVE FALSE
  <2>1. PICK j \in K : DependsOn[j] \cap K = {}
    BY <1>2, GraphAssumption DEF ValidJobGraph
  <2>2. Blocked(st, j) /\ DependsOn[j] \subseteq Job
    BY GraphAssumption DEF ValidJobGraph
  <2>3. \A d \in DependsOn[j] : st[d] = "succeeded"
    BY <1>1, <2>1, <2>2 DEF Blocked, DepsTerminal
  <2> QED
    BY <2>2, <2>3 DEF Blocked, DepsSatisfied, SomeDepSucceeded, AllDepsSucceeded
<1> QED
  BY <1>1, <1>2

NoneCancelled == ~cancelRequested => \A j \in Job : jobStatus[j] # "cancelled"
SkippedBlocked == \A j \in Job : jobStatus[j] = "skipped" => Blocked(jobStatus, j)
SmokeUndegraded == Smoke /\ Active => ~degraded

\* A failed dispatch failed the audit; without one the parts above hold.
CleanInv ==
  /\ dispatch = "failed" => auditStatus = "failed"
  /\ dispatch # "failed" => NoneCancelled /\ SkippedBlocked /\ SmokeUndegraded
  /\ CompletedIsClean

\* What finishSettledGraph calls completed is.
LEMMA FinishClean ==
  ASSUME TypeOK, NEW st, Finish(st), auditStatus' = "completed", auditStatus # "completed",
         ~cancelRequested, AllTerminal(st), \A j \in Job : st[j] # "cancelled",
         \A j \in Job : st[j] = "skipped" => Blocked(st, j)
  PROVE  ~degraded' /\ \A j \in Job : st[j] \in {"succeeded", "absent"}
<1>1. FailedJobs(st) = {} /\ ~degraded
  BY DEF Finish, CompletionStatus
<1>2. ~degraded'
  BY <1>1 DEF Finish
<1> QED
  BY <1>1, <1>2, NothingSkippedAlone

LEMMA CleanStep ==
  ASSUME TypeOK, Ownership, AgentsPrompt, SmokeAlone, NoAborts, CleanInv, [Next]_vars, dispatch' # "failed"
  PROVE  NoneCancelled' /\ SkippedBlocked' /\ SmokeUndegraded'
<1>0. dispatch # "failed" /\ ~DispatchFails /\ NoneCancelled /\ SkippedBlocked /\ SmokeUndegraded
  BY DispatchMove DEF CleanInv
<1>1. NoneCancelled'
  BY <1>0, CancelledOnRequest DEF NoneCancelled
<1>2. SkippedBlocked'
  <2> SUFFICES ASSUME NEW k \in Job, jobStatus'[k] = "skipped" PROVE Blocked(jobStatus', k)
    BY DEF SkippedBlocked, Blocked, DepsTerminal, DepsSatisfied, SomeDepSucceeded, AllDepsSucceeded
  <2>1. CASE jobStatus[k] = "skipped"
    <3>1. \A d \in Job : jobStatus[d] \in TerminalJob => jobStatus'[d] = jobStatus[d]
      BY <1>0, NextMove DEF JobMove
    <3> QED
      BY <1>0, <2>1, <3>1, BlockedStays DEF SkippedBlocked
  <2> QED
    BY <2>1, SkippedByCascade
<1>3. SmokeUndegraded'
  <2> SUFFICES ASSUME Smoke, Active', degraded' # degraded PROVE FALSE
    BY <1>0, Writers DEF SmokeUndegraded, Active, DispatchFails, AdvanceCancelled, AdvanceFinish, Claim,
         Claimable, ClaimRefused, SmokeAfterFail, AfterSucceed, AfterFail, auditVars, TypeOK
  <2>1. ASSUME NEW st, Finish(st) PROVE FALSE
    BY <2>1, CompletionStatusType DEF Finish, TypeOK, Active
  <2>2. ASSUME NEW j \in Job, NEW a \in Attempt, Degrade(j, a) PROVE FALSE
    BY <2>2 DEF Degrade, SmokeAlone, AgentKinds
  <2> QED
    BY <2>1, <2>2, Writers DEF AdvanceCancelled, AdvanceFinish, auditVars
<1> QED BY <1>1, <1>2, <1>3

LEMMA CompletedStep ==
  ASSUME TypeOK, Ownership, AgentsPrompt, SmokeAlone, NoAborts, CleanInv, [Next]_vars
  PROVE  CompletedIsClean'
<1> SUFFICES ASSUME auditStatus' = "completed", ~LateSuccess'
             PROVE  ~degraded' /\ \A j \in Job : jobStatus'[j] \in {"succeeded", "absent"}
  BY DEF CompletedIsClean
<1>0. ~DispatchFails /\ dispatch # "failed" /\ dispatch' # "failed"
  <2>1. ~DispatchFails
    BY DEF DispatchFails
  <2>2. dispatch # "failed"
    BY DispatchMove, Writers DEF CleanInv, DispatchFails, AdvanceCancelled, AdvanceFinish, Claim, Claimable,
         ClaimRefused, SmokeAfterFail, AfterSucceed, AfterFail, auditVars, Active
  <2> QED
    BY <2>1, <2>2, Writers DEF DispatchQueued
<1>1. NoneCancelled' /\ SkippedBlocked' /\ SmokeUndegraded
  BY <1>0, CleanStep DEF CleanInv
<1>2. CASE auditStatus = "completed"
  <2>1. ~degraded /\ \A j \in Job : jobStatus[j] \in {"succeeded", "absent"}
    BY <1>2 DEF CleanInv, CompletedIsClean, LateSuccess
  <2>2. ~Active /\ AllTerminal(jobStatus)
    BY <1>2, <2>1 DEF Active, AllTerminal
  <2>3. jobStatus' = jobStatus
    BY <1>0, <2>2, SettledStays
  <2>4. ASSUME NEW j \in Job, NEW a \in Attempt, Degrade(j, a) PROVE FALSE
    <3>1. Reliable(j) /\ run[j][a] = "working"
      BY <2>4 DEF Degrade, AgentsPrompt, Reliable
    <3>2. jobStatus[j] = "running"
      BY <3>1 DEF Ownership, Owned, Holds, Executing
    <3> QED BY <2>1, <3>2
  <2>5. degraded' = degraded
    BY <2>2, <2>4, Writers DEF AdvanceCancelled, AdvanceFinish
  <2> QED BY <2>1, <2>3, <2>5
<1>3. CASE auditStatus # "completed"
  <2>1. CASE AdvanceFinish
    <3>1. Finish(jobStatus') /\ AllTerminal(jobStatus') /\ ~cancelRequested /\ ~cancelRequested'
      BY <2>1 DEF AdvanceFinish, Finish
    <3> QED
      BY <1>1, <1>3, <3>1, FinishClean DEF NoneCancelled, SkippedBlocked
  <2>2. CASE AdvanceCancelled
    BY <1>3, <2>2 DEF AdvanceCancelled, Finish, CompletionStatus, auditVars
  <2>3. ASSUME NEW j \in Job, NEW a \in Attempt, AfterSucceed(j, a)
        PROVE  ~degraded' /\ \A k \in Job : jobStatus'[k] \in {"succeeded", "absent"}
    <3>1. Smoke /\ Active /\ run[j][a] = "succeeded" /\ jobStatus' = jobStatus /\ degraded' = degraded
      BY <1>3, <2>3 DEF AfterSucceed, jobVars
    <3>2. Reliable(j)
      BY <1>0, <3>1 DEF SmokeAlone, Reliable, LateSuccess
    <3>3. jobStatus[j] = "succeeded"
      BY <3>1, <3>2 DEF Ownership, Owned
    <3> QED
      BY <1>1, <3>1, <3>3 DEF SmokeAlone, SmokeUndegraded
  <2> QED
    BY <1>0, <1>3, <2>1, <2>2, <2>3, Writers DEF Claim, ClaimRefused, SmokeAfterFail, AfterFail, auditVars
<1> QED BY <1>2, <1>3

\* A completed audit, the only one the gate may pass, has run every job it has to
\* success and met no degradation, if no job aborts unasked: what is skipped goes back
\* to a job that failed, and no agent degrades an audit that is over. A smoke audit
\* that a worker past its lease may have completed is excepted in CompletedIsClean.
THEOREM CompletedAuditsAreClean ==
  ASSUME AgentsPrompt, SmokeAlone, NoAborts
  PROVE  Spec => []CompletedIsClean
<1>1. Init => CleanInv
  BY DEF Init, CleanInv, NoneCancelled, SkippedBlocked, SmokeUndegraded, CompletedIsClean
<1>2. TypeOK /\ Ownership /\ CleanInv /\ [Next]_vars => CleanInv'
  <2> SUFFICES ASSUME TypeOK, Ownership, CleanInv, [Next]_vars PROVE CleanInv'
    OBVIOUS
  <2>1. dispatch' = "failed" => auditStatus' = "failed"
    BY Writers DEF CleanInv, DispatchQueued, DispatchFails, AdvanceCancelled, AdvanceFinish, Claim, Claimable,
         ClaimRefused, SmokeAfterFail, AfterSucceed, AfterFail, auditVars, Active
  <2> QED
    BY <2>1, CleanStep, CompletedStep DEF CleanInv
<1>3. CleanInv => CompletedIsClean
  BY DEF CleanInv
<1> QED
  BY <1>1, <1>2, <1>3, TypeCorrect, ExecutorsOwn, PTL DEF Spec

-----------------------------------------------------------------------------
(***************************************************************************)
(* The orchestrator implements AuditPromise: one step lemma per kind of     *)
(* step of the promise, then each action of AuditCore shown to be one of    *)
(* them or to leave what the promise sees alone.                            *)
(***************************************************************************)

USE DEF TerminalJob, JobStatus, TerminalAudit, AuditStatus

\* The promise speaks of the same graph: its policies are those of JobGraph.
LEMMA SamePolicy ==
  ASSUME NEW st
  PROVE  /\ \A j \in Job : Promise!DepsSatisfied(st, j) <=> DepsSatisfied(st, j)
         /\ \A S : Promise!Skip(st, S) = Skip(st, S)
         /\ \A S : Promise!IsCascade(st, S) <=> IsCascade(st, S)
         /\ Promise!Settled(st) <=> AllTerminal(st)
         /\ \A c, d : Promise!CompletionStatus(st, c, d) = CompletionStatus(st, c, d)
<1>1. \A j \in Job : Promise!DepsSatisfied(st, j) <=> DepsSatisfied(st, j)
  BY DEF Promise!DepsSatisfied, DepsSatisfied, Promise!DepsTerminal, DepsTerminal,
         Promise!SomeDepSucceeded, SomeDepSucceeded, Promise!AllDepsSucceeded, AllDepsSucceeded,
         Promise!TerminalJob
<1>2. ASSUME NEW S PROVE Promise!Skip(st, S) = Skip(st, S)
  BY DEF Promise!Skip, Skip
<1>3. ASSUME NEW S PROVE Promise!IsCascade(st, S) <=> IsCascade(st, S)
  BY DEF Promise!IsCascade, IsCascade, Promise!Blocked, Blocked, Promise!Skip, Skip,
         Promise!DepsSatisfied, DepsSatisfied, Promise!DepsTerminal, DepsTerminal,
         Promise!SomeDepSucceeded, SomeDepSucceeded, Promise!AllDepsSucceeded, AllDepsSucceeded,
         Promise!TerminalJob
<1>4. Promise!Settled(st) <=> AllTerminal(st)
  BY DEF Promise!Settled, AllTerminal, Promise!TerminalJob
<1>5. ASSUME NEW c, NEW d PROVE Promise!CompletionStatus(st, c, d) = CompletionStatus(st, c, d)
  BY DEF Promise!CompletionStatus, CompletionStatus, Promise!FailedJobs, FailedJobs
<1> QED BY <1>1, <1>2, <1>3, <1>4, <1>5

\* What the promise sees of a row that moves alone.
LEMMA WorkOfOne ==
  ASSUME TypeOK, NEW j \in Job, NEW s \in JobStatus, jobStatus' = [jobStatus EXCEPT ![j] = s]
  PROVE  Work' = [Work EXCEPT ![j] = IF s = "waiting" THEN "queued" ELSE s]
BY DEF Work, TypeOK

LEMMA PromiseStutters ==
  ASSUME UNCHANGED <<auditStatus, cancelRequested, jobStatus>>
  PROVE  UNCHANGED Promise!vars
BY DEF Promise!vars, Verdict, Work, Active

\* The moves of one job that the promise allows while the audit is open.
LEMMA PromiseOfOne ==
  ASSUME TypeOK, Active, Active', UNCHANGED cancelRequested,
         NEW j \in Job, NEW s \in JobStatus, jobStatus' = [jobStatus EXCEPT ![j] = s],
         \/ jobStatus[j] = "absent" /\ s = "queued"
         \/ jobStatus[j] = "queued" /\ s = "running" /\ ~cancelRequested /\ DepsSatisfied(jobStatus, j)
         \/ jobStatus[j] = "running" /\ s \in {"queued", "waiting"}
         \/ jobStatus[j] = "running" /\ s \in TerminalJob \ {"skipped"}
  PROVE  Promise!Next
<1>1. Work' = [Work EXCEPT ![j] = IF s = "waiting" THEN "queued" ELSE s]
  BY WorkOfOne
<1>2. Work[j] = IF jobStatus[j] = "waiting" THEN "queued" ELSE jobStatus[j]
  BY DEF Work
<1>3. Verdict = "open" /\ UNCHANGED <<Verdict, cancelRequested>>
  BY DEF Verdict
<1>4. Promise!Create(j) \/ Promise!Start(j) \/ Promise!Return(j) \/ Promise!Settle(j)
  <2>1. CASE jobStatus[j] = "absent" /\ s = "queued"
    BY <1>1, <1>2, <2>1 DEF Promise!Create
  <2>2. CASE jobStatus[j] = "queued" /\ s = "running" /\ ~cancelRequested /\ DepsSatisfied(jobStatus, j)
    <3>1. \A d \in Job : jobStatus[d] \in TerminalJob => Work[d] = jobStatus[d]
      BY DEF Work
    <3>2. DepsSatisfied(Work, j)
      BY <2>2, <3>1, SatisfiedStays
    <3> QED
      BY <1>1, <1>2, <2>2, <3>2, SamePolicy DEF Promise!Start
  <2>3. CASE jobStatus[j] = "running" /\ s \in {"queued", "waiting"}
    BY <1>1, <1>2, <2>3 DEF Promise!Return
  <2>4. CASE jobStatus[j] = "running" /\ s \in TerminalJob \ {"skipped"}
    BY <1>1, <1>2, <2>4 DEF Promise!Settle, Promise!TerminalJob
  <2> QED BY <2>1, <2>2, <2>3, <2>4
<1> QED
  BY <1>3, <1>4 DEF Promise!Next, Promise!Work
-----------------------------------------------------------------------------
(* The moves of many jobs at once: cancellation and the passes of advance. *)

\* What the promise sees of rows.
Seen(st) == [j \in Job |-> IF st[j] = "waiting" THEN "queued" ELSE st[j]]

LEMMA WakingUnseen ==
  ASSUME TypeOK
  PROVE  Seen(AfterWake) = Work
BY DEF Seen, AfterWake, Woken, Work

LEMMA CancelKept ==
  ASSUME TypeOK, Cancel
  PROVE  Promise!Next
<1>1. Verdict = "open" /\ UNCHANGED Verdict /\ cancelRequested' = TRUE
  BY DEF Cancel, Verdict, Active
<1>2. Work' = [j \in Job |-> IF Work[j] = "queued" THEN "cancelled" ELSE Work[j]]
  BY DEF Cancel, Work
<1> QED
  BY <1>1, <1>2 DEF Promise!Next, Promise!CancelAudit

LEMMA FinishKept ==
  ASSUME TypeOK, Active, NEW st, st = jobStatus', Finish(st), AllTerminal(st),
         Promise!Tidy
  PROVE  Promise!Next
<1>1. auditStatus' = CompletionStatus(st, cancelRequested, degraded) /\ UNCHANGED cancelRequested
  BY DEF Finish
<1>2. degraded \in BOOLEAN /\ cancelRequested \in BOOLEAN
  BY DEF TypeOK
<1>3. auditStatus' \in TerminalAudit
  BY <1>1, <1>2, CompletionStatusType
<1>4. Verdict = "open" /\ Verdict' = auditStatus'
  BY <1>3 DEF Verdict, Active
<1>5. \A j \in Job : Work'[j] = st[j]
  BY DEF Work, AllTerminal
<1>6. CompletionStatus(Work', cancelRequested, degraded) = CompletionStatus(st, cancelRequested, degraded)
  BY <1>5 DEF CompletionStatus, FailedJobs
<1>7. Promise!Settled(Work')
  BY <1>5 DEF Promise!Settled, Promise!TerminalJob, AllTerminal
<1> QED
  BY <1>1, <1>2, <1>4, <1>6, <1>7, SamePolicy DEF Promise!Next, Promise!Conclude

LEMMA AdvanceCancelledKept ==
  ASSUME TypeOK, AdvanceCancelled
  PROVE  Promise!Next
<1> DEFINE drained == {j \in Job : AfterWake[j] \in {"queued", "waiting"}}
           st == [j \in Job |-> IF j \in drained THEN "cancelled" ELSE AfterWake[j]]
<1>1. jobStatus' = st /\ Active /\ cancelRequested
  BY DEF AdvanceCancelled
<1>2. Work' = [j \in Job |-> IF Work[j] = "queued" THEN "cancelled" ELSE Work[j]]
  BY <1>1, WakingUnseen DEF Work, Seen
<1>3. Promise!Tidy
  BY <1>1, <1>2 DEF Promise!Tidy, Promise!Tidied
<1>4. CASE \E j \in Job : st[j] = "running"
  <2>1. UNCHANGED auditVars
    BY <1>4 DEF AdvanceCancelled
  <2>2. Verdict = "open" /\ UNCHANGED <<Verdict, cancelRequested>>
    BY <1>1, <2>1 DEF Verdict, Active, auditVars
  <2> QED
    BY <1>3, <2>2 DEF Promise!Next, Promise!Work
<1>5. CASE ~ \E j \in Job : st[j] = "running"
  <2>1. Finish(st)
    BY <1>5 DEF AdvanceCancelled
  <2>2. AllTerminal(st)
    BY <1>5, AfterWakeType DEF AllTerminal
  <2> HIDE DEF st
  <2> QED
    BY <1>1, <1>3, <2>1, <2>2, FinishKept
<1> QED BY <1>4, <1>5

\* Being blocked depends on how the settled dependencies settled.
LEMMA BlockedAgree ==
  ASSUME NEW st, NEW other, NEW j \in Job,
         \A d \in Job : st[d] \in TerminalJob \/ other[d] \in TerminalJob => st[d] = other[d]
  PROVE  Blocked(st, j) <=> Blocked(other, j)
<1>1. DependsOn[j] \subseteq Job
  BY GraphAssumption DEF ValidJobGraph
<1> QED
  BY <1>1 DEF Blocked, DepsSatisfied, DepsTerminal, SomeDepSucceeded, AllDepsSucceeded

\* What a pass skips, the promise may skip: a suspended agent is not blocked,
\* because its dependencies let it run.
LEMMA CascadeKept ==
  ASSUME TypeOK, InOrder, ~cancelRequested, NEW S \in SUBSET Queued(AfterWake), IsCascade(AfterWake, S),
         jobStatus' = Skip(AfterWake, S)
  PROVE  Promise!Tidy
<1>1. S \in SUBSET {j \in Job : Work[j] = "queued"}
  BY WakingUnseen DEF Queued, Seen
<1>2. Work' = Skip(Work, S)
  BY WakingUnseen DEF Work, Seen, Skip
<1>3. \A j \in Job : Blocked(Skip(AfterWake, S), j) <=> Blocked(Skip(Work, S), j)
  <2>1. \A d \in Job : Skip(AfterWake, S)[d] \in TerminalJob \/ Skip(Work, S)[d] \in TerminalJob
                         => Skip(AfterWake, S)[d] = Skip(Work, S)[d]
    BY WakingUnseen DEF Skip, Seen
  <2> QED BY <2>1, BlockedAgree
<1>4. ASSUME NEW j \in S PROVE Work[j] = "queued" /\ Blocked(Skip(Work, S), j)
  BY <1>1, <1>3 DEF IsCascade
<1>5. ASSUME NEW j \in Job \ S, Work[j] = "queued" PROVE ~Blocked(Skip(Work, S), j)
  <2>1. CASE AfterWake[j] = "queued"
    BY <1>3, <2>1 DEF IsCascade
  <2>2. CASE AfterWake[j] # "queued"
    <3>1. jobStatus[j] = "waiting"
      BY <1>5, <2>2 DEF Work, AfterWake
    <3>2. DepsSatisfied(jobStatus, j)
      BY <3>1 DEF InOrder, Involved
    <3>3. \A d \in Job : jobStatus[d] \in TerminalJob => Skip(Work, S)[d] = jobStatus[d]
      BY <1>1 DEF Skip, Work
    <3> QED
      BY <3>2, <3>3, SatisfiedStays DEF Blocked
  <2> QED BY <2>1, <2>2
<1>6. IsCascade(Work, S)
  BY <1>4, <1>5 DEF IsCascade
<1>7. Promise!IsCascade(Work, S) /\ Promise!Skip(Work, S) = Skip(Work, S)
  BY <1>6, SamePolicy
<1> QED
  BY <1>1, <1>2, <1>7 DEF Promise!Tidy, Promise!Tidied

LEMMA AdvanceScheduleKept ==
  ASSUME TypeOK, InOrder, AdvanceSchedule
  PROVE  Promise!Next
<1>1. PICK S \in SUBSET Queued(AfterWake) : IsCascade(AfterWake, S) /\ jobStatus' = Skip(AfterWake, S)
  BY DEF AdvanceSchedule
<1>2. Active /\ ~cancelRequested /\ UNCHANGED auditVars
  BY DEF AdvanceSchedule
<1>3. Verdict = "open" /\ UNCHANGED <<Verdict, cancelRequested>>
  BY <1>2 DEF Verdict, Active, auditVars
<1> QED
  BY <1>1, <1>2, <1>3, CascadeKept DEF Promise!Next, Promise!Work

LEMMA AdvanceFinishKept ==
  ASSUME TypeOK, InOrder, AdvanceFinish
  PROVE  Promise!Next
<1>1. PICK S \in SUBSET Queued(AfterWake) :
        /\ IsCascade(AfterWake, S) /\ jobStatus' = Skip(AfterWake, S)
        /\ AllTerminal(Skip(AfterWake, S)) /\ Finish(Skip(AfterWake, S))
  BY DEF AdvanceFinish
<1> QED
  BY <1>1, CascadeKept, FinishKept DEF AdvanceFinish
-----------------------------------------------------------------------------
(* The steps of the queue, of the workers and of the agents. *)

Kept == Promise!Next \/ UNCHANGED Promise!vars

LEMMA FailRowKept ==
  ASSUME TypeOK, Active, UNCHANGED auditVars, NEW j \in Job, NEW e,
         jobStatus[j] = "running", FailRow(j, e)
  PROVE  Promise!Next
<1>1. PICK s \in {"queued", "failed", "timed_out", "cancelled"} : jobStatus' = [jobStatus EXCEPT ![j] = s]
  BY RetryDecisionType DEF FailRow
<1> QED
  BY <1>1, PromiseOfOne DEF Active, auditVars

LEMMA DeliveryKept ==
  ASSUME TypeOK, InOrder, SmokeAlone, ~Smoke, Active, NEW j \in Job, Delivery(j)
  PROVE  Kept
<1>1. CASE Claim(j)
  <2>1. jobStatus[j] = "queued" /\ ~cancelRequested /\ jobStatus' = [jobStatus EXCEPT ![j] = "running"]
        /\ UNCHANGED cancelRequested /\ Active'
    BY <1>1 DEF Claim, Claimable, Active
  <2>2. DepsSatisfied(jobStatus, j)
    BY <1>1 DEF Claim, InOrder, Involved
  <2> QED
    BY <2>1, <2>2, PromiseOfOne DEF Kept
<1>2. CASE ClaimNothing(j)
  BY <1>2, PromiseStutters DEF ClaimNothing, Kept, auditVars, jobVars
<1>3. ASSUME NEW e, ClaimRefused(j, e) PROVE Kept
  BY <1>3, PromiseStutters DEF ClaimRefused, SmokeAlone, Kept, auditVars, jobVars
<1> QED BY <1>1, <1>2, <1>3 DEF Delivery

LEMMA OutcomeKept ==
  ASSUME TypeOK, Active, NEW j \in Job, NEW a \in Attempt, Outcome(j, a)
  PROVE  Kept
<1>1. CASE Succeed(j, a) /\ Current(j, a)
  BY <1>1, PromiseOfOne DEF Succeed, Current, Active, auditVars, Kept
<1>2. CASE Succeed(j, a) /\ ~Current(j, a)
  BY <1>2, PromiseStutters DEF Succeed, auditVars, Kept
<1>3. ASSUME NEW e, Fail(j, a, e) PROVE Kept
  <2>1. CASE Current(j, a) /\ FailRow(j, e)
    BY <1>3, <2>1, FailRowKept DEF Fail, Current, Kept
  <2>2. CASE UNCHANGED jobVars
    BY <1>3, <2>2, PromiseStutters DEF Fail, auditVars, jobVars, Kept
  <2> QED BY <1>3, <2>1, <2>2 DEF Fail
<1> QED BY <1>1, <1>2, <1>3 DEF Outcome

LEMMA ToolCallKept ==
  ASSUME TypeOK, Active, NEW j \in Job, NEW a \in Attempt, ToolCall(j, a)
  PROVE  Kept
<1> PICK c \in Children(j) :
      \/ BeginTool(j, a, c) \/ CreateChild(j, a, c)
      \/ EnqueueChild(j, a, c) \/ EnqueueChildFails(j, a, c)
      \/ ResumeWait(j, a, c) \/ DeliverResult(j, a, c)
  BY DEF ToolCall
<1>1. CASE CreateChild(j, a, c) /\ jobStatus[c] = "absent"
  <2>1. c \in Job /\ jobStatus' = [jobStatus EXCEPT ![c] = "queued"] /\ UNCHANGED auditVars
    BY <1>1 DEF CreateChild, Children, TypeOK
  <2> QED
    BY <1>1, <2>1, PromiseOfOne DEF Active, auditVars, Kept
<1>2. CASE CreateChild(j, a, c) /\ jobStatus[c] # "absent"
  <2>1. jobStatus' = jobStatus
    BY <1>2 DEF CreateChild, TypeOK
  <2> QED
    BY <1>2, <2>1, PromiseStutters DEF CreateChild, auditVars, Kept
<1>3. CASE ~CreateChild(j, a, c)
  BY <1>3, PromiseStutters DEF BeginTool, EnqueueChild, EnqueueChildFails, ResumeWait, DeliverResult,
                               auditVars, jobVars, Kept
<1> QED BY <1>1, <1>2, <1>3

LEMMA WorkerKept ==
  ASSUME TypeOK, InOrder, SmokeAlone, ~Smoke, Active, NEW j \in Job, Worker(j)
  PROVE  Kept
<1>1. CASE LeaseExpires(j) \/ DeadlinePasses(j)
  BY <1>1, PromiseStutters DEF LeaseExpires, DeadlinePasses, auditVars, jobVars, Kept
<1>2. ASSUME NEW a \in Attempt,
             AfterSucceed(j, a) \/ AfterFail(j, a) \/ AfterSuspend(j, a)
             \/ Heartbeat(j, a) \/ WorkerCrash(j, a) \/ Degrade(j, a)
      PROVE  Kept
  BY <1>2, PromiseStutters DEF AfterSucceed, AfterFail, AfterSuspend, Heartbeat, WorkerCrash, Degrade,
                               auditVars, jobVars, Kept
<1>3. ASSUME NEW a \in Attempt, WaitForChild(j, a) PROVE Kept
  <2>1. CASE Current(j, a)
    BY <1>3, <2>1, PromiseOfOne DEF WaitForChild, Current, Active, auditVars, Kept
  <2>2. CASE ~Current(j, a)
    BY <1>3, <2>2, PromiseStutters DEF WaitForChild, auditVars, Kept
  <2> QED BY <2>1, <2>2
<1> QED
  BY <1>1, <1>2, <1>3, DeliveryKept, OutcomeKept, ToolCallKept DEF Worker, Progress

LEMMA SchedulerKept ==
  ASSUME TypeOK, InOrder, Active, Scheduler
  PROVE  Kept
<1>1. ASSUME NEW j \in Job, RecoverLease(j) PROVE Kept
  <2>1. PICK s \in {"queued", "failed"} : jobStatus' = [jobStatus EXCEPT ![j] = s]
    BY <1>1 DEF RecoverLease
  <2> QED
    BY <1>1, <2>1, PromiseOfOne DEF RecoverLease, Active, auditVars, Kept
<1>2. ASSUME NEW j \in Job, SchedulerCrash(j) \/ RecoverEnqueued(j) PROVE Kept
  BY <1>2, PromiseStutters DEF SchedulerCrash, RecoverEnqueued, auditVars, jobVars, Kept
<1> QED
  BY <1>1, <1>2, AdvanceCancelledKept, AdvanceScheduleKept, AdvanceFinishKept DEF Scheduler, Advance, Kept

\* Nothing moves once the verdict is drawn.
LEMMA AfterVerdictKept ==
  ASSUME TypeOK, Ownership, AgentsPrompt, SettledAudit, ~Smoke, dispatch # "failed", ~DispatchFails,
         ~Active, [Next]_vars
  PROVE  UNCHANGED Promise!vars
<1>1. jobStatus' = jobStatus
  BY SettledStays DEF SettledAudit, LateSuccess
<1>2. auditStatus' = auditStatus /\ cancelRequested' = cancelRequested
  BY Writers DEF Cancel, AdvanceCancelled, AdvanceFinish, Claim, Claimable, ClaimRefused,
                 SmokeAfterFail, AfterSucceed, AfterFail, auditVars
<1> QED
  BY <1>1, <1>2, PromiseStutters

LEMMA NextKept ==
  ASSUME TypeOK, Ownership, InOrder, SettledAudit, dispatch # "failed", ~DispatchFails,
         AgentsPrompt, SmokeAlone, ~Smoke, [Next]_vars
  PROVE  Kept
<1>1. CASE ~Active
  BY <1>1, AfterVerdictKept DEF Kept
<1>2. CASE Active /\ DispatchQueued
  BY <1>2, PromiseStutters DEF DispatchQueued, auditVars, jobVars, Kept
<1>3. CASE Active /\ Cancel
  BY <1>3, CancelKept DEF Kept
<1>4. CASE Active /\ Scheduler
  BY <1>4, SchedulerKept
<1>5. ASSUME NEW j \in Job, Active, Queue(j) PROVE Kept
  BY <1>5, PromiseStutters DEF Queue, EnqueueReady, EnqueueFails, Stall, RemovePending, auditVars, jobVars, Kept
<1>6. ASSUME NEW j \in Job, Active, Worker(j) PROVE Kept
  BY <1>6, WorkerKept
<1>7. CASE UNCHANGED vars
  BY <1>7, PromiseStutters DEF vars, auditVars, jobVars, Kept
<1> QED
  BY <1>1, <1>2, <1>3, <1>4, <1>5, <1>6, <1>7 DEF Next, Api

LEMMA InitKept ==
  ASSUME Init
  PROVE  Promise!Init
BY DEF Init, Promise!Init, Verdict, Active, Work

LEMMA DispatchStands ==
  ASSUME ~Strikes("dispatch", FirstJob)
  PROVE  Spec => [](dispatch # "failed")
<1>1. Init => dispatch # "failed"
  BY DEF Init
<1>2. dispatch # "failed" /\ [Next]_vars => (dispatch # "failed")'
  BY Writers, DispatchNeverFails DEF DispatchQueued
<1> QED
  BY <1>1, <1>2, PTL DEF Spec

\* Every behaviour of the orchestrator, with its retries, recoveries, crashes and
\* redelivered messages, is one that AuditPromise allows: work starts in the order of
\* the graph, what is blocked or cancelled never runs, the verdict is drawn once, from
\* a settled graph and by the completion policy, and nothing moves after it.
THEOREM OrchestratorKeepsPromise ==
  ASSUME AgentsPrompt, SmokeAlone, ~Smoke, ~Strikes("dispatch", FirstJob)
  PROVE  Spec => KeepsPromise
<1>1. Init => Promise!Init
  BY InitKept
<1>2. TypeOK /\ Ownership /\ InOrder /\ SettledAudit /\ dispatch # "failed" /\ [Next]_vars
        => [Promise!Next]_Promise!vars
  BY NextKept, DispatchNeverFails DEF Kept
<1> QED
  BY <1>1, <1>2, TypeCorrect, ExecutorsOwn, InvolvedInOrder, AuditEndsSettled, DispatchStands, PTL
     DEF Spec, KeepsPromise, Promise!Spec
=============================================================================
