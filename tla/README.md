# Kase-AI: a TLA+ verification project

Kase-AI audits an application: a NestJS API accepts an audit, a scheduler runs its graph of
jobs over BullMQ, workers scan source code, crawl a target and let AI agents probe it, and
PostgreSQL and an object store keep what happened. The repository also carries the gates its developers
work under. This project models that machinery in TLA+, checks it with TLC on small instances and proves
part of it with TLAPS. Paths are relative to `src/apps/api/src/` unless they begin with `src/`.

    tlc -workers 2 -config AuditSast.cfg MCAuditCore     # a run
    tlapm ReconBudgetProofs.tla                          # a proof

## 1. The system

### Components, their state and operations

| Component | State | Operations | Module |
|---|---|---|---|
| Job graph, terminal-state policy, retry policy (`orchestrator/job-graph.ts`, `audit-state-machine.ts`, `retry-policy.ts`) | none: pure functions of job statuses | readyJobs, blockedJobs, graphTemplate, validateJobGraph, completionStatus, assertAuditTransition, retryDecision | `JobGraph`, `GraphTemplate` |
| Durable scheduler (`orchestrator/audit-scheduler.service.ts`, `scheduler-worker.service.ts`) | `Audit`, `AuditJob`, `AgentRun`; the batch it is about to enqueue | advance, recover, finishSettledGraph | `AuditCore` |
| Job lifecycle (`orchestrator/audit-job-lifecycle.service.ts`) | `AuditJob`: status, attempts, continuations, lease | claim, heartbeat, waitForChild, succeed, fail | `AuditCore` |
| Dispatch (`orchestrator/orchestrator.service.ts`) | creates all rows of an audit | dispatch and its compensation | `ProjectConfig` (validation and transaction), `AuditCore` (what follows it) |
| Cancellation (`orchestrator/audit-cancellation.service.ts`) | `Audit.cancellationRequestedAt` | cancel | `AuditCore` |
| Queue transport (`queue/*`, BullMQ) | one BullMQ job per audit job, its lock and stalled counter | enqueue, removePending, wakeScheduler; delivery, stalled check | `AuditCore` |
| Consumers (`worker/`, `agent-runtime/agent-worker.service.ts`) | their own memory | claim, work, succeed or fail | `AuditCore` |
| Recon pipeline (`worker/recon-pipeline-consumer.service.ts`, `recon/recon-scope.ts`) | stage memory, evidence, trail | discover, filter, verify, merge, drift | `ReconBudget` (discover, verify), `ReconFlow` (filter, verify, merge), `Inventory` (drift) |
| Request budget and host lease (`recon/recon-budget.service.ts`, `host-rate-lease.service.ts`) | `ReconRequestBudget`, `ReconRequestReservation`; one Redis key per host | reserve, settle, renewForJob, reclaimExpired; acquire, renew, release | `ReconBudget` |
| HTTP probes (`worker/http-job-consumer.service.ts`) | memory of one redirect chain, request counters | execute, reserveRequest | `HttpProbe` |
| Endpoint inventory (`recon/inventory.service.ts`) | inventories, baselines, drift | merge, computeDrift | `Inventory` |
| Agent loop and capabilities (`agent-runtime/agent-loop.service.ts`, `capabilities/`) | `AgentRun`, `AgentToolInvocation`, transcript, child jobs | turns, checkpoints, suspend, resume, deliver, degrade; findings and checks | `AgentLoop`, `AuditCore`, `FindingRecords` |
| AI budget (`agent-runtime/budget/`) | token and call counters, reservations, degradation level | reserve, settle, expireReservation, recoverRun | `AiBudget` |
| Findings (`findings/`) | identities with counts, findings, coverage | persist (normalize), create, coverage | `FindingRecords` |
| Correlation (`correlation/`), code map (`code-map/`) | working sets; stored maps | resolve, correlate; build the call graph, keep or refuse | `Correlation`, `SourceGraph` |
| Provenance (`provenance/`, `worker/sast-job-consumer.service.ts`) | `BuildProvenance`, checkouts | resolve, check out, save, compare | `Provenance` |
| Evidence, retention, object storage (`recon/recon-evidence.service.ts`, `retention/`, `storage/s3.service.ts`) | evidence rows, policies, objects by content hash | persist, upload, download; reschedule; claim a batch, delete, tombstone | `EvidenceRetention` |
| Audit events (`audit-events/`) | numbered events, one poller per stream | append, stream, resume | `AuditEvents` |
| Secrets (`secrets/`, `src/packages/crypto`) | secret, versions, snapshots | create, rotate, revoke, freeze, open | `Secrets` |
| Guards (`auth/`, `common/guards`) | memberships, tokens, sessions | the chain of guards of a route | `Access` |
| Projects (`projects/`) | projects, targets, repositories, policies | their CRUD, replacePolicy, revoke | `ProjectConfig` |
| Host patterns (`common/host-pattern.ts`) | none | validate, match | `ScopePatterns` |
| Web sign-in (`src/apps/web/src/auth`) | users, invites, sessions | handshake, accept an invite | `SignIn` |
| CLI (`src/apps/cli`) | the waiting client | audit start --wait | `CliWait` |
| Development gates (`src/.agents/skills/unlazy/scripts`) | ledgers, approvals, waves, leases, counters, in files | gate-check, dispatch-check, lease commands, stop-hook | `GateLedger`, `CheckRun`, `GateCoordination`, `StopHook` |
| Tool adapters, pages, HTTP plumbing, lint, installer, spikes | none that several actors share | see section 6 | none |

### How they interact

The API writes all rows of an audit in one transaction and then wakes the scheduler (or, for a
smoke audit, enqueues the only job itself). The scheduler's `advance` locks the audit's row, skips what can
no longer run, marks ready jobs and, *after* the transaction, adds one BullMQ job for each;
`recover`, every 30 seconds, charges lost reservations, requeues or fails jobs whose lease
expired, forgets enqueue marks that led nowhere, and advances every audit. A consumer claims the
row (a lease of a minute and an attempt number), works, and settles it by conditional updates that lock
nothing. The agent's consumer reserves tokens for each model call, checkpoints its transcript after each
turn, and may instead create a child job, record that it waits for it and return. Recon stages draw on one request
budget, which probes share, and on one lease per host, which other audits share. Stages, scans and probes store
evidence that retention workers delete when it has expired. Every status change goes to a numbered event log that
the API streams to browsers and to the waiting CLI. PostgreSQL is shared state; BullMQ
delivers at least once; Redis holds the host lease. The gates share nothing with the product: their
processes meet in files, under lock files.

### What is hard

* *Interleaving and atomicity.* Every worker step is a few statements without a lock:
  fail's read and its update, the agent's three writes to suspend, a save and the comparison that should precede it.
* *Ordering.* Messages follow the transaction that decided them and may reach a graph that has moved on.
* *Crashes.* Between marking and enqueueing, reserving and settling, upload and insert, two statements of a persist.
* *Leases and time limits.* A worker that stalls past its lease goes on beside its successor; a
  time limit rejects while the work unwinds for up to 35 seconds; host, row, budget and deletion leases expire separately.
* *Staleness.* Policies, identities, memberships and secrets change between the check and its use.
* *Liveness.* A BullMQ job that a dead worker holds, an enqueue that is refused, a stream that ends silently.
* *Limits.* Retry allowances shared by three paths, token, call and request limits that two checks read differently.

`PROJECT.json` lists each hazard at its line with the properties that watch over it.

### What makes each component correct

* Graph: the cascade of skips is determined by the statuses and never leaves a graph that can neither advance nor finish.
* Scheduler, lifecycle, transport: dependencies are respected, allowances kept, settled jobs and audits
  stay settled, the verdict matches the graph, cancellation wins, the audit ends.
* Agents: a suspended agent waits for its own unanswered call and is woken; a resumed one continues its transcript.
* Budgets: counters and rows agree; the limit holds; nothing goes uncharged; nothing stays reserved.
* Host lease: one tool at a time per host. Scope: a URL is kept or its denial can be read somewhere, none is contacted on nobody's authority.
* Inventory: first sightings follow the recorded baseline. Findings: each occurrence counts once.
  Provenance: a saved row agrees with every claim. Correlation: a match has one cause.
* Evidence: bytes stay until the row expires, and what has expired goes. Events: a client misses none.
* Secrets: an audit gets the value it froze. Guards: who is admitted was entitled. Sign-in: an invite makes the user.
* Gates: ALL MET is earned; no launch, return or lease is lost; a session is let go in the end.

## 2. Plan

The order in which the modules were written, most important behaviour first. All are done.

| Order | Modules | Theorems |
|---|---|---|
| 1 | `JobGraph`, `GraphTemplate`: pure policy and templates | two, in `AuditProofs` |
| 2 | `AuditCore`, `AuditPromise`, `AuditRefinement`: orchestrator, its promise, the refinement | ten, in `AuditProofs` |
| 3 | `ReconBudget`: budget, host lease, recon stages, time limits | four, in `ReconBudgetProofs` |
| 4 | `AiBudget`, `AgentLoop`: reservations of model calls composed with the agents' turns | four, in `AgentLoopProofs` |
| 5 | `EvidenceRetention`, `Inventory`, `FindingRecords`: what is stored and deleted | five, in `EvidenceProofs`, `StoreProofs` |
| 6 | `ReconFlow`, `Provenance`, `HttpProbe`: what is contacted and read | three, in `WorkerProofs`, `StoreProofs` |
| 7 | `SignIn`, `Secrets`, `Access`, `ProjectConfig`, `ScopePatterns`, `AuditEvents`, `CliWait` | seven, in `CallerProofs`, `WorkerProofs` |
| 8 | `Correlation`, `SourceGraph`: algorithms against reference definitions | two, in `StoreProofs` |
| 9 | `GateLedger`, `CheckRun`, `GateCoordination`, `StopHook` | three, in `GateProofs`; commands model-checked |

Composition: `AuditRefinement` joins `AuditCore` to `AuditPromise`; `AgentLoop` extends `AiBudget`, so
that budget and loop step together. `MCServices` and `MCStores` put components that share no state *beside* each
other, only to check them in one run: a behaviour picks one part at the start and the others rest.
Every invariant a passing run checks is also a theorem; what stays with TLC is at the end of section 5.

## 3. The modules

### JobGraph and GraphTemplate

`ReadyJobs`, `Blocked`, `RetryDecision`, `CompletionStatus` and `LegalTransition` are the functions of
the three policy files over a status function `st`. The loop of `advance` that skips blocked jobs
until none is left is `IsCascade(st, S)`: the set S of jobs skipped is one the loop could have ended with.
`GraphTemplate` gives the jobs, dependencies and retry allowances of every mode and set of categories.

### AuditCore

One audit from the moment its transaction committed.

| Variable | Code |
|---|---|
| `auditStatus`, `cancelRequested`, `degraded` | `Audit.status`, `cancellationRequestedAt`, `isDegraded` |
| `jobStatus`, `attempts`, `continuations`, `leaseLive`, `enqueued` | `AuditJob`; `leaseLive`: leaseExpiresAt is ahead; `enqueued`: enqueuedAt is set; "absent": a tool call not made yet |
| `waitingFor`, `deadlinePassed`, `invocation` | `AgentRun` and `AgentToolInvocation` |
| `bull`, `stalls`, `holder` | the BullMQ job of each audit job, its stalled counter, the attempt that processes it |
| `dispatch`, `outbox`, `removing` | the API call that has not returned; enqueue and removal calls about to be made |
| `run[j][a]` | the position of attempt a of job j in its consumer |

A transaction that locks the audit's row is one action (`Advance`, `Cancel`), placed at its read; so
is each conditional `updateMany`. What no lock joins is several: `Fail` and `AfterFail`, `Succeed` and
`AfterSucceed`, `BeginTool`, `CreateChild`, `EnqueueChild` and `WaitForChild`, the scheduler's mark and each of its
enqueue calls, each removal of cancel. `Fenced(j)` says whether the consumer of j passes its attempt
number: `Current`, the condition of every settling update, compares it only then.
Faults are pairs of a kind and a job in the constant `Faults`; a theorem is about all of them, a run names those it injects.

What is abstracted or merged:

* `wakeScheduler` has no action: `recover` calls `advance` every 30 seconds, so an advance is always possible.
* `EnqueueChild` joins `Queue.add` and the update of `AgentRun`; `DeliverResult` joins the storing of a
  result, the checkpoint and the clearing of what was waited for. An agent makes at most one tool call (`AgentLoop` has many turns).
* `Addressed(j)` leaves out removals that would find no message.
* `Fail` lets a stale attempt be rejected before or after its read, whether or not its consumer is fenced.
* An attempt has ended when its failure is reported; work that outlives its time limit is in `ReconBudget`.

### AuditPromise and AuditRefinement

`AuditPromise` is what a user of the API may rely on: work starts when its dependencies let it, settles
once, may return to the queue, a cancelled audit's verdict is cancelled, a verdict comes after all work has settled
and says what the work came to. `AuditRefinement` maps `AuditCore` onto it (a suspended agent is work
that returned to the queue) and states `KeepsPromise`, the abstract specification as a property.

### ReconBudget

The budget and the reservations of one audit, the lease on its host, the stages `discover` (Katana) and
`verify` (httpx and its redirects), the scheduler's reclaim and recovery, HTTP probes, and another audit
that contends for the host.

| Variable | Code |
|---|---|
| `reserved`, `consumed` | `ReconRequestBudget` |
| `row[s]` | `ReconRequestReservation` of stage s; `live`: leaseExpiresAt is ahead. Count and lease of a row that is not active are zeroed, since nothing reads them |
| `jobState`, `attempts`, `evidence` | what the budget sees of `AuditJob` and `Evidence` |
| `host`, `other` | the Redis key of the host; the stage of another audit |
| `work[j][a]` | attempt a of a stage: position, grant, count it will settle, failed, aborted |
| `requests` | requests that reached the target: a ghost, counted in full when a tool starts |

`Reserve`, `StartTool`, `ToolSucceeds`, `FollowRedirects`, `Persist`, `Release`, `Settle` and `End` follow
the code of discover and verify with its nested `try`/`finally`; `StageFails`, `AcquireFails`, `RedirectsUnsettled` and
`SettleFails` are its error paths. `TimeLimit` settles the job at once and leaves its attempt to unwind, so
that two attempts of one job may be under way. Retry or final failure is a free choice here: `AuditCore` decides it.
The CHECKs of the two tables decide, too: `Refused` (a settlement above its row's count makes the transaction fail and
leaves the row active until it is reclaimed) and `FitsTable` (probes need room within recon's share).

What it assumes of the world, beyond the code:

* Katana reports at least the requests it sent, and a tool sends at most what it was told to.
* A job's lease and its reservations' leases, which one callback renews, expire together: `RecoverJob`
  finds the rows of its job expired.
* A host key outlives the tool of its holder unless the worker stalls: it is renewed every 10 seconds for 60,
  and an aborted tool is killed within 35. A tool dies with its worker; tools are detached processes, and the hazard is listed.
* Agents, and with them probes, come after both recon jobs succeeded.
* The stage's `hasLive` and its reserve are one step; a verify without candidates is left out.

### AiBudget and AgentLoop

`AiBudget` is the ledger of each role and of the audit (`ledger`), one reservation per model call (`row`), the degradation
level and the cancellation flag; `Reserve`, `Settle`, `Expire` and recovery are single transactions under the
audit's row lock. `AgentLoop` extends it with the turns of both agents: the checks before a call, the
call, the answer with its checkpoint, the tool with its checkpoint, retries by class of error, refusal, degradation,
suspension being left to `AuditCore`. Workers crash anywhere, lose a settlement, or stall and go on beside their
successors. Tokens are counted in units of a call; a tool is one of three kinds the loop treats differently.

### ReconFlow, HttpProbe, ScopePatterns

`ReconFlow` is what filter, verify and merge do with URLs while policies are replaced, attempts die or overlap:
a URL is kept or denied under the policy the stage read, a denial is written to the trail and then to the audit's events, redirects
are checked and followed once. `AuditTrailService.record` catches whatever the write throws and the stage goes on, so `RecordDenial`
may leave the trail as it is, and `CrawlAccountedFor` looks for a denial in the trail or among the events; a throwing append ends the attempt.
The check that precedes a write (`CheckWritable`) locks nothing and is a step before `Save`. `HttpProbe` is one redirect chain, each hop preceded by its own look at the policy and
the identity and its own charge. Both take the cover of a policy as a constant; `ScopePatterns` has the patterns
themselves, labels instead of characters.

### Inventory, FindingRecords, Provenance

`Inventory`: three audits of one target merge, choose a baseline under the target's lock, carry first sightings
and compute drift; a clock orders start and completion. `FindingRecords`: normalize persists statement by
statement and again on a retry; agents create findings and report coverage. `Provenance`: an attempt resolves its
commit from the caller, the deployed build or the branch, checks out, looks for a row, saves and only then compares.

### Correlation and SourceGraph

`SourceGraph` is the breadth-first walk with its limits, one step for each call expression, checked against
`Chain`: some chain of n calls leads from the handler to a method. `Correlation` resolves a request's path to its
handler by specificity and source, passes over a request that several handlers may answer, joins findings that share the deepest cause,
and merges; a scanned finding may sit at several symbols. It is checked against what a match means, stated over all routes, symbols and
graphs without the engine's own choices: one handler to which every other route yields (`Answers`), a complete graph, nothing deeper that fits, the same
rule and weakness, compatible categories, whatever order findings come in. The correlation engine is exported but not yet called by the product.

### EvidenceRetention

Rows dated by a policy, objects under the hash of their content, jobs that capture, and retention workers that
claim a batch (a lease of five minutes), delete the object, and tombstone the row. Time is counted in days; one of the four independent
classes of evidence is modelled. A policy change reschedules what is not yet due. The transaction of persist first asks whether the attempt is its job's
and then upserts: nothing is locked, so `Verify` ends with the question and `Insert` is the bare upsert, before which a stage may be claimed
anew (`caught` remembers the stages of which that is so). The second upsert of that transaction, of ToolExecution, is left out: no other modelled code reads it.

### SignIn, Secrets, Access, ProjectConfig

`SignIn`: racing handshakes and invites that expire and are renewed; what a provider *says* is kept apart from what it knows
(`proven`). `Secrets`: rotations that race for a version, revocation, the snapshot of a dispatch and its opening with a
context. `Access`: the guards as separate reads while memberships, tokens and sessions change. Of the routes of an organization the guards hold only those of its
administrators against the session's organization, and `AdmittedWasEntitled` says that much; project creation and listing take the organization
from the session, and reading a policy checks it in its handler (`retention/retention-policy.service.ts:50`), which is not modelled. `ProjectConfig`: requests that
read, decide and write in steps of their own, with unique indexes and restricting foreign keys as
guards; dispatch's validation reads all of it, and an idempotent replay finds the audit of its key.

### AuditEvents and CliWait

`AuditEvents`: writers under the audit's lock, a poller that may overlap its own next poll, lost connections,
a client that resumes after its last number. `CliWait` takes that stream as delivered in order and has the ways an audit ends, the events
each of them writes, and the client that waits for one of them and exits with a code.

### GateLedger, CheckRun, GateCoordination, StopHook

The gates are development tooling, vendored for the repository's own work and not shipped in images. `GateLedger`: a ledger
as a sequence of lines, parsed as gates.mjs does; checkers of any mode write results back by a fresh read under a lock file, an
editor saves without one. A parse is a function over the prefixes of the text, as the loop goes. What an editor may save is a constant: any text
whose evidence lines say nothing or what a person writes by hand. `CheckRun`: the window of jobs, time and output limits, processes that refuse to die, the pool
of workers that match expressions. `GateCoordination`: waves and path leases, files changed by one-shot
processes under lock files. `StopHook`: which pipeline holds a session, and the
counters that let it go: a table by session and pipeline in a file that hooks share. Beyond `MaxSessions` the oldest counters go, by clocks
that need not agree, so the model lets any of them go. A hook that cannot count (no lock in time, a file that cannot be read or written) lets the session go, or
blocks it uncounted if its scope is invalid; `streak` holds the blocks of a row of either kind, counted and blind.

## 4. What is checked

| Run | Module and instance | Shows |
|---|---|---|
| `AuditSast` | `MCAuditCore`: security mode, SAST; three attempts; the scan meets failures, time limits, stalls past its lease, late deliveries, refused enqueues and crashes; the user may cancel | order, allowance, the refinement `KeepsPromise`, and the audit ends |
| `AuditAgent` | a black-box agent with one probe; three attempts; crash, deadline, refused enqueue of the probe; not cancelled | a suspended agent waits for its own call, a completed audit earned it, and the audit ends |
| `AuditSmoke` | the smoke mode, with a failing dispatch call and a worker that may stall past its lease | workers end the audit, once, and over a settled job but for a late success; only the compensation overwrites |
| `ReconSpend` | `MCReconBudget`: limit 2 of 3, two requests a stage, two attempts, crashes, Redis errors, time limits and failing settlements, so that attempts of verify overlap; fair | recon's share holds, one tool per host, no reservation stays active |
| `AgentBudget` | `MCAgentLoop`: two agents, budgets of 5 tokens and 3 calls, one of 2 and 1, a crash or lost settlement with a retry, cancellation | allowances hold, every answered call is charged, the transcript continues |
| `Evidence` | `MCEvidence`: two jobs with shared content, one of two attempts; two retention workers; two days; a first policy of one day, one change and one fault | bytes until expiry, reports are stored unless a stage was claimed in the middle of a write, commitments kept, what expired goes |
| `Services` | `MCServices`: sign-in, secrets, guards, configuration, patterns, events, CLI, recon flow, running commands | eleven properties, one or two for each part |
| `Stores` | `MCStores`: provenance, inventory, findings, correlation, code map, probes, recon's budget (limit 3 of 4, crashes and Redis errors), ledgers, waves and leases, stop hook | ten properties, one for each part |
| `FindProbeRefused` | the probe part of `MCStores` | **violated** `CapIsUsable` |
| `FindStaleOwner` | SAST with stalls past the lease | **violated** `EveryOwner` |
| `FindAbortCompletes` | a recon stage that aborts on a heartbeat error | **violated** `CompletedIsClean` |
| `FindWaitHangs` | `MCCliWait`: a client that waits for a smoke audit | **violated** `WaitReturns` |

*Why these bounds.* Each allowance is at least one below and one above what the properties distinguish. With
`RetryCap` 1 and three attempts, an attempt too many is reachable; four jobs are the smallest graph with a cascade, and one struck
job suffices as each property relates one job to its predecessors and the audit. Two attempts are what overlap takes, and
a third repeats it. Limits of 2 of 3 and 3 of 4 with requests of up to 2 make full and partial grants and exhausted budgets happen. Two
retention workers and shared content make the late deletion of a re-uploaded object happen; two days are an expiry ahead and
one behind. Three audits of a target are what forks a chain of baselines. The first policy of `Evidence` is the shorter of two: what it dated may expire, and a longer one may follow. Two handshakes, rotations or checkers race; a third
writer of a secret meets the version of a winner. Every property has a mutant, a plausible mistake in one definition that is kept beside it,
which the run refutes.

*Bounds by name.* `MaxAttempt`, `Claims`, `SourceClaims`, `Attempts`: claims of a job. `RetryCap`, `FaultKind`, `Struck`, `ToolFault`,
`Faults`, `MaxFaults`, `MaxBreaks`, `MaxDrops`: faults. `MaxChanges`, `MaxRevisions`, `MaxRenewals`, `MaxSaves`, `MaxCommands`, `MaxPolicies`,
`MaxVersion`, `MaxEvents`, `MaxCall`, `MaxCalls`, `MaxNow`, `MaxTime`: what people, policies and clocks do. `MaxTurn`, `MaxRequests`,
`ReconLimit`, `AuditRequests`, `ReconShare`, `BatchLimit`, `MaxHops`, `MAX_BLOCKS` and `MaxSessions` are limits of the code.

*Constraints and views.* `PromptReturn` (at most one processor between its last write and its return to BullMQ)
and `Uncancelled` (cancellation is `AuditSast`'s) in the run about agents; `BriefCompetitor` (the second agent
stops before its first checkpoint) in `AgentBudget`; `VerifyOverlaps` (discover runs once) in `ReconSpend`; `InTurn` (audits of a target begin in
the order of their names, which are interchangeable) in `Stores`. The view `SentAside` leaves out what no action reads
and no property of `ReconSpend` mentions. A constraint drops the behaviours outside it, in the run with liveness too: what `AuditAgent`
says of ending is said of audits that are not cancelled and whose processors return one at a time.

*Deadlock* is not checked: an audit that has ended, recon that is over, and requests that were served rightly stop.

*Fairness* is what the code repeats.

* `Fairness` of `AuditCore`, `FairSpec` of `ReconBudget`: the timer of
  `scheduler-worker.service.ts` calls recover, and with it advance, every 30 seconds (weak fairness of
  `Advance`, `RecoverLease`, `RecoverEnqueued`, `ReclaimExpired`); BullMQ delivers what waits and checks
  for stalled jobs every 15 seconds (`Delivery`, `Stall`); time passes (`LeaseExpires`, `RowExpires`); every
  attempt ends because of its time limit (`Progress`). `EnqueueReady` is strongly fair: a queue that is asked again and again answers
  some day. Nothing obliges the API call to return, a user to cancel, anything to fail, an agent to degrade or the
  host to become free (a stage gives up waiting after a minute, `AcquireFails`).
* `EvidenceRetention`: the runner's interval asks for a batch and a batch takes one row after the other (weak fairness of each worker's `Deleting`),
  deletion leases end by the clock. Policies, captures and
  failures are not fair.
* `MCServices`: the stream's poll timer fires and its queries answer, the client reads, reconnects and follows its
  stream; the commands' timers fire and closed pipes are noticed (`RunSteps`). Writers, connections that break and commands
  that return are not obliged to anything. Each fairness condition names its part, so a part at rest owes nothing.

### Findings

1. *Recon's share refuses probes* (`worker/http-job-consumer.service.ts:181`). The code compares a probe with the audit's limit, the table's
   CHECK with recon's 40 %: once recon and probes used the share, the database refuses each probe.
2. *SAST, HTTP and smoke consumers settle without their attempt number* (`worker/sast-job-consumer.service.ts:74-76`),
   so a worker that lost its lease settles the attempt that replaced it, which the comment in `fail` says cannot happen.
3. *An error of the heartbeat or of the budget's renewal in a recon stage counts as a cancellation*
   (`worker/recon-pipeline-consumer.service.ts:74`): no retry, dependents skipped, the audit completes and is eligible for PASS.
4. *A smoke audit that fails writes no audit.status event* (`orchestrator/audit-job-lifecycle.service.ts:114`): a client that
   waits for it with `--wait` is never told.

### Met while modelling, and not among the runs

* `RequestsCharged` does not hold with time limits or failing settlements: a retry shares the live reservation that its predecessor never
  settled (`recon/recon-budget.service.ts:34`), both send, and one count is charged. `Stores` checks it, and `EveryRequestCharged` proves it, of attempts that do not overlap so.
* A settlement larger than the row that was granted anew is refused by the row's CHECK; its stage fails and the row stays active until reclaimed.
  The reservations of a run whose last attempt crashed stay active.
* `advance` counts only running jobs against MAX_JOBS_PER_AUDIT (`audit-scheduler.service.ts:75`); dispatch's compensation rewrites
  a status that is already terminal (`orchestrator.service.ts:187`), which `OnlyDispatchOverwrites` names as the one exception; an idempotent
  replay may return such an audit.
* The late success of a smoke worker that stalled past its lease completes the audit although its job was recovered and is queued, running or failed
  (`audit-job-lifecycle.service.ts:78`): `LateSuccess` in `SettledAudit` and `CompletedIsClean`.
* An attempt of a recon stage that was replaced between the check of its evidence transaction and the upsert still writes; if it comes first, its successor's upsert
  leaves that row and reports the hash of its own bytes (`recon/recon-evidence.service.ts:45`, `:70`). `ReportedIsStored` excepts it; the consumer of the pipeline does
  not use what persist returns.
* A denied URL of a recon stage may be missing from the trail, whose service catches every error (`audit-trail/audit-trail.service.ts:55`); the event that follows still names it.
* A smoke audit whose user cancelled it may end as failed (`audit-job-lifecycle.service.ts:113`), and one that meets its queue's own time limit ends
  as cancelled (`worker/recon-worker.service.ts:41`); if succeed throws after its transaction, one probe leaves two executions.
* A model client's own time-out carries no HTTP status and so is not retried, where `retry-strategy.ts:4` says it is; one role's refusal marks the whole
  audit as exceeded (`budget.service.ts:40`); a stale attempt's checkpoint is not fenced.
* The second attempt of provenance passes the check that refused the first, because the row is saved before the comparison
  (`worker/sast-job-consumer.service.ts:95`, `:107`): `SavedAgrees` holds because resolution itself refuses contradicting claims.
* A crash between trail and event loses the scope.denied event; one between upload and insert leaves bytes without a row; rows of one audit may
  share an object, and the first to expire takes it (`BytesUntilExpiry` says so).
* Overlapping attempts of normalize may count an occurrence twice, and a crash may lose one: `NeverCountedTwice` is about attempts that do not overlap.
* A project cannot be removed, since its policies restrict it; deniedPaths are prefixes to the HTTP probe and globs to recon; a check of
  production targets is read and written in two steps.
* In the gates, the editor takes no lock: its save between a checker's fresh read and its write is lost; an invalid named scope whose hook
  cannot count is blocked again and again (`stop-hook.mjs:185`), where SKILL.md has the hook release after six blocks: `HookReleases` counts such blocks on top.
* A tool whose leader exits in the grace period may leave descendants that ignore SIGTERM (`worker/process-control.ts`).

## 5. What is proved

| Module | Theorem | Statement, beside what the module assumes |
|---|---|---|
| `AuditProofs` | `CascadeUnique`, `GraphNeverStuck` | two sets the skipping loop could end with are equal; after it, a graph that has not settled has a job that runs, waits or is ready |
| | `TypeCorrect` | `Spec => []TypeOK` |
| | `JobOutcomesFinal`, `AttemptsBounded`, `JobsRunInOrder` | settled jobs stay as they settled; `AttemptBound`; `DependencyOrder`; all if dispatch's own call does not fail |
| | `ExecutorsOwn` | `Ownership`: the attempt that executes is the one its row counts, for jobs whose workers do not outlive their leases |
| | `VerdictOverwrittenByDispatch` | `OnlyDispatchOverwrites`, with no hypothesis |
| | `AuditEndsSettled`, `AgentsAwaitOwnCalls`, `CompletedAuditsAreClean` | `SettledAudit`, `WaitsForOwnCall`, `CompletedIsClean`, if agents are prompt (below); the last if nobody aborts. The first and the last except what a stalled smoke worker completes |
| | `OrchestratorKeepsPromise` | `KeepsPromise`: `AuditCore` implements `AuditPromise`, for audits other than smoke whose dispatch call does not fail |
| `ReconBudgetProofs` | `BudgetAlwaysBalanced`, `ShareKept` | `BudgetBalanced` and `WithinLimit`, for all faults |
| | `HostExclusive` | `OneToolPerHost`, if workers do not stall past their leases |
| | `EveryRequestCharged` | `RequestsCharged`, if the faults are crashes and Redis errors |
| `AgentLoopProofs` | `LoopTyped`, `AllowancesHold`, `CallsAreCharged` | `TypeOK`, `WithinAllowance` and `NothingUncharged`, for all faults |
| | `TranscriptsContinue` | `TranscriptContinues`, which is about roles that do not stall |
| `EvidenceProofs` | `BytesStayUntilExpiry`, `ReportsStay`, `CommitmentsAreKept` | `BytesUntilExpiry`, `ReportedIsStored` (but for stages in `caught`), `CommitmentKept` |
| `WorkerProofs` | `NoUrlIsLost`, `SavedRowAgrees`, `EventsStayInOrder` | `CrawlAccountedFor`, `SavedAgrees`, `EventsInOrder` |
| `CallerProofs` | `MembershipTakesAnInvite`, `CredentialStaysFrozen`, `GuardsEntitle`, `ExitCodesTell` | `MembersWereInvited`, `FrozenCredential`, `AdmittedWasEntitled`, `ExitTellsVerdict` |
| | `DispatchesAuthorized`, `PatternsStayNarrow` | `AuditsAuthorized`, `PatternsKeepToOneRegistrant` |
| `StoreProofs` | `OccurrencesCountOnce` | `NeverCountedTwice`, if attempts of a job do not overlap |
| | `FirstSeenAgrees`, `ProbesStayAuthorized` | `FirstSeenInherited`, `ProbesAuthorized` |
| | `MatchesHaveOneCause`, `StoredMapIsReachability` | `JoinsAreGrounded`, `GraphIsReachability`, for finite inputs and graphs |
| `GateProofs` | `SharedFilesStay`, `HooksRelease`, `ResultsAreEarned` | `SharedFilesAgree`, `HookReleases`, `ResultsEarned` |

They hold for every value of the constants that satisfies the module's assumption (`GraphAssumption`, `CoreAssumption`,
`BudgetAssumption`, `FlowAssumption`, ...), whatever the number of jobs, attempts, tool calls, URLs or requests; TLC evaluates these
assumptions in the runs. Each inductive invariant below was checked with TLC on the instance of the run before it was proved.

### The orchestrator

* *Rows.* `NextMove` says how any step may change the row of a job: which statuses follow which, and that
  attempts grow only in `Claim`. `JobOutcomesFinal` is a corollary. `AttemptInv` adds what `AttemptBound` lacks to be
  inductive: a job in the queue has an attempt left.
* *Order.* `InOrder` strengthens `DependencyOrder` from
  jobs that run to jobs that are *involved*, those with a claim, a message, an enqueue call or a mark in some process, since
  `Claim` looks at no dependency; dependencies, once satisfied, stay so, as outcomes are final.
  A failing dispatch call rewrites the first job from any status, which is why it is assumed away.
* *Ownership.* Nothing in the code says that the process which executes a job is the one its row counts; it follows from the lease and from
  the conditions of the updates together. `Ownership` says it of every job whose workers do not slip past their leases: the attempt
  that executes has the row's number, holds the BullMQ job and has a live lease, and an attempt that succeeded has left a succeeded row.
  Given that, `RecoverLease`, `Claim` and a second delivery cannot touch the job, and each outcome is written once.
* *The end of an audit.* `SettledAudit` needs ownership of the agents only: all other writers look at the graph or at the row in the transaction
  that writes. An agent creates work (a tool call's job) in a statement that does not look whether the audit is over, so an agent that stalls past its lease
  can do so after the end. This is `AgentsPrompt`: no job with children or with a degradation to report slips. In security mode without agents it
  says nothing, and stalls of scans and probes are covered. `SmokeAlone` says what the template of the smoke mode is: its one job. Stalls of that job are covered too, but `succeed` completes
  a smoke audit whether or not it changed the row: a worker whose job was recovered meanwhile completes an audit whose job is queued, runs again or has failed.
  `LateSuccess` excepts the completed smoke audits of instances with such stalls from `SettledAudit` and `CompletedIsClean`; failed and cancelled ones are covered. `AwaitsOwn` is the same argument about the
  three writes that suspend an agent, strengthened from agents that wait to those about to.
* *Completed audits.* `CleanInv`: without an abort a job is cancelled only after the user's request, what is skipped is still blocked (dependencies
  stay as they settled), and no agent degrades a finished audit. `FindAbortCompletes` is what happens with aborts.
* *Refinement.* Each action of `AuditCore` is a step of `AuditPromise` or leaves what the promise sees unchanged. `InOrder` shows that what
  starts may start, `JobMove` that rows move as the promise lets them, `SettledAudit` that nothing moves after the verdict; the work to show is that a suspended agent, which the promise
  sees as queued work, is never blocked, and that the cascade of the code is the promise's. Smoke audits are outside, since their failing worker writes "failed"
  where the policy says "cancelled"; a dispatch that fails overwrites a verdict.

### Budgets and the agent loop

* *Recon budget.* `RowsOK /\ BudgetBalanced` is inductive: every transaction moves the counter by what it adds to or
  takes from the active rows, however attempts overlap. `LimitInv` adds what the workers remember (no attempt settles a
  negative count) and `WithinLimit` itself: a grant fits the share, and a settlement moves at most its row's count from
  reserved to consumed, because the table refuses a larger one.
* *Requests.* `ChargeInv` says why the counters cover what was sent, whoever dies. One attempt executes at a time, over both jobs (`InTurn`); a row is
  active only while the attempt its job counts holds it or lies dead, since who ends has settled it and who is recovered is charged first (`RowsHeld`); what an attempt holds
  beyond what it would be charged with is still unsent (`Accounts`), so that a settlement gives back no more than was not sent, and a reclaim nothing. Time limits, stalls
  and failed settlements let two attempts spend one reservation, and are excluded.
* *Host.* `Holders` strengthens `OneToolPerHost`: an attempt whose tool sends holds the key, and so does the
  other audit while its tool does. A key belongs to one, so two senders are the same.
* *AI budget.* The counters are sums over any number of calls and roles. `SumOver` is a recursive function of the set; that it exists, is additive and changes by
  what one summand changes (`SumsExist`, `SumOverSums`, `SumChanges`, `SumGrows`) is proved by a least counterexample, which `WFMin` of the library grants without
  an operator as a parameter. `LedgerBalanced` then says that every transaction moves a counter by what it changes in the rows, and `LimitsKept` that a
  reservation is granted only below the limit of its role and of the audit.
* *Calls.* `LoopInv` says what an attempt may remember at each point: calls are numbered, the one it works on has a row, and no two attempts, not even a
  stalled one and its successor, work on the same; so each settlement or expiry charges a call that its own attempt sent.
* *Transcripts.* `ResumeInv`, for a role that does not stall: the attempt at work is the job's current one, and its messages and turn are those stored, or extend
  them. It takes `LoopInv` (one attempt to a call) to be inductive. A stalled attempt's checkpoint is not fenced, and breaks it.

### What is stored

* *Evidence.* `EvidenceInv`: a tombstone is of an expired row (`DeadIsPast`), what a retention worker holds in its batch is expired (`BatchIsPast`), a capture past its upload
  has its object unless an expired row took it, and of a stage that was not claimed in the middle of a write, the row that is there is what its current attempt will report (`WriterOK`). `RowsKept`, an action, says how rows may change, and `CommitmentKept` follows.
* *Findings.* An attempt that wrote the finding and has not counted it *owes* an occurrence; `FindingsInv` says that the count is that of the audits that have the finding
  and owe nothing. With overlapping attempts two would owe the same one, which is why `NoOverlap` is a hypothesis.
* *Inventory.* The predecessors of an audit that has begun are settled: none can be added, as the clock has moved on, and none is written. Every attempt of a merge
  therefore chooses the same baseline, and the last one to write changes nothing that an earlier drift job read.
* *Project configuration.* Policies are only appended and a project that has one is never removed, so the number of a policy that a dispatch or an audit holds means the
  same policy for good (`Attests`); a request about to enqueue holds the only audit of its key.

* *Host patterns.* The registrant of a host of three labels or more lies in its last three (`SuffixStart`). A valid wildcard has three labels at least, no other of
  them a star, and what follows the star is no public suffix; so all hosts it matches share their last three labels. A valid pattern without a star matches one host.
  The assumption says that each listed suffix has two labels, as in `common/host-pattern.ts`.
* *Correlation.* The fingerprint of a match names its root. `JoinedRoot`: the deepest candidates of a finding that joins are all at the symbol its fingerprint names, for
  one weakness at one symbol is what it takes to join; `JoinedRoute`: its path is one of the routes it resolves to; `JoinedHandler`: these have one handler, so every route to another
  one yields to the best of them. `CorrelationInv` then says of each match that
  its findings have its fingerprint, whichever order they came in. That the last of several routes or findings exists (`LastPlace`) takes the bound the engine sets on its input.
* *Code maps.* `GraphInv`: the queue holds the found methods once each, with distances that never fall and differ by one at most (`QueueInOrder`); whatever the
  methods before the cursor call has been found, at most one further (`VisitedFollowed`); each found method has a chain of its distance (`EachChained`). A shorter
  chain would, by a least counterexample over its length (`ChainsBounded`), have put the method into the queue earlier.

### Consumers, probes and callers

* *Recon flow.* `FlowInv`: what each worker holds was read under a policy in force since the filter (`WorkersFit`), evidence that was
  stored is complete, stages follow each other, contacts were allowed. Policies in force and denials only grow.
* *Provenance.* `ProvenanceInv`: what an attempt remembers and what is saved came from one resolution whose claims agreed
  (`AttemptsGrounded`, `RowGrounded`), and success has a row; the rows are compared by commit, so that a row of another attempt serves.
* *Events.* `EventsInv`: one writer appends at a time under the lock of the audit's row, with the number after the last; what is received and on the wire are the first
  events without a gap, the cursor is the last of them, and the one poll under way carries it.
* *Probes.* `ProbeInv`: from its checks to its request a hop holds a policy in force since the last request, an identity usable since then, and a charge beyond what was sent.
* *Guards.* `AccessInv`: what each guard established of a request, and that the role it read is among those the caller has had meanwhile.
* *The client.* `CliInv`: an event that ends the audit is written once the audit is over, so the client's last question, which such an event prompts, gets the verdict.
* *Sign-in.* `SignInInv`: one user an address, made from an invite that names it; a handshake past its check has a proven address
  and an invite for it, whatever the provider called verified.
* *Secrets.* `SecretsInv`: a version up to the current one is written and never rewritten, a request was told the version it wrote, a snapshot and what
  agents lease from it are the envelope of the frozen version.

### Gates

* *Waves and leases.* `SharedInv`: whoever reads or writes a file holds its lock, since a lock is removed only from a process that died; what a process is about to write
  was made from what is on file (`Prepared`), and what it will answer is on file (`AnswerHolds`). Leases of two leaves never overlap as globs (`Apart`), and two globs that
  cover one path do overlap (`CoveredOnce`, position by position, from what `globsOverlap` compares), which is why the paths are disjoint.
* *The Stop hook.* `HookInv`: what a hook read under a lock is what the file says (`ReadUnderLock`), and the n counted blocks of a streak are backed by a counter of n on file, for the same session,
  pipeline and work; blind ones are of an invalid scope (`StreakBacked`). An evicted counter ends the streak, other sessions' counters are written back as read, and a counter past the limit lets the session go.
* *Ledgers, the text.* What a parse knows of a gate is where its lines are (`ParsedAll`). Two texts that differ in a gate's box and evidence parse alike
  line by line (`Alike`), also where the evidence is a line more, so a result written back leaves the text free of errors and changes the state and the evidence
  of that gate and of no other (`WriteKeeps`, `WritesBack`). The parse is a recursive function; its facts are proved by a least counterexample as above.
* *Ledgers, the checkers.* `LedgerInv`: what a checker read under the lock is the ledger, unless the editor saved since (`SameAsRead`), so writing it back loses no result;
  what a task holds as passed was approved and passed (`TasksEarned`). For `AllMetWasVerified`, while no editor comes between: every command of the ledger has its
  task (`HasTasks`), and a gate that is met was found met by a task still to be written (`NewlyMet`), or was written as passed since, or was given up or
  found changed (`Settled`), which bars ALL MET. A task that was not run and was met bars it too.

### What stays with TLC

* Liveness (`AuditSettles`, `ReservationsEnd`, `ExpiredGoes`, `EventsArrive`, `FullWaitReturns`, `ChecksConclude`), which is beyond TLAPS here, as is ENABLED.
* The hypotheses above mark where a property stops being true of the code, not where a proof stopped: `FindAbortCompletes` is the
  counterexample without `NoAborts`, and section 6 describes what happens without `AgentsPrompt`. `KeepsPromise` of smoke audits is false for the reason given.

## 6. Not modelled, and known limits

* *No module*: tool adapters (a call is a function of a child process's output), pages and rendering, reading and listing
  queries, the mapping of errors to responses, cryptographic primitives, prompts, redaction, parsing of TypeScript, remote AI and
  OAuth protocols, gate-lint and the installer (a pass over one text, an edit of one file), build scripts and spikes.
* *Process control* appears as the bound on how long an aborted tool lives; signals and process groups are left out,
  and so are tools that survive their worker.
* One audit at a time in `AuditCore`. `recover` stops at the first audit whose enqueue throws; the others wait for their own wakes.
* The child of an agent that stalled past its lease may enter an audit that has ended, and such an agent may mark a completed
  audit degraded; the run about agents injects no stalls, and the theorems it would break assume `AgentsPrompt`.
* The locks of the budget tables: each transaction is one step, and one that PostgreSQL aborts to break a deadlock is the fault "settle".
* Components side by side in `MCServices` and `MCStores` do not influence each other there: that an evidence row of `ReconFlow` may be deleted by
  `EvidenceRetention` while a retry needs it, or that a policy of `ProjectConfig` is the one `HttpProbe` reads, is not composed.
* Retention leases of workers that stall without bound could postpone a deletion for ever; `MaxFaults` bounds such stalls.
* Of the agents' identities only existence and revocation; severity tables and schemas are single-step validation.
