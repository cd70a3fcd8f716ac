----------------------------- MODULE ReconBudget -----------------------------
(***************************************************************************)
(* The request budget of one audit and the lease on its target host: the    *)
(* stages katana_discover and httpx_verify reserve requests, wait for the   *)
(* host, run their tools and settle what they used, while workers crash,    *)
(* time limits fire, leases expire and the scheduler charges what was lost. *)
(* HTTP probes of agents draw on the same budget once recon is over.        *)
(*                                                                         *)
(* reserved, consumed and row are the tables ReconRequestBudget and         *)
(* ReconRequestReservation; host is the Redis key of the host lease. The    *)
(* budget row's lock makes each transaction on them one step. The lifecycle *)
(* of a job (AuditCore) is reduced to what the budget sees of it.           *)
(***************************************************************************)
EXTENDS Integers, FiniteSets

CONSTANTS
  ReconShare,     \* ReconRequestBudget.reconLimit
  AuditRequests,  \* ReconRequestBudget.maxRequests
  MaxRequested,   \* bound on the requests one stage asks for
  MaxAttempt,     \* bound on the attempts of one job
  Faults          \* which faults happen

FaultKinds == {
  "crash",     \* a worker dies, and its tool with it
  "timeout",   \* a job's time limit ends the attempt while its work goes on
  "stall",     \* a worker stalls past its leases and goes on afterwards
  "redis",     \* a Redis call on the host lease fails
  "settle" }   \* the transaction of settle fails

ASSUME BudgetAssumption ==
  /\ ReconShare \in Nat \ {0} /\ AuditRequests \in Nat /\ ReconShare <= AuditRequests
  /\ MaxRequested \in Nat \ {0} /\ MaxAttempt \in Nat \ {0}
  /\ Faults \subseteq FaultKinds

Job == {"discover", "verify"}
ReconStage == {"katana", "httpx", "httpx_redirect"}
StageOf(j) == IF j = "discover" THEN "katana" ELSE "httpx"
Rows(j) == IF j = "discover" THEN {"katana"} ELSE {"httpx", "httpx_redirect"}
AttemptNumber == 1..MaxAttempt

VARIABLES
  reserved, consumed,  \* ReconRequestBudget
  row,                 \* ReconRequestReservation of each stage
  jobState, attempts,  \* AuditJob
  evidence,            \* the stages whose evidence is live
  host, other,         \* who holds the host lease; another audit's recon stage
  work,                \* work[j][a]: the memory of attempt a of job j
  requests                 \* requests sent to the target since the audit began

budgetVars == <<reserved, consumed, row>>
jobVars == <<jobState, attempts, evidence>>
hostVars == <<host, other>>
vars == <<budgetVars, jobVars, hostVars, work, requests>>

\* Positions of an attempt. Between "leased" and "persisting" it renews the host
\* lease; at "running" and "following" its tool sends requests.
Tooling == {"running", "following"}
Leased == Tooling \cup {"leased", "ran", "refused", "persisting"}
Executing == Leased \cup {"started", "granted", "releasing", "settling", "ended"}
StagePosition == Executing \cup {"none", "dead"}

\* held: the requests of the reservation it works with; used: those Katana will
\* report; charge: what settle is called with, 0 until the tool starts.
Unstarted == [pos |-> "none", held |-> 0, used |-> 0, charge |-> 0,
         failed |-> FALSE, aborted |-> FALSE]
StageMemory == [pos : StagePosition, held : Nat, used : Nat, charge : Nat,
           failed : BOOLEAN, aborted : BOOLEAN]

\* The count and the lease of a row matter while it is active.
NoReservation == [status |-> "none", count |-> 0, live |-> FALSE]
Row == [status : {"none", "active", "settled", "reclaimed"}, count : Nat, live : BOOLEAN]

\* Holders of the host lease other than an attempt <<j, a>>.
NoHolder == <<"nobody", 0>>
OtherAudit == <<"other", 0>>

TypeOK ==
  /\ reserved \in Nat /\ consumed \in Nat /\ requests \in Nat
  /\ row \in [ReconStage -> Row]
  /\ jobState \in [Job -> {"queued", "running", "succeeded", "failed"}]
  /\ attempts \in [Job -> 0..MaxAttempt]
  /\ evidence \subseteq Job
  /\ host \in (Job \X AttemptNumber) \cup {NoHolder, OtherAudit}
  /\ other \in {"idle", "running"}
  /\ work \in [Job -> [AttemptNumber -> StageMemory]]

Init ==
  /\ reserved = 0 /\ consumed = 0 /\ requests = 0
  /\ row = [s \in ReconStage |-> NoReservation]
  /\ jobState = [j \in Job |-> "queued"] /\ attempts = [j \in Job |-> 0]
  /\ evidence = {}
  /\ host = NoHolder /\ other = "idle"
  /\ work = [j \in Job |-> [a \in AttemptNumber |-> Unstarted]]

Stands(j, a, pos) == work[j][a].pos = pos
Goto(j, a, pos) == work' = [work EXCEPT ![j][a].pos = pos]
FailTo(j, a, pos) == work' = [work EXCEPT ![j][a] = [@ EXCEPT !.pos = pos, !.failed = TRUE]]
Counted(j, a) == jobState[j] = "running" /\ attempts[j] = a
Active(s) == row[s].status = "active"
Expired(s) == Active(s) /\ ~row[s].live
Smaller(m, n) == IF m < n THEN m ELSE n
-----------------------------------------------------------------------------
(* ReconBudgetService. *)

Available == IF reserved + consumed < ReconShare THEN ReconShare - reserved - consumed ELSE 0

\* Mutant: the limit is compared with what was consumed, not with what is reserved.
GrantUnreserved(s, requested, granted, live) ==
  IF Active(s) /\ row[s].live
  THEN granted = row[s].count /\ UNCHANGED <<reserved, consumed, row>>
  ELSE /\ granted = Smaller(requested, IF consumed < ReconShare THEN ReconShare - consumed ELSE 0)
       /\ LET lost == IF Active(s) THEN row[s].count ELSE 0
          IN  reserved' = reserved - lost + granted /\ consumed' = consumed + lost
       /\ row' = [row EXCEPT ![s] = IF granted > 0
                    THEN [status |-> "active", count |-> granted, live |-> live]
                    ELSE IF Active(s) THEN [NoReservation EXCEPT !.status = "reclaimed"] ELSE @]

\* reserve: the live reservation of the stage if there is one, otherwise what
\* the limit leaves, after an expired reservation was charged in full.
Grant(s, requested, granted, live) ==
  IF Active(s) /\ row[s].live
  THEN granted = row[s].count /\ UNCHANGED <<reserved, consumed, row>>
  ELSE /\ granted = Smaller(requested, Available)
       /\ LET lost == IF Active(s) THEN row[s].count ELSE 0
          IN  reserved' = reserved - lost + granted /\ consumed' = consumed + lost
       /\ row' = [row EXCEPT ![s] = IF granted > 0
                    THEN [status |-> "active", count |-> granted, live |-> live]
                    ELSE IF Active(s) THEN [NoReservation EXCEPT !.status = "reclaimed"] ELSE @]

\* Mutant: the table does not ask whether a row's consumed count fits it.
NeverRefused(s, charge) == FALSE

\* The table's CHECK on consumedCount <= reservedCount: an attempt whose row was
\* granted anew, with less, may not charge more than that.
Refused(s, charge) == Active(s) /\ charge > row[s].count

\* settle: the row's count goes back, the caller's count is charged. It asks
\* whether the row is active, not whose grant it is. A refusal rolls it back.
SettleRow(s, charge) ==
  IF Active(s)
  THEN /\ reserved' = reserved - row[s].count
       /\ consumed' = consumed + charge
       /\ row' = [row EXCEPT ![s] = [NoReservation EXCEPT !.status = "settled"]]
  ELSE UNCHANGED <<reserved, consumed, row>>

CountOf(S, s) == IF s \in S THEN row[s].count ELSE 0
Counts(S) == CountOf(S, "katana") + CountOf(S, "httpx") + CountOf(S, "httpx_redirect")

\* Whatever expired is charged in full.
Reclaim(S) ==
  /\ reserved' = reserved - Counts(S)
  /\ consumed' = consumed + Counts(S)
  /\ row' = [s \in ReconStage |-> IF s \in S THEN [NoReservation EXCEPT !.status = "reclaimed"] ELSE row[s]]

ExpiredRows == {s \in ReconStage : Expired(s)}

\* Mutant: reservations of running jobs are left to recovery.
ReclaimOfSettledJobs ==
  /\ ExpiredRows # {}
  /\ \A j \in Job : jobState[j] # "running"
  /\ Reclaim(ExpiredRows)
  /\ UNCHANGED <<jobVars, hostVars, work, requests>>

\* reclaimExpired, the first thing recover does.
ReclaimExpired ==
  /\ ExpiredRows # {}
  /\ Reclaim(ExpiredRows)
  /\ UNCHANGED <<jobVars, hostVars, work, requests>>

\* renewForJob, called while the attempt still owns its job.
Renews(j) == \E a \in AttemptNumber : Counted(j, a) /\ work[j][a].pos \in Executing \ {"ended"}

RenewForJob(j) ==
  /\ Renews(j)
  /\ \E s \in Rows(j) : Expired(s)
  /\ row' = [s \in ReconStage |-> IF s \in Rows(j) /\ Active(s) THEN [row[s] EXCEPT !.live = TRUE] ELSE row[s]]
  /\ UNCHANGED <<reserved, consumed, jobVars, hostVars, work, requests>>

\* Time passes beyond leaseExpiresAt: nobody renews, or who does is stalled.
RowExpires(s) ==
  /\ Active(s) /\ row[s].live
  /\ "stall" \in Faults \/ \A j \in Job : s \in Rows(j) => ~Renews(j)
  /\ row' = [row EXCEPT ![s].live = FALSE]
  /\ UNCHANGED <<reserved, consumed, jobVars, hostVars, work, requests>>
-----------------------------------------------------------------------------
(* HostRateLeaseService. Another audit's stage contends for the host. *)

Acquire(j, a) ==
  /\ Stands(j, a, "granted") /\ ~work[j][a].aborted
  /\ host = NoHolder
  /\ host' = <<j, a>>
  /\ Goto(j, a, "leased")
  /\ UNCHANGED <<budgetVars, jobVars, other, requests>>

\* The signal aborted, or the host stayed taken for a minute.
AcquireFails(j, a) ==
  /\ Stands(j, a, "granted")
  /\ FailTo(j, a, "settling")
  /\ UNCHANGED <<budgetVars, jobVars, hostVars, requests>>

\* A renewal that fails aborts the stage's signal. The key has most of its
\* minute left then, and the tool is killed within 35 seconds.
RenewalFails(j, a) ==
  /\ "redis" \in Faults
  /\ work[j][a].pos \in Leased /\ ~work[j][a].aborted
  /\ work' = [work EXCEPT ![j][a].aborted = TRUE]
  /\ UNCHANGED <<budgetVars, jobVars, hostVars, requests>>

\* Mutant: release deletes the key whoever holds it.
ReleaseWhoever(j, a) ==
  /\ Stands(j, a, "releasing")
  /\ host' = NoHolder /\ Goto(j, a, "settling")
  /\ UNCHANGED <<budgetVars, jobVars, other, requests>>

\* release compares the token. The stage settles even if Redis fails it.
Release(j, a) ==
  /\ Stands(j, a, "releasing")
  /\ \/ host' = (IF host = <<j, a>> THEN NoHolder ELSE host) /\ Goto(j, a, "settling")
     \/ "redis" \in Faults /\ UNCHANGED host /\ FailTo(j, a, "settling")
  /\ UNCHANGED <<budgetVars, jobVars, other, requests>>

\* The key outlives any tool its holder runs, by the times above.
KeyExpires ==
  /\ host # NoHolder
  /\ host = OtherAudit => other = "idle"
  /\ "stall" \in Faults \/ \A j \in Job, a \in AttemptNumber :
       host = <<j, a>> => /\ work[j][a].pos \notin Tooling
                          /\ work[j][a].pos \in Leased => work[j][a].aborted
  /\ host' = NoHolder
  /\ UNCHANGED <<budgetVars, jobVars, other, work, requests>>

OtherAcquires ==
  /\ host = NoHolder /\ other = "idle"
  /\ host' = OtherAudit /\ other' = "running"
  /\ UNCHANGED <<budgetVars, jobVars, work, requests>>

\* Its stage ends and releases the key, or its worker dies.
OtherEnds ==
  /\ other = "running" /\ other' = "idle"
  /\ \/ host' = (IF host = OtherAudit THEN NoHolder ELSE host)
     \/ "crash" \in Faults /\ UNCHANGED host
  /\ UNCHANGED <<budgetVars, jobVars, work, requests>>
-----------------------------------------------------------------------------
(* discover and verify of the pipeline consumer. *)

ClaimRecon(j) ==
  /\ jobState[j] = "queued" /\ attempts[j] < MaxAttempt
  /\ j = "verify" => jobState["discover"] = "succeeded"
  /\ jobState' = [jobState EXCEPT ![j] = "running"]
  /\ attempts' = [attempts EXCEPT ![j] = @ + 1]
  /\ work' = [work EXCEPT ![j][attempts[j] + 1] = [Unstarted EXCEPT !.pos = "started"]]
  /\ UNCHANGED <<budgetVars, evidence, hostVars, requests>>

\* An earlier attempt left its evidence: nothing is sent again.
EvidenceIsLive(j, a) ==
  /\ Stands(j, a, "started") /\ j \in evidence
  /\ Goto(j, a, "ended")
  /\ UNCHANGED <<budgetVars, jobVars, hostVars, requests>>

\* A verify without candidates, which reserves and sends nothing, is left out.
Reserve(j, a) ==
  /\ Stands(j, a, "started") /\ j \notin evidence
  /\ \E requested \in 1..MaxRequested, granted \in 0..ReconShare :
       /\ Grant(StageOf(j), requested, granted, TRUE)
       /\ IF granted = 0
          THEN FailTo(j, a, "ended")
          ELSE work' = [work EXCEPT ![j][a] = [@ EXCEPT !.pos = "granted", !.held = granted]]
  /\ UNCHANGED <<jobVars, hostVars, requests>>

\* The tool starts; it will send at most what was granted. Until its report is
\* known the whole grant is what the stage would settle with.
StartTool(j, a) ==
  /\ Stands(j, a, "leased") /\ ~work[j][a].aborted
  /\ \E n \in 0..work[j][a].held :
       /\ requests' = requests + n
       /\ work' = [work EXCEPT ![j][a] = [@ EXCEPT
                    !.pos = "running", !.held = 0, !.charge = work[j][a].held,
                    !.used = IF j = "discover" THEN n ELSE 0]]
  /\ UNCHANGED <<budgetVars, jobVars, hostVars>>

\* Katana reports its requests. httpx is charged for every candidate, sent or not.
ToolSucceeds(j, a) ==
  /\ Stands(j, a, "running")
  /\ IF j = "discover"
     THEN work' = [work EXCEPT ![j][a] = [@ EXCEPT
                 !.pos = "persisting", !.charge = work[j][a].used, !.used = 0]]
     ELSE Goto(j, a, "ran")
  /\ UNCHANGED <<budgetVars, jobVars, hostVars, requests>>

\* The event before the tool, the tool or what follows it throws.
StageFails(j, a) ==
  /\ work[j][a].pos \in Leased \ {"following", "refused"}
  /\ FailTo(j, a, "releasing")
  /\ UNCHANGED <<budgetVars, jobVars, hostVars, requests>>

\* The redirects of httpx get a reservation of their own, under the lease time
\* that was read when the job was claimed. An aborted run sends nothing.
FollowRedirects(j, a) ==
  /\ Stands(j, a, "ran") /\ j = "verify"
  /\ \E redirects \in 1..MaxRequested, granted \in 0..ReconShare, live \in BOOLEAN :
       LET follow == Smaller(redirects, granted)
           pos == IF follow = 0 THEN "persisting"
                  ELSE IF work[j][a].aborted THEN "refused" ELSE "following"
       IN  /\ Grant("httpx_redirect", redirects, granted, live)
           /\ work' = [work EXCEPT ![j][a] = [@ EXCEPT !.pos = pos, !.held = follow]]
           /\ \E n \in 0..follow : (pos = "following" \/ n = 0) /\ requests' = requests + n
  /\ UNCHANGED <<jobVars, hostVars>>

NoRedirects(j, a) ==
  /\ Stands(j, a, "ran") /\ Goto(j, a, "persisting")
  /\ UNCHANGED <<budgetVars, jobVars, hostVars, requests>>

\* Well or not, the redirects are settled with as many as were followed.
RedirectsEnd(j, a) ==
  /\ work[j][a].pos \in {"following", "refused"}
  /\ (Stands(j, a, "following") /\ Goto(j, a, "persisting")) \/ FailTo(j, a, "releasing")
  /\ ~Refused("httpx_redirect", work[j][a].held)
  /\ SettleRow("httpx_redirect", work[j][a].held)
  /\ UNCHANGED <<jobVars, hostVars, requests>>

RedirectsUnsettled(j, a) ==
  /\ work[j][a].pos \in {"following", "refused"}
  /\ "settle" \in Faults \/ Refused("httpx_redirect", work[j][a].held)
  /\ FailTo(j, a, "releasing")
  /\ UNCHANGED <<budgetVars, jobVars, hostVars, requests>>

\* persist writes only for the attempt that owns the job.
Persist(j, a) ==
  /\ Stands(j, a, "persisting") /\ ~work[j][a].aborted /\ Counted(j, a)
  /\ evidence' = evidence \cup {j}
  /\ Goto(j, a, "releasing")
  /\ UNCHANGED <<budgetVars, jobState, attempts, hostVars, requests>>

Settle(j, a) ==
  /\ Stands(j, a, "settling") /\ ~Refused(StageOf(j), work[j][a].charge)
  /\ SettleRow(StageOf(j), work[j][a].charge)
  /\ Goto(j, a, "ended")
  /\ UNCHANGED <<jobVars, hostVars, requests>>

SettleFails(j, a) ==
  /\ Stands(j, a, "settling")
  /\ "settle" \in Faults \/ Refused(StageOf(j), work[j][a].charge)
  /\ FailTo(j, a, "ended")
  /\ UNCHANGED <<budgetVars, jobVars, hostVars, requests>>

\* succeed and fail, which do nothing for an attempt the row no longer counts.
\* A failure is retried or final.
End(j, a) ==
  /\ Stands(j, a, "ended")
  /\ work' = [work EXCEPT ![j][a] = Unstarted]
  /\ IF ~Counted(j, a) THEN UNCHANGED jobState
     ELSE IF work[j][a].failed
     THEN \E state \in {"queued", "failed"} : jobState' = [jobState EXCEPT ![j] = state]
     ELSE jobState' = [jobState EXCEPT ![j] = "succeeded"]
  /\ UNCHANGED <<budgetVars, attempts, evidence, hostVars, requests>>
-----------------------------------------------------------------------------
(* What ends an attempt from outside. *)

\* A cancellation, or a heartbeat that found the lease lost.
Abort(j, a) ==
  /\ work[j][a].pos \in Executing /\ ~work[j][a].aborted
  /\ work' = [work EXCEPT ![j][a].aborted = TRUE]
  /\ UNCHANGED <<budgetVars, jobVars, hostVars, requests>>

\* withJobTimeout rejects, so fail decides the attempt; its work is told to
\* stop and unwinds on its own.
TimeLimit(j, a) ==
  /\ "timeout" \in Faults
  /\ work[j][a].pos \in Executing \ {"ended"} /\ Counted(j, a)
  /\ work' = [work EXCEPT ![j][a].aborted = TRUE]
  /\ \E state \in {"queued", "failed"} : jobState' = [jobState EXCEPT ![j] = state]
  /\ UNCHANGED <<budgetVars, attempts, evidence, hostVars, requests>>

WorkerCrash(j, a) ==
  /\ "crash" \in Faults
  /\ work[j][a].pos \in Executing
  /\ work' = [work EXCEPT ![j][a] = [Unstarted EXCEPT !.pos = "dead"]]
  /\ UNCHANGED <<budgetVars, jobVars, hostVars, requests>>

\* Mutant: the job is recovered and its reservation left to a later pass.
RecoverJobFirst(j) ==
  /\ jobState[j] = "running"
  /\ work[j][attempts[j]].pos \in {"dead", "none"}
  /\ \E state \in {"queued", "failed"} : jobState' = [jobState EXCEPT ![j] = state]
  /\ UNCHANGED <<budgetVars, attempts, evidence, hostVars, work, requests>>

\* recover: what expired is reclaimed first, then the job whose lease expired is
\* queued again or failed. One callback renews the job and its rows for the same
\* time, so that a job's lease does not expire before its rows.
RecoverJob(j) ==
  /\ jobState[j] = "running"
  /\ "stall" \in Faults \/ work[j][attempts[j]].pos \in {"dead", "none"}
  /\ \A s \in Rows(j) : ~row[s].live
  /\ Reclaim(ExpiredRows)
  /\ \E state \in {"queued", "failed"} : jobState' = [jobState EXCEPT ![j] = state]
  /\ UNCHANGED <<attempts, evidence, hostVars, work, requests>>

\* The budget table's CHECK: reserved and consumed fit reconLimit.
BudgetFits == consumed + reserved < ReconShare

\* reserveRequest of the HTTP consumer, whose jobs agents create after recon. It
\* asks for room under maxRequests, and the table refuses what does not fit it.
ProbeRequest ==
  /\ \A j \in Job : jobState[j] = "succeeded"
  /\ consumed + reserved < AuditRequests /\ BudgetFits
  /\ consumed' = consumed + 1 /\ requests' = requests + 1
  /\ UNCHANGED <<reserved, row, jobVars, hostVars, work>>
-----------------------------------------------------------------------------
\* What attempt a does next, the world outside permitting.
Progress(j, a) ==
  \/ EvidenceIsLive(j, a) \/ Reserve(j, a)
  \/ Acquire(j, a) \/ AcquireFails(j, a)
  \/ StartTool(j, a) \/ ToolSucceeds(j, a) \/ StageFails(j, a)
  \/ FollowRedirects(j, a) \/ NoRedirects(j, a)
  \/ RedirectsEnd(j, a) \/ RedirectsUnsettled(j, a) \/ Persist(j, a)
  \/ Release(j, a) \/ Settle(j, a) \/ SettleFails(j, a) \/ End(j, a)

Disturbance(j, a) ==
  Abort(j, a) \/ TimeLimit(j, a) \/ WorkerCrash(j, a) \/ RenewalFails(j, a)

Scheduler == ReclaimExpired \/ \E j \in Job : RecoverJob(j) \/ ClaimRecon(j)

Clock == KeyExpires \/ \E s \in ReconStage : RowExpires(s)

Next ==
  \/ Scheduler \/ Clock \/ ProbeRequest \/ OtherAcquires \/ OtherEnds
  \/ \E j \in Job : RenewForJob(j) \/ \E a \in AttemptNumber : Progress(j, a) \/ Disturbance(j, a)

Spec == Init /\ [][Next]_vars

\* recover runs every 30 seconds, time passes, and attempts come to their end.
FairSpec ==
  /\ Spec
  /\ WF_vars(ReclaimExpired)
  /\ \A s \in ReconStage : WF_vars(RowExpires(s))
  /\ \A j \in Job : \A a \in AttemptNumber : WF_vars(Progress(j, a))
-----------------------------------------------------------------------------
(* Properties. *)

\* The two tables agree: what the budget calls reserved is what the active
\* reservations hold, whoever settles, renews, reclaims or replaces them and in
\* whatever order.
BudgetBalanced == reserved = Counts({s \in ReconStage : Active(s)})

\* What is committed stays within recon's share of the audit's requests, whoever
\* reserves again, settles late or is charged for what was lost: a settlement that
\* would move more than its row holds is refused by the row's CHECK, and a grant or a
\* charge never needs the budget's.
WithinLimit == reserved + consumed <= ReconShare

\* "lost allocations are charged fail-closed": no request reaches the target
\* that is neither charged nor held by an active reservation, whatever a crashed
\* worker may have sent before it died.
RequestsCharged == requests <= consumed + reserved

\* One tool at a time sends requests to the host, across audits, although leases
\* are lost and expire between the runs.
Senders == {w \in Job \X AttemptNumber : work[w[1]][w[2]].pos \in Tooling}
OneToolPerHost ==
  /\ Cardinality(Senders) <= 1
  /\ other = "running" => Senders = {}

\* No reservation stays active for ever: its stage settles it or it is charged.
ReservationsEnd == \A s \in ReconStage : Active(s) ~> ~Active(s)
=============================================================================
