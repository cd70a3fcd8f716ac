----------------------------- MODULE AuditPromise -----------------------------
(***************************************************************************)
(* What an audit promises whoever reads it, without queues, leases, attempts *)
(* or processes: jobs start in the order of the graph, work that is blocked  *)
(* or cancelled before it starts never runs, the verdict is drawn once, from *)
(* a settled graph and by the completion policy, and nothing moves after it. *)
(***************************************************************************)
EXTENDS JobGraph

VARIABLES verdict,    \* "open" or the audit's terminal status
          cancelled,  \* whether a user cancelled it
          work        \* work[j]: "absent", "queued", "running" or how j settled

vars == <<verdict, cancelled, work>>

Settled(st) == \A j \in Job : st[j] \in TerminalJob \cup {"absent"}

\* Cancelled audits drop what is not running; others skip what is blocked.
Tidied(st) ==
  IF cancelled
  THEN {[j \in Job |-> IF st[j] = "queued" THEN "cancelled" ELSE st[j]]}
  ELSE {Skip(st, S) : S \in {T \in SUBSET {j \in Job : st[j] = "queued"} : IsCascade(st, T)}}

Init ==
  /\ verdict = "open" /\ cancelled = FALSE
  /\ work \in [Job -> {"absent", "queued"}]

\* An agent calls a tool.
Create(j) == work[j] = "absent" /\ work' = [work EXCEPT ![j] = "queued"]

Start(j) ==
  /\ ~cancelled
  /\ work[j] = "queued" /\ DepsSatisfied(work, j)
  /\ work' = [work EXCEPT ![j] = "running"]

\* A failure worth retrying, a lost worker or an agent that awaits a tool.
Return(j) == work[j] = "running" /\ work' = [work EXCEPT ![j] = "queued"]

Settle(j) ==
  /\ work[j] = "running"
  /\ \E outcome \in TerminalJob \ {"skipped"} : work' = [work EXCEPT ![j] = outcome]

Tidy == work' \in Tidied(work)

Work == Tidy \/ \E j \in Job : Create(j) \/ Start(j) \/ Return(j) \/ Settle(j)

CancelAudit ==
  /\ cancelled' = TRUE
  /\ work' = [j \in Job |-> IF work[j] = "queued" THEN "cancelled" ELSE work[j]]
  /\ UNCHANGED verdict

Conclude ==
  /\ Tidy
  /\ Settled(work')
  /\ \E degraded \in BOOLEAN : verdict' = CompletionStatus(work', cancelled, degraded)
  /\ UNCHANGED cancelled

Next ==
  /\ verdict = "open"
  /\ (Work /\ UNCHANGED <<verdict, cancelled>>) \/ CancelAudit \/ Conclude

Spec == Init /\ [][Next]_vars
=============================================================================
