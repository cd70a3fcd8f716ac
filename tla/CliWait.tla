------------------------------- MODULE CliWait -------------------------------
(***************************************************************************)
(* kase audit start --wait (apps/cli): the client follows the event stream  *)
(* of its audit until an event says that the audit ended, asks again when   *)
(* the stream ends early, and turns the verdict into an exit code. Against  *)
(* it, the ways an audit ends and what each writes to the event log.        *)
(* AuditEvents shows that the stream delivers the log in order.             *)
(***************************************************************************)
EXTENDS Integers, Sequences

CONSTANTS
  Mode,     \* modes of the audit that may be started
  MaxBreaks \* streams closed or broken, workers lost

Ended == {"completed", "partial", "failed", "cancelled"}

VARIABLES
  followed, \* the audit: mode, status, is its cancellation requested
  work,     \* its jobs: running, succeeded or failed, or a smoke success half reported
  log,      \* its audit.status events, other events abstracted
  cli,      \* the client: where it is, its last event id, the status it was told or that it must stop, its exit code
  breaks

cliVars == <<followed, work, log, cli, breaks>>

Running == 0 - 1  \* no exit code yet

CliInit ==
  /\ followed \in [mode : Mode, status : {"queued"}, cancel : {FALSE}]
  /\ work = "running" /\ log = <<>>
  /\ cli = [at |-> "connecting", last |-> 0, told |-> "none", exit |-> Running]
  /\ breaks = 0
-----------------------------------------------------------------------------
(* The audit. *)

Open == followed.status \in {"queued", "running"}
EndAudit(status) == followed' = [followed EXCEPT !.status = status]
Break == breaks < MaxBreaks /\ breaks' = breaks + 1

\* claim, for the first job: status and event in one transaction.
StartAudit ==
  /\ followed.status = "queued" /\ ~followed.cancel /\ work = "running"
  /\ EndAudit("running") /\ log' = Append(log, "running")
  /\ UNCHANGED <<work, cli, breaks>>

\* The last job of the graph settles; a smoke audit has one, which a cancelled claim never starts.
JobsSettle ==
  /\ work = "running" /\ (followed.status = "running" \/ followed.cancel)
  /\ work' \in {"succeeded", "failed"} /\ UNCHANGED <<followed, log, cli, breaks>>

\* finishSettledGraph, also for smoke audits by way of recover: verdict and event in one.
SchedulerEnds ==
  /\ Open /\ work # "running"
  /\ \E status \in IF followed.cancel THEN {"cancelled"}
                   ELSE IF work = "failed" THEN {"partial", "failed"} ELSE {"completed", "partial"} :
       EndAudit(status) /\ log' = Append(log, status)
  /\ UNCHANGED <<work, cli, breaks>>

\* succeed of a smoke job ends the audit, then appends the event ...
SmokeSucceeds ==
  /\ followed.mode = "smoke" /\ Open /\ work = "succeeded" /\ ~followed.cancel
  /\ EndAudit("completed") /\ work' = "reporting" /\ UNCHANGED <<log, cli, breaks>>
SmokeReports ==
  /\ work = "reporting" /\ work' = "reported" /\ log' = Append(log, "completed")
  /\ UNCHANGED <<followed, cli, breaks>>
\* ... unless the worker is lost in between.
WorkerLost ==
  /\ work = "reporting" /\ Break /\ work' = "reported" /\ UNCHANGED <<followed, log, cli>>

\* fail of a smoke job ends it, and appends no audit.status event.
SmokeFails ==
  /\ followed.mode = "smoke" /\ Open /\ work = "failed"
  /\ \E status \in {"failed", "cancelled"} : EndAudit(status)
  /\ UNCHANGED <<work, log, cli, breaks>>
-----------------------------------------------------------------------------
(* waitForAudit and startAudit. *)

Client(changed) == cli' = changed /\ UNCHANGED <<followed, work, log>>
TerminalExit(status) == CASE status = "completed" -> 0 [] status = "partial" -> 2
                          [] status = "failed" -> 5 [] status = "cancelled" -> 130 [] OTHER -> 0
Exit(told, code) == [cli EXCEPT !.at = "done", !.told = told, !.exit = code]

OpenStream == /\ cli.at = "connecting" /\ Client([cli EXCEPT !.at = "streaming"]) /\ UNCHANGED breaks

\* Mutant: the event that ends an audit is not recognised.
OnlyStatusEvent(event) == FALSE
IsTerminal(event) == event \in Ended

NextEvent ==
  /\ cli.at = "streaming" /\ cli.last < Len(log)
  /\ Client([cli EXCEPT !.last = @ + 1, !.at = IF IsTerminal(log[cli.last + 1]) THEN "fetching" ELSE @])
  /\ UNCHANGED breaks

\* The stream ends: the client asks for the audit; or it breaks, which is an error of its own.
StreamEnds == cli.at = "streaming" /\ Break /\ Client([cli EXCEPT !.at = "checking"])
StreamBreaks == cli.at \in {"connecting", "streaming"} /\ Break /\ Client(Exit("none", 5))

\* Mutant: the client stops at the status it reads although the audit goes on.
AnyStatus == TRUE
Over == followed.status \in Ended

Check ==
  /\ cli.at = "checking"
  /\ Client(IF Over THEN Exit(followed.status, TerminalExit(followed.status))
            ELSE [cli EXCEPT !.at = IF cli.told = "stop" THEN "cancelling" ELSE "connecting"])
  /\ UNCHANGED breaks

Fetch == /\ cli.at = "fetching" /\ Client(Exit(followed.status, TerminalExit(followed.status)))
         /\ UNCHANGED breaks

\* SIGINT aborts the stream and the pause after a check, but no question under way.
Interrupt ==
  /\ cli.at \in {"connecting", "streaming", "checking"} /\ cli.told = "none"
  /\ Client(IF cli.at = "checking" THEN [cli EXCEPT !.told = "stop"] ELSE [cli EXCEPT !.at = "cancelling"])
  /\ UNCHANGED breaks

\* The audit is cancelled, or had ended and the API refuses.
RequestCancellation ==
  /\ cli.at = "cancelling"
  /\ IF followed.status \in Ended \ {"cancelled"}
     THEN cli' = Exit("none", 5) /\ UNCHANGED followed
     ELSE cli' = Exit("none", 130) /\ followed' = [followed EXCEPT !.cancel = Open]
  /\ UNCHANGED <<work, log, breaks>>

CliNext ==
  \/ StartAudit \/ JobsSettle \/ SchedulerEnds \/ SmokeSucceeds \/ SmokeReports \/ WorkerLost \/ SmokeFails
  \/ OpenStream \/ NextEvent \/ StreamEnds \/ StreamBreaks \/ Check \/ Fetch \/ Interrupt \/ RequestCancellation

CliSpec == CliInit /\ [][CliNext]_cliVars

\* The client's own steps and those of the stream, which stays open: nothing closes it.
CliStep == OpenStream \/ NextEvent \/ Check \/ Fetch \/ RequestCancellation
-----------------------------------------------------------------------------
\* Documented for --wait: the client exits once its audit ended.
WaitReturns == Over ~> cli.at = "done"

\* What holds of it: an audit that the scheduler ends lets its client go, through
\* streams that end, broken connections, reconnections and cancellations.
FullWaitReturns == (Over /\ followed.mode # "smoke") ~> cli.at = "done"

\* CI reads exit codes: 0 and 2 only for the verdict the audit keeps for good, and
\* 130 only of an audit that is cancelled or will be stopped.
ExitTellsVerdict ==
  /\ cli.exit = 0 => followed.status = "completed"
  /\ cli.exit = 2 => followed.status = "partial"
  /\ cli.exit = 130 => followed.cancel \/ followed.status = "cancelled"
=============================================================================
