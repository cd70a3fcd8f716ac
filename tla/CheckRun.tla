------------------------------- MODULE CheckRun -------------------------------
(***************************************************************************)
(* How gate-check.mjs runs the commands of a ledger: a rolling window of    *)
(* jobs, each with a time limit and an output limit, a supervised process   *)
(* group that may refuse to die or leave a descendant on its pipes, and     *)
(* expressions matched in a bounded pool of workers that may hang.          *)
(***************************************************************************)
EXTENDS Integers, Sequences, FiniteSets

CONSTANTS
  Task,   \* 1..n, in the order of the ledger
  Jobs,   \* --jobs
  MaxRegexWorkers

RunAssumption == Jobs \in Nat \ {0} /\ MaxRegexWorkers \in Nat \ {0}

VARIABLES
  task,    \* where each command is, what its process did
  waiters, \* regexWaiters
  active   \* activeRegexWorkers

runVars == <<task, waiters, active>>

\* at: queued, running, awaiting a worker, matching, settled. child: the supervisor with its
\* pipes. ended: how the run was cut short. stopping: stopChild was called. matched: what the worker said.
NewTask == [at |-> "queued", child |-> "none", code |-> 0 - 1, ended |-> "no", stopping |-> FALSE,
            online |-> FALSE, ok |-> FALSE]

RunInit == task = [t \in Task |-> NewTask] /\ waiters = <<>> /\ active = 0

At(phase) == {t \in Task : task[t].at = phase}
Put(t, r) == task' = [task EXCEPT ![t] = r]
Pool == <<waiters, active>>
-----------------------------------------------------------------------------
\* A free job takes the next command; spawn may throw.
Start(t) ==
  /\ task[t].at = "queued" /\ \A u \in Task : u < t => task[u].at # "queued"
  /\ Cardinality(Task \ (At("queued") \cup At("settled"))) < Jobs
  /\ \/ Put(t, [task[t] EXCEPT !.at = "running", !.child = "alive"])
     \/ Put(t, [task[t] EXCEPT !.at = "settled"])
  /\ UNCHANGED Pool

\* The process ends, or could not be started after all; a descendant may keep the pipes open.
ChildExits(t) ==
  /\ task[t].at = "running" /\ task[t].child = "alive"
  /\ \E code \in {0, 1}, child \in {"exited", "closed"} :
       Put(t, [task[t] EXCEPT !.child = child, !.code = code])
  /\ UNCHANGED Pool
SpawnError(t) ==
  /\ task[t].at = "running" /\ task[t].child = "alive" /\ task[t].ended = "no"
  /\ Put(t, [task[t] EXCEPT !.child = "closed", !.ended = "spawn"]) /\ UNCHANGED Pool
PipesClose(t) ==
  /\ task[t].at = "running" /\ task[t].child = "exited"
  /\ Put(t, [task[t] EXCEPT !.child = "closed"]) /\ UNCHANGED Pool

\* terminateProcessTree, which an exited supervisor is spared: a killed group closes its
\* pipes, unless the signal failed or a descendant left the group.
StopChild(r, why) ==
  {[r EXCEPT !.ended = why, !.stopping = TRUE, !.child = child, !.code = code] :
     child \in IF r.child = "alive" THEN {"alive", "exited", "closed"} ELSE {r.child},
     code \in IF r.child = "alive" THEN {0 - 1} ELSE {r.code}}

\* More output than is kept, or the time limit: one of them stops the process.
Overflow(t) ==
  /\ task[t].at = "running" /\ task[t].child # "closed" /\ task[t].ended = "no"
  /\ task' \in {[task EXCEPT ![t] = r] : r \in StopChild(task[t], "overflow")} /\ UNCHANGED Pool
TimeLimit(t) ==
  /\ task[t].at = "running" /\ task[t].ended = "no"
  /\ task' \in {[task EXCEPT ![t] = r] : r \in StopChild(task[t], "timeout")} /\ UNCHANGED Pool

\* settle: nothing is matched for a run that was cut short; a literal text is matched
\* at once, an expression when a worker is free.
Settle(t, code) ==
  LET r == [task[t] EXCEPT !.code = code] IN
  \/ r.ended # "no" /\ Put(t, [r EXCEPT !.at = "settled"]) /\ UNCHANGED Pool
  \/ /\ r.ended = "no" /\ UNCHANGED Pool
     /\ \E matched \in BOOLEAN : Put(t, [r EXCEPT !.at = "settled", !.ok = matched /\ code = 0])
  \/ /\ r.ended = "no" /\ active < MaxRegexWorkers
     /\ Put(t, [r EXCEPT !.at = "matching"]) /\ active' = active + 1 /\ UNCHANGED waiters
  \/ /\ r.ended = "no" /\ active >= MaxRegexWorkers
     /\ Put(t, [r EXCEPT !.at = "awaiting"]) /\ waiters' = Append(waiters, t) /\ UNCHANGED active

Close(t) == task[t].at = "running" /\ task[t].child = "closed" /\ Settle(t, task[t].code)

\* Mutant: only an exited supervisor is given up on.
ForceIfExited(t) == task[t].stopping /\ task[t].at = "running" /\ task[t].child = "exited" /\ Settle(t, 0 - 1)

\* forceSettleTimer: one that was stopped is given up on, whatever holds its pipes.
ForceSettle(t) == task[t].stopping /\ task[t].at = "running" /\ Settle(t, 0 - 1)
-----------------------------------------------------------------------------
(* safeRegexMatch *)

\* releaseRegexWorker: the slot goes to the first waiter, or is free.
ReleaseRegexWorker ==
  IF waiters = <<>> THEN active' = active - 1 /\ UNCHANGED waiters
  ELSE waiters' = Tail(waiters) /\ UNCHANGED active

Online(t) ==
  /\ task[t].at = "matching" /\ ~task[t].online
  /\ Put(t, [task[t] EXCEPT !.online = TRUE]) /\ UNCHANGED Pool

\* finish: the worker answers, fails, exits, cannot be started, or a timer ends it.
Finish(t, ok) ==
  /\ task[t].at = "matching"
  /\ task' = [u \in Task |->
       IF u = t THEN [task[t] EXCEPT !.at = "settled", !.ok = ok /\ task[t].code = 0]
       ELSE IF waiters # <<>> /\ u = Head(waiters) THEN [task[u] EXCEPT !.at = "matching"] ELSE task[u]]
  /\ ReleaseRegexWorker
Answer(t) == task[t].online /\ \E matched \in BOOLEAN : Finish(t, matched)
WorkerFails(t) == Finish(t, FALSE)
StartupLimit(t) == ~task[t].online /\ Finish(t, FALSE)
MatchLimit(t) == task[t].online /\ Finish(t, FALSE)

RunNext == \E t \in Task :
  \/ Start(t) \/ ChildExits(t) \/ SpawnError(t) \/ PipesClose(t) \/ Overflow(t) \/ TimeLimit(t)
  \/ Close(t) \/ ForceSettle(t) \/ Online(t) \/ Answer(t) \/ WorkerFails(t)
  \/ StartupLimit(t) \/ MatchLimit(t)

\* Timers fire and closed pipes are noticed; nothing is asked of commands and workers.
RunSteps(t) == Start(t) \/ TimeLimit(t) \/ ForceSettle(t) \/ Close(t) \/ StartupLimit(t) \/ MatchLimit(t)
RunSpec == RunInit /\ [][RunNext]_runVars /\ \A t \in Task : WF_runVars(RunSteps(t))
-----------------------------------------------------------------------------
\* No more commands run than jobs, no more workers than the pool has, counted as they are,
\* and a command passes only when its process ended with 0 in time and in full.
WithinPools ==
  /\ Cardinality(Task \ (At("queued") \cup At("settled"))) <= Jobs
  /\ active = Cardinality(At("matching")) /\ active <= MaxRegexWorkers
  /\ \A t \in Task : task[t].ok => task[t].code = 0 /\ task[t].ended = "no"

\* Whatever processes, descendants and workers do, every command gets its result.
AllSettle == <>(\A t \in Task : task[t].at = "settled")

ChecksConclude == []WithinPools /\ AllSettle
=============================================================================
