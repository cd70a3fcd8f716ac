------------------------------ MODULE AgentLoop ------------------------------
(***************************************************************************)
(* The turn loop of the two agents of one audit (agent-loop.service) over   *)
(* their common budget (AiBudget) and their durable transcripts: a model    *)
(* call is reserved, made and settled, its answer and then its tool's       *)
(* result are appended and checkpointed. Workers crash anywhere, providers  *)
(* fail, users cancel, and a worker that stalls past its lease goes on      *)
(* beside its successor. Tools that run as jobs of their own are in         *)
(* AuditCore; here a tool answers or fails at once.                         *)
(***************************************************************************)
EXTENDS AiBudget, Sequences

CONSTANTS
  Size,          \* tokens a call may reserve: its messages in bytes and the output limit
  ModelLimit,    \* modelContextLimit, in the same unit
  MaxTurn,       \* budgetMaxCalls, which also bounds the turns of a role
  ContextLimit,  \* contextBytesLimit; an excerpt of source is one unit
  MaxRetries,    \* MAX_RETRIES of retry-strategy
  MaxAttempt,    \* the allowance of each agent's job
  Faults,        \* which faults strike which role; only the audit is cancelled
  Replies,       \* what the provider may answer each role, to bound the instances
  Missing        \* no run, no transcript, no result

FaultKinds == {
  "crash",   \* a worker dies
  "stall",   \* a worker loses its lease and goes on
  "settle",  \* the transaction of settle fails
  "cancel"}  \* the user cancels the audit

ASSUME LoopAssumption ==
  /\ Size \subseteq Nat \ {0} /\ ModelLimit \in Nat /\ MaxTurn \in Nat /\ ContextLimit \in Nat
  /\ MaxRetries \in Nat /\ MaxAttempt \in [Role -> Nat] /\ Faults \subseteq FaultKinds \X Scope

Attempt == UNION {1..MaxAttempt[r] : r \in Role}

\* Tools by how the loop treats them: source excerpts count against the context
\* budget, effect stands for findings, checks and blocked categories.
Tool == {"source", "effect", "finish"}
Exploratory == {"source"}
Result == {"ok", "failed"}

\* Messages of a transcript after the opening ones.
Answer == [kind : {"assistant"}, tool : Tool \cup {"none"}]
Message == Answer \cup [kind : {"result"}, tool : Tool, outcome : Result]

\* What a provider's stream comes to: a tool call, text, a refusal or truncation,
\* several calls at once, status 429 or above 499, or another failure, to which a
\* client's time-out and an answer without usage belong. Only a completed answer
\* reports usage.
Reply == Tool \cup {"text", "refusal", "parallel", "overloaded", "failed"}
ASSUME ReplyAssumption == Replies \in [Role -> SUBSET Reply]
HasUsage(reply) == reply \notin {"overloaded", "failed"}
Retryable(reply) == reply = "overloaded"

VARIABLES
  job, attempts,      \* AuditJob of each agent: status and claims
  run,                \* AgentRun.status
  transcript, turn,   \* the transcript currentTranscriptId names, nextTurnSequence
  nextCall,           \* nextCallSequence
  invocation,         \* AgentToolInvocation.result of each turn's tool
  context,            \* contextBytesConsumed
  work,               \* work[r][a]: the memory of attempt a
  sent                \* tokens each call really cost: what the provider bills

runVars == <<job, attempts, run, transcript, turn, nextCall, invocation, context>>
vars == <<ledgerVars, runVars, work, sent>>

Position == {"none", "begin", "recover", "loop", "tool", "store", "answer", "call", "reserved",
             "replied", "judge", "spoken", "complete", "end", "error", "dead"}
Idle == [at |-> "none", fresh |-> FALSE, pending |-> {}, msgs |-> <<>>, turn |-> 0,
         level |-> 0, outcome |-> "ok", call |-> 0, retry |-> 0, reply |-> "text",
         permanent |-> FALSE]
Memory == [at : Position, fresh : BOOLEAN, pending : SUBSET Call, msgs : Seq(Message),
           turn : Nat, level : Level, outcome : Result, call : 0..MaxCall,
           retry : Nat, reply : Reply, permanent : BOOLEAN]
Turn == -1..MaxTurn - 1
Invocation == [tool : Tool, result : Result]

TypeOK ==
  /\ LedgerTypeOK
  /\ job \in [Role -> {"queued", "running", "succeeded", "failed"}]
  /\ attempts \in [Role -> Nat] /\ \A r \in Role : attempts[r] <= MaxAttempt[r]
  /\ run \in [Role -> {Missing, "running", "completed", "budget_exhausted", "failed"}]
  /\ DOMAIN transcript = Role
  /\ \A r \in Role : transcript[r] = Missing \/ transcript[r] \in Seq(Message)
  /\ turn \in [Role -> Nat] /\ nextCall \in [Role -> 0..MaxCall] /\ context \in Nat
  /\ invocation \in [Role -> [Turn -> Invocation \cup {Missing}]]
  /\ work \in [Role -> [Attempt -> Memory]]
  /\ sent \in [Role -> [Call -> Nat]]

Init ==
  /\ LedgerInit
  /\ job = [r \in Role |-> "queued"] /\ attempts = [r \in Role |-> 0]
  /\ run = [r \in Role |-> Missing]
  /\ transcript = [r \in Role |-> Missing] /\ turn = [r \in Role |-> 0]
  /\ nextCall = [r \in Role |-> 0] /\ context = 0
  /\ invocation = [r \in Role |-> [t \in Turn |-> Missing]]
  /\ work = [r \in Role |-> [a \in Attempt |-> Idle]]
  /\ sent = [r \in Role |-> [c \in Call |-> 0]]

At(r, a, pos) == work[r][a].at = pos
Goto(r, a, pos) == work' = [work EXCEPT ![r][a].at = pos]
Update(r, a, memory) == work' = [work EXCEPT ![r][a] = memory]
Busy(r, a) == work[r][a].at \notin {"none", "dead"}
\* What an attempt remembers is dropped where nothing reads it again.
Leave(r, a) == Update(r, a, [Idle EXCEPT !.at = "dead"])
End(r, a) == Update(r, a, [Idle EXCEPT !.at = "end"])
Throw(r, a, permanent) == Update(r, a, [Idle EXCEPT !.at = "error", !.permanent = permanent])
Current(r, a) == job[r] = "running" /\ attempts[r] = a
-----------------------------------------------------------------------------
(* The job around the loop, as AuditCore details it. *)

Claim(r) ==
  /\ job[r] = "queued" /\ attempts[r] < MaxAttempt[r] /\ ~cancelled
  /\ job' = [job EXCEPT ![r] = "running"]
  /\ attempts' = [attempts EXCEPT ![r] = @ + 1]
  /\ Update(r, attempts[r] + 1, [Idle EXCEPT !.at = "begin"])
  /\ UNCHANGED <<ledgerVars, run, transcript, turn, nextCall, invocation, context, sent>>

Requeued(r) == IF attempts[r] < MaxAttempt[r] /\ ~cancelled THEN "queued" ELSE "failed"

\* The lease of an attempt expires: its worker died, or stalls and goes on later.
RecoverJob(r) ==
  /\ job[r] = "running"
  /\ At(r, attempts[r], "dead") \/ <<"stall", r>> \in Faults
  /\ job' = [job EXCEPT ![r] = Requeued(r)]
  /\ UNCHANGED <<ledgerVars, attempts, run, transcript, turn, nextCall, invocation, context, work, sent>>

Cancel ==
  /\ <<"cancel", Total>> \in Faults /\ ~cancelled
  /\ cancelled' = TRUE
  /\ job' = [r \in Role |-> IF job[r] = "queued" THEN "failed" ELSE job[r]]
  /\ UNCHANGED <<ledger, row, level, degraded, attempts, run, transcript, turn, nextCall,
                 invocation, context, work, sent>>

Crash(r, a) ==
  /\ <<"crash", r>> \in Faults /\ Busy(r, a) /\ Leave(r, a)
  /\ UNCHANGED <<ledgerVars, runVars, sent>>

\* succeed, which asks whether the job is still this attempt's.
Succeed(r, a) ==
  /\ At(r, a, "end") /\ Leave(r, a)
  /\ job' = IF Current(r, a) THEN [job EXCEPT ![r] = "succeeded"] ELSE job
  /\ UNCHANGED <<ledgerVars, attempts, run, transcript, turn, nextCall, invocation, context, sent>>

\* fail, and the run marked failed when the job is, whoever failed it.
Fail(r, a) ==
  /\ At(r, a, "error") /\ Leave(r, a)
  /\ job' = IF ~Current(r, a) THEN job
            ELSE [job EXCEPT ![r] = IF work[r][a].permanent THEN "failed" ELSE Requeued(r)]
  /\ run' = IF job'[r] = "failed" THEN [run EXCEPT ![r] = "failed"] ELSE run
  /\ UNCHANGED <<ledgerVars, attempts, transcript, turn, nextCall, invocation, context, sent>>
-----------------------------------------------------------------------------
(* Resuming. *)

Begin(r, a) ==
  /\ At(r, a, "begin")
  /\ IF run[r] = "completed"
     THEN End(r, a) /\ UNCHANGED run
     ELSE /\ run' = IF run[r] = Missing THEN [run EXCEPT ![r] = "running"] ELSE run
          /\ Update(r, a, [work[r][a] EXCEPT !.at = "recover", !.pending = ActiveRows(r),
                                             !.fresh = transcript[r] = Missing])
  /\ UNCHANGED <<ledgerVars, job, attempts, transcript, turn, nextCall, invocation, context, sent>>

\* recoverRun: what an earlier attempt reserved and did not settle is charged in full.
RecoverRun(r, a) ==
  /\ At(r, a, "recover")
  /\ \E c \in work[r][a].pending :
       /\ ExpireReservation(r, c)
       /\ Update(r, a, [work[r][a] EXCEPT !.pending = @ \ {c}])
  /\ UNCHANGED <<runVars, sent>>

\* Mutant: every attempt opens a transcript of its own.
LoadAnew(r) == <<>>
LoadMessages(r) == IF transcript[r] = Missing THEN <<>> ELSE transcript[r]

\* The transcript is loaded; a run that had none gets its first checkpoint.
Load(r, a) ==
  /\ At(r, a, "recover") /\ work[r][a].pending = {}
  /\ LET msgs == LoadMessages(r)
     IN  /\ Update(r, a, [Idle EXCEPT !.at = "loop", !.msgs = msgs])
         /\ IF work[r][a].fresh
            THEN transcript' = [transcript EXCEPT ![r] = msgs] /\ turn' = [turn EXCEPT ![r] = 0]
            ELSE UNCHANGED <<transcript, turn>>
  /\ UNCHANGED <<ledgerVars, job, attempts, run, nextCall, invocation, context, sent>>

\* degrade: the audit is marked, the run ends as reason says.
Degrade(r, reason) ==
  /\ degraded' = TRUE
  /\ run' = [run EXCEPT ![r] = reason]
  /\ UNCHANGED <<ledger, row, level, cancelled>>

Last(msgs) == msgs[Len(msgs)]
PendingTool(msgs) ==
  msgs # <<>> /\ Last(msgs).kind = "assistant" /\ Last(msgs).tool # "none"
Acknowledged(r, msgs) ==
  /\ msgs # <<>> /\ Last(msgs).kind = "result" /\ Last(msgs).tool = "finish"
  /\ turn[r] - 1 \in Turn /\ invocation[r][turn[r] - 1] # Missing
  /\ invocation[r][turn[r] - 1].result = "ok"

\* The head of the loop: what the last message asks for, under the budget as it
\* is now; a finish that was acknowledged before a crash completes the run.
LoopTurn(r, a) ==
  /\ At(r, a, "loop")
  /\ LET msgs == work[r][a].msgs
         memory == [Idle EXCEPT !.msgs = msgs, !.turn = turn[r]]
     IN  \/ /\ cancelled
            /\ Throw(r, a, TRUE)
            /\ UNCHANGED <<ledgerVars, run>>
         \/ /\ ~cancelled /\ Acknowledged(r, msgs)
            /\ Update(r, a, [Idle EXCEPT !.at = "complete"])
            /\ UNCHANGED <<ledgerVars, run>>
         \/ /\ ~cancelled /\ PendingTool(msgs)
            /\ Update(r, a, [memory EXCEPT !.at = "tool", !.level = level])
            /\ UNCHANGED <<ledgerVars, run>>
         \/ /\ ~cancelled /\ ~PendingTool(msgs) /\ ~Acknowledged(r, msgs)
            /\ level = Exceeded \/ turn[r] >= MaxTurn
            /\ End(r, a)
            /\ Degrade(r, "budget_exhausted")
         \/ /\ ~cancelled /\ ~PendingTool(msgs) /\ ~Acknowledged(r, msgs)
            /\ level # Exceeded /\ turn[r] < MaxTurn
            /\ Update(r, a, [memory EXCEPT !.at = "call"])
            /\ UNCHANGED <<ledgerVars, run>>
  /\ UNCHANGED <<job, attempts, transcript, turn, nextCall, invocation, context, sent>>
-----------------------------------------------------------------------------
(* A tool. *)

ToolOf(r, a) == Last(work[r][a].msgs).tool
Stored(r, a) == invocation[r][work[r][a].turn - 1]

\* execute, unless an earlier attempt stored the result or the budget refuses. A
\* blocked category and too many invalid calls degrade the audit.
ExecuteTool(r, a) ==
  /\ At(r, a, "tool")
  /\ \E result \in Result :
       /\ Update(r, a, [work[r][a] EXCEPT !.at = "store", !.level = 0, !.outcome = result])
       /\ \/ /\ Stored(r, a) # Missing /\ result = Stored(r, a).result
             /\ UNCHANGED <<degraded, run>>
          \/ /\ Stored(r, a) = Missing
             /\ cancelled \/ (work[r][a].level >= Red /\ ToolOf(r, a) \in Exploratory)
                  => result = "failed"
             /\ UNCHANGED <<degraded, run>>
          \/ /\ Stored(r, a) = Missing /\ ToolOf(r, a) = "effect" /\ ~cancelled
             /\ degraded' = TRUE
             /\ run' = IF result = "failed" THEN [run EXCEPT ![r] = "failed"] ELSE run
  /\ UNCHANGED <<ledger, row, level, cancelled, job, attempts, transcript, turn, nextCall,
                 invocation, context, sent>>

NewExcerpt(r, a) ==
  Stored(r, a) = Missing /\ ToolOf(r, a) = "source" /\ work[r][a].outcome = "ok"

\* The result is stored, and a new excerpt of source charged to the context budget.
StoreResult(r, a) ==
  /\ At(r, a, "store")
  /\ LET excerpt == NewExcerpt(r, a)
         fits == context + 1 <= ContextLimit
         result == IF excerpt /\ ~fits THEN "failed" ELSE work[r][a].outcome
     IN  /\ context' = IF excerpt /\ fits THEN context + 1 ELSE context
         /\ degraded' = (degraded \/ (excerpt /\ ~fits))
         /\ invocation' = [invocation EXCEPT ![r][work[r][a].turn - 1] =
                             [tool |-> ToolOf(r, a), result |-> result]]
         /\ Update(r, a, [work[r][a] EXCEPT !.at = "answer", !.outcome = result])
  /\ UNCHANGED <<ledger, row, level, cancelled, job, attempts, run, transcript, turn, nextCall, sent>>

\* Append a message and checkpoint: the transcript and the next turn in one transaction.
Checkpoint(r, a, message, next, pos) ==
  LET msgs == Append(work[r][a].msgs, message)
  IN  /\ transcript' = [transcript EXCEPT ![r] = msgs]
      /\ turn' = [turn EXCEPT ![r] = next]
      /\ Update(r, a, IF pos = "loop" THEN [Idle EXCEPT !.at = pos, !.msgs = msgs]
                                     ELSE [Idle EXCEPT !.at = pos])

AnswerTool(r, a) ==
  /\ At(r, a, "answer")
  /\ Checkpoint(r, a, [kind |-> "result", tool |-> ToolOf(r, a), outcome |-> work[r][a].outcome],
                work[r][a].turn,
                IF ToolOf(r, a) = "finish" /\ work[r][a].outcome = "ok" THEN "complete" ELSE "loop")
  /\ run' = [run EXCEPT ![r] = "running"]
  /\ UNCHANGED <<ledgerVars, job, attempts, nextCall, invocation, context, sent>>

\* complete: only an agent that covered its categories, none of them blocked.
Complete(r, a) ==
  /\ At(r, a, "complete") /\ End(r, a)
  /\ \/ run' = [run EXCEPT ![r] = "completed"] /\ UNCHANGED ledgerVars
     \/ Degrade(r, "failed")
  /\ UNCHANGED <<job, attempts, transcript, turn, nextCall, invocation, context, sent>>
-----------------------------------------------------------------------------
(* A model call. *)

\* The call takes its number, which no other call gets, and is reserved.
ReserveCall(r, a) ==
  /\ At(r, a, "call") /\ nextCall[r] < MaxCall
  /\ nextCall' = [nextCall EXCEPT ![r] = @ + 1]
  /\ \E size \in Size :
       \/ /\ size > ModelLimit
          /\ End(r, a) /\ Degrade(r, "failed")
       \/ /\ size <= ModelLimit
          /\ Reserve(r, nextCall'[r], size)
          /\ IF Allowed(r, nextCall'[r], size)
             THEN /\ Update(r, a, [work[r][a] EXCEPT !.at = "reserved", !.call = nextCall'[r]])
                  /\ UNCHANGED run
             ELSE End(r, a) /\ run' = [run EXCEPT ![r] = "budget_exhausted"]
  /\ UNCHANGED <<job, attempts, transcript, turn, invocation, context, sent>>

\* What the call was reserved for; a row that was expired meanwhile was charged it.
CallSize(r, a) ==
  LET c == work[r][a].call
  IN  IF row[r][c].status = "active" THEN row[r][c].size ELSE row[r][c].charge

\* The provider is asked and bills what it worked, at most what was reserved, and
\* at worst all of it when no usage is reported.
AskProvider(r, a) ==
  /\ At(r, a, "reserved")
  /\ \E reply \in Replies[r], cost \in 1..CallSize(r, a) :
       /\ ~HasUsage(reply) => cost = CallSize(r, a)
       /\ Update(r, a, [work[r][a] EXCEPT !.at = "replied", !.reply = reply])
       /\ sent' = [sent EXCEPT ![r][work[r][a].call] = @ + cost]
  /\ UNCHANGED <<ledgerVars, runVars>>

\* Reported usage is charged, an answer without it is charged in full.
SettleCall(r, a) ==
  LET c == work[r][a].call
  IN  /\ At(r, a, "replied")
      /\ Update(r, a, [work[r][a] EXCEPT !.at = "judge", !.call = 0])
      /\ IF HasUsage(work[r][a].reply) THEN Settle(r, c, sent[r][c], "settled")
                                       ELSE ExpireReservation(r, c)
      /\ UNCHANGED <<runVars, sent>>

\* Settling throws; so may the expiry that follows it.
SettleFails(r, a) ==
  /\ <<"settle", r>> \in Faults /\ At(r, a, "replied")
  /\ Throw(r, a, FALSE)
  /\ ExpireReservation(r, work[r][a].call) \/ UNCHANGED ledgerVars
  /\ UNCHANGED <<runVars, sent>>

\* What became of the call: another try, the end of the job or of the run, or an
\* answer that the transcript keeps.
Judge(r, a) ==
  LET reply == work[r][a].reply
      again == Retryable(reply) /\ work[r][a].retry < MaxRetries
  IN  /\ At(r, a, "judge")
      /\ \/ /\ again
            /\ Update(r, a, [work[r][a] EXCEPT !.at = "call", !.retry = @ + 1, !.reply = Idle.reply])
            /\ UNCHANGED <<ledgerVars, run, transcript, turn>>
         \/ /\ ~again /\ reply \in {"overloaded", "failed", "parallel"}
            /\ Throw(r, a, TRUE)
            /\ UNCHANGED <<ledgerVars, run, transcript, turn>>
         \/ /\ reply = "refusal"
            /\ End(r, a) /\ Degrade(r, "failed")
            /\ UNCHANGED <<transcript, turn>>
         \/ /\ reply \in Tool
            /\ Checkpoint(r, a, [kind |-> "assistant", tool |-> reply], work[r][a].turn + 1, "loop")
            /\ UNCHANGED <<ledgerVars, run>>
         \/ /\ reply = "text"
            /\ Checkpoint(r, a, [kind |-> "assistant", tool |-> "none"], work[r][a].turn + 1, "spoken")
            /\ UNCHANGED <<ledgerVars, run>>
      /\ UNCHANGED <<job, attempts, nextCall, invocation, context, sent>>

\* An answer without a tool ends the run without a coverage acknowledgement.
Spoken(r, a) ==
  /\ At(r, a, "spoken") /\ End(r, a) /\ Degrade(r, "failed")
  /\ UNCHANGED <<job, attempts, transcript, turn, nextCall, invocation, context, sent>>

\* The signal: the audit was cancelled or the attempt lost its lease. A call that
\* is under way is charged in full first.
Abort(r, a) ==
  /\ cancelled \/ ~Current(r, a)
  /\ Throw(r, a, cancelled)
  /\ \/ work[r][a].at \in {"loop", "tool", "call", "judge"} /\ UNCHANGED ledgerVars
     \/ work[r][a].at \in {"reserved", "replied"} /\ ExpireReservation(r, work[r][a].call)
  /\ UNCHANGED <<runVars, sent>>
-----------------------------------------------------------------------------
Step(r, a) ==
  \/ Succeed(r, a) \/ Fail(r, a) \/ Begin(r, a) \/ RecoverRun(r, a) \/ Load(r, a)
  \/ LoopTurn(r, a) \/ ExecuteTool(r, a) \/ StoreResult(r, a) \/ AnswerTool(r, a)
  \/ Complete(r, a) \/ ReserveCall(r, a) \/ AskProvider(r, a) \/ SettleCall(r, a)
  \/ Judge(r, a) \/ Spoken(r, a)

Next ==
  \/ Cancel
  \/ \E r \in Role : Claim(r) \/ RecoverJob(r)
  \/ \E r \in Role, a \in Attempt :
       Step(r, a) \/ Crash(r, a) \/ SettleFails(r, a) \/ Abort(r, a)

Spec == Init /\ [][Next]_vars
-----------------------------------------------------------------------------
\* Whatever crashes, retries and stalls, each call is charged at least what the
\* provider billed for it, and nothing is sent without a reservation.
NothingUncharged ==
  \A r \in Role, c \in Call :
    /\ row[r][c].status = "none" => sent[r][c] = 0
    /\ row[r][c].status = "active" => sent[r][c] <= row[r][c].size
    /\ row[r][c].status \in {"settled", "expired"} => sent[r][c] <= row[r][c].charge

\* A resumed agent continues its transcript: no turn is lost, replaced or numbered twice.
TranscriptContinues ==
  [][\A r \in Role : transcript[r] # Missing /\ <<"stall", r>> \notin Faults =>
       /\ turn'[r] >= turn[r]
       /\ transcript'[r] # Missing
       /\ Len(transcript'[r]) >= Len(transcript[r])
       /\ SubSeq(transcript'[r], 1, Len(transcript[r])) = transcript[r]]_vars
=============================================================================
