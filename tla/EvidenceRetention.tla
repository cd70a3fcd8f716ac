-------------------------- MODULE EvidenceRetention --------------------------
(***************************************************************************)
(* The evidence of one audit: rows in PostgreSQL, bytes in an object store  *)
(* under the hash of their content, the jobs that capture evidence, the     *)
(* retention policy that dates it, and the retention workers that delete    *)
(* what has expired.                                                        *)
(*                                                                         *)
(* Time is counted in days, the unit of a policy; the five minutes of a     *)
(* deletion lease end whenever the model says so. The four classes of       *)
(* evidence are dated independently of each other: one is modelled.         *)
(***************************************************************************)
EXTENDS Integers, FiniteSets

CONSTANTS
  Job,         \* jobs that capture evidence
  Kind,        \* stage: recon pipeline; http, sast: probe and scan; smoke
  Contents,    \* what each job may capture, by its hash
  MaxAttempt,  \* bound on the attempts of each job
  Worker,      \* retention workers
  BatchLimit,  \* RETENTION_BATCH_LIMIT
  Days,        \* retention periods in force at some time
  MaxNow,      \* bound on the days that pass
  MaxChanges,  \* bound on policy changes
  MaxFaults,   \* bound on crashes and failures of attempts and retention workers
  None

Kinds == {"stage", "http", "sast", "smoke"}
Content == UNION {Contents[j] : j \in Job}
Writer == UNION {{j} \X (1..MaxAttempt[j]) : j \in Job}

\* A recon stage has one row, probes and scans one for each content, a smoke
\* probe one for each attempt.
IdOf(w, c) ==
  IF Kind[w[1]] = "stage" THEN <<"job", w[1]>>
  ELSE IF Kind[w[1]] = "smoke" THEN <<"attempt", w>> ELSE <<"content", c>>
Id == {IdOf(p[1], p[2]) : p \in {q \in Writer \X Content : q[2] \in Contents[q[1][1]]}}

ASSUME EvidenceAssumption ==
  /\ Kind \in [Job -> Kinds] /\ DOMAIN Contents = Job /\ \A j \in Job : Contents[j] # {}
  /\ MaxAttempt \in [Job -> Nat] /\ BatchLimit \in Nat /\ MaxNow \in Nat
  /\ Days \subseteq Nat \ {0} /\ MaxChanges \in Nat /\ MaxFaults \in Nat
  /\ None \notin Nat /\ None \notin Worker /\ None \notin Content \cup Id

VARIABLES
  now,                      \* the day
  days,                     \* the retention of the project in force
  changes, faults,          \* how often the policy changed and someone failed
  job, attempts,            \* AuditJob: status and claims
  caught,                   \* stages claimed anew while an attempt was about to write
  row,                      \* Evidence
  object,                   \* contents whose bytes are stored
  work,                     \* work[w]: the memory of an attempt
  batch                     \* batch[k]: what retention worker k claimed

policyVars == <<days, changes>>
writerVars == <<job, attempts, caught, work>>
vars == <<now, policyVars, faults, writerVars, row, object, batch>>

NoRow == [content |-> None, captured |-> 0, expires |-> 0, dead |-> FALSE,
          lease |-> None, leased |-> FALSE]
Idle == [at |-> "none", content |-> None, expires |-> 0]
Empty == [todo |-> {}, current |-> None]

Row == [content : Content \cup {None}, captured : Nat, expires : Nat, dead : BOOLEAN,
        lease : Worker \cup {None}, leased : BOOLEAN]
Memory == [at : {"none", "begin", "verify", "insert", "done", "over"},
           content : Content \cup {None}, expires : Nat]

TypeOK ==
  /\ now \in 0..MaxNow /\ changes \in 0..MaxChanges /\ faults \in 0..MaxFaults
  /\ days \in Days
  /\ job \in [Job -> {"queued", "running", "succeeded"}] 
  /\ attempts \in [Job -> Nat] /\ \A j \in Job : attempts[j] <= MaxAttempt[j]
  /\ caught \subseteq Job
  /\ row \in [Id -> Row] /\ object \subseteq Content
  /\ work \in [Writer -> Memory]
  /\ batch \in [Worker -> [todo : SUBSET Id, current : Id \cup {None}]]

Init ==
  /\ now = 0 /\ changes = 0 /\ faults = 0
  /\ days \in Days
  /\ job = [j \in Job |-> "queued"] /\ attempts = [j \in Job |-> 0] /\ caught = {}
  /\ row = [i \in Id |-> NoRow] /\ object = {}
  /\ work = [w \in Writer |-> Idle]
  /\ batch = [k \in Worker |-> Empty]

Exists(i) == row[i].content # None
Live(i) == Exists(i) /\ ~row[i].dead
Expired(i) == Exists(i) /\ row[i].expires <= now
Earlier(m, n) == IF m < n THEN m ELSE n
-----------------------------------------------------------------------------
(* Policies. *)

\* Mutant: an extended policy moves the expiry of what is stored.
Later(old, new) == new

\* LEAST: an existing deadline only moves nearer.
Rescheduled(old, new) == Earlier(old, new)

Reschedule(period) ==
  row' = [i \in Id |-> IF ~Live(i) THEN row[i] ELSE
            [row[i] EXCEPT !.expires = Rescheduled(@, row[i].captured + period)]]

\* putOrganizationPolicy and putProjectPolicy: the policy and every live row, in
\* one transaction. Putting the same policy again counts as no change.
PutPolicy ==
  /\ days' \in Days /\ Reschedule(days')
  /\ IF days' = days THEN UNCHANGED changes ELSE changes < MaxChanges /\ changes' = changes + 1
  /\ UNCHANGED <<now, faults, writerVars, object, batch>>

NextDay ==
  /\ now < MaxNow /\ now' = now + 1
  /\ UNCHANGED <<policyVars, faults, writerVars, row, object, batch>>
-----------------------------------------------------------------------------
(* Capturing. *)

At(w, pos) == work[w].at = pos
Current(w) == job[w[1]] = "running" /\ attempts[w[1]] = w[2]

\* Mutant: nobody asks whether the attempt is the job's.
WritableAnyway(w) == TRUE
Writable(w) == Kind[w[1]] = "stage" => Current(w)

Over(w) == work' = [work EXCEPT ![w] = [Idle EXCEPT !.at = "over"]]
StillWriting == UNCHANGED <<now, policyVars, faults, batch>>

\* An attempt of stage j has passed the check of its transaction.
AboutToWrite(j) == Kind[j] = "stage" /\ \E w \in Writer : w[1] = j /\ At(w, "insert")

\* A claim, also of a job whose attempt was given up and may still go on.
Claim(j) ==
  /\ job[j] # "succeeded" /\ attempts[j] < MaxAttempt[j]
  /\ job' = [job EXCEPT ![j] = "running"]
  /\ attempts' = [attempts EXCEPT ![j] = @ + 1]
  /\ caught' = caught \cup (IF AboutToWrite(j) THEN {j} ELSE {})
  /\ work' = [work EXCEPT ![<<j, attempts'[j]>>] =
                [Idle EXCEPT !.at = "begin",
                   !.expires = IF Kind[j] = "sast" THEN now + days ELSE 0]]
  /\ StillWriting /\ UNCHANGED <<row, object>>

\* A stage that finds its row alive verifies the bytes and keeps it. Every other
\* capture goes to the store, which does not write again what it has.
Capture(w) ==
  LET own == <<"job", w[1]>>
      known == Kind[w[1]] = "stage" /\ Live(own)
  IN  /\ At(w, "begin") /\ Writable(w)
      /\ \/ /\ known /\ row[own].content \in object
            /\ work' = [work EXCEPT ![w].at = "done", ![w].content = row[own].content]
            /\ UNCHANGED object
         \/ /\ ~known
            /\ \E c \in Contents[w[1]] :
                 /\ work' = [work EXCEPT ![w].at = "verify", ![w].content = c]
                 /\ object' = object \cup {c}
      /\ StillWriting /\ UNCHANGED <<job, attempts, caught, row>>

\* HEAD, verifyEvidence, expiryForCapture under the policy of now and the first
\* statement of the transaction, which asks whether the attempt is still the job's;
\* a scan was dated before it ran. These are reads only: whatever changes between
\* them could as well change after the last.
Verify(w) ==
  /\ At(w, "verify") /\ work[w].content \in object /\ Writable(w)
  /\ work' = [work EXCEPT ![w].at = "insert",
                ![w].expires = IF Kind[w[1]] = "sast" THEN @ ELSE now + days]
  /\ StillWriting /\ UNCHANGED <<job, attempts, caught, row, object>>

Upserted(i, fresh) == IF Exists(i) THEN row[i] ELSE fresh

\* The upsert. No lock joins it to the question above: a stage's job may have been
\* claimed anew. An existing row, dead or alive, is left as it is.
Insert(w) ==
  LET i == IdOf(w, work[w].content)
      fresh == [NoRow EXCEPT !.content = work[w].content, !.captured = now, !.expires = work[w].expires]
  IN  /\ At(w, "insert")
      /\ row' = [row EXCEPT ![i] = Upserted(i, fresh)]
      /\ work' = [work EXCEPT ![w].at = "done", ![w].expires = 0]
      /\ StillWriting /\ UNCHANGED <<job, attempts, caught, object>>

\* succeed, of the attempt that captured; what a stage reported is remembered.
Succeed(w) ==
  /\ At(w, "done") /\ Current(w)
  /\ job' = [job EXCEPT ![w[1]] = "succeeded"]
  /\ work' = [work EXCEPT ![w] = [Idle EXCEPT !.at = "over",
                !.content = IF Kind[w[1]] = "stage" THEN work[w].content ELSE None]]
  /\ StillWriting /\ UNCHANGED <<attempts, caught, row, object>>

\* An attempt fails: it finds that it is not current or cannot verify, or it dies.
GiveUp(w) ==
  /\ work[w].at \notin {"none", "over"} /\ Over(w)
  /\ IF Current(w) /\ (At(w, "verify") => work[w].content \in object)
     THEN faults < MaxFaults /\ faults' = faults + 1 ELSE UNCHANGED faults
  /\ UNCHANGED <<now, policyVars, batch, job, attempts, caught, row, object>>
-----------------------------------------------------------------------------
(* Retention. *)

\* Mutant: a claim stands until its holder gives it back.
Unheld(i) == row[i].lease = None
Free(i) == row[i].lease = None \/ ~row[i].leased

\* Mutant: the day of expiry counts as past.
PastSoon(i) == row[i].expires <= now + 1
Past(i) == row[i].expires <= now
Due(i) == Live(i) /\ Past(i) /\ Free(i)

\* runBatch claims the oldest due rows, in one statement.
ClaimBatch(k) ==
  /\ batch[k] = Empty
  /\ \E S \in SUBSET {i \in Id : Due(i)} :
       /\ S # {} /\ Cardinality(S) <= BatchLimit
       /\ \A i \in Id : Due(i) /\ i \notin S =>
            Cardinality(S) = BatchLimit /\ \A s \in S : row[s].expires <= row[i].expires
       /\ row' = [i \in Id |-> IF i \in S THEN [row[i] EXCEPT !.lease = k, !.leased = TRUE] ELSE row[i]]
       /\ batch' = [batch EXCEPT ![k].todo = S]
  /\ UNCHANGED <<now, policyVars, faults, writerVars, object>>

\* deleteArtifact: deleting what is gone succeeds.
DeleteObject(k, i) ==
  /\ batch[k].current = None /\ i \in batch[k].todo
  /\ object' = object \ {row[i].content}
  /\ batch' = [batch EXCEPT ![k] = [todo |-> @.todo \ {i}, current |-> i]]
  /\ UNCHANGED <<now, policyVars, faults, writerVars, row>>

Holds(k, i) == row[i].lease = k /\ ~row[i].dead

\* The conditional update: only under the lease the batch took.
Tombstone(k) ==
  LET i == batch[k].current
  IN  /\ i # None
      /\ row' = IF ~Holds(k, i) THEN row
                ELSE [row EXCEPT ![i].dead = TRUE, ![i].lease = None, ![i].leased = FALSE]
      /\ batch' = [batch EXCEPT ![k].current = None]
      /\ UNCHANGED <<now, policyVars, faults, writerVars, object>>

Unclaimed(k, i) == IF Holds(k, i) THEN [row[i] EXCEPT !.lease = None, !.leased = FALSE] ELSE row[i]

\* The object store or the update fails: the lease is returned, the batch goes on.
DeleteFails(k, i) ==
  /\ faults < MaxFaults /\ faults' = faults + 1
  /\ \/ batch[k].current = None /\ i \in batch[k].todo
     \/ batch[k].current = i
  /\ row' = [row EXCEPT ![i] = Unclaimed(k, i)]
  /\ batch' = [batch EXCEPT ![k] = [todo |-> @.todo \ {i}, current |-> None]]
  /\ UNCHANGED <<now, policyVars, writerVars, object>>

WorkerCrash(k) ==
  /\ faults < MaxFaults /\ faults' = faults + 1
  /\ batch[k] # Empty
  /\ batch' = [batch EXCEPT ![k] = Empty]
  /\ UNCHANGED <<now, policyVars, writerVars, row, object>>

\* The rows worker k still has before it.
Pending(k) == batch[k].todo \cup {batch[k].current}

\* Five minutes are over: for a worker that is still busy with the row, a fault.
LeaseEnds(i) ==
  /\ row[i].leased
  /\ IF i \in Pending(row[i].lease) THEN faults < MaxFaults /\ faults' = faults + 1
     ELSE UNCHANGED faults
  /\ row' = [row EXCEPT ![i].leased = FALSE]
  /\ UNCHANGED <<now, policyVars, writerVars, object, batch>>
-----------------------------------------------------------------------------
(* EvidenceService.download: 410 for a tombstone, else the bytes, if they are there. *)
Download(i) ==
  IF row[i].dead THEN "gone" ELSE IF row[i].content \in object THEN "bytes" ELSE "missing"
-----------------------------------------------------------------------------
Writing(w) ==
  Capture(w) \/ Verify(w) \/ Insert(w) \/ Succeed(w) \/ GiveUp(w)

Deleting(k) == ClaimBatch(k) \/ Tombstone(k) \/ \E i \in Id : DeleteObject(k, i)

Next ==
  \/ PutPolicy \/ NextDay
  \/ \E j \in Job : Claim(j)
  \/ \E w \in Writer : Writing(w)
  \/ \E k \in Worker : Deleting(k) \/ WorkerCrash(k) \/ \E i \in Id : DeleteFails(k, i)
  \/ \E i \in Id : LeaseEnds(i)

\* The runner's interval asks for a batch again and again, a batch takes one row
\* after the other, and leases end by the clock.
Fairness ==
  /\ \A k \in Worker : WF_vars(Deleting(k))
  /\ \A i \in Id : WF_vars(LeaseEnds(i))

Spec == Init /\ [][Next]_vars
FairSpec == Spec /\ Fairness
-----------------------------------------------------------------------------
\* A download before the expiry gives the bytes, whoever captures, deletes or
\* deletes late, unless an expired row shared the content.
BytesUntilExpiry ==
  \A i \in Id : Exists(i) /\ ~Expired(i) =>
    \/ Download(i) = "bytes"
    \/ /\ Download(i) = "missing"
       /\ \E o \in Id \ {i} : row[o].content = row[i].content /\ Expired(o)

\* A deletion commitment is kept: neither a new policy nor a new capture moves an
\* expiry later or brings back what was tombstoned.
CommitmentKept ==
  [][\A i \in Id : Exists(i) =>
       /\ row'[i].expires <= row[i].expires
       /\ row[i].dead => row'[i] = row[i]]_vars

\* What a stage's successful attempt reported is what its row holds: no stale attempt
\* with another capture comes between, but for one that was replaced after it had
\* passed the check of its transaction. That one still writes: if it comes first, its
\* successor finds the row there, leaves it and reports its own bytes.
ReportedIsStored ==
  \A w \in Writer :
   At(w, "over") /\ work[w].content # None /\ Kind[w[1]] = "stage" /\ w[1] \notin caught =>
    LET i == IdOf(w, work[w].content) IN row[i].content = work[w].content \/ row[i].dead

\* What has expired is tombstoned in the end, although workers crash, stall past
\* their leases and fail to delete.
ExpiredGoes == \A i \in Id : Live(i) /\ Expired(i) ~> row[i].dead
=============================================================================
