---------------------------- MODULE WorkerProofs -----------------------------
(***************************************************************************)
(* Proofs about the consumers that hand results from stage to stage, and    *)
(* about the events that are written on the way.                            *)
(***************************************************************************)
EXTENDS ReconFlow, Provenance, AuditEvents, FiniteSetTheorems, SequenceTheorems, TLAPS
-----------------------------------------------------------------------------
(***************************************************************************)
(* CrawlAccountedFor for every crawl, every set of policies and redirects   *)
(* and every number of attempts.                                            *)
(***************************************************************************)

Place == {"none", "begin", "check", "record", "announce", "contact", "save", "write", "saved", "failed"}
Memory == [at : Place, policy : Policy \cup {"none"}, todo : SUBSET Url, url : Url, kept : SUBSET Url]

\* What some policy of S allows.
Reach(S) == UNION {Allows[p] : p \in S}

\* The pages whose denial somebody can read.
Readable == trail \cup announced

\* Each crawled URL is in the set or its page in T.
AllIn(urls, T) == \A u \in Crawl : u \in urls \/ Page[u] \in T

\* The memory m of attempt w fits the policies S, the readable denials T and the
\* evidence C, R.
WorkerOK(w, m, S, T, C, R) ==
  /\ m.kept \subseteq Reach(S)
  /\ w[1] # "merge" /\ m.at \in {"contact", "check", "record", "announce", "save", "write"} => m.policy \in S
  /\ w[1] = "filter" =>
       /\ m.at \in {"check", "record", "announce"} => AllIn(m.todo, T)
       /\ m.at \in {"save", "write"} => AllIn(m.kept, T)
       /\ m.at = "saved" => C # None
  /\ w[1] = "verify" => /\ m.at \notin {"none", "failed"} => C # None
                        /\ m.at = "saved" => R # None
  /\ w[1] = "merge" => (m.at \notin {"none", "failed"} => C # None /\ R # None)

FlowTypeOK ==
  /\ policy \in since /\ since \subseteq Policy
  /\ job \in [stage : Stage \cup {"done"}, attempt : Nat]
  /\ worker \in [Attempt -> Memory]

WorkersFit == \A w \in Attempt : WorkerOK(w, worker[w], since, Readable, candidates, results)

EvidenceComplete ==
  /\ candidates # None =>
       candidates \subseteq Url /\ candidates \subseteq Reach(since) /\ AllIn(candidates, Readable)
  /\ results # None => results \subseteq Reach(since)
  /\ inventory # None => inventory \subseteq Reach(since)

\* A stage starts when the evidence of those before it is stored.
StagesInOrder ==
  /\ job.stage # "filter" => candidates # None
  /\ job.stage \in {"merge", "done"} => results # None

ContactsAllowed == \A c \in contacted : \E p \in c.since : c.url \in Allows[p]

FlowInv == FlowTypeOK /\ WorkersFit /\ EvidenceComplete /\ StagesInOrder /\ ContactsAllowed

\* What every step does: policies and denials are only added, evidence stays.
Grows ==
  /\ policy' \in since' /\ since \subseteq since' /\ since' \subseteq Policy /\ Readable \subseteq Readable'
  /\ candidates # None => candidates' = candidates
  /\ results # None => results' = results

LEMMA ReachGrows == ASSUME NEW S, NEW T, S \subseteq T PROVE Reach(S) \subseteq Reach(T)
BY DEF Reach

LEMMA AttemptStage == \A w \in Attempt : w[1] \in Stage
BY DEF Attempt

\* Attempts other than the one that moves fit after the step if they did before.
LEMMA OthersFit ==
  ASSUME FlowInv, Grows, NEW w \in Attempt, NEW m \in Memory,
         worker' = [worker EXCEPT ![w] = m],
         WorkerOK(w, m, since', Readable', candidates', results')
  PROVE  worker' \in [Attempt -> Memory] /\ WorkersFit'
<1>1. worker' \in [Attempt -> Memory] /\ worker'[w] = m
      /\ \A v \in Attempt \ {w} : worker'[v] = worker[v]
  BY DEF FlowInv, FlowTypeOK
<1>2. Reach(since) \subseteq Reach(since')
  BY ReachGrows DEF Grows
<1>3. ASSUME NEW v \in Attempt \ {w}
      PROVE  WorkerOK(v, worker[v], since', Readable', candidates', results')
  <2>1. WorkerOK(v, worker[v], since, Readable, candidates, results)
    BY DEF FlowInv, WorkersFit
  <2> QED BY <1>2, <2>1 DEF WorkerOK, AllIn, Grows
<1> QED BY <1>1, <1>3 DEF WorkersFit

\* A step of an attempt that stores nothing and leaves the job alone.
LEMMA MoveKeeps ==
  ASSUME FlowInv, NEW w \in Attempt, NEW m \in Memory, worker' = [worker EXCEPT ![w] = m],
         UNCHANGED <<policy, since, job, Stored>>, Readable \subseteq Readable',
         WorkerOK(w, m, since, Readable', candidates, results),
         ContactsAllowed'
  PROVE  FlowInv'
<1>1. Grows
  BY DEF Grows, Stored, FlowInv, FlowTypeOK
<1>2. worker' \in [Attempt -> Memory] /\ WorkersFit'
  BY <1>1, OthersFit DEF Stored
<1>3. FlowTypeOK'
  BY <1>2 DEF FlowInv, FlowTypeOK
<1>4. EvidenceComplete' /\ StagesInOrder'
  BY DEF FlowInv, EvidenceComplete, StagesInOrder, AllIn, Stored
<1> QED BY <1>2, <1>3, <1>4 DEF FlowInv

\* One that adds no denial either.
LEMMA StayKeeps ==
  ASSUME FlowInv, NEW w \in Attempt, NEW m \in Memory, worker' = [worker EXCEPT ![w] = m],
         UNCHANGED <<policy, since, job, Stored, Denials>>,
         WorkerOK(w, m, since, Readable, candidates, results),
         ContactsAllowed'
  PROVE  FlowInv'
<1>1. Readable' = Readable
  BY DEF Readable, Denials
<1> QED BY <1>1, MoveKeeps

LEMMA RestingFits ==
  ASSUME NEW w, NEW pos \in {"none", "failed"}, NEW S, NEW T, NEW C, NEW R
  PROVE  [Resting EXCEPT !.at = pos] \in Memory /\ WorkerOK(w, [Resting EXCEPT !.at = pos], S, T, C, R)
BY FlowAssumption DEF Resting, Memory, Place, WorkerOK

LEMMA FlowInitially == FlowInit => FlowInv
<1> SUFFICES ASSUME FlowInit PROVE FlowInv
  OBVIOUS
<1> USE FlowAssumption DEF FlowInit
<1>1. Resting \in Memory
  BY DEF Resting, Memory, Place
<1>2. FlowTypeOK
  BY <1>1 DEF FlowTypeOK, Stage
<1>3. WorkersFit
  BY DEF WorkersFit, WorkerOK, Resting
<1>4. EvidenceComplete /\ StagesInOrder /\ ContactsAllowed
  BY DEF EvidenceComplete, StagesInOrder, ContactsAllowed
<1> QED BY <1>2, <1>3, <1>4 DEF FlowInv

LEMMA OutsideKeeps ==
  ASSUME FlowInv, ReplacePolicy \/ CancelAudit \/ UNCHANGED flowVars
  PROVE  FlowInv'
<1>1. UNCHANGED <<job, worker, Stored, contacted>> /\ Readable' = Readable
  BY DEF ReplacePolicy, CancelAudit, flowVars, Stored, Denials, Readable
<1>2. policy' \in since' /\ since \subseteq since' /\ since' \subseteq Policy
  BY DEF ReplacePolicy, CancelAudit, flowVars, FlowInv, FlowTypeOK
<1>3. Reach(since) \subseteq Reach(since')
  BY <1>2, ReachGrows
<1>4. FlowTypeOK'
  BY <1>1, <1>2 DEF FlowInv, FlowTypeOK
<1>5. WorkersFit'
  <2> SUFFICES ASSUME NEW w \in Attempt PROVE WorkerOK(w, worker[w], since', Readable, candidates, results)
    BY <1>1 DEF WorkersFit, Stored
  <2>1. WorkerOK(w, worker[w], since, Readable, candidates, results)
    BY DEF FlowInv, WorkersFit
  <2> QED BY <1>2, <1>3, <2>1 DEF WorkerOK
<1>6. EvidenceComplete'
  BY <1>1, <1>3 DEF FlowInv, EvidenceComplete, Stored
<1>7. StagesInOrder' /\ ContactsAllowed'
  BY <1>1 DEF FlowInv, StagesInOrder, ContactsAllowed, Stored
<1> QED BY <1>4, <1>5, <1>6, <1>7 DEF FlowInv

LEMMA ClaimKeeps == ASSUME FlowInv, ClaimStage PROVE FlowInv'
<1> DEFINE w == <<job.stage, job.attempt + 1>>
           m == [Resting EXCEPT !.at = "begin"]
<1>1. /\ job.stage \in Stage /\ worker' = [worker EXCEPT ![w] = m]
      /\ UNCHANGED <<policy, since, Stored, contacted>> /\ Readable' = Readable
      /\ job' = [job EXCEPT !.attempt = @ + 1]
  BY DEF ClaimStage, Put, Outside, Denials, Readable
<1>2. w \in Attempt /\ w[1] = job.stage
  <2>1. job.attempt + 1 \in 1..Claims[job.stage]
    BY FlowAssumption DEF ClaimStage, FlowInv, FlowTypeOK
  <2> QED BY <1>1, <2>1 DEF Attempt
<1>3. m \in Memory /\ m.at = "begin" /\ m.kept = {}
  BY FlowAssumption DEF Resting, Memory, Place
<1>4. job' \in [stage : Stage \cup {"done"}, attempt : Nat] /\ job'.stage = job.stage
  BY <1>1 DEF FlowInv, FlowTypeOK
<1> HIDE DEF w, m
<1>5. WorkerOK(w, m, since, Readable, candidates, results)
  BY <1>2, <1>3 DEF WorkerOK, FlowInv, StagesInOrder
<1>6. Grows
  BY <1>1 DEF Grows, Stored, FlowInv, FlowTypeOK
<1>7. worker' \in [Attempt -> Memory] /\ WorkersFit'
  BY <1>1, <1>2, <1>3, <1>5, <1>6, OthersFit DEF Stored
<1>8. FlowTypeOK'
  BY <1>1, <1>4, <1>7 DEF FlowInv, FlowTypeOK
<1>9. EvidenceComplete' /\ StagesInOrder' /\ ContactsAllowed'
  BY <1>1, <1>4 DEF FlowInv, EvidenceComplete, StagesInOrder, ContactsAllowed, Stored
<1> QED BY <1>7, <1>8, <1>9 DEF FlowInv

LEMMA ReadContextKeeps == ASSUME FlowInv, NEW w \in Attempt, ReadContext(w) PROVE FlowInv'
<1>1. /\ UNCHANGED <<policy, since, job, Stored, Denials, contacted>> /\ worker[w].at = "begin"
      /\ w[1] \in Stage /\ WorkerOK(w, worker[w], since, Readable, candidates, results)
      /\ policy \in Policy /\ policy \in since
  BY AttemptStage DEF ReadContext, Outside, At, FlowInv, WorkersFit, FlowTypeOK
<1>2. ContactsAllowed'
  BY <1>1 DEF FlowInv, ContactsAllowed
<1>3. CASE Base \notin Allows[policy]
  <2>1. worker' = [worker EXCEPT ![w] = [Resting EXCEPT !.at = "failed"]]
    BY <1>3 DEF ReadContext, End, Put
  <2> QED BY <1>1, <1>2, <2>1, RestingFits, StayKeeps
<1>4. CASE Base \in Allows[policy]
  <2> DEFINE pos == CASE w[1] = "filter" -> "check" [] w[1] = "verify" -> "contact" [] OTHER -> "save"
             ahead == IF w[1] = "filter" THEN Crawl ELSE {}
             m == [Resting EXCEPT !.at = pos, !.policy = policy, !.todo = ahead]
  <2>1. worker' = [worker EXCEPT ![w] = m]
    BY <1>4 DEF ReadContext, Put
  <2>2. m \in Memory /\ m.at = pos /\ m.policy = policy /\ m.todo = ahead /\ m.kept = {}
    BY <1>1, FlowAssumption DEF Resting, Memory, Place
  <2>3. /\ w[1] = "filter" => pos = "check" /\ ahead = Crawl
        /\ w[1] = "verify" => pos = "contact"
        /\ w[1] = "merge" => pos = "save"
    BY <1>1 DEF Stage
  <2> HIDE DEF m, pos, ahead
  <2>4. WorkerOK(w, m, since, Readable, candidates, results)
    BY <1>1, <2>2, <2>3 DEF WorkerOK, AllIn
  <2> QED BY <1>1, <1>2, <2>1, <2>2, <2>4, StayKeeps
<1> QED BY <1>3, <1>4

LEMMA DenyKeeps == ASSUME FlowInv, NEW w \in Attempt, Deny(w) PROVE FlowInv'
<1>1. /\ UNCHANGED <<policy, since, job, Stored, Denials, contacted>> /\ worker[w].at = "check"
      /\ w[1] \in {"filter", "verify"} /\ WorkerOK(w, worker[w], since, Readable, candidates, results)
      /\ worker[w] \in Memory
  BY DEF Deny, Outside, At, FlowInv, WorkersFit, FlowTypeOK
<1>2. ContactsAllowed'
  BY <1>1 DEF FlowInv, ContactsAllowed
<1>3. PICK u \in DeniedOf(w) :
        Put(w, IF ~Writable(w) THEN [Resting EXCEPT !.at = "failed"]
               ELSE IF Page[u] \in trail THEN [worker[w] EXCEPT !.todo = @ \ {u}]
               ELSE [worker[w] EXCEPT !.at = "record", !.url = u])
  BY DEF Deny
<1>4. u \in Url
  BY <1>1, <1>3 DEF DeniedOf, Memory
<1>5. CASE ~Writable(w)
  <2>1. worker' = [worker EXCEPT ![w] = [Resting EXCEPT !.at = "failed"]]
    BY <1>3, <1>5 DEF Put
  <2> QED BY <1>1, <1>2, <2>1, RestingFits, StayKeeps
<1>6. CASE Writable(w) /\ Page[u] \in trail
  <2> DEFINE m == [worker[w] EXCEPT !.todo = @ \ {u}]
  <2>1. worker' = [worker EXCEPT ![w] = m]
    BY <1>3, <1>6 DEF Put
  <2>2. /\ m \in Memory /\ m.at = "check" /\ m.kept = worker[w].kept /\ m.policy = worker[w].policy
        /\ m.todo = worker[w].todo \ {u}
    BY <1>1 DEF Memory
  <2> HIDE DEF m
  <2>3. WorkerOK(w, m, since, Readable, candidates, results)
    BY <1>1, <1>6, <2>2 DEF WorkerOK, AllIn, Readable
  <2> QED BY <1>1, <1>2, <2>1, <2>2, <2>3, StayKeeps
<1>7. CASE Writable(w) /\ Page[u] \notin trail
  <2> DEFINE m == [worker[w] EXCEPT !.at = "record", !.url = u]
  <2>1. worker' = [worker EXCEPT ![w] = m]
    BY <1>3, <1>7 DEF Put
  <2>2. /\ m \in Memory /\ m.at = "record" /\ m.kept = worker[w].kept /\ m.policy = worker[w].policy
        /\ m.todo = worker[w].todo
    BY <1>1, <1>4 DEF Memory, Place
  <2> HIDE DEF m
  <2>3. WorkerOK(w, m, since, Readable, candidates, results)
    BY <1>1, <2>2 DEF WorkerOK
  <2> QED BY <1>1, <1>2, <2>1, <2>2, <2>3, StayKeeps
<1> QED BY <1>5, <1>6, <1>7

\* Whether the entry is written or not, the URL stays ahead.
LEMMA RecordDenialKeeps == ASSUME FlowInv, NEW w \in Attempt, RecordDenial(w) PROVE FlowInv'
<1> DEFINE m == [worker[w] EXCEPT !.at = "announce"]
<1>1. /\ UNCHANGED <<policy, since, job, Stored, contacted>> /\ worker[w].at = "record"
      /\ w[1] \in {"filter", "verify"} /\ WorkerOK(w, worker[w], since, Readable, candidates, results)
      /\ worker[w] \in Memory /\ Readable \subseteq Readable'
      /\ worker' = [worker EXCEPT ![w] = m]
  BY DEF RecordDenial, Outside, At, Put, FlowInv, WorkersFit, FlowTypeOK, Readable
<1>2. ContactsAllowed'
  BY <1>1 DEF FlowInv, ContactsAllowed
<1>3. /\ m \in Memory /\ m.at = "announce" /\ m.kept = worker[w].kept /\ m.policy = worker[w].policy
      /\ m.todo = worker[w].todo
  BY <1>1 DEF Memory, Place
<1> HIDE DEF m
<1>4. WorkerOK(w, m, since, Readable', candidates, results)
  BY <1>1, <1>3 DEF WorkerOK, AllIn
<1> QED BY <1>1, <1>2, <1>3, <1>4, MoveKeeps

\* What leaves todo here is announced.
LEMMA AnnounceDenialKeeps == ASSUME FlowInv, NEW w \in Attempt, AnnounceDenial(w) PROVE FlowInv'
<1> DEFINE m == [worker[w] EXCEPT !.at = "check", !.todo = @ \ {worker[w].url}]
<1>1. /\ UNCHANGED <<policy, since, job, Stored, contacted>> /\ worker[w].at = "announce"
      /\ w[1] \in {"filter", "verify"} /\ WorkerOK(w, worker[w], since, Readable, candidates, results)
      /\ worker[w] \in Memory /\ Readable' = Readable \cup {Page[worker[w].url]}
      /\ worker' = [worker EXCEPT ![w] = m]
  BY DEF AnnounceDenial, Outside, At, Put, FlowInv, WorkersFit, FlowTypeOK, Readable
<1>2. ContactsAllowed'
  BY <1>1 DEF FlowInv, ContactsAllowed
<1>3. /\ m \in Memory /\ m.at = "check" /\ m.kept = worker[w].kept /\ m.policy = worker[w].policy
      /\ m.todo = worker[w].todo \ {worker[w].url}
  BY <1>1 DEF Memory, Place
<1> HIDE DEF m
<1>4. WorkerOK(w, m, since, Readable', candidates, results)
  BY <1>1, <1>3 DEF WorkerOK, AllIn
<1> QED BY <1>1, <1>2, <1>3, <1>4, MoveKeeps

\* Nothing is left to be denied, so what was ahead is kept whole.
LEMMA AcceptKeeps == ASSUME FlowInv, NEW w \in Attempt, Accept(w) PROVE FlowInv'
<1> DEFINE m == [worker[w] EXCEPT !.at = "save", !.kept = Allowed(w), !.todo = {}]
<1>1. /\ UNCHANGED <<policy, since, job, Stored, Denials, contacted>> /\ worker[w].at = "check"
      /\ w[1] = "filter" /\ WorkerOK(w, worker[w], since, Readable, candidates, results)
      /\ worker[w] \in Memory /\ worker' = [worker EXCEPT ![w] = m] /\ DeniedOf(w) = {}
  BY DEF Accept, Checked, Outside, At, Put, FlowInv, WorkersFit, FlowTypeOK
<1>2. ContactsAllowed'
  BY <1>1 DEF FlowInv, ContactsAllowed
<1>3. Allowed(w) = worker[w].todo /\ Allowed(w) \subseteq Reach(since) /\ Allowed(w) \subseteq Url
  BY <1>1 DEF DeniedOf, Allowed, Reach, WorkerOK, Memory
<1>4. m \in Memory /\ m.at = "save" /\ m.kept = Allowed(w) /\ m.policy = worker[w].policy
  BY <1>1, <1>3 DEF Memory, Place
<1> HIDE DEF m
<1>5. WorkerOK(w, m, since, Readable, candidates, results)
  BY <1>1, <1>3, <1>4 DEF WorkerOK
<1> QED BY <1>1, <1>2, <1>4, <1>5, StayKeeps

LEMMA SentAllowed ==
  ASSUME FlowInv, NEW urls, urls \subseteq Reach(since), contacted' = Sent(urls)
  PROVE  ContactsAllowed'
BY DEF FlowInv, ContactsAllowed, Sent, Reach

LEMMA ContactKeeps == ASSUME FlowInv, NEW w \in Attempt, Contact(w) PROVE FlowInv'
<1>1. /\ UNCHANGED <<policy, since, job, Stored, Denials>> /\ worker[w].at = "contact"
      /\ w[1] = "verify" /\ WorkerOK(w, worker[w], since, Readable, candidates, results)
      /\ worker[w] \in Memory /\ candidates # None
  BY DEF Contact, Outside, At, FlowInv, WorkersFit, WorkerOK, FlowTypeOK
<1>2. CASE results # None
  <2> DEFINE m == [Resting EXCEPT !.at = "saved"]
  <2>1. worker' = [worker EXCEPT ![w] = m] /\ UNCHANGED contacted
    BY <1>2 DEF Contact, End, Put
  <2>2. m \in Memory /\ m.at = "saved" /\ m.kept = {}
    BY FlowAssumption DEF Resting, Memory, Place
  <2> HIDE DEF m
  <2>3. WorkerOK(w, m, since, Readable, candidates, results)
    BY <1>1, <1>2, <2>2 DEF WorkerOK
  <2>4. ContactsAllowed'
    BY <2>1 DEF FlowInv, ContactsAllowed
  <2> QED BY <1>1, <2>1, <2>2, <2>3, <2>4, StayKeeps
<1>3. CASE results = None
  <2>1. PICK selected \in SUBSET candidates :
          /\ contacted' = Sent(selected)
          /\ \E answers \in IF selected = {} THEN {{}} ELSE Redirects :
               Put(w, [worker[w] EXCEPT !.at = "check", !.todo = answers, !.kept = selected])
    BY <1>3 DEF Contact
  <2>2. PICK answers \in IF selected = {} THEN {{}} ELSE Redirects :
          Put(w, [worker[w] EXCEPT !.at = "check", !.todo = answers, !.kept = selected])
    BY <2>1
  <2>3. answers \in SUBSET Url /\ selected \in SUBSET Url /\ selected \subseteq Reach(since)
    BY <1>1, FlowAssumption DEF FlowInv, EvidenceComplete
  <2> DEFINE m == [worker[w] EXCEPT !.at = "check", !.todo = answers, !.kept = selected]
  <2>4. m \in Memory /\ m.at = "check" /\ m.kept = selected /\ m.policy = worker[w].policy
    BY <1>1, <2>3 DEF Memory, Place
  <2>5. worker' = [worker EXCEPT ![w] = m]
    BY <2>2 DEF Put
  <2> HIDE DEF m
  <2>6. WorkerOK(w, m, since, Readable, candidates, results)
    BY <1>1, <2>3, <2>4 DEF WorkerOK
  <2>7. ContactsAllowed'
    BY <2>1, <2>3, SentAllowed
  <2> QED BY <1>1, <2>4, <2>5, <2>6, <2>7, StayKeeps
<1> QED BY <1>2, <1>3

LEMMA FollowRedirectsKeeps ==
  ASSUME FlowInv, NEW w \in Attempt, FollowRedirects(w) PROVE FlowInv'
<1>1. /\ UNCHANGED <<policy, since, job, Stored, Denials>> /\ worker[w].at = "check"
      /\ w[1] = "verify" /\ WorkerOK(w, worker[w], since, Readable, candidates, results)
      /\ worker[w] \in Memory
  BY DEF FollowRedirects, Outside, At, FlowInv, WorkersFit, FlowTypeOK
<1>2. PICK follow \in SUBSET Allowed(w) :
        /\ contacted' = Sent(follow)
        /\ Put(w, [worker[w] EXCEPT !.at = "save", !.kept = @ \cup follow, !.todo = {}])
  BY DEF FollowRedirects
<1>3. follow \subseteq Reach(since) /\ follow \subseteq Url
  BY <1>1 DEF Allowed, Reach, WorkerOK, Memory
<1> DEFINE m == [worker[w] EXCEPT !.at = "save", !.kept = @ \cup follow, !.todo = {}]
<1>4. m \in Memory /\ m.at = "save" /\ m.kept = worker[w].kept \cup follow /\ m.policy = worker[w].policy
  BY <1>1, <1>3 DEF Memory, Place
<1>5. worker' = [worker EXCEPT ![w] = m]
  BY <1>2 DEF Put
<1> HIDE DEF m
<1>6. WorkerOK(w, m, since, Readable, candidates, results)
  BY <1>1, <1>3, <1>4 DEF WorkerOK
<1>7. ContactsAllowed'
  BY <1>2, <1>3, SentAllowed
<1> QED BY <1>1, <1>4, <1>5, <1>6, <1>7, StayKeeps

LEMMA CheckWritableKeeps == ASSUME FlowInv, NEW w \in Attempt, CheckWritable(w) PROVE FlowInv'
<1>1. /\ UNCHANGED <<policy, since, job, Stored, Denials, contacted>> /\ worker[w].at = "save"
      /\ w[1] \in Stage /\ WorkerOK(w, worker[w], since, Readable, candidates, results)
      /\ worker[w] \in Memory
  BY AttemptStage DEF CheckWritable, Outside, At, FlowInv, WorkersFit, FlowTypeOK
<1>2. ContactsAllowed'
  BY <1>1 DEF FlowInv, ContactsAllowed
<1>3. CASE ~Writable(w)
  <2>1. worker' = [worker EXCEPT ![w] = [Resting EXCEPT !.at = "failed"]]
    BY <1>3 DEF CheckWritable, End, Put
  <2> QED BY <1>1, <1>2, <2>1, RestingFits, StayKeeps
<1>4. CASE Writable(w)
  <2> DEFINE m == [worker[w] EXCEPT !.at = "write"]
  <2>1. worker' = [worker EXCEPT ![w] = m]
    BY <1>4 DEF CheckWritable, Put
  <2>2. /\ m \in Memory /\ m.at = "write" /\ m.kept = worker[w].kept /\ m.policy = worker[w].policy
    BY <1>1 DEF Memory, Place
  <2> HIDE DEF m
  <2>3. WorkerOK(w, m, since, Readable, candidates, results)
    BY <1>1, <2>2 DEF WorkerOK
  <2> QED BY <1>1, <1>2, <2>1, <2>2, <2>3, StayKeeps
<1> QED BY <1>3, <1>4

\* What an attempt stores is complete and allowed, or stored already.
LEMMA SaveKeeps == ASSUME FlowInv, NEW w \in Attempt, Save(w) PROVE FlowInv'
<1>1. /\ UNCHANGED <<policy, since, job, contacted>> /\ Readable' = Readable /\ worker[w].at = "write"
      /\ w[1] \in Stage /\ WorkerOK(w, worker[w], since, Readable, candidates, results)
      /\ worker[w] \in Memory
  BY AttemptStage DEF Save, Outside, At, FlowInv, WorkersFit, FlowTypeOK, Denials, Readable
<1>2. ContactsAllowed'
  BY <1>1 DEF FlowInv, ContactsAllowed
<1> DEFINE m == [Resting EXCEPT !.at = "saved"]
<1>3. worker' = [worker EXCEPT ![w] = m]
  BY DEF Save, End, Put
<1>4. m \in Memory /\ m.at = "saved" /\ m.kept = {}
  BY FlowAssumption DEF Resting, Memory, Place
<1> HIDE DEF m
<1>5. worker[w].kept \subseteq Url /\ worker[w].kept \subseteq Reach(since) /\ worker[w].kept # None
  BY <1>1, FlowAssumption DEF Memory, WorkerOK, None
<1>6. /\ w[1] = "filter" => /\ candidates' = First(candidates, worker[w].kept)
                            /\ UNCHANGED <<results, inventory>>
      /\ w[1] = "verify" => /\ results' = First(results, worker[w].kept)
                            /\ UNCHANGED <<candidates, inventory>>
      /\ w[1] = "merge" => /\ inventory' = candidates \cup results
                           /\ UNCHANGED <<candidates, results>>
  BY <1>1 DEF Save, Stage
<1>7. Grows /\ EvidenceComplete' /\ WorkerOK(w, m, since', Readable', candidates', results')
  <2>1. CASE w[1] = "filter"
    <3>1. candidates' # None /\ Grows
      BY <1>1, <1>5, <1>6, <2>1 DEF First, Grows, FlowInv, FlowTypeOK
    <3>2. WorkerOK(w, m, since', Readable', candidates', results')
      BY <1>4, <2>1, <3>1 DEF WorkerOK
    <3>3. AllIn(worker[w].kept, Readable)
      BY <1>1, <2>1 DEF WorkerOK
    <3>4. EvidenceComplete'
      BY <1>1, <1>5, <1>6, <2>1, <3>3 DEF First, FlowInv, EvidenceComplete, AllIn
    <3> QED BY <3>1, <3>2, <3>4
  <2>2. CASE w[1] = "verify"
    <3>1. results' # None /\ candidates # None /\ Grows
      BY <1>1, <1>5, <1>6, <2>2 DEF First, Grows, FlowInv, FlowTypeOK, WorkerOK
    <3>2. WorkerOK(w, m, since', Readable', candidates', results')
      BY <1>4, <1>6, <2>2, <3>1 DEF WorkerOK
    <3>3. EvidenceComplete'
      BY <1>1, <1>5, <1>6, <2>2 DEF First, FlowInv, EvidenceComplete, AllIn
    <3> QED BY <3>1, <3>2, <3>3
  <2>3. CASE w[1] = "merge"
    <3>1. results # None /\ candidates # None /\ Grows
      BY <1>1, <1>6, <2>3 DEF Grows, FlowInv, FlowTypeOK, WorkerOK
    <3>2. WorkerOK(w, m, since', Readable', candidates', results')
      BY <1>4, <1>6, <2>3, <3>1 DEF WorkerOK
    <3>3. EvidenceComplete'
      BY <1>1, <1>6, <2>3, <3>1 DEF FlowInv, EvidenceComplete, AllIn
    <3> QED BY <3>1, <3>2, <3>3
  <2> QED BY <1>1, <2>1, <2>2, <2>3 DEF Stage
<1>8. worker' \in [Attempt -> Memory] /\ WorkersFit'
  BY <1>3, <1>4, <1>7, OthersFit
<1>9. FlowTypeOK' /\ StagesInOrder'
  BY <1>1, <1>7, <1>8 DEF FlowInv, FlowTypeOK, StagesInOrder, Grows
<1> QED BY <1>2, <1>7, <1>8, <1>9 DEF FlowInv

LEMMA SucceedKeeps == ASSUME FlowInv, NEW w \in Attempt, Succeed(w) PROVE FlowInv'
<1> DEFINE m == [Resting EXCEPT !.at = "none"]
<1>1. /\ UNCHANGED <<policy, since, Stored, contacted>> /\ Readable' = Readable /\ worker[w].at = "saved"
      /\ w[1] \in Stage /\ WorkerOK(w, worker[w], since, Readable, candidates, results)
      /\ worker' = [worker EXCEPT ![w] = m]
  BY AttemptStage DEF Succeed, End, Put, Outside, At, FlowInv, WorkersFit, Denials, Readable
<1>2. m \in Memory /\ WorkerOK(w, m, since', Readable', candidates', results')
  BY RestingFits
<1>3. Grows
  BY <1>1 DEF Grows, Stored, FlowInv, FlowTypeOK
<1>4. worker' \in [Attempt -> Memory] /\ WorkersFit'
  <2> HIDE DEF m
  <2> QED BY <1>1, <1>2, <1>3, OthersFit
<1>5. \/ UNCHANGED job
      \/ job.stage = w[1] /\ job' = [stage |-> NextStage(w[1]), attempt |-> 0]
  BY DEF Succeed
<1>6. job' \in [stage : Stage \cup {"done"}, attempt : Nat]
  BY <1>1, <1>5 DEF FlowInv, FlowTypeOK, NextStage, Stage
<1>7. StagesInOrder'
  BY <1>1, <1>5 DEF FlowInv, StagesInOrder, WorkerOK, NextStage, Stage, Stored
<1>8. FlowTypeOK' /\ EvidenceComplete' /\ ContactsAllowed'
  BY <1>1, <1>4, <1>6 DEF FlowInv, FlowTypeOK, EvidenceComplete, ContactsAllowed, Stored
<1> QED BY <1>4, <1>7, <1>8 DEF FlowInv

LEMMA FlowKept == FlowInv /\ [FlowNext]_flowVars => FlowInv'
BY OutsideKeeps, ClaimKeeps, ReadContextKeeps, DenyKeeps, RecordDenialKeeps, AnnounceDenialKeeps,
   AcceptKeeps, ContactKeeps, FollowRedirectsKeeps, CheckWritableKeeps, SaveKeeps, SucceedKeeps
   DEF FlowNext

\* Wherever attempts of the stages die or overlap and however policies replace each
\* other (recon-pipeline-consumer filter, verify, merge): no crawled URL is lost, although
\* the trail may lose entries, and what is contacted or inventoried was allowed by a
\* policy of the time.
THEOREM NoUrlIsLost == FlowSpec => []CrawlAccountedFor
<1>1. FlowInv => CrawlAccountedFor
  BY DEF FlowInv, StagesInOrder, EvidenceComplete, ContactsAllowed, AllIn, Readable, Reach, CrawlAccountedFor
<1> QED BY <1>1, FlowInitially, FlowKept, PTL DEF FlowSpec

-----------------------------------------------------------------------------
(***************************************************************************)
(* SavedAgrees for every set of commits and every number of attempts.       *)
(***************************************************************************)

ResolverPlace == {"none", "begin", "resolved", "checked_out", "looked", "saved", "linked", "failed"}
Source == {"none", "ci_supplied", "build_info_endpoint", "assumed"}
Row == [commit : Claim, source : Source, build : Claim]
ResolverMemory == [at : ResolverPlace, row : Row, existing : Claim]

ResolverTypeOK == ProvenanceTypeOK /\ resolver \in [SourceAttempt -> ResolverMemory]

\* A row that one resolution produced: no claim it was made from contradicts it.
Grounded(row) ==
  /\ row.commit \in Commit
  /\ row.build \in {Nothing, row.commit} /\ caller \in {Nothing, row.commit}
  /\ (row.source = "assumed") = (row.build = Nothing /\ caller = Nothing)

AttemptsGrounded ==
  \A n \in SourceAttempt :
    /\ resolver[n].at \in {"resolved", "checked_out", "looked"} => Grounded(resolver[n].row)
    /\ resolver[n].at \in {"checked_out", "looked"} => resolver[n].row.commit \in checkouts
    /\ resolver[n].at \in {"saved", "linked"} => saved # NoRow
    /\ resolver[n].at = "linked" => linked

RowGrounded == saved # NoRow => Grounded(saved) /\ saved.commit \in checkouts

SuccessHasRow == sourceJob.status = "succeeded" => linked /\ saved # NoRow

ProvenanceInv == ResolverTypeOK /\ AttemptsGrounded /\ RowGrounded /\ SuccessHasRow

\* What resolve returns when the claims agree.
LEMMA ResolutionGrounded ==
  ASSUME ProvenanceTypeOK, ClaimsAgree
  PROVE  Resolved \in Row /\ Grounded(Resolved)
<1> USE ProvenanceAssumption
<1>1. caller \in Claim /\ deployed \in Claim /\ branch \in Commit
  BY DEF ProvenanceTypeOK
<1>2. ASSUME caller # Nothing, deployed # Nothing PROVE caller = deployed
  <2>1. SUFFICES ASSUME caller # deployed PROVE FALSE
    OBVIOUS
  <2>2. Observed = {caller, deployed}
    BY <1>2 DEF Observed
  <2>3. IsFiniteSet({deployed}) /\ Cardinality({deployed}) = 1
    BY FS_Singleton
  <2>4. Cardinality({deployed} \cup {caller}) = 2
    BY <2>1, <2>3, FS_AddElement
  <2>5. {deployed} \cup {caller} = {caller, deployed}
    OBVIOUS
  <2> QED BY <2>2, <2>4, <2>5 DEF ClaimsAgree
<1>3. Resolved.commit = IF caller # Nothing THEN caller
                        ELSE IF deployed # Nothing THEN deployed ELSE branch
  BY DEF Resolved
<1>4. Resolved.build = deployed
  BY DEF Resolved
<1>5. Resolved.source = IF caller # Nothing THEN "ci_supplied"
                        ELSE IF deployed # Nothing THEN "build_info_endpoint" ELSE "assumed"
  BY DEF Resolved
<1>6. Resolved.commit \in Commit
  BY <1>1, <1>3 DEF Claim
<1>7. Resolved \in Row
  BY <1>1, <1>6 DEF Resolved, Row, Claim, Source
<1>8. Grounded(Resolved)
  BY <1>1, <1>2, <1>3, <1>4, <1>5, <1>6 DEF Grounded, Claim
<1> QED BY <1>7, <1>8

LEMMA ProvenanceInitially == ProvenanceInit => ProvenanceInv
<1> SUFFICES ASSUME ProvenanceInit PROVE ProvenanceInv
  OBVIOUS
<1> USE ProvenanceAssumption DEF ProvenanceInit
<1>1. NoRow \in Row /\ Fresh \in ResolverMemory
  BY DEF NoRow, Fresh, Row, ResolverMemory, Claim, ResolverPlace, Source
<1>2. ProvenanceTypeOK
  <2>1. saved \in [commit : Claim, build : Claim, source : Source]
    BY DEF NoRow, Claim, Source
  <2>2. sourceJob \in [status : {"queued", "running", "succeeded", "failed"}, attempt : 0..SourceClaims]
    OBVIOUS
  <2>3. branch \in Commit /\ deployed \in Claim /\ caller \in Claim /\ checkouts \subseteq Commit
    OBVIOUS
  <2>4. linked \in BOOLEAN
    OBVIOUS
  <2> QED BY <2>1, <2>2, <2>3, <2>4 DEF ProvenanceTypeOK, Source
<1>3. AttemptsGrounded /\ RowGrounded /\ SuccessHasRow
  BY DEF AttemptsGrounded, RowGrounded, SuccessHasRow, Fresh
<1> QED BY <1>1, <1>2, <1>3 DEF ProvenanceInv, ResolverTypeOK

\* The branch moves, the build is replaced, an attempt is claimed: no row changes.
LEMMA WorldKeeps ==
  ASSUME ProvenanceInv, Push \/ Deploy \/ ClaimJob \/ UNCHANGED provenanceVars
  PROVE  ProvenanceInv'
<1> USE ProvenanceAssumption DEF ProvenanceInv
<1>1. UNCHANGED <<caller, saved, checkouts, linked>>
  BY DEF Push, Deploy, ClaimJob, World, provenanceVars
<1>2. branch' \in Commit /\ deployed' \in Claim
  BY DEF Push, Deploy, ClaimJob, World, provenanceVars, ResolverTypeOK, ProvenanceTypeOK
<1>3. /\ sourceJob' \in [status : {"queued", "running", "succeeded", "failed"}, attempt : 0..SourceClaims]
      /\ sourceJob'.status = "succeeded" => sourceJob.status = "succeeded"
  BY DEF Push, Deploy, ClaimJob, provenanceVars, ResolverTypeOK, ProvenanceTypeOK
<1>4. /\ resolver' \in [SourceAttempt -> ResolverMemory]
      /\ \A n \in SourceAttempt : \/ resolver'[n] = resolver[n]
                                  \/ resolver'[n].at = "begin"
  <2>1. CASE UNCHANGED resolver
    BY <2>1 DEF ResolverTypeOK
  <2>2. CASE ClaimJob
    <3> DEFINE m == sourceJob.attempt + 1
    <3>1. resolver' = [resolver EXCEPT ![m].at = "begin"]
      BY <2>2 DEF ClaimJob
    <3>2. resolver \in [SourceAttempt -> ResolverMemory]
      BY DEF ResolverTypeOK
    <3> HIDE DEF m
    <3> QED BY <3>1, <3>2 DEF ResolverMemory, ResolverPlace
  <2> QED BY <2>1, <2>2 DEF Push, Deploy, provenanceVars
<1>5. ResolverTypeOK'
  BY <1>1, <1>2, <1>3, <1>4 DEF ResolverTypeOK, ProvenanceTypeOK
<1>6. AttemptsGrounded'
  BY <1>1, <1>4 DEF AttemptsGrounded, Grounded
<1>7. RowGrounded' /\ SuccessHasRow'
  BY <1>1, <1>3 DEF RowGrounded, SuccessHasRow, Grounded
<1> QED BY <1>5, <1>6, <1>7

\* A step of attempt n up to the save: the row is not touched yet.
LEMMA BeforeSaveKeeps ==
  ASSUME ProvenanceInv, NEW n \in SourceAttempt, Resolve(n) \/ Checkout(n) \/ FindExisting(n)
  PROVE  ProvenanceInv'
<1> USE ProvenanceAssumption DEF ProvenanceInv
<1>1. UNCHANGED <<caller, branch, deployed, saved, linked, sourceJob>>
  BY DEF Resolve, Checkout, FindExisting, World
<1>2. /\ resolver \in [SourceAttempt -> ResolverMemory] /\ resolver[n] \in ResolverMemory /\ saved.commit \in Claim
      /\ checkouts \subseteq Commit
  BY DEF ResolverTypeOK, ProvenanceTypeOK
<1>3. PICK step \in ResolverMemory :
        /\ resolver' = [resolver EXCEPT ![n] = step]
        /\ step.at \in {"resolved", "checked_out", "looked", "failed"}
        /\ step.at # "failed" => Grounded(step.row)
        /\ step.at \in {"checked_out", "looked"} => step.row.commit \in checkouts'
        /\ checkouts \subseteq checkouts' /\ checkouts' \subseteq Commit
  <2>1. CASE Resolve(n) /\ ClaimsAgree
    <3> DEFINE step == [Fresh EXCEPT !.at = "resolved", !.row = Resolved]
    <3>1. Resolved \in Row /\ Grounded(Resolved)
      BY <2>1, ResolutionGrounded DEF ResolverTypeOK
    <3>2. step \in ResolverMemory /\ step.at = "resolved" /\ step.row = Resolved
      BY <3>1 DEF Fresh, ResolverMemory, ResolverPlace, Claim
    <3>3. resolver' = [resolver EXCEPT ![n] = step] /\ UNCHANGED checkouts
      BY <2>1 DEF Resolve
    <3> HIDE DEF step
    <3> QED BY <1>2, <3>1, <3>2, <3>3
  <2>2. CASE Resolve(n) /\ ~ClaimsAgree
    <3> DEFINE step == [Fresh EXCEPT !.at = "failed"]
    <3>1. step \in ResolverMemory /\ step.at = "failed"
      BY DEF Fresh, NoRow, ResolverMemory, Row, ResolverPlace, Claim, Source
    <3>2. resolver' = [resolver EXCEPT ![n] = step] /\ UNCHANGED checkouts
      BY <2>2 DEF Resolve
    <3> HIDE DEF step
    <3> QED BY <1>2, <3>1, <3>2
  <2>3. CASE Checkout(n)
    <3> DEFINE step == [resolver[n] EXCEPT !.at = "checked_out"]
    <3>1. step \in ResolverMemory /\ step.at = "checked_out" /\ step.row = resolver[n].row
      BY <1>2 DEF ResolverMemory, ResolverPlace
    <3>2. /\ resolver' = [resolver EXCEPT ![n] = step] /\ checkouts' = checkouts \cup {resolver[n].row.commit}
          /\ Grounded(resolver[n].row)
      BY <2>3 DEF Checkout, Step, AttemptsGrounded
    <3>3. resolver[n].row.commit \in Commit
      BY <3>2 DEF Grounded
    <3> HIDE DEF step
    <3> QED BY <1>2, <3>1, <3>2, <3>3
  <2>4. CASE FindExisting(n)
    <3> DEFINE step == [resolver[n] EXCEPT !.at = "looked", !.existing = saved.commit]
    <3>1. step \in ResolverMemory /\ step.at = "looked" /\ step.row = resolver[n].row
      BY <1>2 DEF ResolverMemory, ResolverPlace
    <3>2. /\ resolver' = [resolver EXCEPT ![n] = step] /\ UNCHANGED checkouts
          /\ Grounded(resolver[n].row) /\ resolver[n].row.commit \in checkouts
      BY <2>4 DEF FindExisting, AttemptsGrounded
    <3> HIDE DEF step
    <3> QED BY <1>2, <3>1, <3>2
  <2> QED BY <2>1, <2>2, <2>3, <2>4
<1>4. ResolverTypeOK'
  BY <1>1, <1>2, <1>3 DEF ResolverTypeOK, ProvenanceTypeOK
<1>5. AttemptsGrounded'
  BY <1>1, <1>2, <1>3 DEF AttemptsGrounded, Grounded
<1>6. RowGrounded' /\ SuccessHasRow'
  BY <1>1, <1>3 DEF RowGrounded, SuccessHasRow, Grounded
<1> QED BY <1>4, <1>5, <1>6

\* Whoever saves last saves the row of a resolution, checked out.
LEMMA UpsertKeeps ==
  ASSUME ProvenanceInv, NEW n \in SourceAttempt, Upsert(n)
  PROVE  ProvenanceInv'
<1> USE ProvenanceAssumption DEF ProvenanceInv
<1>1. /\ UNCHANGED <<caller, branch, deployed, sourceJob, checkouts, linked>>
      /\ saved' = resolver[n].row /\ resolver[n].at = "looked"
  BY DEF Upsert, World
<1>2. Grounded(saved') /\ saved'.commit \in checkouts
  BY <1>1 DEF AttemptsGrounded
<1>3. saved' # NoRow
  BY <1>2 DEF Grounded, NoRow
<1>4. PICK pos \in {"saved", "failed"} : resolver' = [resolver EXCEPT ![n].at = pos]
  BY DEF Upsert
<1>5. resolver \in [SourceAttempt -> ResolverMemory] /\ resolver[n] \in ResolverMemory
  BY DEF ResolverTypeOK
<1>6. resolver' \in [SourceAttempt -> ResolverMemory] /\ resolver'[n].at = pos
      /\ \A m \in SourceAttempt \ {n} : resolver'[m] = resolver[m]
  BY <1>4, <1>5 DEF ResolverMemory, ResolverPlace
<1>7. saved' \in [commit : Claim, build : Claim, source : Source]
  BY <1>1, <1>5 DEF ResolverMemory, Row
<1>8. ResolverTypeOK'
  BY <1>1, <1>6, <1>7 DEF ResolverTypeOK, ProvenanceTypeOK, Source
<1>9. AttemptsGrounded'
  BY <1>1, <1>3, <1>6 DEF AttemptsGrounded, Grounded
<1>10. RowGrounded' /\ SuccessHasRow'
  BY <1>1, <1>2, <1>3 DEF RowGrounded, SuccessHasRow, Grounded
<1> QED BY <1>8, <1>9, <1>10

LEMMA AfterSaveKeeps ==
  ASSUME ProvenanceInv, NEW n \in SourceAttempt, Link(n) \/ Finish(n)
  PROVE  ProvenanceInv'
<1> USE ProvenanceAssumption DEF ProvenanceInv
<1>1. /\ UNCHANGED <<caller, branch, deployed, saved, checkouts>>
      /\ resolver \in [SourceAttempt -> ResolverMemory] /\ resolver[n] \in ResolverMemory
  BY DEF Link, Finish, World, ResolverTypeOK
<1>2. CASE Link(n)
  <2>1. /\ linked' = TRUE /\ UNCHANGED sourceJob /\ resolver[n].at = "saved"
        /\ resolver' = [resolver EXCEPT ![n].at = "linked"]
    BY <1>2 DEF Link, Step
  <2>2. resolver' \in [SourceAttempt -> ResolverMemory] /\ resolver'[n].at = "linked"
        /\ \A m \in SourceAttempt \ {n} : resolver'[m] = resolver[m]
    BY <1>1, <2>1 DEF ResolverMemory, ResolverPlace
  <2>3. ResolverTypeOK'
    BY <1>1, <2>1, <2>2 DEF ResolverTypeOK, ProvenanceTypeOK
  <2>4. AttemptsGrounded'
    BY <1>1, <2>1, <2>2 DEF AttemptsGrounded, Grounded
  <2>5. RowGrounded' /\ SuccessHasRow'
    BY <1>1, <2>1 DEF RowGrounded, SuccessHasRow, Grounded
  <2> QED BY <2>3, <2>4, <2>5
<1>3. CASE Finish(n)
  <2>1. UNCHANGED linked /\ resolver' = [resolver EXCEPT ![n] = Fresh]
    BY <1>3 DEF Finish
  <2>2. Fresh \in ResolverMemory /\ Fresh.at = "none"
    BY DEF Fresh, NoRow, ResolverMemory, Row, ResolverPlace, Claim, Source
  <2>3. /\ sourceJob' \in [status : {"queued", "running", "succeeded", "failed"}, attempt : 0..SourceClaims]
        /\ sourceJob'.status = "succeeded" => sourceJob.status = "succeeded" \/ Done(n)
    BY <1>3 DEF Finish, ResolverTypeOK, ProvenanceTypeOK
  <2>4. ResolverTypeOK'
    BY <1>1, <2>1, <2>2, <2>3 DEF ResolverTypeOK, ProvenanceTypeOK
  <2>5. AttemptsGrounded'
    BY <1>1, <2>1, <2>2 DEF AttemptsGrounded, Grounded
  <2>6. RowGrounded'
    BY <1>1 DEF RowGrounded, Grounded
  <2>7. SuccessHasRow'
    BY <1>1, <2>1, <2>3 DEF SuccessHasRow, AttemptsGrounded, Done
  <2> QED BY <2>4, <2>5, <2>6, <2>7
<1> QED BY <1>2, <1>3

LEMMA ProvenanceKept == ProvenanceInv /\ [ProvenanceNext]_provenanceVars => ProvenanceInv'
BY WorldKeeps, BeforeSaveKeeps, UpsertKeeps, AfterSaveKeeps DEF ProvenanceNext

\* However attempts of the provenance job overlap and whatever moves between their
\* steps (sast-job-consumer runProvenance, provenance-resolver): the saved row is one
\* resolution's, checked out, and a job that succeeded has it.
THEOREM SavedRowAgrees == ProvenanceSpec => []SavedAgrees
<1>1. ProvenanceInv => SavedAgrees
  BY DEF ProvenanceInv, RowGrounded, Grounded, SuccessHasRow, SavedAgrees
<1> QED BY <1>1, ProvenanceInitially, ProvenanceKept, PTL DEF ProvenanceSpec

-----------------------------------------------------------------------------
(* EventsInOrder for every number of writers, events and reconnections. *)

Connection == [open : BOOLEAN, cursor : Nat, polling : BOOLEAN, polls : Seq(Nat)]
EventsTypeOK ==
  /\ rows \in Nat /\ mine \in [Appender -> Nat]
  /\ stream \in Connection
  /\ wire \in Seq(Nat) /\ received \in Seq(Nat)

\* The row lock covers the read and the insert of one writer.
OneAppends == \A w \in Appender : mine[w] > 0 => lock = w /\ mine[w] = rows + 1

\* What the client received and what is on its way are the first events; the cursor
\* is the last of them, and only one poll, with that cursor, is under way.
Contiguous ==
  /\ \A i \in 1..Len(received) : received[i] = i
  /\ \A i \in 1..Len(wire) : wire[i] = Len(received) + i
  /\ Len(received) + Len(wire) <= rows
  /\ stream.open => stream.cursor = Len(received) + Len(wire)
  /\ ~stream.open => wire = <<>>
  /\ stream.polls = <<>> \/ (stream.polling /\ stream.polls = <<stream.cursor>>)

EventsInv == EventsTypeOK /\ OneAppends /\ ~refused /\ Contiguous

LEMMA AppendKeeps ==
  ASSUME EventsAssumption, EventsInv,
         NEW w \in Appender, ReadLast(w) \/ Insert(w) \/ Rollback(w)
  PROVE  EventsInv'
<1>1. UNCHANGED <<stream, wire, received>>
  BY DEF ReadLast, Insert, Rollback
<1>2. rows \in Nat /\ mine \in [Appender -> Nat] /\ ~refused
      /\ \A v \in Appender : mine[v] > 0 => lock = v /\ mine[v] = rows + 1
  BY DEF EventsInv, EventsTypeOK, OneAppends
<1>3. /\ rows' \in Nat /\ mine' \in [Appender -> Nat] /\ rows' >= rows /\ ~refused'
      /\ \A v \in Appender : mine'[v] > 0 => lock' = v /\ mine'[v] = rows' + 1
  <2>1. CASE ReadLast(w)
    <3>1. \A v \in Appender : mine[v] = 0
      BY <1>2, <2>1 DEF ReadLast, LockFree, EventsAssumption
    <3> QED BY <1>2, <2>1, <3>1 DEF ReadLast
  <2>2. CASE Insert(w) \/ Rollback(w)
    <3>1. \A v \in Appender : mine'[v] = 0
      BY <1>2, <2>2 DEF Insert, Rollback
    <3>2. rows' \in Nat /\ rows' >= rows /\ ~refused'
      BY <1>2, <2>2 DEF Insert, Rollback
    <3>3. mine' \in [Appender -> Nat]
      BY <1>2, <2>2 DEF Insert, Rollback
    <3> QED BY <3>1, <3>2, <3>3
  <2> QED BY <2>1, <2>2
<1> QED
  BY <1>1, <1>2, <1>3 DEF EventsInv, EventsTypeOK, OneAppends, Contiguous

LEMMA PollKeeps ==
  ASSUME EventsInv, Connect \/ StartPoll \/ Disconnect
  PROVE  EventsInv'
<1>1. UNCHANGED <<rows, mine, lock, refused, received>> /\ OneAppends'
  BY DEF EventsInv, OneAppends, Connect, StartPoll, Disconnect
<1>2. stream \in Connection /\ Closed \in Connection /\ Len(received) \in Nat
  BY DEF EventsInv, EventsTypeOK, Connection, Closed
<1>3. CASE Connect
  <2>1. LastSeen = Len(received)
    <3>1. received # <<>> => Len(received) \in 1..Len(received)
      BY DEF EventsInv, EventsTypeOK
    <3>2. received = <<>> => Len(received) = 0
      OBVIOUS
    <3> QED BY <3>1, <3>2 DEF EventsInv, Contiguous, LastSeen
  <2>2. /\ stream' \in Connection /\ stream'.open /\ stream'.polls = Closed.polls
        /\ stream'.cursor = LastSeen
    BY <1>2, <1>3, <2>1 DEF Connect, Connection
  <2>3. wire' = wire /\ wire = <<>> /\ Closed.polls = <<>>
    BY <1>3 DEF Connect, Closed, EventsInv, Contiguous
  <2> QED
    BY <1>1, <2>1, <2>2, <2>3 DEF EventsInv, EventsTypeOK, Contiguous
<1>4. CASE StartPoll
  <2>1. stream.polls = <<>> /\ wire' = wire /\ stream.open
    BY <1>4 DEF StartPoll, Idle, EventsInv, Contiguous
  <2> DEFINE polls == <<stream.cursor>>
  <2>2. polls \in Seq(Nat)
    BY <1>2 DEF Connection
  <2>3. stream' = [stream EXCEPT !.polling = TRUE, !.polls = polls]
    BY <1>2, <1>4, <2>1, <2>2 DEF StartPoll, Connection
  <2> HIDE DEF polls
  <2>4. /\ stream' \in Connection /\ stream'.open /\ stream'.cursor = stream.cursor
        /\ stream'.polling = TRUE /\ stream'.polls = polls
    BY <1>2, <2>1, <2>2, <2>3 DEF Connection
  <2> QED
    BY <1>1, <2>1, <2>2, <2>4 DEF EventsInv, EventsTypeOK, Contiguous, polls
<1>5. CASE Disconnect
  BY <1>1, <1>5 DEF Disconnect, Closed, Connection, EventsInv, EventsTypeOK, Contiguous
<1> QED
  BY <1>3, <1>4, <1>5

\* What listAfter answers.
LEMMA ListAfterEvents ==
  ASSUME EventsAssumption, rows \in Nat, NEW after \in Nat, after <= rows
  PROVE  /\ ListAfter(after) \in Seq(Nat) /\ after + Len(ListAfter(after)) <= rows
         /\ \A i \in 1..Len(ListAfter(after)) : ListAfter(after)[i] = after + i
<1> DEFINE n == IF rows - after < Batch THEN rows - after ELSE Batch
<1>1. n \in Nat /\ after + n <= rows
  BY DEF EventsAssumption
<1>2. ListAfter(after) = [i \in 1..n |-> after + i]
  BY DEF ListAfter
<1> HIDE DEF n
<1> QED
  BY <1>1, <1>2

LEMMA DeliverKeeps ==
  ASSUME EventsAssumption, EventsInv, Deliver
  PROVE  EventsInv'
<1> DEFINE events == ListAfter(Head(stream.polls))
<1>0. /\ stream.open /\ stream \in Connection /\ wire \in Seq(Nat) /\ Len(received) \in Nat
      /\ stream.polls = <<stream.cursor>> /\ stream.cursor = Len(received) + Len(wire) /\ stream.cursor <= rows
  BY DEF Deliver, EventsInv, EventsTypeOK, Contiguous
<1>1. Head(stream.polls) = stream.cursor /\ Tail(stream.polls) = <<>>
  BY <1>0
<1>2. /\ events \in Seq(Nat) /\ stream.cursor + Len(events) <= rows
      /\ \A i \in 1..Len(events) : events[i] = stream.cursor + i
  <2>1. stream.cursor \in Nat /\ rows \in Nat
    BY <1>0 DEF EventsInv, EventsTypeOK
  <2>2. /\ ListAfter(stream.cursor) \in Seq(Nat)
        /\ stream.cursor + Len(ListAfter(stream.cursor)) <= rows
        /\ \A i \in 1..Len(ListAfter(stream.cursor)) : ListAfter(stream.cursor)[i] = stream.cursor + i
    BY <1>0, <2>1, ListAfterEvents
  <2>3. events = ListAfter(stream.cursor)
    BY <1>1
  <2> QED BY <2>2, <2>3
<1>3. /\ wire' = wire \o events /\ UNCHANGED <<rows, lock, mine, refused, received>>
      /\ stream' = [stream EXCEPT !.polling = FALSE, !.polls = Tail(stream.polls),
                      !.cursor = IF events = <<>> THEN stream.cursor ELSE events[Len(events)]]
  BY DEF Deliver, PollingAfter
<1> HIDE DEF events
<1>4. PICK cursor \in Nat : /\ cursor = IF events = <<>> THEN stream.cursor ELSE events[Len(events)]
                            /\ cursor = stream.cursor + Len(events)
  <2>1. events = <<>> => Len(events) = 0
    OBVIOUS
  <2>2. events # <<>> => Len(events) \in 1..Len(events)
    BY <1>2
  <2>3. stream.cursor \in Nat /\ Len(events) \in Nat
    BY <1>0, <1>2 DEF Connection
  <2> QED BY <1>2, <2>1, <2>2, <2>3
<1>5. /\ stream' \in Connection /\ stream'.open /\ stream'.cursor = cursor /\ stream'.polls = <<>>
  <2> DEFINE polls == Tail(stream.polls)
  <2>1. polls = <<>> /\ polls \in Seq(Nat)
    <3>1. <<>> \in Seq(Nat)
      OBVIOUS
    <3> QED BY <1>1, <3>1, Zenon
  <2>2. stream' = [stream EXCEPT !.polling = FALSE, !.polls = polls, !.cursor = cursor]
    BY <1>3, <1>4, Zenon
  <2> HIDE DEF polls
  <2> QED BY <1>0, <2>1, <2>2 DEF Connection
<1>6. /\ wire' \in Seq(Nat) /\ Len(wire') = Len(wire) + Len(events)
      /\ \A i \in 1..Len(wire') : wire'[i] = IF i <= Len(wire) THEN wire[i] ELSE events[i - Len(wire)]
  BY <1>2, <1>3, ConcatProperties DEF EventsInv, EventsTypeOK
<1>7. \A i \in 1..Len(wire') : wire'[i] = Len(received) + i
  <2> SUFFICES ASSUME NEW i \in 1..Len(wire') PROVE wire'[i] = Len(received) + i
    OBVIOUS
  <2>1. Len(wire) \in Nat /\ Len(events) \in Nat
    BY <1>0, <1>2
  <2>2. CASE i <= Len(wire)
    BY <1>6, <2>1, <2>2, SMTT(30) DEF EventsInv, Contiguous
  <2>3. CASE i > Len(wire)
    <3>1. i - Len(wire) \in 1..Len(events)
      BY <1>6, <2>1, <2>3
    <3>2. wire'[i] = events[i - Len(wire)]
      BY <1>6, <2>1, <2>3
    <3>3. events[i - Len(wire)] = stream.cursor + (i - Len(wire))
      BY <1>2, <3>1
    <3> QED BY <1>0, <2>1, <3>2, <3>3
  <2> QED BY <2>1, <2>2, <2>3
<1> QED
  <2>1. EventsTypeOK' /\ OneAppends' /\ ~refused'
    BY <1>3, <1>5, <1>6 DEF EventsInv, EventsTypeOK, OneAppends
  <2>2. Len(received)' + Len(wire)' <= rows' /\ stream'.cursor = Len(received)' + Len(wire)'
    BY <1>0, <1>2, <1>3, <1>4, <1>5, <1>6
  <2>3. Contiguous'
    BY <1>3, <1>5, <1>7, <2>2 DEF EventsInv, Contiguous
  <2> QED BY <2>1, <2>3 DEF EventsInv

LEMMA ReceiveKeeps ==
  ASSUME EventsInv, Receive
  PROVE  EventsInv'
<1>1. /\ wire # <<>> /\ Head(wire) = wire[1] /\ wire[1] = Len(received) + 1
      /\ wire' \in Seq(Nat) /\ Len(wire') = Len(wire) - 1
      /\ \A i \in 1..Len(wire') : wire'[i] = wire[i + 1]
  BY DEF Receive, EventsInv, EventsTypeOK, Contiguous
<1>2. /\ received' \in Seq(Nat) /\ Len(received') = Len(received) + 1
      /\ \A i \in 1..Len(received') : received'[i] = IF i <= Len(received) THEN received[i] ELSE wire[1]
  BY <1>1 DEF Receive, EventsInv, EventsTypeOK
<1> QED
  BY <1>1, <1>2, SMTT(30) DEF Receive, EventsInv, EventsTypeOK, OneAppends, Contiguous

\* Across writers that race for one audit's log, lost connections and restarts, the
\* client receives every event once and in order, and no append meets the unique
\* index on the sequence.
THEOREM EventsStayInOrder ==
  ASSUME EventsAssumption
  PROVE  EventsSpec => []EventsInOrder
<1>1. EventsInit => EventsInv
  <2> SUFFICES ASSUME EventsInit PROVE EventsInv
    OBVIOUS
  <2>1. Closed \in Connection /\ ~Closed.open /\ Closed.polls = <<>>
    BY DEF Closed, Connection
  <2> QED
    BY <2>1 DEF EventsInit, EventsInv, EventsTypeOK, OneAppends, Contiguous
<1>2. EventsInv /\ [EventsNext]_eventVars => EventsInv'
  <2> SUFFICES ASSUME EventsInv, [EventsNext]_eventVars PROVE EventsInv'
    OBVIOUS
  <2>1. CASE UNCHANGED eventVars
    BY <2>1 DEF eventVars, EventsInv, EventsTypeOK, OneAppends, Contiguous
  <2> QED
    BY <2>1, AppendKeeps, PollKeeps, DeliverKeeps, ReceiveKeeps DEF EventsNext
<1>3. EventsInv => EventsInOrder
  BY DEF EventsInv, EventsTypeOK, Contiguous, EventsInOrder
<1> QED
  BY <1>1, <1>2, <1>3, PTL DEF EventsSpec
=============================================================================
