------------------------------ MODULE ReconFlow ------------------------------
(***************************************************************************)
(* What the recon pipeline of one audit does with the URLs it meets         *)
(* (recon-pipeline-consumer filter, verify and merge with recon-scope): the *)
(* crawl is filtered, the candidates are contacted, their redirects checked *)
(* and followed once, the rest recorded as denied. Policies are replaced    *)
(* meanwhile; attempts crash or go on after they lost their lease.          *)
(* Reservations, host leases and tools are ReconBudget's.                   *)
(***************************************************************************)
EXTENDS Integers

CONSTANTS
  Url,         \* the URLs the crawl and the redirects contain, canonical ones
  Page,        \* Page[u]: u without its query, as the trail names it
  Base,        \* the target's URL
  Policy,      \* scope policies
  Allows,      \* Allows[p]: the URLs that check allows under p
  Crawl,       \* what Katana reported
  Redirects,   \* the redirects an httpx run may report: a set of sets of URLs
  Claims,      \* claims of each stage's job
  MaxChanges   \* policies written while the pipeline runs

Stage == {"filter", "verify", "merge"}
ASSUME FlowAssumption ==
  /\ "none" \notin Url /\ Base \in Url /\ Crawl \subseteq Url /\ Redirects \subseteq SUBSET Url
  /\ \A p \in Policy : Allows[p] \subseteq Url
  /\ Claims \in [Stage -> Nat]

Attempt == UNION {{s} \X (1..Claims[s]) : s \in Stage}
None == {"none"}

VARIABLES
  policy, since,   \* the policy attested last; those in force since the filter began
  cancelled,       \* cancellationRequestedAt is set
  job,             \* the stage whose job runs, and its attempts
  worker,          \* worker[w]: the memory of attempt w
  candidates, results, inventory, \* the evidence of the stages and what merge wrote
  trail,           \* pages with an event worker.egress.denied of this audit
  announced,       \* pages with an event scope.denied of this audit
  contacted,       \* requests that httpx sent, with what was in force since the filter
  changes

flowVars == <<policy, since, cancelled, job, worker, candidates, results, inventory,
              trail, announced, contacted, changes>>
Outside == <<policy, since, cancelled, changes>>
Stored == <<candidates, results, inventory>>
Denials == <<trail, announced>>

\* todo: URLs ahead; url: the one whose denial is being recorded; kept: what passed.
Resting == [at |-> "none", policy |-> "none", todo |-> {}, url |-> Base, kept |-> {}]

FlowInit ==
  /\ policy \in Policy /\ since = {policy} /\ cancelled = FALSE /\ changes = 0
  /\ job = [stage |-> "filter", attempt |-> 0]
  /\ worker = [w \in Attempt |-> Resting]
  /\ candidates = None /\ results = None /\ inventory = None
  /\ trail = {} /\ announced = {} /\ contacted = {}

ReplacePolicy ==
  /\ changes < MaxChanges /\ changes' = changes + 1
  /\ policy' \in Policy \ {policy} /\ since' = since \cup {policy'}
  /\ UNCHANGED <<cancelled, job, worker, Stored, Denials, contacted>>

CancelAudit ==
  /\ ~cancelled /\ cancelled' = TRUE
  /\ UNCHANGED <<policy, since, changes, job, worker, Stored, Denials, contacted>>
-----------------------------------------------------------------------------
Writable(w) == job.stage = w[1] /\ job.attempt = w[2] /\ ~cancelled
Put(w, memory) == worker' = [worker EXCEPT ![w] = memory]
At(w, s, pos) == w[1] \in s /\ worker[w].at = pos
End(w, pos) == Put(w, [Resting EXCEPT !.at = pos])

\* The claim of the next attempt; the one before crashed or only lost its lease.
ClaimStage ==
  /\ job.stage \in Stage /\ ~cancelled /\ job.attempt < Claims[job.stage]
  /\ job' = [job EXCEPT !.attempt = @ + 1]
  /\ Put(<<job.stage, job.attempt + 1>>, [Resting EXCEPT !.at = "begin"])
  /\ UNCHANGED <<Outside, Stored, Denials, contacted>>

\* context: the newest policy, which must allow the target; merge reads none.
ReadContext(w) ==
  /\ At(w, Stage, "begin")
  /\ IF Base \notin Allows[policy] THEN End(w, "failed")
     ELSE Put(w, [Resting EXCEPT !.at = CASE w[1] = "filter" -> "check" [] w[1] = "verify" -> "contact"
                                          [] OTHER -> "save",
                                 !.policy = policy,
                                 !.todo = IF w[1] = "filter" THEN Crawl ELSE {}])
  /\ UNCHANGED <<Outside, job, Stored, Denials, contacted>>

DeniedOf(w) == worker[w].todo \ Allows[worker[w].policy]

\* recordDenial: the attempt must own its job, and a page is recorded once.
Deny(w) ==
  /\ At(w, {"filter", "verify"}, "check")
  /\ \E u \in DeniedOf(w) :
       Put(w, IF ~Writable(w) THEN [Resting EXCEPT !.at = "failed"]
              ELSE IF Page[u] \in trail THEN [worker[w] EXCEPT !.todo = @ \ {u}]
              ELSE [worker[w] EXCEPT !.at = "record", !.url = u])
  /\ UNCHANGED <<Outside, job, Stored, Denials, contacted>>

\* The event in the trail, in a statement of its own; record catches whatever
\* the write throws, and the stage goes on without the entry.
RecordDenial(w) ==
  /\ At(w, {"filter", "verify"}, "record")
  /\ trail' \in {trail, trail \cup {Page[worker[w].url]}}
  /\ Put(w, [worker[w] EXCEPT !.at = "announce"])
  /\ UNCHANGED <<Outside, job, Stored, announced, contacted>>

\* The event scope.denied; an append that throws ends the attempt.
AnnounceDenial(w) ==
  /\ At(w, {"filter", "verify"}, "announce")
  /\ announced' = announced \cup {Page[worker[w].url]}
  /\ Put(w, [worker[w] EXCEPT !.at = "check", !.todo = @ \ {worker[w].url}])
  /\ UNCHANGED <<Outside, job, Stored, trail, contacted>>

\* Mutant: the denials are not awaited.
CheckedUnawaited(w) == TRUE
Checked(w) == DeniedOf(w) = {}
Allowed(w) == worker[w].todo \cap Allows[worker[w].policy]

Accept(w) ==
  /\ At(w, {"filter"}, "check") /\ Checked(w)
  /\ Put(w, [worker[w] EXCEPT !.at = "save", !.kept = Allowed(w), !.todo = {}])
  /\ UNCHANGED <<Outside, job, Stored, Denials, contacted>>

Sent(urls) == contacted \cup {[url |-> u, since |-> since] : u \in urls}

\* httpx contacts as many candidates as were granted, unless there are results; any
\* of them may answer with a redirect to any URL.
Contact(w) ==
  /\ At(w, {"verify"}, "contact")
  /\ IF results # None THEN End(w, "saved") /\ UNCHANGED contacted
     ELSE \E selected \in SUBSET candidates :
            /\ contacted' = Sent(selected)
            /\ \E answers \in IF selected = {} THEN {{}} ELSE Redirects :
                 Put(w, [worker[w] EXCEPT !.at = "check", !.todo = answers, !.kept = selected])
  /\ UNCHANGED <<Outside, job, Stored, Denials>>

\* The redirects that the policy allows, as far as a second reservation goes.
FollowRedirects(w) ==
  /\ At(w, {"verify"}, "check") /\ Checked(w)
  /\ \E follow \in SUBSET Allowed(w) :
       /\ contacted' = Sent(follow)
       /\ Put(w, [worker[w] EXCEPT !.at = "save", !.kept = @ \cup follow, !.todo = {}])
  /\ UNCHANGED <<Outside, job, Stored, Denials>>

\* The first statement of a transaction that stores: it locks nothing, so that
\* what is written may be a stale attempt's all the same.
CheckWritable(w) ==
  /\ At(w, Stage, "save")
  /\ IF Writable(w) THEN Put(w, [worker[w] EXCEPT !.at = "write"]) ELSE End(w, "failed")
  /\ UNCHANGED <<Outside, job, Stored, Denials, contacted>>

\* A row of evidence has one id for each job: what was stored first stays.
First(stored, new) == IF stored = None THEN new ELSE stored
Save(w) ==
  /\ At(w, Stage, "write") /\ End(w, "saved")
  /\ CASE w[1] = "filter" -> /\ candidates' = First(candidates, worker[w].kept)
                             /\ UNCHANGED <<results, inventory>>
       [] w[1] = "verify" -> /\ results' = First(results, worker[w].kept)
                             /\ UNCHANGED <<candidates, inventory>>
       [] OTHER -> /\ inventory' = candidates \cup results
                   /\ UNCHANGED <<candidates, results>>
  /\ UNCHANGED <<Outside, job, Denials, contacted>>

NextStage(s) == CASE s = "filter" -> "verify" [] s = "verify" -> "merge" [] OTHER -> "done"
Succeed(w) ==
  /\ At(w, Stage, "saved") /\ End(w, "none")
  /\ job' = IF job.stage = w[1] /\ job.attempt = w[2]
            THEN [stage |-> NextStage(w[1]), attempt |-> 0] ELSE job
  /\ UNCHANGED <<Outside, Stored, Denials, contacted>>

FlowNext ==
  \/ ReplacePolicy \/ CancelAudit \/ ClaimStage
  \/ \E w \in Attempt :
       \/ ReadContext(w) \/ Deny(w) \/ RecordDenial(w) \/ AnnounceDenial(w) \/ Accept(w)
       \/ Contact(w) \/ FollowRedirects(w) \/ CheckWritable(w) \/ Save(w) \/ Succeed(w)

FlowSpec == FlowInit /\ [][FlowNext]_flowVars
-----------------------------------------------------------------------------
\* Whatever policies replace each other and wherever attempts die or overlap, no URL
\* is lost or contacted on nobody's authority: once the filter is over each crawled
\* URL is a candidate, or its denial can be read in the trail or, where the trail lost
\* it, among the events of the audit; and whatever is contacted or reaches the
\* inventory was allowed by a policy in force since the filter began.
CrawlAccountedFor ==
  /\ job.stage # "filter" => \A u \in Crawl : u \in candidates \/ Page[u] \in trail \cup announced
  /\ \A c \in contacted : \E p \in c.since : c.url \in Allows[p]
  /\ inventory # None => inventory \subseteq UNION {Allows[p] : p \in since}
=============================================================================
