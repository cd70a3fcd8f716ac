------------------------------ MODULE Inventory ------------------------------
(***************************************************************************)
(* The endpoint inventories of the audits of one target                     *)
(* (recon/inventory.service): each audit merges what it found, as its       *)
(* retries do again, inherits when an endpoint was first seen from a        *)
(* baseline chosen under the target's lock, and computes the drift from it. *)
(* Audits run side by side; attempts crash, and one that lost its lease     *)
(* goes on beside the next.                                                 *)
(***************************************************************************)
EXTENDS Integers, FiniteSets

CONSTANTS
  AuditId,     \* audits of one target
  Endpoint,    \* keys: method and path template
  Status,      \* HTTP statuses observed
  Template,    \* Template[u]: the key that normalizeEndpoint gives URL u
  Crawls,      \* what each audit may find: sets of candidates
  Attempts,    \* claims of each audit's jobs
  Nobody       \* no audit, no status

CrawledUrl == DOMAIN Template
\* A candidate of the crawl has no status yet, one that httpx verified has.
Candidate == [url : CrawledUrl, status : Status \cup {Nobody}]
Stage == {"merge", "drift"}
Memory == {"none", "begin", "written", "read"}
Change == {"none", "added", "removed", "changed"}

InventoryAssumption ==
  /\ Status \subseteq Nat /\ Attempts \in [AuditId -> Nat] /\ Nobody \notin AuditId /\ Nobody \notin Status
  /\ Template \in [CrawledUrl -> Endpoint] /\ Crawls \in [AuditId -> SUBSET SUBSET Candidate]

VARIABLES
  clock,                     \* startedAt and completedAt are read off it
  audit, started, completed, \* Audit: status and the two times
  stage, attempt,            \* the recon job whose turn it is, and its claims
  found,                     \* the evidence the merge loads, the same for every attempt
  inventory,                 \* EndpointInventory with its endpoints and drift
  reader                     \* reader[a][s][n]: attempt n of stage s of audit a

auditVars == <<clock, audit, started, completed, found>>
inventoryVars == <<auditVars, stage, attempt, inventory, reader>>

Absent == [e \in Endpoint |-> Nobody]
NoInventory == [status |-> "none", baseline |-> Nobody,
                seen |-> [e \in Endpoint |-> {}], first |-> Absent,
                drift |-> [e \in Endpoint |-> "none"]]
Idle == [at |-> "none", drift |-> NoInventory.drift]
Try(a) == 1..Attempts[a]
Kept(inv) == {e \in Endpoint : inv.first[e] # Nobody}

InventoryInit ==
  /\ clock = 0
  /\ audit = [a \in AuditId |-> "queued"]
  /\ started = [a \in AuditId |-> 0] /\ completed = [a \in AuditId |-> 0]
  /\ stage = [a \in AuditId |-> "merge"] /\ attempt = [a \in AuditId |-> 0]
  /\ found = [a \in AuditId |-> {}]
  /\ inventory = [a \in AuditId |-> NoInventory]
  /\ reader = [a \in AuditId |-> [s \in Stage |-> [n \in Try(a) |-> Idle]]]

InventoryTypeOK ==
  /\ clock \in Nat /\ started \in [AuditId -> Nat] /\ completed \in [AuditId -> Nat]
  /\ audit \in [AuditId -> {"queued", "running", "completed", "partial", "failed"}]
  /\ stage \in [AuditId -> Stage \cup {"done"}] /\ attempt \in [AuditId -> Nat]
  /\ found \in [AuditId -> SUBSET Candidate]
  /\ \A a \in AuditId : reader[a] \in [Stage -> [Try(a) -> [at : Memory, drift : [Endpoint -> Change]]]]
  /\ inventory \in [AuditId ->
       [status : {"none", "building", "ready"}, baseline : AuditId \cup {Nobody},
        seen : [Endpoint -> SUBSET Status], first : [Endpoint -> AuditId \cup {Nobody}],
        drift : [Endpoint -> Change]]]
-----------------------------------------------------------------------------
(* The audit around its inventory; AuditCore has the details. *)

StartAudit(a) ==
  /\ audit[a] = "queued"
  /\ clock' = clock + 1 /\ started' = [started EXCEPT ![a] = clock']
  /\ audit' = [audit EXCEPT ![a] = "running"]
  /\ \E crawl \in Crawls[a] : found' = [found EXCEPT ![a] = crawl]
  /\ UNCHANGED <<completed, stage, attempt, inventory, reader>>

\* An audit completes after its drift, is partial or fails with or without it.
EndAudit(a) ==
  /\ audit[a] = "running"
  /\ clock' = clock + 1 /\ completed' = [completed EXCEPT ![a] = clock']
  /\ \E verdict \in {"completed", "partial", "failed"} :
       /\ verdict = "completed" => stage[a] = "done"
       /\ audit' = [audit EXCEPT ![a] = verdict]
  /\ UNCHANGED <<started, found, stage, attempt, inventory, reader>>

\* A claim of the next attempt, also when the one before lost its lease and goes on.
ClaimStage(a) ==
  /\ audit[a] = "running" /\ stage[a] \in Stage /\ attempt[a] < Attempts[a]
  /\ attempt' = [attempt EXCEPT ![a] = @ + 1]
  /\ reader' = [reader EXCEPT ![a][stage[a]][attempt'[a]].at = "begin"]
  /\ UNCHANGED <<auditVars, stage, inventory>>

At(a, s, n, pos) == reader[a][s][n].at = pos

\* assertWritable: the job runs under this attempt and nobody cancelled the audit.
Writable(a, s, n) == audit[a] = "running" /\ stage[a] = s /\ attempt[a] = n
-----------------------------------------------------------------------------
(* What is merged. *)

\* mergeCandidates: one endpoint for each key, with every status that was seen.
SeenAt(candidates, e) ==
  {c.status : c \in {d \in candidates : Template[d.url] = e}} \ {Nobody}
KeysOf(candidates) == {Template[c.url] : c \in candidates}

\* metadataFingerprint: the classes of the statuses and whether access was denied.
MetadataFingerprint(statuses) ==
  <<{s \div 100 : s \in statuses}, statuses \cap {401, 403} # {}>>

\* Mutant: the baseline is the newest inventory, whenever its audit ended.
NewestOf(a) == {b \in AuditId \ {a} : inventory[b].status = "ready" /\ audit[b] \in {"completed", "partial"}}
\* Audits of the target that were over, with an inventory, when this one began.
Predecessors(a) ==
  {b \in AuditId \ {a} : /\ inventory[b].status = "ready"
                       /\ audit[b] \in {"completed", "partial"}
                       /\ completed[b] <= started[a]}
Latest(S) == CHOOSE b \in S : \A c \in S : completed[c] <= completed[b]
Previous(a) == IF Predecessors(a) = {} THEN Nobody ELSE Latest(Predecessors(a))

EndpointsOf(b) == IF b = Nobody THEN {} ELSE Kept(inventory[b])
FirstSeen(a, b, e) == IF e \in EndpointsOf(b) THEN inventory[b].first[e] ELSE a

\* merge: the endpoints are replaced, the baseline of an earlier attempt is kept.
Merge(a, n) ==
  LET previous == Previous(a)
      keys == KeysOf(found[a])
      base == IF inventory[a].status = "none" THEN previous ELSE inventory[a].baseline
  IN  /\ At(a, "merge", n, "begin") /\ Writable(a, "merge", n)
      /\ inventory' = [inventory EXCEPT ![a] =
           [@ EXCEPT !.status = "building", !.baseline = base,
              !.seen = [e \in Endpoint |-> SeenAt(found[a], e)],
              !.first = [e \in Endpoint |-> IF e \in keys THEN FirstSeen(a, previous, e) ELSE Nobody]]]
      /\ reader' = [reader EXCEPT ![a]["merge"][n].at = "written"]
      /\ UNCHANGED <<auditVars, stage, attempt>>

DriftOf(inv) ==
  [e \in Endpoint |->
     LET old == inv.baseline # Nobody /\ e \in Kept(inventory[inv.baseline])
         new == e \in Kept(inv)
     IN  IF new /\ ~old THEN "added" ELSE IF old /\ ~new THEN "removed"
         ELSE IF new /\ MetadataFingerprint(inv.seen[e]) # MetadataFingerprint(inventory[inv.baseline].seen[e])
              THEN "changed" ELSE "none"]

\* computeDrift reads both inventories outside any transaction ...
ReadDrift(a, n) ==
  /\ At(a, "drift", n, "begin") /\ inventory[a].status # "none"
  /\ reader' = [reader EXCEPT ![a]["drift"][n] = [at |-> "read", drift |-> DriftOf(inventory[a])]]
  /\ UNCHANGED <<auditVars, stage, attempt, inventory>>

\* ... and writes what it read, if the attempt is still the job's.
WriteDrift(a, n) ==
  /\ At(a, "drift", n, "read") /\ Writable(a, "drift", n)
  /\ inventory' = [inventory EXCEPT ![a].status = "ready", ![a].drift = reader[a]["drift"][n].drift]
  /\ reader' = [reader EXCEPT ![a]["drift"][n] = [Idle EXCEPT !.at = "written"]]
  /\ UNCHANGED <<auditVars, stage, attempt>>

\* succeed, under the attempt's number.
StageSucceeds(a, s, n) ==
  /\ At(a, s, n, "written") /\ Writable(a, s, n)
  /\ stage' = [stage EXCEPT ![a] = IF s = "merge" THEN "drift" ELSE "done"]
  /\ attempt' = [attempt EXCEPT ![a] = 0]
  /\ reader' = [reader EXCEPT ![a][s][n] = Idle]
  /\ UNCHANGED <<auditVars, inventory>>

InventoryNext ==
  \/ \E a \in AuditId : StartAudit(a) \/ EndAudit(a) \/ ClaimStage(a)
  \/ \E a \in AuditId : \E n \in Try(a) : Merge(a, n) \/ ReadDrift(a, n) \/ WriteDrift(a, n)
  \/ \E a \in AuditId, s \in Stage : \E n \in Try(a) : StageSucceeds(a, s, n)

InventorySpec == InventoryInit /\ [][InventoryNext]_inventoryVars
-----------------------------------------------------------------------------
\* However often a merge is retried, and however audits overlap, an endpoint was
\* first seen by the audit its recorded baseline says, or by the audit itself; and
\* once the drift job succeeded, no late attempt of any audit reopens the inventory
\* or changes its drift, which is the difference from that baseline.
FirstSeenInherited ==
  \A a \in AuditId : LET inv == inventory[a] IN
    /\ inv.baseline # Nobody =>
         /\ audit[inv.baseline] \in {"completed", "partial"}
         /\ completed[inv.baseline] <= started[a]
    /\ \A e \in Kept(inv) : inv.first[e] = FirstSeen(a, inv.baseline, e)
    /\ stage[a] = "done" => inv.status = "ready" /\ inv.drift = DriftOf(inv)
=============================================================================
