---------------------------- MODULE ProjectConfig ----------------------------
(***************************************************************************)
(* Projects and what is configured under them, and the dispatch of an audit *)
(* that reads all of it (projects.service, orchestrator.service): requests  *)
(* run side by side, each of them reads, decides and writes in steps of its *)
(* own, and only the database's constraints hold across the steps.          *)
(***************************************************************************)
EXTENDS Integers, Sequences, FiniteSets

CONSTANTS
  Project, Target, Repository,  \* ids, each made up by the request that creates it
  Founded,                      \* the projects that exist already; their slugs are their ids
  Slug, Key,                    \* project slugs, idempotency keys of dispatches
  Pattern, Host,                \* what policies allow: Pattern is a set of sets of hosts
  Wildcard,                     \* the patterns with a wildcard
  Caller, Operation,           \* requests under way, which operations an instance has
  MaxPolicies,                  \* bound on the policies of one project
  MaxAge, MaxTime,              \* ATTESTATION_MAX_AGE_MS and a bound on the clock
  Nothing

Environment == {"production", "staging"}
Operations == {"createProject", "updateProject", "removeProject", "replacePolicy", "dispatch",
               "createTarget", "updateTarget", "removeTarget", "createRepository",
               "updateRepository", "removeRepository", "revoke"}

ConfigAssumption ==
  /\ Founded \subseteq Project /\ Founded \subseteq Slug
  /\ Pattern \subseteq SUBSET Host /\ Wildcard \subseteq Pattern /\ Operation \subseteq Operations
  /\ MaxPolicies \in Nat /\ MaxAge \in Nat /\ MaxTime \in Nat

VARIABLES
  now,
  project,     \* Project: exists, slug
  policies,    \* ScopePolicy of each project, in the order of their attestation
  target,      \* Target: project, host, environment, whether it has a credential
  repository,  \* Repository: project, whether it has a credential
  usable,      \* usable[p]: the secret of p is not revoked
  audits,      \* Audit
  call         \* call[q]: where request q is and what it read

configVars == <<now, project, policies, target, repository, usable, audits, call>>

NoProject == [exists |-> FALSE, slug |-> Nothing]
NoTarget == [project |-> Nothing, host |-> Nothing, environment |-> "staging", credential |-> FALSE]
NoRepository == [project |-> Nothing, credential |-> FALSE]
NoCall == [op |-> "none", at |-> "none", project |-> Nothing, on |-> Nothing, key |-> Nothing,
           hosts |-> Nothing, row |-> Nothing, repository |-> Nothing,
           policy |-> 0, oldest |-> 0, answer |-> Nothing]

\* Some projects exist already, each with a policy; there may be a target and a repository.
NewPolicy(hosts, max) == [hosts |-> hosts, max |-> max, at |-> now]
ConfigInit ==
  /\ now = 0 /\ audits = {} /\ usable = [p \in Project |-> TRUE]
  /\ call = [q \in Caller |-> NoCall]
  /\ project = [p \in Project |-> IF p \in Founded THEN [exists |-> TRUE, slug |-> p] ELSE NoProject]
  /\ \E hosts \in Pattern :
       policies = [p \in Project |-> IF p \in Founded THEN <<NewPolicy(hosts, 1)>> ELSE <<>>]
  /\ target \in [Target -> {NoTarget} \cup [project : Founded, host : Host, environment : Environment,
                                            credential : BOOLEAN]]
  /\ repository \in [Repository -> {NoRepository} \cup [project : Founded, credential : {FALSE}]]

Tables == <<project, policies, target, repository, usable, audits>>
Set(q, c) == call' = [call EXCEPT ![q] = c]
Respond(q, verdict) == Set(q, [call[q] EXCEPT !.at = verdict])
Free(q) == call[q].at = "none"
\* A request reads, and goes on to its write if ok.
BeginCall(q, op, ok, c) ==
  /\ op \in Operation /\ Free(q)
  /\ Set(q, [c EXCEPT !.op = op, !.at = IF ok THEN "write" ELSE "refused"])
  /\ UNCHANGED <<now, Tables>>
\* It writes, unless a constraint of the database is in the way.
Write(q, op, ok) ==
  /\ call[q].op = op /\ call[q].at = "write"
  /\ Respond(q, IF ok THEN "done" ELSE "refused")
  /\ UNCHANGED now

Tick == now < MaxTime /\ now' = now + 1 /\ UNCHANGED <<Tables, call>>
-----------------------------------------------------------------------------
(* Projects and their scope policies. *)

Clash(slug) == \E p \in Project : project[p].exists /\ project[p].slug = slug
\* assertDestructiveIsAttested: testing that destroys names exact hosts.
DestructiveAttested(destructive, hosts) == destructive => hosts \notin Wildcard
BeginCreate(q) ==
  \E slug \in Slug, hosts \in Pattern, destructive \in BOOLEAN :
    BeginCall(q, "createProject", ~Clash(slug) /\ DestructiveAttested(destructive, hosts),
          [NoCall EXCEPT !.on = slug, !.hosts = hosts])

\* One transaction: the project, its first policy, its targets and its first member.
CommitCreate(q) ==
  \E p \in Project :
    /\ ~project[p].exists /\ Write(q, "createProject", ~Clash(call[q].on))
    /\ IF Clash(call[q].on) THEN UNCHANGED Tables
       ELSE /\ project' = [project EXCEPT ![p] = [exists |-> TRUE, slug |-> call[q].on]]
            /\ policies' = [policies EXCEPT ![p] = <<NewPolicy(call[q].hosts, 1)>>]
            /\ UNCHANGED <<target, repository, usable, audits>>

BeginUpdate(q) ==
  \E p \in Project, slug \in Slug :
    BeginCall(q, "updateProject", project[p].exists /\ (slug = project[p].slug \/ ~Clash(slug)),
          [NoCall EXCEPT !.project = p, !.on = slug])

CommitUpdate(q) ==
  LET p == call[q].project
      ok == project[p].exists /\ (project[p].slug = call[q].on \/ ~Clash(call[q].on))
  IN  /\ Write(q, "updateProject", ok)
      /\ project' = IF ok THEN [project EXCEPT ![p].slug = call[q].on] ELSE project
      /\ UNCHANGED <<policies, target, repository, usable, audits>>

BeginRemove(q) ==
  \E p \in Project : BeginCall(q, "removeProject", project[p].exists, [NoCall EXCEPT !.project = p])

\* RESTRICT: no row of these tables may refer to the project.
InUse(p) == \/ \E t \in Target : target[t].project = p
            \/ \E r \in Repository : repository[r].project = p
            \/ \E a \in audits : a.project = p
Referenced(p) == policies[p] # <<>> \/ InUse(p)

CommitRemove(q) ==
  LET p == call[q].project
  IN  /\ Write(q, "removeProject", project[p].exists /\ ~Referenced(p))
      /\ project' = IF Referenced(p) THEN project ELSE [project EXCEPT ![p] = NoProject]
      /\ UNCHANGED <<policies, target, repository, usable, audits>>

BeginReplace(q) ==
  \E p \in Project, hosts \in Pattern, destructive \in BOOLEAN :
    BeginCall(q, "replacePolicy", project[p].exists /\ DestructiveAttested(destructive, hosts),
          [NoCall EXCEPT !.project = p, !.hosts = hosts])

\* A new row: the policies that audits were authorized under stay.
CommitReplace(q) ==
  LET p == call[q].project
  IN  /\ Write(q, "replacePolicy", project[p].exists) /\ Len(policies[p]) < MaxPolicies
      /\ policies' = IF ~project[p].exists THEN policies
                     ELSE [policies EXCEPT ![p] = Append(@, NewPolicy(call[q].hosts, Len(@) + 1))]
      /\ UNCHANGED <<project, target, repository, usable, audits>>
-----------------------------------------------------------------------------
(* Repositories, targets and their credentials. *)

\* assertCredentialUsable
CredentialOk(p, credential) == credential => usable[p]

Revoke(q) ==
  \E p \in Project :
    /\ "revoke" \in Operation /\ Free(q) /\ usable[p] /\ project[p].exists
    /\ usable' = [usable EXCEPT ![p] = FALSE]
    /\ Set(q, [NoCall EXCEPT !.op = "revoke", !.at = "done"])
    /\ UNCHANGED <<now, project, policies, target, repository, audits>>

BeginCreateRepository(q) ==
  \E p \in Project, c \in BOOLEAN :
    BeginCall(q, "createRepository", project[p].exists /\ CredentialOk(p, c),
          [NoCall EXCEPT !.project = p, !.row = [project |-> p, credential |-> c]])

CommitCreateRepository(q) ==
  \E r \in Repository :
    /\ repository[r] = NoRepository
    /\ Write(q, "createRepository", project[call[q].project].exists)
    /\ repository' = IF ~project[call[q].project].exists THEN repository
         ELSE [repository EXCEPT ![r] = call[q].row]
    /\ UNCHANGED <<project, policies, target, usable, audits>>

BeginUpdateRepository(q) ==
  \E p \in Project, r \in Repository, c \in BOOLEAN :
    BeginCall(q, "updateRepository", repository[r].project = p /\ CredentialOk(p, c),
          [NoCall EXCEPT !.project = p, !.on = r, !.row = [project |-> p, credential |-> c]])

CommitUpdateRepository(q) ==
  LET r == call[q].on
  IN  /\ Write(q, "updateRepository", repository[r] # NoRepository)
      /\ repository' = IF repository[r] = NoRepository THEN repository
                       ELSE [repository EXCEPT ![r] = call[q].row]
      /\ UNCHANGED <<project, policies, target, usable, audits>>

BeginRemoveRepository(q) ==
  \E p \in Project, r \in Repository :
    BeginCall(q, "removeRepository", repository[r].project = p, [NoCall EXCEPT !.project = p, !.on = r])

CommitRemoveRepository(q) ==
  LET r == call[q].on
      free == repository[r] # NoRepository /\ \A a \in audits : a.repository # r
  IN  /\ Write(q, "removeRepository", free)
      /\ repository' = IF free THEN [repository EXCEPT ![r] = NoRepository] ELSE repository
      /\ UNCHANGED <<project, policies, target, usable, audits>>

BeginCreateTarget(q) ==
  \E p \in Project, h \in Host, e \in Environment, c \in BOOLEAN :
    BeginCall(q, "createTarget", project[p].exists /\ CredentialOk(p, c),
          [NoCall EXCEPT !.project = p,
             !.row = [project |-> p, host |-> h, environment |-> e, credential |-> c]])

CommitCreateTarget(q) ==
  \E t \in Target :
    /\ target[t] = NoTarget /\ Write(q, "createTarget", project[call[q].project].exists)
    /\ target' = IF project[call[q].project].exists THEN [target EXCEPT ![t] = call[q].row] ELSE target
    /\ UNCHANGED <<project, policies, repository, usable, audits>>

Latest(p) == policies[p][Len(policies[p])]
\* isAttestationStale
Stale(p) == now - Latest(p).at > MaxAge

\* updateTarget asks for a fresh attestation if the target was, or becomes, production.
BeginUpdateTarget(q) ==
  \E p \in Project, t \in Target, h \in Host, e \in Environment, c \in BOOLEAN :
    LET production == target[t].environment = "production" \/ e = "production"
    IN  BeginCall(q, "updateTarget",
              target[t].project = p /\ CredentialOk(p, c)
                /\ (production => policies[p] # <<>> /\ ~Stale(p)),
              [NoCall EXCEPT !.project = p, !.on = t,
                 !.row = [project |-> p, host |-> h, environment |-> e, credential |-> c]])

CommitUpdateTarget(q) ==
  LET t == call[q].on
  IN  /\ Write(q, "updateTarget", target[t] # NoTarget)
      /\ target' = IF target[t] = NoTarget THEN target ELSE [target EXCEPT ![t] = call[q].row]
      /\ UNCHANGED <<project, policies, repository, usable, audits>>

BeginRemoveTarget(q) ==
  \E p \in Project, t \in Target :
    BeginCall(q, "removeTarget", target[t].project = p, [NoCall EXCEPT !.project = p, !.on = t])

CommitRemoveTarget(q) ==
  LET t == call[q].on
      free == target[t] # NoTarget /\ \A a \in audits : a.target # t
  IN  /\ Write(q, "removeTarget", free)
      /\ target' = IF free THEN [target EXCEPT ![t] = NoTarget] ELSE target
      /\ UNCHANGED <<project, policies, repository, usable, audits>>
-----------------------------------------------------------------------------
(* OrchestratorService.dispatch, for a target. *)

AuditFor(p, key) == {a \in audits : a.project = p /\ a.key = key}
Goes(q, from, c) == call[q].op = "dispatch" /\ call[q].at = from /\ Set(q, c)

\* A key that is known answers with its audit.
LookUpKey(q) ==
  /\ "dispatch" \in Operation /\ Free(q)
  /\ \E p \in Project, key \in Key :
       /\ project[p].exists
       /\ LET asked == [NoCall EXCEPT !.op = "dispatch", !.project = p, !.key = key,
                                      !.oldest = Len(policies[p])]
          IN  Set(q, IF AuditFor(p, key) = {} THEN [asked EXCEPT !.at = "looked"]
                     ELSE [asked EXCEPT !.at = "done", !.answer = CHOOSE a \in AuditFor(p, key) : TRUE])
  /\ UNCHANGED <<now, Tables>>

\* The target and the repository, each of this project.
LoadTarget(q) ==
  \E t \in Target, r \in Repository :
    LET p == call[q].project
        found == target[t].project = p /\ repository[r].project = p
    IN  /\ Goes(q, "looked", IF found
              THEN [call[q] EXCEPT !.at = "loaded", !.on = t, !.row = target[t], !.repository = r]
              ELSE [call[q] EXCEPT !.at = "refused"])
        /\ UNCHANGED <<now, Tables>>

HostAllowed(q, n) == call[q].row.host \in policies[call[q].project][n].hosts

\* The policy attested last, and whether it allows the target's host.
CheckPolicy(q) ==
  LET n == Len(policies[call[q].project])
  IN  /\ Goes(q, "loaded", IF n > 0 /\ HostAllowed(q, n)
              THEN [call[q] EXCEPT !.at = "allowed", !.policy = n]
              ELSE [call[q] EXCEPT !.at = "refused"])
      /\ UNCHANGED <<now, Tables>>

CheckTargetCredential(q) ==
  /\ Goes(q, "allowed", IF CredentialOk(call[q].project, call[q].row.credential)
          THEN [call[q] EXCEPT !.at = "create"]
          ELSE [call[q] EXCEPT !.at = "refused"])
  /\ UNCHANGED <<now, Tables>>

\* Mutant: no index makes the keys of a project unique.
KeyAlwaysFree(p, key) == TRUE
KeyFree(p, key) == AuditFor(p, key) = {}
\* Mutant: the budget is that of the policy at the time of the write.
PolicyNow(q) == Len(policies[call[q].project])
PolicyRead(q) == call[q].policy

\* One transaction: the audit, its budgets and its jobs.
CreateAudit(q) ==
  LET c == call[q]
      audit == [by |-> q, project |-> c.project, key |-> c.key, target |-> c.on,
                repository |-> c.repository, host |-> c.row.host, policy |-> c.policy,
                oldest |-> c.oldest, limit |-> policies[c.project][PolicyRead(q)].max, status |-> "queued"]
      ok == /\ KeyFree(c.project, c.key)
            /\ target[c.on] # NoTarget /\ repository[c.repository] # NoRepository
  IN  /\ Goes(q, "create", IF ok THEN [c EXCEPT !.at = "enqueue", !.answer = audit]
                           ELSE [c EXCEPT !.at = "refused"])
      /\ audits' = IF ok THEN audits \cup {audit} ELSE audits
      /\ UNCHANGED <<now, project, policies, target, repository, usable>>

\* The first job is enqueued; if that fails, the audit and the job are failed.
Enqueue(q) ==
  \E sent \in BOOLEAN :
    /\ Goes(q, "enqueue", [call[q] EXCEPT !.at = IF sent THEN "done" ELSE "refused"])
    /\ audits' = IF sent THEN audits
                 ELSE (audits \ {call[q].answer}) \cup {[call[q].answer EXCEPT !.status = "failed"]}
    /\ UNCHANGED <<now, project, policies, target, repository, usable>>

ConfigNext ==
  \/ Tick
  \/ \E q \in Caller :
       \/ BeginCreate(q) \/ CommitCreate(q) \/ BeginUpdate(q) \/ CommitUpdate(q)
       \/ BeginRemove(q) \/ CommitRemove(q) \/ BeginReplace(q) \/ CommitReplace(q) \/ Revoke(q)
       \/ BeginCreateRepository(q) \/ CommitCreateRepository(q) \/ BeginUpdateRepository(q)
       \/ CommitUpdateRepository(q) \/ BeginRemoveRepository(q) \/ CommitRemoveRepository(q)
       \/ BeginCreateTarget(q) \/ CommitCreateTarget(q) \/ BeginUpdateTarget(q)
       \/ CommitUpdateTarget(q) \/ BeginRemoveTarget(q) \/ CommitRemoveTarget(q)
       \/ LookUpKey(q) \/ LoadTarget(q) \/ CheckPolicy(q) \/ CheckTargetCredential(q)
       \/ CreateAudit(q) \/ Enqueue(q)

ConfigSpec == ConfigInit /\ [][ConfigNext]_configVars
-----------------------------------------------------------------------------
\* However requests interleave, a key names one audit of its project, whoever sent
\* it is answered with that audit or refused, and every audit was dispatched for a
\* host that one policy, which was not replaced when the request came in, allowed
\* and whose request limit is the audit's budget.
AuditsAuthorized ==
  /\ \A a, b \in audits : a.project = b.project /\ a.key = b.key => a = b
  /\ \A q \in Caller : call[q].op = "dispatch" /\ call[q].at = "done" =>
       call[q].answer.project = call[q].project /\ call[q].answer.key = call[q].key
  /\ \A a \in audits : LET attested == policies[a.project][a.policy] IN
       a.host \in attested.hosts /\ a.limit = attested.max /\ a.policy >= a.oldest
=============================================================================
