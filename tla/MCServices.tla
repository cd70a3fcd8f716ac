------------------------------ MODULE MCServices ------------------------------
(***************************************************************************)
(* The services of the API, their clients, the recon stages that follow the *)
(* policies, and the commands of the gates on small instances, checked side *)
(* by side: they share no state with each other here, so that a behaviour   *)
(* is one of a single part, chosen at the start, while the others rest.     *)
(***************************************************************************)
EXTENDS SignIn, Secrets, Access, ProjectConfig, ScopePatterns, AuditEvents, CliWait, ReconFlow

VARIABLES part, task, waiters, active

checks == <<task, waiters, active>>
people == <<signInVars, secretVars, accessVars>>
serviceVars == <<part, people, configVars, patternVars, eventVars, cliVars, flowVars, checks>>

Parts == {"signin", "secrets", "access", "config", "patterns", "events", "wait", "recon", "checks"}
-----------------------------------------------------------------------------
(* Sign-in: invites of two organizations; access: one route of each kind. *)

InviteOf(email, org, projects) == [email |-> email, org |-> org, projects |-> projects]
TheInvites == {InviteOf("a", "o1", {"p1"}), InviteOf("a", "o2", {}), InviteOf("b", "o1", {"p1"})}

RouteOf(mode, roles, admin) == [mode |-> mode, roles |-> roles, admin |-> admin]
TheRoutes == {RouteOf("public", {}, FALSE), RouteOf("none", {}, FALSE), RouteOf("org", {}, TRUE),
              RouteOf("org", {}, FALSE), RouteOf("project", {}, FALSE), RouteOf("project", {"admin"}, FALSE),
              RouteOf("audit", {}, FALSE), RouteOf("audit", {"admin"}, FALSE)}

TheOrgs == [u1 |-> "o1"]
TheTokenProjects == [t1 |-> "p1", t2 |-> "p1"]
\* Token t2 carries a role that does not exist.
TheTokenRoles == [t1 |-> "admin", t2 |-> "root"]
TheAuditProjects == [a1 |-> "p1", a2 |-> "p2"]

(* Configuration: one host and a wildcard that covers it and another. *)

ThePatterns == {{"h1"}, {"h1", "h2"}}
TheWildcards == {{"h1", "h2"}}
TheTarget == [project |-> "p1", host |-> "h1", environment |-> "production", credential |-> TRUE]
TheSuffixes == {<<"co", "uk">>}

(* The recon pipeline: "aq" is "a" with a query. *)

ThePages == [u \in {"base", "a", "aq", "x"} |-> IF u = "aq" THEN "a" ELSE u]
TheScopes == [s1 |-> {"base", "a"}, s2 |-> {"base", "x"}]
TheClaims == [filter |-> 2, verify |-> 2, merge |-> 1]
TheRedirects == {{}, {"a", "x"}}

Run == INSTANCE CheckRun WITH Task <- 1..3, Jobs <- 2, MaxRegexWorkers <- 1

ASSUME AccessInstance == AccessAssumption
ASSUME ConfigInstance == ConfigAssumption
ASSUME EventsInstance == EventsAssumption
ASSUME ChecksInstance == Run!RunAssumption
-----------------------------------------------------------------------------
(* One part at a time; a part that rests is in one of its initial states. *)

ServicesInit ==
  /\ part \in Parts
  /\ SignInInit /\ (part # "signin" => \A i \in Invite : invite[i] = NoInvite)
  /\ SecretsInit
  /\ AccessInit /\ (part # "access" => \A u \in User : \A p \in ProjectId : member[u][p] = NoOne)
  /\ ConfigInit
  /\ target.t1 \in {NoTarget, TheTarget}
  /\ part # "config" => policies.p1[1].hosts = {"h1"} /\ target.t1 = TheTarget /\ repository.r1 = NoRepository
  /\ PatternInit
  /\ part # "patterns" => allowedHosts = <<[labels |-> <<"localhost">>, flaw |-> "none"]>>
  /\ EventsInit
  /\ CliInit /\ (part # "wait" => followed.mode = "full")
  /\ (part = "recon") \/ (policy = "s1")
  /\ FlowInit
  /\ Run!RunInit

SignInPart == part = "signin" /\ SignInNext
  /\ UNCHANGED <<part, secretVars, accessVars, configVars, patternVars, eventVars, cliVars, flowVars, checks>>
SecretsPart == part = "secrets" /\ SecretsNext
  /\ UNCHANGED <<part, signInVars, accessVars, configVars, patternVars, eventVars, cliVars, flowVars, checks>>
AccessPart == part = "access" /\ AccessNext
  /\ UNCHANGED <<part, signInVars, secretVars, configVars, patternVars, eventVars, cliVars, flowVars, checks>>
ConfigPart == part = "config" /\ ConfigNext
  /\ UNCHANGED <<part, people, patternVars, eventVars, cliVars, flowVars, checks>>
PatternsPart == part = "patterns" /\ PatternNext
  /\ UNCHANGED <<part, people, configVars, eventVars, cliVars, flowVars, checks>>
EventsPart == part = "events" /\ EventsNext
  /\ UNCHANGED <<part, people, configVars, patternVars, cliVars, flowVars, checks>>
WaitPart == part = "wait" /\ CliNext
  /\ UNCHANGED <<part, people, configVars, patternVars, eventVars, flowVars, checks>>
ReconPart == part = "recon" /\ FlowNext
  /\ UNCHANGED <<part, people, configVars, patternVars, eventVars, cliVars, checks>>
ChecksPart == part = "checks" /\ Run!RunNext
  /\ UNCHANGED <<part, people, configVars, patternVars, eventVars, cliVars, flowVars>>

ServicesNext ==
  \/ SignInPart \/ SecretsPart \/ AccessPart \/ ConfigPart \/ PatternsPart \/ EventsPart \/ WaitPart
  \/ ReconPart \/ ChecksPart

\* Timers fire, queries answer, the client reads and comes back, closed pipes are noticed.
ServicesSpec ==
  /\ ServicesInit /\ [][ServicesNext]_serviceVars
  /\ WF_eventVars(part = "events" /\ Connect) /\ WF_eventVars(part = "events" /\ StartPoll)
  /\ WF_eventVars(part = "events" /\ Deliver) /\ WF_eventVars(part = "events" /\ Receive)
  /\ WF_cliVars(part = "wait" /\ CliStep)
  /\ \A t \in 1..3 : WF_checks(part = "checks" /\ Run!RunSteps(t))
-----------------------------------------------------------------------------
(* The other properties are those of the modules: MembersWereInvited,        *)
(* FrozenCredential, AdmittedWasEntitled, AuditsAuthorized,                  *)
(* PatternsKeepToOneRegistrant, EventsInOrder, EventsArrive,                 *)
(* ExitTellsVerdict, FullWaitReturns and CrawlAccountedFor.                  *)

\* CheckRun: within the pools, and every command gets its result; only commands of this
\* part run.
ChecksConclude == []Run!WithinPools /\ (part = "checks" => Run!AllSettle)
=============================================================================
