------------------------------ MODULE HttpProbe ------------------------------
(***************************************************************************)
(* One HTTP probe (http-job-consumer.service): up to six requests, one for  *)
(* the probe and one for each redirect it follows, each preceded by its own *)
(* look at the policy and the identity and by its own charge, while the     *)
(* project's policy is replaced, the identity revoked and other jobs of the *)
(* audit spend from the same budget.                                        *)
(***************************************************************************)
EXTENDS Integers, Sequences, FiniteSets

CONSTANTS
  Url, Origin, Host, Path, \* of a URL: Origin[u], Host[u], Path[u]
  BaseUrl,      \* the target's
  Allows,       \* Allows[p]: hosts covered by policy p's patterns (ScopePatterns)
  DeniedPath,   \* DeniedPath[p]: paths that begin with a denied one
  Destructive,  \* policies with destructiveAllowed
  Quota,        \* Quota[p]: maxRequestsPerAudit
  Rate,         \* Rate[p]: maxRequestsPerSecond
  MaxRequests, ReconLimit, \* the budget row's
  MaxHops, MaxChanges

ProbePolicy == DOMAIN Allows
Safe == {"GET", "HEAD", "OPTIONS"}

ProbeAssumption ==
  /\ BaseUrl \in Url /\ Quota \in [ProbePolicy -> Nat] /\ MaxHops \in Nat \ {0}
  /\ MaxRequests \in Nat /\ ReconLimit \in 0..MaxRequests

VARIABLES
  policy, agentIdentity,   \* the newest policy; is the test identity usable
  spent, recent,      \* requests charged to the audit; those of the last second in the project
  probe,              \* the job's memory: where it is, hop, url, method, the policy it read;
                      \* and whether an agent asked for it or it is the audit's own request
  sent,               \* requests sent, each with the policies and identity states since the last
  since,              \* policies in force, and whether the identity was usable, since the last
  edits

probeVars == <<policy, agentIdentity, spent, recent, probe, sent, since, edits>>

ProbeInit ==
  /\ policy \in ProbePolicy /\ agentIdentity = TRUE /\ spent = 0 /\ recent = 0
  /\ probe \in [at : {"begin"}, hop : {0}, url : Url, method : {"GET", "POST"}, read : {policy},
                agent : BOOLEAN, follows : BOOLEAN]
  /\ ~probe.agent => probe.url = BaseUrl /\ probe.method = "GET" /\ ~probe.follows
  /\ sent = <<>> /\ since = [policies |-> {policy}, usable |-> TRUE] /\ edits = 0

Go(pos) == probe' = [probe EXCEPT !.at = pos]
Outside == <<policy, agentIdentity, recent, edits, since>>
-----------------------------------------------------------------------------
(* Meanwhile. *)

Edit == edits < MaxChanges /\ edits' = edits + 1 /\ UNCHANGED <<probe, sent>>
ReplacePolicy ==
  /\ Edit /\ policy' \in ProbePolicy \ {policy}
  /\ since' = [since EXCEPT !.policies = @ \cup {policy'}] /\ UNCHANGED <<agentIdentity, spent, recent>>
\* Deactivated or its credential revoked; it is not made usable again.
RevokeIdentity == Edit /\ agentIdentity /\ agentIdentity' = FALSE /\ UNCHANGED <<policy, spent, recent, since>>

\* The CHECK of the budget table: reserved and consumed fit reconLimit.
FitsTable == spent < ReconLimit

OthersSpend == /\ Edit /\ FitsTable /\ spent' = spent + 1 /\ recent' = recent + 1
               /\ UNCHANGED <<policy, agentIdentity, since>>
SecondPasses == /\ recent > 0 /\ recent' = 0
                /\ UNCHANGED <<policy, agentIdentity, spent, probe, sent, since, edits>>
-----------------------------------------------------------------------------
(* process. *)

InScope(p, u) == /\ Host[u] \in Allows[p] /\ Path[u] \notin DeniedPath[p] /\ Origin[u] = Origin[BaseUrl]
Permitted(p, u, m) == InScope(p, u) /\ (m \in Safe \/ p \in Destructive)

\* Before the loop only the host is looked at, then the credential is materialized.
Begin ==
  /\ probe.at = "begin"
  /\ Go(IF Host[probe.url] \in Allows[policy] /\ agentIdentity THEN "hop" ELSE "denied")
  /\ UNCHANGED <<Outside, spent, sent>>

\* Mutant: redirects are held against the policy read for the first request.
FirstPolicy == IF probe.hop = 0 THEN policy ELSE probe.read
CurrentPolicy == policy

CheckScope ==
  /\ probe.at = "hop"
  /\ probe' = IF Permitted(CurrentPolicy, probe.url, probe.method)
              THEN [probe EXCEPT !.at = "scoped", !.read = CurrentPolicy]
              ELSE [probe EXCEPT !.at = "denied"]
  /\ UNCHANGED <<Outside, spent, sent>>

\* An agent's identity is looked up again; the target's own credential is not.
CheckIdentity == /\ probe.at = "scoped" /\ Go(IF agentIdentity \/ ~probe.agent THEN "identified" ELSE "denied")
                 /\ UNCHANGED <<Outside, spent, sent>>

\* reserveRequest: one transaction under the locks of project, audit and budget. It
\* denies what the caps deny; its last update, which the table refuses, fails the job.
Least(a, b) == IF a < b THEN a ELSE b
HasCapacity == spent < Least(MaxRequests, Quota[probe.read]) /\ recent < Rate[probe.read]
ReserveRequest ==
  /\ probe.at = "identified"
  /\ \/ /\ HasCapacity /\ FitsTable
        /\ Go("reserved") /\ spent' = spent + 1 /\ recent' = recent + 1
     \/ /\ ~(HasCapacity /\ FitsTable)
        /\ Go(IF HasCapacity THEN "refused" ELSE "denied") /\ UNCHANGED <<spent, recent>>
  /\ UNCHANGED <<policy, agentIdentity, edits, since, sent>>

Send ==
  /\ probe.at = "reserved" /\ Go("sent")
  /\ sent' = Append(sent, [url |-> probe.url, method |-> probe.method, read |-> probe.read,
                           since |-> since.policies, usable |-> since.usable \/ ~probe.agent])
  /\ since' = [policies |-> {policy}, usable |-> agentIdentity]
  /\ UNCHANGED <<policy, agentIdentity, spent, recent, edits>>

\* A 303, or a 301 or 302 to a POST, goes on as a GET.
MethodAfter(status) ==
  IF status = 303 \/ (status \in {301, 302} /\ probe.method = "POST") THEN "GET" ELSE probe.method

\* curl failed, the job was aborted, the answer was final, or a redirect.
Answered ==
  /\ probe.at = "sent"
  /\ \/ Go("failed") \/ Go("done")
     \/ /\ probe.follows
        /\ \E status \in {301, 302, 303, 307, 308}, location \in Url :
             probe' = IF probe.hop + 1 = MaxHops THEN [probe EXCEPT !.at = "denied"]
                      ELSE [probe EXCEPT !.at = "hop", !.hop = @ + 1, !.url = location,
                                         !.method = MethodAfter(status)]
  /\ UNCHANGED <<Outside, spent, sent>>

ProbeNext ==
  \/ ReplacePolicy \/ RevokeIdentity \/ OthersSpend \/ SecondPasses
  \/ Begin \/ CheckScope \/ CheckIdentity \/ ReserveRequest \/ Send \/ Answered

ProbeSpec == ProbeInit /\ [][ProbeNext]_probeVars
-----------------------------------------------------------------------------
\* However a redirect chain runs and the project changes meanwhile, each request
\* was permitted by a policy that was in force after the request before it, with an
\* agent's identity that was usable then, and the audit paid for it before it was sent.
ProbesAuthorized ==
  /\ \A i \in 1..Len(sent) :
       /\ \E p \in sent[i].since : Permitted(p, sent[i].url, sent[i].method)
       /\ sent[i].usable
  /\ Len(sent) <= MaxHops /\ Len(sent) <= spent /\ spent <= MaxRequests

\* A probe that the policy's caps leave room for is not turned away: of an audit's
\* requests, recon's share limits recon.
CapIsUsable == probe.at = "refused" => spent >= Least(MaxRequests, Quota[probe.read])
=============================================================================
