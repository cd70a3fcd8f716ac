--------------------------- MODULE FindingRecords ---------------------------
(***************************************************************************)
(* Findings and their identities. An identity lives as long as its project  *)
(* and is recognised by its fingerprint; a finding is its occurrence in one *)
(* audit. The normalize job persists what a scan reported, statement by     *)
(* statement and again on every retry; agents create findings and report    *)
(* the coverage of their categories.                                        *)
(***************************************************************************)
EXTENDS Integers, FiniteSets

CONSTANTS
  Audit,        \* audits of one project
  Reported,     \* Reported[a]: fingerprints the scan of audit a reported
  AgentPrint,   \* fingerprints of what agents may find
  Role,         \* agents
  CategoryOf,   \* the category of each agent fingerprint
  Claims,       \* claims of each audit's normalize job
  Overlap,      \* an attempt that lost its lease goes on beside the next
  MaxCalls      \* bound on the capability calls of all agents

ToolPrint == UNION {Reported[a] : a \in Audit}
Fingerprint == ToolPrint \cup AgentPrint
Category == {CategoryOf[g] : g \in AgentPrint}
Attempt == Audit \X (1..Claims)

FindingAssumption ==
  /\ ToolPrint \cap AgentPrint = {} /\ DOMAIN CategoryOf = AgentPrint
  /\ Claims \in Nat /\ MaxCalls \in Nat /\ Overlap \in BOOLEAN /\ IsFiniteSet(Audit)

VARIABLES
  identity,    \* FindingIdentity: exists and occurrences
  finding,     \* Finding: pairs of an audit and a fingerprint
  claims,      \* attempts of each normalize job
  normalizing, \* normalizing[w]: the memory of attempt w
  coverage,    \* AgentCoverageResult.outcome
  degraded,    \* Audit.degraded
  calls        \* capability calls made

findingVars == <<identity, finding, claims, normalizing, coverage, degraded, calls>>

Unknown == [exists |-> FALSE, occurrences |-> 0]
\* todo: fingerprints ahead; print, known: the one at hand and what findUnique said.
Resting == [at |-> "none", todo |-> {}, known |-> FALSE]
Position == {"none", "next", "identified", "looked", "written"}

FindingsInit ==
  /\ identity = [f \in Fingerprint |-> Unknown] /\ finding = {}
  /\ claims = [a \in Audit |-> 0]
  /\ normalizing = [w \in Attempt |-> Resting]
  /\ coverage = [a \in Audit |-> [r \in Role |-> [c \in Category |-> "none"]]]
  /\ degraded = [a \in Audit |-> FALSE] /\ calls = 0

FindingsTypeOK ==
  /\ identity \in [Fingerprint -> [exists : BOOLEAN, occurrences : Nat]]
  /\ finding \subseteq Audit \X Fingerprint
  /\ claims \in [Audit -> 0..Claims] /\ calls \in 0..MaxCalls
  /\ normalizing \in [Attempt -> [at : Position, todo : SUBSET ToolPrint, known : BOOLEAN]]
  /\ coverage \in [Audit -> [Role -> [Category -> {"none", "finding", "passed", "blocked"}]]]
  /\ degraded \in [Audit -> BOOLEAN]
-----------------------------------------------------------------------------
(* normalize, and persist for each candidate in turn. *)

ClaimNormalize(a) ==
  /\ claims[a] < Claims
  /\ claims' = [claims EXCEPT ![a] = @ + 1]
  /\ normalizing' = [w \in Attempt |->
       IF w = <<a, claims'[a]>> THEN [Resting EXCEPT !.at = "next", !.todo = Reported[a]]
       ELSE IF w[1] = a /\ ~Overlap THEN Resting ELSE normalizing[w]]
  /\ UNCHANGED <<identity, finding, coverage, degraded, calls>>

\* Candidates are persisted in one order, the same for every attempt.
Current(w) == CHOOSE f \in normalizing[w].todo : TRUE
Move(w, pos) == normalizing' = [normalizing EXCEPT ![w].at = pos]
Unchanged == UNCHANGED <<claims, coverage, degraded, calls>>

\* The identity, created without an occurrence.
UpsertIdentity(w) ==
  /\ normalizing[w].at = "next" /\ normalizing[w].todo # {}
  /\ identity' = [identity EXCEPT ![Current(w)].exists = TRUE]
  /\ Move(w, "identified")
  /\ Unchanged /\ UNCHANGED finding

\* findUnique: is this a new occurrence?
LookUp(w) ==
  /\ normalizing[w].at = "identified"
  /\ normalizing' = [normalizing EXCEPT ![w].at = "looked",
                       ![w].known = <<w[1], Current(w)>> \in finding]
  /\ Unchanged /\ UNCHANGED <<identity, finding>>

\* The finding, its location and its evidence, each an upsert of its own.
UpsertFinding(w) ==
  /\ normalizing[w].at = "looked"
  /\ finding' = finding \cup {<<w[1], Current(w)>>}
  /\ Move(w, "written")
  /\ Unchanged /\ UNCHANGED identity

\* Mutant: every persisted candidate counts.
NewAlways(w) == TRUE
NewOccurrence(w) == ~normalizing[w].known

CountOccurrence(w) ==
  /\ normalizing[w].at = "written"
  /\ identity' = IF NewOccurrence(w) THEN [identity EXCEPT ![Current(w)].occurrences = @ + 1]
                                     ELSE identity
  /\ normalizing' = [normalizing EXCEPT ![w] =
       [Resting EXCEPT !.at = "next", !.todo = normalizing[w].todo \ {Current(w)}]]
  /\ Unchanged /\ UNCHANGED finding
-----------------------------------------------------------------------------
(* Capabilities of the agents. *)

Cover(a, r, c, outcome) == coverage' = [coverage EXCEPT ![a][r][c] = outcome]
Calling == calls < MaxCalls /\ calls' = calls + 1 /\ UNCHANGED <<claims, normalizing>>

\* create_finding: identity, finding and coverage in one transaction; an identity
\* that exists is not counted again.
CreateFinding(a, r, g) ==
  /\ Calling
  /\ identity' = [identity EXCEPT ![g] = IF @.exists THEN @ ELSE [exists |-> TRUE, occurrences |-> 1]]
  /\ finding' = finding \cup {<<a, g>>}
  /\ Cover(a, r, CategoryOf[g], "finding")
  /\ UNCHANGED degraded

RecordPassingCheck(a, r, c) ==
  /\ Calling /\ Cover(a, r, c, "passed")
  /\ UNCHANGED <<identity, finding, degraded>>

ReportBlocked(a, r, c) ==
  /\ Calling /\ Cover(a, r, c, "blocked")
  /\ degraded' = [degraded EXCEPT ![a] = TRUE]
  /\ UNCHANGED <<identity, finding>>

FindingsNext ==
  \/ \E a \in Audit : ClaimNormalize(a)
  \/ \E w \in Attempt : UpsertIdentity(w) \/ LookUp(w) \/ UpsertFinding(w) \/ CountOccurrence(w)
  \/ \E a \in Audit, r \in Role, g \in AgentPrint : CreateFinding(a, r, g)
  \/ \E a \in Audit, r \in Role, c \in Category :
       RecordPassingCheck(a, r, c) \/ ReportBlocked(a, r, c)

FindingsSpec == FindingsInit /\ [][FindingsNext]_findingVars
-----------------------------------------------------------------------------
Occurrences(f) == Cardinality({a \in Audit : <<a, f>> \in finding})

\* Retries after crashes anywhere never count an occurrence twice, and no finding
\* exists without its identity, as long as attempts of one job do not overlap.
NeverCountedTwice ==
  /\ \A f \in Fingerprint : identity[f].occurrences <= Occurrences(f)
  /\ \A p \in finding : identity[p[2]].exists
=============================================================================
