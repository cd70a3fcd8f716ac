------------------------------- MODULE MCStores -------------------------------
(***************************************************************************)
(* What concurrent processes compute and store, on small instances checked  *)
(* side by side: in the database, workers with provenance, the inventory of *)
(* endpoints, findings, their correlation, code maps, HTTP probes and the   *)
(* request budget of recon; in files, the development gates with ledgers,   *)
(* waves, leases and counters.                                              *)
(* The parts share no state here, so that a behaviour is one of a single    *)
(* part, chosen at the start, while the others rest.                        *)
(***************************************************************************)
EXTENDS Provenance, Inventory, FindingRecords, Correlation, HttpProbe, ReconBudget,
        SourceGraph, GateLedger, GateCoordination, StopHook

VARIABLE part

recon == <<budgetVars, jobVars, hostVars, work, requests>>
workers == <<provenanceVars, inventoryVars, findingVars, correlationVars, graphVars, probeVars, recon>>
files == <<ledgerVars, coordinationVars, hookVars>>
storeVars == <<part, workers, files>>

Parts == {"provenance", "inventory", "findings", "correlation", "codemap", "probe",
          "budget", "gates", "shared", "stops"}
-----------------------------------------------------------------------------
(* Three audits of one target, the second of which retries. *)

Seen(u, s) == [url |-> u, status |-> s]
Later == {Seen("u2", 401), Seen("u3", Nobody)}
TheTemplates == [u1 |-> "e1", u2 |-> "e1", u3 |-> "e2"]
TheCrawls == [a1 |-> {{Seen("u1", Nobody), Seen("u1", 200)}}, a2 |-> {Later}, a3 |-> {Later}]
TheAttempts == [a1 |-> 1, a2 |-> 2, a3 |-> 1]

(* Two audits that find the same, and findings of agents. *)

TheReports == [a1 |-> {"t1", "t2"}, a2 |-> {"t1"}]
TheCategories == [g1 |-> "idor", g2 |-> "xss"]

(* Two handlers that share a repository, with routes that overlap. *)

RouteTo(id, path, handler) == [id |-> id, path |-> path, handler |-> handler, source |-> "static_parse"]
Probe(id, path, cwe, counts) ==
  [id |-> id, path |-> path, category |-> "authz", cwe |-> cwe, counts |-> counts]
Scan(id, symbols, category, cwe) ==
  [id |-> id, symbols |-> symbols, category |-> category, rule |-> "r1", cwe |-> cwe, counts |-> TRUE]
TheStatic == {RouteTo(1, <<"orders", "{param}">>, "get"), RouteTo(2, <<"{param}", "me">>, "me"),
              RouteTo(3, <<"orders", "me">>, "me"), RouteTo(4, <<"orders", "*">>, "get"),
              RouteTo(5, <<"files", "{param}">>, "files")}
TheGraphs == [get |-> [truncated |-> FALSE, depth |-> [get |-> 0, repo |-> 1]],
              me |-> [truncated |-> FALSE, depth |-> [me |-> 0, repo |-> 1, util |-> 1]],
              files |-> [truncated |-> TRUE, depth |-> [files |-> 0, repo |-> 1]]]
TheProbed == {Probe(1, <<"orders", "7">>, "c1", TRUE), Probe(2, <<"orders", "me">>, Nobody, TRUE),
              Probe(3, <<"orders", "8">>, Nobody, FALSE), Probe(4, <<"files", "me">>, Nobody, TRUE)}
TheScanned == {Scan(5, {"repo", "get"}, "authz_logic", "c1"), Scan(6, {"get", "util"}, "authz_logic", "c2"),
               Scan(7, {"repo"}, "authorization", "c1"), Scan(8, {"repo"}, "authz_logic", Nobody),
               [Scan(9, {"repo"}, "authz_logic", "c1") EXCEPT !.counts = FALSE],
               Scan(10, {"repo"}, "dependencies", "c2")}
TheDocuments == {{}, {<<"orders", "{param}">>, <<"orders", "*">>}}
ThePairs == {<<"authz", "authz_logic">>, <<"authz", "authorization">>}

WalkLimits(depths, nodes, visits) == [maxDepth |-> depths, maxNodes |-> nodes, maxCalls |-> visits]
TheLimits == {WalkLimits(2, 3, 5), WalkLimits(1, 3, 5), WalkLimits(2, 2, 3)}

(* Two hosts, a path that one policy denies, and another origin to be redirected to; 8   *)
(* requests, of which recon's share is 3.                                               *)

TheOrigins == [base |-> "o1", sub |-> "o1", other |-> "o2"]
TheHosts == [base |-> "h1", sub |-> "h1", other |-> "h2"]
ThePaths == [base |-> "open", sub |-> "admin", other |-> "open"]
TheCover == [p1 |-> {"h1", "h2"}, p2 |-> {"h1"}]
TheDenied == [p1 |-> {}, p2 |-> {"admin"}]
TheQuotas == [p1 |-> 8, p2 |-> 2]
TheRates == [p1 |-> 2, p2 |-> 2]

\* Ledgers: two gates, one of them met by hand; another command and an abandoned gate;
\* one that does not parse.
TheLine(kind, id, key, value) == [kind |-> kind, id |-> id, key |-> key, value |-> value]
Gate(id, box) == TheLine("gate", id, "-", box)
Attr(key, value) == TheLine("attr", "-", key, value)
Plain(kind) == TheLine(kind, "-", "-", "-")
FirstLedger ==
  <<TheLine("owns", "-", "-", "src"),
    Gate("a", "x"), Attr("check", "s1"), Attr("expect", "ok"), Attr("evidence", "by hand"), Plain("heading"),
    Gate("b", " "), Attr("check", "s1"), Plain("text"), Attr("expect", "ok"),
    Plain("fence"), Plain("unindented"), Plain("fence")>>
TheDrafts == {FirstLedger,
  <<Gate("a", "x"), Attr("check", "s2"), Attr("expect", "ok"), Attr("evidence", "pending"),
    Gate("b", "x"), Attr("evidence", "by hand"), TheLine("abandon", "b", "-", "no way")>>,
  <<Gate("a", " "), Attr("check", "s1"), Plain("unindented")>>}
TheOptions ==
  [c1 |-> {[mode |-> "reverify", approve |-> FALSE]},
   c2 |-> {[mode |-> "run", approve |-> TRUE], [mode |-> "status", approve |-> FALSE]}]

\* Two leaves whose patterns match one path only by a wildcard; a session whose hook
\* asks for one pipeline, and one that is asked for any.
TheOwned == [l1 |-> {<<"a", "*">>, <<"c">>}, l2 |-> {<<"a", "b", "c">>}]
TheRepository == {<<x, y, z>> : x, y, z \in {"a", "b", "c"}}
TheSessions == [h1 |-> "x", h2 |-> "y"]
TheWanted == [x |-> "-", y |-> "s1"]

ASSUME ProbeInstance == ProbeAssumption
ASSUME InventoryInstance == InventoryAssumption
ASSUME FindingInstance == FindingAssumption
ASSUME CorrelationInstance == CorrelationAssumption
ASSUME GraphInstance == GraphAssumption
ASSUME GatesInstance == LedgerAssumption
ASSUME SharedInstance == CoordinationAssumption
ASSUME StopsInstance == HookAssumption
-----------------------------------------------------------------------------
(* One part at a time; a part that rests is in one of its initial states. *)

StoresInit ==
  /\ part \in Parts
  /\ ledger = FirstLedger /\ (part # "gates" => approvals = {}) /\ LedgerInit
  /\ CoordinationInit
  /\ (part # "stops" => scope = [p \in Scope |-> "real"]) /\ HookInit
  /\ (part # "probe" => policy = "p1") /\ ProbeInit /\ (part # "probe" => ~probe.agent)
  /\ InventoryInit /\ FindingsInit
  /\ (part = "provenance") \/ (branch = "c1" /\ deployed = Nothing /\ caller = Nothing)
  /\ ProvenanceInit
  /\ (part = "correlation") \/ (routes = {} /\ probed = {} /\ scanned = {})
  /\ CorrelationInit
  /\ (part = "codemap") \/ (callees = [m \in Method |-> <<>>] /\ limits = WalkLimits(2, 3, 5))
  /\ GraphInit
  /\ Init

ProvenancePart == part = "provenance" /\ ProvenanceNext
  /\ UNCHANGED <<part, inventoryVars, findingVars, correlationVars, graphVars, probeVars, recon, files>>
InventoryPart == part = "inventory" /\ InventoryNext
  /\ UNCHANGED <<part, provenanceVars, findingVars, correlationVars, graphVars, probeVars, recon, files>>
FindingsPart == part = "findings" /\ FindingsNext
  /\ UNCHANGED <<part, provenanceVars, inventoryVars, correlationVars, graphVars, probeVars, recon, files>>
CorrelationPart == part = "correlation" /\ CorrelationNext
  /\ UNCHANGED <<part, provenanceVars, inventoryVars, findingVars, graphVars, probeVars, recon, files>>
CodeMapPart == part = "codemap" /\ GraphNext
  /\ UNCHANGED <<part, provenanceVars, inventoryVars, findingVars, correlationVars, probeVars, recon, files>>
ProbePart == part = "probe" /\ ProbeNext
  /\ UNCHANGED <<part, provenanceVars, inventoryVars, findingVars, correlationVars, graphVars, recon, files>>
BudgetPart == part = "budget" /\ Next
  /\ UNCHANGED <<part, provenanceVars, inventoryVars, findingVars, correlationVars, graphVars, probeVars, files>>
GatesPart == part = "gates" /\ LedgerNext
  /\ UNCHANGED <<part, workers, coordinationVars, hookVars>>
SharedPart == part = "shared" /\ CoordinationNext /\ UNCHANGED <<part, workers, ledgerVars, hookVars>>
StopsPart == part = "stops" /\ HookNext /\ UNCHANGED <<part, workers, ledgerVars, coordinationVars>>

StoresNext ==
  \/ ProvenancePart \/ InventoryPart \/ FindingsPart
  \/ CorrelationPart \/ CodeMapPart \/ ProbePart \/ BudgetPart
  \/ GatesPart \/ SharedPart \/ StopsPart

StoresSpec == StoresInit /\ [][StoresNext]_storeVars

\* Audits begin in the order of their names, the third when the first is over.
InTurn == /\ audit.a2 # "queued" => audit.a1 # "queued"
          /\ audit.a3 # "queued" => audit.a2 # "queued" /\ audit.a1 # "running"
-----------------------------------------------------------------------------
(* The other properties are those of the modules: SavedAgrees,               *)
(* FirstSeenInherited, NeverCountedTwice, JoinsAreGrounded, ProbesAuthorized, *)
(* GraphIsReachability, RequestsCharged, ResultsEarned, SharedFilesAgree,    *)
(* HookReleases and CapIsUsable.                                             *)

\* CapIsUsable is about the probe.
OnlyProbes == part = "probe"

=============================================================================
