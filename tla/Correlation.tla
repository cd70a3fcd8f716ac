----------------------------- MODULE Correlation -----------------------------
(***************************************************************************)
(* Which findings of the HTTP probing and of the source scan are one defect *)
(* (correlation/route-resolution, correlation-engine): a request is traced  *)
(* to the one handler it reaches, the handler's call graph to the source    *)
(* findings under it. The engine takes the probed findings in the order of  *)
(* its input; a step here is one turn of its loop.                          *)
(***************************************************************************)
EXTENDS Integers, Sequences, FiniteSets, Functions

CONSTANTS
  Static,      \* static routes an instance may have, id |-> place in the input
  Documents,   \* OpenAPI documents: sets of paths
  Graphs,      \* Graphs[h]: the call graph of handler h, truncated or with depths
  Probed,      \* probed findings: path, category, cwe, and whether its exchange counts
  Scanned,     \* scanned findings: symbols that are verified at the commit, category, rule,
               \* cwe, and whether it counts
  Compatible,  \* COMPATIBLE
  Unstated     \* no rule, no weakness

\* The engine refuses larger inputs.
InputLimit == 5000

\* id is a place in an input.
CorrelationAssumption ==
  /\ IsFiniteSet(Static) /\ IsFiniteSet(Scanned)
  /\ \A x \in Static \cup Scanned : x.id \in 1..InputLimit
  /\ \A r \in Static : /\ DOMAIN r = {"id", "path", "handler", "source"}
                       /\ r.source = "static_parse" /\ r.handler \in DOMAIN Graphs
  /\ \A h \in DOMAIN Graphs : IsFiniteSet(DOMAIN Graphs[h].depth) /\ DOMAIN Graphs[h].depth # {}

VARIABLES
  routes,           \* static routes and those of the document
  probed, scanned,  \* the findings of the audit
  todo,             \* probed findings ahead
  merged,           \* the matches, by their fingerprint
  joined            \* findings that are part of a match

correlationVars == <<routes, probed, scanned, todo, merged, joined>>
-----------------------------------------------------------------------------
(* route-resolution *)

Param == "{param}"
Regex == "*"
\* normalizeRoutePath refuses what is not a segment or a named parameter.
Supported(path) == Regex \notin Range(path)
Rank(source) == CASE source = "runtime_dump" -> 0 [] source = "openapi" -> 1 [] OTHER -> 2
Specificity(r) == Cardinality({i \in DOMAIN r.path : r.path[i] # Param})
Matches(r, actual) ==
  /\ Supported(r.path) /\ Len(r.path) = Len(actual)
  /\ \A i \in DOMAIN actual : r.path[i] \in {Param, actual[i]}

\* The most specific routes, and of those the ones of the best source.
ResolveRoutes(actual) ==
  LET candidates == {r \in routes : Matches(r, actual)}
      best == {r \in candidates : \A s \in candidates : Specificity(s) <= Specificity(r)}
  IN  {r \in best : \A s \in best : Rank(r.source) <= Rank(s.source)}

\* ingestOpenApi: a documented path counts if it has one handler among the static routes.
IngestOpenApi(document, static) ==
  LET bound(path) == {r \in static : r.path = path}
      unique == {path \in document : Supported(path) /\ Cardinality({r.handler : r \in bound(path)}) = 1}
  IN  {[(CHOOSE r \in bound(path) : \A s \in bound(path) : s.id <= r.id) EXCEPT !.source = "openapi"] :
         path \in unique}
-----------------------------------------------------------------------------
(* correlation-engine *)

Handlers(b) == {r.handler : r \in ResolveRoutes(b.path)}
HandlerOf(b) == CHOOSE h \in Handlers(b) : TRUE
\* Of several routes to the handler the last one of the input names the path.
RouteOf(b) == CHOOSE r \in ResolveRoutes(b.path) : \A s \in ResolveRoutes(b.path) : s.id <= r.id
GraphOf(b) == Graphs[HandlerOf(b)]

\* Mutant: of several handlers that may answer, one is taken.
LocatedSomewhere(b) == b.counts /\ Handlers(b) # {} /\ ~GraphOf(b).truncated
Located(b) == b.counts /\ Cardinality(Handlers(b)) = 1 /\ ~GraphOf(b).truncated

Fits(b, w) ==
  /\ w.counts /\ <<b.category, w.category>> \in Compatible
  /\ b.cwe = w.cwe \/ Unstated \in {b.cwe, w.cwe}

\* A scanned finding is a candidate at each of its symbols under the handler.
Candidates(b) ==
  {p \in scanned \X DOMAIN GraphOf(b).depth : Fits(b, p[1]) /\ p[2] \in p[1].symbols}
DepthOf(b, p) == GraphOf(b).depth[p[2]]
Deepest(b) == {p \in Candidates(b) : \A q \in Candidates(b) : DepthOf(b, q) <= DepthOf(b, p)}
Together(b) == {p[1] : p \in Deepest(b)}
Roots(b) == {<<p[2], p[1].rule, p[1].cwe>> : p \in Deepest(b)}
Joined(b) == Located(b) /\ Cardinality(Roots(b)) = 1

\* The category is that of the last finding at the root.
MatchFingerprint(b) ==
  LET w == CHOOSE w \in Together(b) : \A v \in Together(b) : v.id <= w.id
      root == CHOOSE x \in Roots(b) : TRUE
  IN  <<w.category, root[2], root[3], root[1], RouteOf(b).path>>

CorrelationInit ==
  /\ \E static \in SUBSET Static, document \in Documents :
       routes = static \cup IngestOpenApi(document, static)
  /\ probed \in SUBSET Probed /\ scanned \in SUBSET Scanned
  /\ todo = probed /\ merged = <<>> /\ joined = {}

\* Mutant: a match of the same fingerprint is replaced, not extended.
Replaced(prior, b) == [probed |-> {b}, scanned |-> Together(b)]
Extended(prior, b) == [probed |-> prior.probed \cup {b}, scanned |-> prior.scanned \cup Together(b)]

Correlate(b) ==
  /\ todo' = todo \ {b}
  /\ IF ~Joined(b) THEN UNCHANGED <<merged, joined>>
     ELSE /\ merged' =
               LET f == MatchFingerprint(b)
                   prior == IF f \in DOMAIN merged THEN merged[f] ELSE [probed |-> {}, scanned |-> {}]
               IN  [g \in DOMAIN merged \cup {f} |-> IF g = f THEN Extended(prior, b) ELSE merged[g]]
          /\ joined' = joined \cup {b} \cup Together(b)
  /\ UNCHANGED <<routes, probed, scanned>>

CorrelationNext == \E b \in todo : Correlate(b)
CorrelationSpec == CorrelationInit /\ [][CorrelationNext]_correlationVars
-----------------------------------------------------------------------------
\* A route answers the request in place of another if it is more specific, or equally
\* specific and of a better source.
Yields(q, r) ==
  /\ Specificity(q) <= Specificity(r)
  /\ Specificity(q) = Specificity(r) => Rank(r.source) < Rank(q.source)
Answers(h, path) ==
  \E r \in routes : /\ r.handler = h /\ Matches(r, path)
                   /\ \A q \in routes : Matches(q, path) /\ q.handler # h => Yields(q, r)

\* A match claims one cause for all its findings. There is a symbol that each scanned
\* one sits at, and each probed one reaches: by a handler to which every route to any
\* other handler yields, whose call graph is complete, and under which no scanned
\* finding that fits is deeper. The scanned ones agree on rule and weakness, no probed
\* one states another weakness, and each finding has one of the other kind whose
\* category is compatible. In whatever order findings come, the matches hold what was
\* joined, and a probed finding is in one only.
JoinsAreGrounded ==
  /\ \A f \in DOMAIN merged :
       LET bs == merged[f].probed
           ws == merged[f].scanned
       IN  /\ \E s \in UNION {w.symbols : w \in ws} :
                /\ \A w \in ws : w.counts /\ s \in w.symbols
                /\ \A b \in bs : b.counts /\ \E h \in DOMAIN Graphs :
                     /\ Answers(h, b.path) /\ ~Graphs[h].truncated /\ s \in DOMAIN Graphs[h].depth
                     /\ \A v \in scanned : \A t \in v.symbols \cap DOMAIN Graphs[h].depth :
                          Fits(b, v) => Graphs[h].depth[t] <= Graphs[h].depth[s]
           /\ \A v, w \in ws : v.rule = w.rule /\ v.cwe = w.cwe
           /\ \A b \in bs, w \in ws : b.cwe = w.cwe \/ Unstated \in {b.cwe, w.cwe}
           /\ \A b \in bs : \E w \in ws : <<b.category, w.category>> \in Compatible
           /\ \A w \in ws : \E b \in bs : <<b.category, w.category>> \in Compatible
  /\ joined = UNION {merged[f].probed \cup merged[f].scanned : f \in DOMAIN merged}
  /\ \A f, g \in DOMAIN merged : f # g => merged[f].probed \cap merged[g].probed = {}
=============================================================================
