----------------------------- MODULE SourceGraph -----------------------------
(***************************************************************************)
(* The call graph under one route handler (nest-source-graph): a walk over  *)
(* the calls of each method, breadth first and within limits of depth,      *)
(* methods and calls, and the code map that is refused when a limit cut the *)
(* walk short (code-map.service). Parsing is abstracted: a call resolves to *)
(* a method of a class of the project, or to nothing.                       *)
(***************************************************************************)
EXTENDS Integers, Sequences

CONSTANTS
  Method,    \* methods, the handler among them
  Handler,
  External,  \* a call that resolves to no method: not this.x(), a token, a nested function
  MaxCallsPerMethod,
  Limits     \* the limits [maxDepth, maxNodes, maxCalls] a walk may be given

ASSUME GraphAssumption ==
  /\ Handler \in Method /\ External \notin Method
  /\ MaxCallsPerMethod \in Nat
  /\ Limits \subseteq [maxDepth : Nat \ {0}, maxNodes : Nat \ {0}, maxCalls : Nat \ {0}]

VARIABLES
  callees, \* callees[m]: what the call expressions of m resolve to, in order
  limits,
  walk,    \* the queue of methods, where in it the walk is, the next call of that method
  reached, \* reachable: the depth of every method found
  seenCalls, truncated,
  codeMap  \* the symbols stored for the route, or that none was

graphVars == <<callees, limits, walk, reached, seenCalls, truncated, codeMap>>

CallLists == UNION {[1..n -> Method \cup {External}] : n \in 0..MaxCallsPerMethod}

GraphInit ==
  /\ callees \in [Method -> CallLists] /\ limits \in Limits
  /\ walk = [queue |-> <<Handler>>, cursor |-> 1, call |-> 1]
  /\ reached = [m \in {Handler} |-> 0]
  /\ seenCalls = 0 /\ truncated = FALSE /\ codeMap = "none"

Found == DOMAIN reached
CurrentMethod == walk.queue[walk.cursor]
Walking == codeMap = "none" /\ walk.cursor <= Len(walk.queue)
Over == codeMap = "none" /\ walk.cursor > Len(walk.queue)

LimitReached(m) == reached[m] >= limits.maxDepth \/ Len(walk.queue) >= limits.maxNodes

\* One call expression; beyond maxCalls the walk returns at once.
VisitCall ==
  /\ Walking /\ walk.call <= Len(callees[CurrentMethod])
  /\ seenCalls' = seenCalls + 1
  /\ LET target == callees[CurrentMethod][walk.call]
         next == [walk EXCEPT !.call = @ + 1]
     IN  IF seenCalls' > limits.maxCalls
         THEN /\ truncated' = TRUE /\ UNCHANGED reached
              /\ walk' = [walk EXCEPT !.cursor = Len(walk.queue) + 1]
         ELSE IF target = External \/ target \in Found
         THEN walk' = next /\ UNCHANGED <<reached, truncated>>
         ELSE IF LimitReached(CurrentMethod)
         THEN walk' = next /\ truncated' = TRUE /\ UNCHANGED reached
         ELSE /\ walk' = [next EXCEPT !.queue = Append(@, target)]
              /\ reached' = [m \in Found \cup {target} |->
                             IF m = target THEN reached[CurrentMethod] + 1 ELSE reached[m]]
              /\ UNCHANGED truncated
  /\ UNCHANGED <<callees, limits, codeMap>>

NextMethod ==
  /\ Walking /\ walk.call > Len(callees[CurrentMethod])
  /\ walk' = [walk EXCEPT !.cursor = @ + 1, !.call = 1]
  /\ UNCHANGED <<callees, limits, reached, seenCalls, truncated, codeMap>>

\* Mutant: a walk that was cut short is stored like any other.
StoredAnyway == "stored"
\* buildForAudit stores a map only of walks that nothing cut short.
MapOf == IF truncated THEN "refused" ELSE "stored"

StoreMap ==
  /\ Over /\ codeMap' = MapOf
  /\ UNCHANGED <<callees, limits, walk, reached, seenCalls, truncated>>

GraphNext == VisitCall \/ NextMethod \/ StoreMap
GraphSpec == GraphInit /\ [][GraphNext]_graphVars
-----------------------------------------------------------------------------
Calls(m, w) == \E i \in 1..Len(callees[m]) : callees[m][i] = w
\* Some chain of n calls leads from the handler to m.
Chain(m, n) ==
  \E c \in [0..n -> Method] :
    c[0] = Handler /\ c[n] = m /\ \A i \in 1..n : Calls(c[i - 1], c[i])

\* A stored map is the truth about the route: it holds every method the handler
\* can reach, none that it cannot, and each at the length of the shortest chain of
\* calls, which is what correlation takes for the deepest cause.
GraphIsReachability ==
  codeMap = "stored" =>
    /\ \A m \in Found, w \in Method : Calls(m, w) => w \in Found
    /\ \A m \in Found :
         Chain(m, reached[m]) /\ \A n \in 0..(reached[m] - 1) : ~Chain(m, n)
=============================================================================
