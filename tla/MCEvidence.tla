----------------------------- MODULE MCEvidence -----------------------------
(* Instances of EvidenceRetention for TLC. *)
EXTENDS EvidenceRetention, TLC

CONSTANTS stage, probe, x, y

Jobs == {stage, probe}
Kinds2 == stage :> "stage" @@ probe :> "http"
Captures == stage :> {x, y} @@ probe :> {y}
Claims == stage :> 2 @@ probe :> 1

\* The first policy in force is the shorter one: what it dated may expire, and a
\* longer policy may come after it.
InitOneDay == Init /\ days = 1
FromOneDay == InitOneDay /\ [][Next]_vars /\ Fairness
=============================================================================
