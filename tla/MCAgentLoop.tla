----------------------------- MODULE MCAgentLoop -----------------------------
(* Instances of AgentLoop for TLC: two agents on the budgets of one audit. *)
EXTENDS AgentLoop, TLC

CONSTANTS blackbox, whitebox, audit

Agents == {blackbox, whitebox}
TokenLimits == blackbox :> 5 @@ whitebox :> 2 @@ audit :> 5
CallLimits == blackbox :> 3 @@ whitebox :> 1 @@ audit :> 3

Struck == {<<"crash", blackbox>>, <<"settle", blackbox>>, <<"cancel", audit>>}

Answers == blackbox :> Reply \ {"parallel"} @@ whitebox :> {"source"}
Claims == blackbox :> 2 @@ whitebox :> 1

\* The second agent competes for the budget and stops before its first checkpoint.
BriefCompetitor == turn[whitebox] = 0
=============================================================================
