------------------------------ MODULE MCCliWait ------------------------------
(***************************************************************************)
(* The waiting client alone, with the fairness of its own steps.            *)
(***************************************************************************)
EXTENDS CliWait

CliFairSpec == CliSpec /\ WF_cliVars(CliStep)
=============================================================================
