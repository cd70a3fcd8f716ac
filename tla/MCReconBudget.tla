----------------------------- MODULE MCReconBudget -----------------------------
(* An instance of ReconBudget for TLC in which attempts overlap. *)
EXTENDS ReconBudget

\* The attempts of verify overlap, which has two reservations; discover runs once.
VerifyOverlaps == attempts["discover"] < 2

\* What was sent is asked about in MCStores, and no action reads it.
SentAside == <<reserved, consumed, row, jobState, attempts, evidence, host, other, work>>
=============================================================================
