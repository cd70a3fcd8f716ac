------------------------------ MODULE Provenance ------------------------------
(***************************************************************************)
(* The provenance of one audit: the commit its source jobs read. An attempt *)
(* resolves the caller's claim, what the deployed build says of itself and, *)
(* without either, the branch, all of which may move between attempts; it   *)
(* checks the commit out, looks for a row, saves its own and then compares. *)
(***************************************************************************)
EXTENDS Integers, FiniteSets

CONSTANTS
  Commit,
  Nothing,       \* no claim, no row
  CallerClaims,  \* what the caller of the audit may ask for
  SourceClaims   \* claims of the provenance job

SourceAttempt == 1..SourceClaims
Claim == Commit \cup {Nothing}

ASSUME ProvenanceAssumption == Nothing \notin Commit /\ CallerClaims \subseteq Claim /\ SourceClaims \in Nat

VARIABLES
  branch, deployed,  \* the branch's head, the commit of the deployed build
  caller,            \* Audit.requestedCommitSha
  sourceJob,         \* the provenance job, with the attempt that owns it
  resolver,          \* resolver[n]: the memory of attempt n
  saved,             \* BuildProvenance of the audit
  checkouts,         \* complete checkouts in the shared root
  linked             \* Audit.buildProvenanceId is set

provenanceVars == <<branch, deployed, caller, sourceJob, resolver, saved, checkouts, linked>>

NoRow == [commit |-> Nothing, source |-> "none", build |-> Nothing]
Fresh == [at |-> "none", row |-> NoRow, existing |-> Nothing]

ProvenanceInit ==
  /\ branch \in Commit /\ deployed \in Claim /\ caller \in CallerClaims
  /\ sourceJob = [status |-> "queued", attempt |-> 0]
  /\ resolver = [n \in SourceAttempt |-> Fresh]
  /\ saved = NoRow /\ checkouts = {} /\ linked = FALSE
-----------------------------------------------------------------------------
(* The world moves. *)

Push == /\ branch' \in Commit \ {branch}
        /\ UNCHANGED <<deployed, caller, sourceJob, resolver, saved, checkouts, linked>>

Deploy == /\ deployed' \in Claim \ {deployed}
          /\ UNCHANGED <<branch, caller, sourceJob, resolver, saved, checkouts, linked>>
-----------------------------------------------------------------------------
(* ProvenanceResolver.resolve. *)

Observed == {caller, deployed} \ {Nothing}
\* Mutant: claims that disagree are not compared.
AgreeAlways == TRUE
ClaimsAgree == Cardinality(Observed) <= 1

Resolved ==
  [commit |-> IF caller # Nothing THEN caller ELSE IF deployed # Nothing THEN deployed ELSE branch,
   source |-> IF caller # Nothing THEN "ci_supplied"
              ELSE IF deployed # Nothing THEN "build_info_endpoint" ELSE "assumed",
   build |-> deployed]

Step(n, from, to) == resolver[n].at = from /\ resolver' = [resolver EXCEPT ![n].at = to]
World == <<branch, deployed, caller>>

\* The next attempt; the one before was lost, or only its lease was.
ClaimJob ==
  /\ sourceJob.status \in {"queued", "running"} /\ sourceJob.attempt < SourceClaims
  /\ sourceJob' = [status |-> "running", attempt |-> sourceJob.attempt + 1]
  /\ resolver' = [resolver EXCEPT ![sourceJob.attempt + 1].at = "begin"]
  /\ UNCHANGED <<World, saved, checkouts, linked>>

Resolve(n) ==
  /\ resolver[n].at = "begin"
  /\ resolver' = [resolver EXCEPT ![n] = IF ClaimsAgree THEN [Fresh EXCEPT !.at = "resolved", !.row = Resolved]
                                          ELSE [Fresh EXCEPT !.at = "failed"]]
  /\ UNCHANGED <<World, sourceJob, saved, checkouts, linked>>

\* checkout: a clone made aside is renamed into place; of two, the first stays.
Checkout(n) ==
  /\ Step(n, "resolved", "checked_out")
  /\ checkouts' = checkouts \cup {resolver[n].row.commit}
  /\ UNCHANGED <<World, sourceJob, saved, linked>>

FindExisting(n) ==
  /\ resolver[n].at = "checked_out"
  /\ resolver' = [resolver EXCEPT ![n].at = "looked", ![n].existing = saved.commit]
  /\ UNCHANGED <<World, sourceJob, saved, checkouts, linked>>

\* The row is saved first and compared with the one that was there afterwards.
Upsert(n) ==
  /\ resolver[n].at = "looked"
  /\ saved' = resolver[n].row
  /\ resolver' = [resolver EXCEPT ![n].at =
       IF resolver[n].existing \in {Nothing, saved'.commit} THEN "saved" ELSE "failed"]
  /\ UNCHANGED <<World, sourceJob, checkouts, linked>>

Link(n) ==
  /\ Step(n, "saved", "linked") /\ linked' = TRUE
  /\ UNCHANGED <<World, sourceJob, saved, checkouts>>

\* succeed and fail look at the job, not at whose attempt reports.
\* Mutant: an attempt that only saved its row reports success.
DoneSaved(n) == resolver[n].at \in {"saved", "linked"}
Done(n) == resolver[n].at = "linked"

Finish(n) ==
  /\ Done(n) \/ resolver[n].at = "failed"
  /\ \E retry \in BOOLEAN :
       /\ retry => ~Done(n) /\ sourceJob.attempt < SourceClaims
       /\ sourceJob' = IF sourceJob.status # "running" THEN sourceJob
                 ELSE [sourceJob EXCEPT !.status = IF Done(n) THEN "succeeded"
                                             ELSE IF retry THEN "queued" ELSE "failed"]
  /\ resolver' = [resolver EXCEPT ![n] = Fresh]
  /\ UNCHANGED <<World, saved, checkouts, linked>>

ProvenanceNext ==
  \/ Push \/ Deploy \/ ClaimJob
  \/ \E n \in SourceAttempt : \/ Resolve(n) \/ Checkout(n) \/ FindExisting(n)
                        \/ Upsert(n) \/ Link(n) \/ Finish(n)

ProvenanceSpec == ProvenanceInit /\ [][ProvenanceNext]_provenanceVars
-----------------------------------------------------------------------------
ProvenanceTypeOK ==
  /\ branch \in Commit /\ deployed \in Claim /\ caller \in Claim
  /\ saved \in [commit : Claim, build : Claim,
                source : {"none", "ci_supplied", "build_info_endpoint", "assumed"}]
  /\ sourceJob \in [status : {"queued", "running", "succeeded", "failed"}, attempt : 0..SourceClaims]
  /\ checkouts \subseteq Commit /\ linked \in BOOLEAN

\* Whatever moved meanwhile and however attempts overlap, the saved row is that of
\* one resolution: its commit is the one the build reported and the caller asked
\* for, as far as either did, and it is checked out; and once the job succeeded
\* the audit has it.
SavedAgrees ==
  /\ saved # NoRow =>
       /\ saved.build \in {Nothing, saved.commit} /\ caller \in {Nothing, saved.commit}
       /\ (saved.source = "assumed") = (saved.build = Nothing /\ caller = Nothing)
       /\ saved.commit \in checkouts
  /\ sourceJob.status = "succeeded" => linked /\ saved # NoRow
=============================================================================
