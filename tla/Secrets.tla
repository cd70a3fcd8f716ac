------------------------------- MODULE Secrets -------------------------------
(***************************************************************************)
(* One secret of a project and the audits that froze a version of it:       *)
(* secrets.service, the envelope encryption under it, the snapshot an AI    *)
(* audit takes at dispatch and the credential its agents later resolve.     *)
(***************************************************************************)
EXTENDS Integers, FiniteSets

CONSTANTS
  Writer,      \* requests that rotate or revoke; each carries a value of its own
  Audit,       \* AI audits of the project
  MaxVersion   \* bound on rotations

ASSUME SecretsAssumption == MaxVersion \in Nat \ {0}

\* An envelope holds a value encrypted for one secret and version, its context.
Envelope(value, v) == [value |-> value, context |-> v]
NoEnvelope == Envelope("none", 0)

VARIABLES
  current, revoked,  \* Secret.currentVersion, revokedAt is set
  versions,          \* SecretVersion: an envelope for each version, or none
  writer,            \* writer[w]: where request w is, what it read, the version it was told
  frozen,            \* frozen[a]: the snapshot of audit a
  lease              \* lease[a]: what the agents of a were given

secretVars == <<current, revoked, versions, writer, frozen, lease>>

SecretsInit ==
  /\ current = 1 /\ revoked = FALSE
  /\ versions = [v \in 1..(MaxVersion + 1) |-> IF v = 1 THEN Envelope("first", 1) ELSE NoEnvelope]
  /\ writer = [w \in Writer |-> [at |-> "none", read |-> 0, told |-> 0]]
  /\ frozen = [a \in Audit |-> [at |-> "none", version |-> 0, value |-> "none"]]
  /\ lease = [a \in Audit |-> "none"]

WriterAt(w, pos) == writer' = [writer EXCEPT ![w].at = pos]
-----------------------------------------------------------------------------
\* rotate reads the version it follows, encrypts for the next ...
BeginRotate(w) ==
  /\ writer[w].at = "none" /\ current <= MaxVersion
  /\ IF revoked THEN WriterAt(w, "refused")
     ELSE writer' = [writer EXCEPT ![w] = [at |-> "rotating", read |-> current, told |-> 0]]
  /\ UNCHANGED <<current, revoked, versions, frozen, lease>>

\* Mutant: the version is claimed whatever happened since it was read.
ClaimedAnyway(w) == ~revoked
Claimed(w) == current = writer[w].read /\ ~revoked

\* ... and claims it in one transaction with the new row, which no version has twice.
CommitRotate(w) ==
  LET next == writer[w].read + 1
  IN  /\ writer[w].at = "rotating"
      /\ IF Claimed(w)
         THEN /\ current' = next
              /\ versions' = [versions EXCEPT ![next] = Envelope(w, next)]
              /\ writer' = [writer EXCEPT ![w].at = "done", ![w].told = next]
         ELSE WriterAt(w, "refused") /\ UNCHANGED <<current, versions>>
      /\ UNCHANGED <<revoked, frozen, lease>>

\* revoke reads, answers if it was revoked already, and updates without looking again.
BeginRevoke(w) ==
  /\ writer[w].at = "none" /\ WriterAt(w, IF revoked THEN "done" ELSE "revoking")
  /\ UNCHANGED <<current, revoked, versions, frozen, lease>>

CommitRevoke(w) ==
  /\ writer[w].at = "revoking" /\ revoked' = TRUE /\ WriterAt(w, "done")
  /\ UNCHANGED <<current, versions, frozen, lease>>
-----------------------------------------------------------------------------
\* AiConfigurationService.snapshot at dispatch reads the current version; the audit
\* is created with it in a transaction of its own.
Snapshot(a) ==
  /\ frozen[a].at = "none" /\ ~revoked
  /\ frozen' = [frozen EXCEPT ![a] =
       [at |-> "read", version |-> current, value |-> versions[current].value]]
  /\ UNCHANGED <<current, revoked, versions, writer, lease>>

Dispatch(a) ==
  /\ frozen[a].at = "read" /\ frozen' = [frozen EXCEPT ![a].at = "stored"]
  /\ UNCHANGED <<current, revoked, versions, writer, lease>>

\* Mutant: the newest version is leased.
NewestVersion(a) == current
VersionFor(a) == frozen[a].version
Decrypt(envelope, context) == IF envelope.context = context THEN envelope.value ELSE "garbled"

\* ProviderResolver.forAudit, then resolveForWorker, each asking whether it is revoked.
CheckCredential(a) ==
  /\ frozen[a].at = "stored" /\ ~revoked
  /\ frozen' = [frozen EXCEPT ![a].at = "resolving"]
  /\ UNCHANGED <<current, revoked, versions, writer, lease>>

ResolveForWorker(a) ==
  /\ frozen[a].at = "resolving"
  /\ LET v == VersionFor(a)
     IN  lease' = [lease EXCEPT ![a] =
           IF revoked \/ versions[v] = NoEnvelope THEN "refused" ELSE Decrypt(versions[v], v)]
  /\ frozen' = [frozen EXCEPT ![a].at = "stored"]
  /\ UNCHANGED <<current, revoked, versions, writer>>

SecretsNext ==
  \/ \E w \in Writer : BeginRotate(w) \/ CommitRotate(w) \/ BeginRevoke(w) \/ CommitRevoke(w)
  \/ \E a \in Audit : Snapshot(a) \/ Dispatch(a) \/ CheckCredential(a) \/ ResolveForWorker(a)

SecretsSpec == SecretsInit /\ [][SecretsNext]_secretVars
-----------------------------------------------------------------------------
\* Rotations that race never share a version, and the agents of an audit are given
\* the value that was current when the audit took its snapshot, or nothing.
FrozenCredential ==
  /\ \A w \in Writer : writer[w].told > 0 =>
       versions[writer[w].told] = Envelope(w, writer[w].told)
  /\ \A a \in Audit : lease[a] \in {"none", "refused", frozen[a].value}
=============================================================================
