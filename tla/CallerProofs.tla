---------------------------- MODULE CallerProofs -----------------------------
(***************************************************************************)
(* Proofs about what the API does for its callers: who gets in and with what *)
(* rights, which credential an audit uses, what the client's exit tells,    *)
(* how projects are configured and audits dispatched, and which hosts the   *)
(* patterns of a scope reach.                                               *)
(***************************************************************************)
EXTENDS SignIn, Secrets, Access, CliWait, ProjectConfig, ScopePatterns,
        SequenceTheorems, FiniteSetTheorems, WellFoundedInduction, TLAPS
-----------------------------------------------------------------------------
(***************************************************************************)
(* MembersWereInvited for every number of handshakes and invites and every  *)
(* provider, those nobody configured included.                              *)
(***************************************************************************)

Position == {"none", "verified", "denied", "new", "invited", "in"}
Row == [state : {"none", "live", "expired"}, by : Handshake \cup {Nobody}]
Memory == [at : Position, email : Email \cup {Nobody}, with : Invite \cup {Nobody}]

SignInTypeOK ==
  /\ invite \in [Invite -> Row]
  /\ handshake \in [Handshake -> Memory]
  /\ proven \in [Handshake -> BOOLEAN]
  /\ DOMAIN signedIn = Handshake /\ signedIn = [h \in Handshake |-> signedIn[h]]

OneUserEach == \A u, v \in user : u.email = v.email => u = v

MadeFrom(u, i) ==
  i.email = u.email /\ i.org = u.org /\ i.projects = u.projects /\ invite[i].by = u.by
UsersInvited == \A u \in user : \E i \in Invite : MadeFrom(u, i)

\* Past the first step a handshake has an address its provider had verified.
AddressProven ==
  \A h \in Handshake : handshake[h].at \in {"verified", "new", "invited", "in"} => proven[h]

\* The invite a handshake goes by is one for its address.
InvitedByAddress ==
  \A h \in Handshake : handshake[h].at = "invited" =>
    handshake[h].with \in Invite /\ handshake[h].with.email = handshake[h].email

SessionOfUser ==
  \A h \in Handshake : handshake[h].at = "in" =>
    \E u \in UserOf(handshake[h].email) : signedIn[h] = [org |-> u.org, by |-> u.by]

SignInInv ==
  /\ SignInTypeOK /\ OneUserEach /\ UsersInvited
  /\ AddressProven /\ InvitedByAddress /\ SessionOfUser

\* Whatever a provider says that is taken for a verified address, the address is one.
LEMMA OnlyVerifiedPasses ==
  ASSUME NEW provider, NEW verified \in BOOLEAN, NEW claim \in Says(provider, verified),
         ProviderVerifiedEmail(provider, claim)
  PROVE  verified
BY DEF Says, ProviderVerifiedEmail

LEMMA SignInInitially == SignInInit => SignInInv
<1> SUFFICES ASSUME SignInInit PROVE SignInInv
  OBVIOUS
<1>1. invite \in [Invite -> Row]
  <2>1. NoInvite \in Row /\ [state |-> "live", by |-> Nobody] \in Row
    BY DEF NoInvite, Row
  <2> QED BY <2>1 DEF SignInInit
<1>2. NoHandshake \in Memory
  BY DEF NoHandshake, Memory, Position
<1>3. SignInTypeOK
  BY <1>1, <1>2 DEF SignInInit, SignInTypeOK
<1>4. OneUserEach /\ UsersInvited
  BY DEF SignInInit, OneUserEach, UsersInvited
<1>5. AddressProven /\ InvitedByAddress /\ SessionOfUser
  BY DEF SignInInit, AddressProven, InvitedByAddress, SessionOfUser, NoHandshake
<1> QED BY <1>3, <1>4, <1>5 DEF SignInInv

LEMMA BeginKeeps ==
  ASSUME SignInInv, NEW h \in Handshake, Begin(h)
  PROVE  SignInInv'
<1> USE DEF SignInInv
<1>1. PICK step \in Memory, verified \in BOOLEAN :
        /\ handshake' = [handshake EXCEPT ![h] = step]
        /\ proven' = [proven EXCEPT ![h] = verified]
        /\ step.at \in {"verified", "denied"} /\ (step.at = "verified" => verified)
  <2>1. PICK provider \in Provider, verified \in BOOLEAN, email \in Email \cup {Nobody} :
          \E claim \in Says(provider, verified) :
            /\ MoveTo(h, [NoHandshake EXCEPT !.email = email, !.at =
                 IF email # Nobody /\ ProviderVerifiedEmail(provider, claim) THEN "verified" ELSE "denied"])
            /\ proven' = [proven EXCEPT ![h] = verified]
    BY DEF Begin
  <2>2. PICK claim \in Says(provider, verified) :
          /\ MoveTo(h, [NoHandshake EXCEPT !.email = email, !.at =
               IF email # Nobody /\ ProviderVerifiedEmail(provider, claim) THEN "verified" ELSE "denied"])
          /\ proven' = [proven EXCEPT ![h] = verified]
    BY <2>1
  <2> DEFINE where == IF email # Nobody /\ ProviderVerifiedEmail(provider, claim) THEN "verified" ELSE "denied"
             step == [NoHandshake EXCEPT !.email = email, !.at = where]
  <2>3. where = "verified" => verified
    BY OnlyVerifiedPasses
  <2>4. step \in Memory /\ step.at = where
    BY DEF NoHandshake, Memory, Position
  <2>5. handshake' = [handshake EXCEPT ![h] = step]
    BY <2>2 DEF MoveTo
  <2>6. where \in {"verified", "denied"}
    OBVIOUS
  <2> QED BY <2>2, <2>3, <2>4, <2>5, <2>6
<1>2. UNCHANGED <<invite, user, signedIn>>
  BY DEF Begin
<1>3. SignInTypeOK'
  BY <1>1, <1>2 DEF SignInTypeOK
<1>4. OneUserEach' /\ UsersInvited'
  BY <1>2 DEF OneUserEach, UsersInvited, MadeFrom
<1>5. AddressProven' /\ InvitedByAddress' /\ SessionOfUser'
  BY <1>1, <1>2 DEF SignInTypeOK, AddressProven, InvitedByAddress, SessionOfUser, UserOf
<1> QED BY <1>3, <1>4, <1>5

LEMMA FindUserKeeps ==
  ASSUME SignInInv, NEW h \in Handshake, FindUser(h)
  PROVE  SignInInv'
<1> USE DEF SignInInv
<1>1. /\ UNCHANGED <<invite, user, proven>> /\ handshake[h].at = "verified"
      /\ handshake[h] \in Memory
  BY DEF FindUser, SignInTypeOK
<1>2. OneUserEach' /\ UsersInvited'
  BY <1>1 DEF OneUserEach, UsersInvited, MadeFrom
<1>3. PICK pos \in {"new", "in"} : handshake' = [handshake EXCEPT ![h] = [handshake[h] EXCEPT !.at = pos]]
  BY DEF FindUser, MoveTo
<1>4. handshake' \in [Handshake -> Memory] /\ handshake'[h].at = pos
      /\ handshake'[h].email = handshake[h].email
  BY <1>1, <1>3 DEF SignInTypeOK, Memory, Position
<1>5. \A g \in Handshake \ {h} : handshake'[g] = handshake[g]
  BY <1>3 DEF SignInTypeOK
<1>6. AddressProven' /\ InvitedByAddress'
  BY <1>1, <1>4, <1>5 DEF AddressProven, InvitedByAddress
<1>7. CASE UserOf(handshake[h].email) = {}
  <2>1. UNCHANGED signedIn /\ handshake' = [handshake EXCEPT ![h] = [handshake[h] EXCEPT !.at = "new"]]
    BY <1>7 DEF FindUser, MoveTo
  <2>2. handshake'[h].at = "new"
    BY <1>1, <2>1 DEF SignInTypeOK, Memory
  <2>3. SignInTypeOK' /\ SessionOfUser'
    BY <1>1, <1>4, <1>5, <2>1, <2>2 DEF SignInTypeOK, SessionOfUser, UserOf
  <2> QED BY <1>2, <1>6, <2>3
<1>8. CASE UserOf(handshake[h].email) # {}
  <2>1. PICK u \in UserOf(handshake[h].email) :
          signedIn' = [signedIn EXCEPT ![h] = [org |-> u.org, by |-> u.by]]
    BY <1>8 DEF FindUser, Admit
  <2>2. SignInTypeOK'
    BY <1>1, <1>4, <2>1 DEF SignInTypeOK
  <2>3. SessionOfUser'
    <3> SUFFICES ASSUME NEW g \in Handshake, handshake'[g].at = "in"
                 PROVE  \E v \in user : /\ v.email = handshake'[g].email
                                        /\ signedIn'[g] = [org |-> v.org, by |-> v.by]
      BY <1>1 DEF SessionOfUser, UserOf
    <3>1. CASE g = h
      <4>1. signedIn'[h] = [org |-> u.org, by |-> u.by] /\ u \in user /\ u.email = handshake[h].email
        BY <2>1 DEF SignInTypeOK, UserOf
      <4> QED BY <1>4, <3>1, <4>1
    <3>2. CASE g # h
      <4>1. signedIn'[g] = signedIn[g] /\ handshake'[g] = handshake[g]
        BY <1>5, <2>1, <3>2 DEF SignInTypeOK
      <4> QED BY <4>1 DEF SessionOfUser, UserOf
    <3> QED BY <3>1, <3>2
  <2> QED BY <1>2, <1>6, <2>2, <2>3
<1> QED BY <1>7, <1>8

LEMMA FindInviteKeeps ==
  ASSUME SignInInv, NEW h \in Handshake, FindInvite(h)
  PROVE  SignInInv'
<1> USE DEF SignInInv
<1>1. /\ UNCHANGED <<invite, user, proven, signedIn>> /\ handshake[h].at = "new"
      /\ handshake[h] \in Memory /\ proven[h]
  BY DEF FindInvite, SignInTypeOK, AddressProven
<1>2. PICK step \in Memory :
        /\ handshake' = [handshake EXCEPT ![h] = step] /\ step.email = handshake[h].email
        /\ \/ step.at = "denied"
           \/ step.at = "invited" /\ step.with \in Invite /\ step.with.email = step.email
  <2> DEFINE denied == Denied(h)
             invited(i) == [handshake[h] EXCEPT !.at = "invited", !.with = i]
  <2>1. denied \in Memory /\ denied.at = "denied" /\ denied.email = handshake[h].email
    BY <1>1 DEF Denied, Memory, Position
  <2>2. ASSUME NEW i \in Invite, i.email = handshake[h].email
        PROVE  /\ invited(i) \in Memory /\ invited(i).at = "invited" /\ invited(i).with = i
               /\ invited(i).email = handshake[h].email
    BY <1>1, <2>2 DEF Memory, Position
  <2>3. \/ handshake' = [handshake EXCEPT ![h] = denied]
        \/ \E i \in Invite : i.email = handshake[h].email /\ handshake' = [handshake EXCEPT ![h] = invited(i)]
    BY DEF FindInvite, MoveTo
  <2>4. CASE handshake' = [handshake EXCEPT ![h] = denied]
    BY <2>1, <2>4
  <2>5. ASSUME NEW i \in Invite, i.email = handshake[h].email, handshake' = [handshake EXCEPT ![h] = invited(i)]
        PROVE  \E step \in Memory :
                 /\ handshake' = [handshake EXCEPT ![h] = step] /\ step.email = handshake[h].email
                 /\ \/ step.at = "denied"
                    \/ step.at = "invited" /\ step.with \in Invite /\ step.with.email = step.email
    <3>1. /\ invited(i) \in Memory /\ invited(i).at = "invited" /\ invited(i).with = i
          /\ invited(i).email = handshake[h].email
      BY <2>2, <2>5
    <3> HIDE DEF invited
    <3> QED BY <2>5, <3>1
  <2> QED BY <2>3, <2>4, <2>5
<1>3. SignInTypeOK' /\ AddressProven' /\ InvitedByAddress' /\ SessionOfUser'
  BY <1>1, <1>2 DEF SignInTypeOK, AddressProven, InvitedByAddress, SessionOfUser, UserOf
<1>4. OneUserEach' /\ UsersInvited'
  BY <1>1 DEF OneUserEach, UsersInvited, MadeFrom
<1> QED BY <1>3, <1>4

\* A user is only made for an address that is free, so no invite loses the user
\* made from it.
LEMMA ProvisionKeeps ==
  ASSUME SignInInv, NEW h \in Handshake, Provision(h)
  PROVE  SignInInv'
<1> USE DEF SignInInv
<1> DEFINE i == handshake[h].with
           u == [email |-> handshake[h].email, org |-> i.org, projects |-> i.projects, by |-> h]
<1>1. /\ i \in Invite /\ i.email = handshake[h].email /\ handshake[h] \in Memory /\ proven[h]
      /\ UNCHANGED proven
  BY DEF Provision, SignInTypeOK, AddressProven, InvitedByAddress
<1>2. PICK pos \in {"in", "denied"} : handshake' = [handshake EXCEPT ![h] = [handshake[h] EXCEPT !.at = pos]]
  BY DEF Provision, MoveTo, Denied
<1>3. /\ handshake' \in [Handshake -> Memory] /\ handshake'[h].at = pos
      /\ handshake'[h].email = handshake[h].email
      /\ \A g \in Handshake \ {h} : handshake'[g] = handshake[g]
  BY <1>1, <1>2 DEF SignInTypeOK, Memory, Position
<1>4. AddressProven' /\ InvitedByAddress'
  BY <1>1, <1>3 DEF AddressProven, InvitedByAddress
<1>5. CASE AddressFree(h)
  <2>1. /\ user' = user \cup {u}
        /\ signedIn' = [signedIn EXCEPT ![h] = [org |-> i.org, by |-> h]]
        /\ invite' = [invite EXCEPT ![i].by = h]
    BY <1>5 DEF Provision, Admit
  <2>2. u.email = i.email /\ u.org = i.org /\ u.projects = i.projects /\ u.by = h
    BY <1>1
  <2>3. invite' \in [Invite -> Row] /\ invite'[i].by = h
        /\ \A j \in Invite \ {i} : invite'[j] = invite[j]
    BY <1>1, <2>1 DEF SignInTypeOK, Row
  <2>4. \A v \in user : v.email # u.email
    BY <1>1, <1>5, <2>2 DEF AddressFree, UserOf
  <2> HIDE DEF u
  <2>5. SignInTypeOK'
    BY <1>1, <1>3, <2>1, <2>3, SMTT(30) DEF SignInTypeOK
  <2>6. OneUserEach'
    BY <2>1, <2>4 DEF OneUserEach
  <2>7. UsersInvited'
    <3> SUFFICES ASSUME NEW v \in user' PROVE \E j \in Invite : MadeFrom(v, j)'
      BY DEF UsersInvited
    <3>1. CASE v = u
      BY <1>1, <2>2, <2>3, <3>1 DEF MadeFrom
    <3>2. CASE v \in user
      <4>1. PICK j \in Invite : MadeFrom(v, j)
        BY <3>2 DEF UsersInvited
      <4>2. j # i
        BY <2>2, <2>4, <3>2, <4>1 DEF MadeFrom
      <4> QED BY <2>3, <4>1, <4>2 DEF MadeFrom
    <3> QED BY <2>1, <3>1, <3>2
  <2>8. SessionOfUser'
    <3> SUFFICES ASSUME NEW g \in Handshake, handshake'[g].at = "in"
                 PROVE  \E v \in user' : /\ v.email = handshake'[g].email
                                         /\ signedIn'[g] = [org |-> v.org, by |-> v.by]
      BY DEF SessionOfUser, UserOf
    <3>1. CASE g = h
      <4>1. signedIn'[h] = [org |-> u.org, by |-> u.by] /\ u \in user'
        BY <2>1, <2>2 DEF SignInTypeOK
      <4> QED BY <1>1, <1>3, <2>2, <3>1, <4>1
    <3>2. CASE g # h
      <4>1. signedIn'[g] = signedIn[g] /\ handshake'[g] = handshake[g]
        BY <1>3, <2>1, <3>2 DEF SignInTypeOK
      <4> QED BY <2>1, <4>1 DEF SessionOfUser, UserOf
    <3> QED BY <3>1, <3>2
  <2> QED BY <1>4, <2>5, <2>6, <2>7, <2>8
<1>6. CASE ~AddressFree(h)
  <2>1. UNCHANGED <<user, invite, signedIn>>
        /\ handshake' = [handshake EXCEPT ![h] = [handshake[h] EXCEPT !.at = "denied"]]
    BY <1>6 DEF Provision, MoveTo, Denied
  <2>2. handshake'[h].at = "denied"
    BY <1>1, <2>1 DEF SignInTypeOK, Memory
  <2>3. SignInTypeOK' /\ SessionOfUser'
    BY <1>1, <1>3, <2>1, <2>2 DEF SignInTypeOK, SessionOfUser, UserOf
  <2>4. OneUserEach' /\ UsersInvited'
    BY <2>1 DEF OneUserEach, UsersInvited, MadeFrom
  <2> QED BY <1>4, <2>3, <2>4
<1> QED BY <1>5, <1>6

LEMMA AdministrationKeeps ==
  ASSUME SignInInv,
         (\E i \in Invite : Renew(i) \/ Expire(i)) \/ UNCHANGED signInVars
  PROVE  SignInInv'
<1> USE DEF SignInInv
<1>1. UNCHANGED <<user, handshake, proven, signedIn>>
  BY DEF Renew, Expire, signInVars
<1>2. invite' \in [Invite -> Row] /\ \A i \in Invite : invite'[i].by = invite[i].by
  BY DEF Renew, Expire, signInVars, SignInTypeOK, Row
<1>3. SignInTypeOK' /\ OneUserEach' /\ UsersInvited'
  BY <1>1, <1>2 DEF SignInTypeOK, OneUserEach, UsersInvited, MadeFrom
<1>4. AddressProven' /\ InvitedByAddress' /\ SessionOfUser'
  BY <1>1 DEF AddressProven, InvitedByAddress, SessionOfUser, UserOf
<1> QED BY <1>3, <1>4

LEMMA SignInKept == SignInInv /\ [SignInNext]_signInVars => SignInInv'
BY BeginKeeps, FindUserKeeps, FindInviteKeeps, ProvisionKeeps, AdministrationKeeps DEF SignInNext

\* However handshakes of one person race and invites expire and are renewed
\* (apps/web/src/auth invite.ts, index.ts): one user an address, made from an invite
\* for it, and no session without an address its provider had verified.
THEOREM MembershipTakesAnInvite == SignInSpec => []MembersWereInvited
<1>1. SignInInv => MembersWereInvited
  BY DEF SignInInv, OneUserEach, UsersInvited, MadeFrom, AddressProven, SessionOfUser,
     MembersWereInvited
<1> QED BY <1>1, SignInInitially, SignInKept, PTL DEF SignInSpec

-----------------------------------------------------------------------------
(***************************************************************************)
(* FrozenCredential for every number of requests, audits and rotations.     *)
(***************************************************************************)

Version == 1..(MaxVersion + 1)
Value == {"none", "first"} \cup Writer
Rotation == [at : {"none", "rotating", "revoking", "done", "refused"}, read : Nat, told : Nat]
Snap == [at : {"none", "read", "stored", "resolving"}, version : Nat, value : Value]

SecretsTypeOK ==
  /\ current \in Version /\ revoked \in BOOLEAN
  /\ versions \in [Version -> [value : Value, context : Nat]]
  /\ writer \in [Writer -> Rotation]
  /\ frozen \in [Audit -> Snap]
  /\ lease \in [Audit -> Value \cup {"refused", "garbled"}]

\* The versions up to the current one are written, each under its own context.
VersionsWritten == \A v \in Version : v <= current => versions[v].context = v

\* A request learns its version when it wrote it, and has only then.
ToldWhatItWrote ==
  \A w \in Writer :
    /\ writer[w].at \in {"none", "rotating"} => writer[w].told = 0
    /\ writer[w].at = "rotating" => writer[w].read \in 1..MaxVersion
    /\ writer[w].told > 0 =>
         writer[w].told <= current /\ versions[writer[w].told] = Envelope(w, writer[w].told)

\* The snapshot names a version that holds the value it saw.
SnapshotHolds ==
  \A a \in Audit : frozen[a].at # "none" =>
    /\ frozen[a].version \in 1..current
    /\ versions[frozen[a].version] = Envelope(frozen[a].value, frozen[a].version)

LeasedFrozen ==
  \A a \in Audit : /\ lease[a] \in {"none", "refused", frozen[a].value}
                   /\ frozen[a].at = "none" => lease[a] = "none"

SecretsInv ==
  SecretsTypeOK /\ VersionsWritten /\ ToldWhatItWrote /\ SnapshotHolds /\ LeasedFrozen

LEMMA SecretsInitially == SecretsInit => SecretsInv
<1> SUFFICES ASSUME SecretsInit PROVE SecretsInv
  OBVIOUS
<1> USE SecretsAssumption DEF SecretsInit
<1>1. Envelope("first", 1) \in [value : Value, context : Nat]
      /\ NoEnvelope \in [value : Value, context : Nat]
  BY DEF Envelope, NoEnvelope, Value
<1>2. SecretsTypeOK
  <2>1. current \in Version
    BY DEF Version
  <2>2. versions \in [Version -> [value : Value, context : Nat]]
    BY <1>1 DEF Version
  <2>3. writer \in [Writer -> Rotation] /\ frozen \in [Audit -> Snap]
    BY DEF Value, Rotation, Snap
  <2>4. lease \in [Audit -> Value \cup {"refused", "garbled"}] /\ revoked \in BOOLEAN
    BY DEF Value
  <2> QED BY <2>1, <2>2, <2>3, <2>4 DEF SecretsTypeOK
<1>3. VersionsWritten
  BY DEF VersionsWritten, Version, Envelope
<1>4. ToldWhatItWrote /\ SnapshotHolds /\ LeasedFrozen
  BY DEF ToldWhatItWrote, SnapshotHolds, LeasedFrozen
<1> QED BY <1>2, <1>3, <1>4 DEF SecretsInv

\* A rotation writes above every version that anybody was told or froze.
LEMMA RotationKeeps ==
  ASSUME SecretsInv, NEW w \in Writer, CommitRotate(w)
  PROVE  SecretsInv'
<1> DEFINE next == writer[w].read + 1
<1> USE SecretsAssumption DEF SecretsInv
<1>1. CASE ~Claimed(w)
  <2>1. /\ writer' = [writer EXCEPT ![w].at = "refused"]
        /\ UNCHANGED <<current, versions, revoked, frozen, lease>> /\ writer[w].at = "rotating"
    BY <1>1 DEF CommitRotate, WriterAt
  <2>2. SecretsTypeOK' /\ VersionsWritten' /\ SnapshotHolds' /\ LeasedFrozen'
    BY <2>1 DEF SecretsTypeOK, VersionsWritten, SnapshotHolds, LeasedFrozen, Rotation
  <2>3. ToldWhatItWrote'
    BY <2>1 DEF SecretsTypeOK, ToldWhatItWrote
  <2> QED BY <2>2, <2>3
<1>2. CASE Claimed(w)
  <2>1. /\ current' = next /\ next = current + 1
        /\ versions' = [versions EXCEPT ![next] = Envelope(w, next)]
        /\ writer' = [writer EXCEPT ![w].at = "done", ![w].told = next]
        /\ UNCHANGED <<revoked, frozen, lease>>
    BY <1>2 DEF CommitRotate, Claimed
  <2>2. next \in Version /\ current \in Nat /\ current < next
    BY <2>1 DEF CommitRotate, ToldWhatItWrote, SecretsTypeOK, Version
  <2>3. \A v \in Version : v <= current => versions'[v] = versions[v]
    BY <2>1, <2>2 DEF SecretsTypeOK, Version
  <2>4. versions'[next] = Envelope(w, next)
    BY <2>1, <2>2 DEF SecretsTypeOK
  <2>5. SecretsTypeOK'
    <3>1. Envelope(w, next) \in [value : Value, context : Nat] /\ next \in Nat
      BY <2>2 DEF Envelope, Value, Version
    <3>2. versions' \in [Version -> [value : Value, context : Nat]] /\ current' \in Version
      BY <2>1, <2>2, <3>1 DEF SecretsTypeOK
    <3>3. writer' \in [Writer -> Rotation]
      BY <2>1, <3>1, ZenonT(60) DEF SecretsTypeOK, Rotation, Snap
    <3> QED BY <2>1, <3>2, <3>3 DEF SecretsTypeOK
  <2>6. VersionsWritten'
    BY <2>1, <2>2, <2>3, <2>4 DEF VersionsWritten, Envelope, Version
  <2>7. ToldWhatItWrote'
    <3> SUFFICES ASSUME NEW x \in Writer
                 PROVE  /\ writer'[x].at \in {"none", "rotating"} => writer'[x].told = 0
                        /\ writer'[x].at = "rotating" => writer'[x].read \in 1..MaxVersion
                        /\ writer'[x].told > 0 =>
                             /\ writer'[x].told <= current'
                             /\ versions'[writer'[x].told] = Envelope(x, writer'[x].told)
      BY DEF ToldWhatItWrote
    <3>1. CASE x = w
      BY <2>1, <2>2, <2>4, <3>1 DEF SecretsTypeOK, Version
    <3>2. CASE x # w
      <4>1. writer'[x] = writer[x]
        BY <2>1, <3>2 DEF SecretsTypeOK
      <4>2. writer[x].told > 0 => writer[x].told \in Version /\ writer[x].told <= current
        BY DEF ToldWhatItWrote, SecretsTypeOK, Version, Rotation, Snap
      <4> QED BY <2>1, <2>2, <2>3, <4>1, <4>2 DEF ToldWhatItWrote, SecretsTypeOK, Rotation, Snap
    <3> QED BY <3>1, <3>2
  <2>8. SnapshotHolds'
    <3>1. \A v \in 1..current : v \in Version /\ versions'[v] = versions[v] /\ v \in 1..current'
      BY <2>1, <2>2, <2>3 DEF Version
    <3> QED BY <2>1, <3>1 DEF SnapshotHolds
  <2>9. LeasedFrozen'
    BY <2>1 DEF LeasedFrozen
  <2> QED BY <2>5, <2>6, <2>7, <2>8, <2>9
<1> QED BY <1>1, <1>2

\* What the agents are given decrypts to what the snapshot saw.
LEMMA ResolutionKeeps ==
  ASSUME SecretsInv, NEW a \in Audit, ResolveForWorker(a)
  PROVE  SecretsInv'
<1> DEFINE v == frozen[a].version
<1>1. v \in 1..current /\ versions[v] = Envelope(frozen[a].value, v)
  BY DEF SecretsInv, SnapshotHolds, ResolveForWorker
<1>2. Decrypt(versions[v], v) = frozen[a].value
  BY <1>1 DEF Decrypt, Envelope
<1>3. /\ lease' = [lease EXCEPT ![a] = lease'[a]] /\ lease'[a] \in {"refused", frozen[a].value}
      /\ frozen' = [frozen EXCEPT ![a].at = "stored"]
      /\ UNCHANGED <<current, revoked, versions, writer>>
  BY <1>2 DEF ResolveForWorker, VersionFor, SecretsInv, SecretsTypeOK
<1>4. frozen[a].value \in Value
  BY DEF SecretsInv, SecretsTypeOK, Rotation, Snap
<1>5. SecretsTypeOK'
  <2>1. frozen' \in [Audit -> Snap]
    BY <1>3 DEF SecretsInv, SecretsTypeOK, Snap
  <2>2. lease' \in [Audit -> Value \cup {"refused", "garbled"}]
    BY <1>3, <1>4 DEF SecretsInv, SecretsTypeOK
  <2> QED BY <1>3, <2>1, <2>2 DEF SecretsInv, SecretsTypeOK
<1>6. VersionsWritten' /\ ToldWhatItWrote'
  BY <1>3 DEF SecretsInv, VersionsWritten, ToldWhatItWrote
<1>7. SnapshotHolds' /\ LeasedFrozen'
  BY <1>1, <1>3 DEF SecretsInv, SecretsTypeOK, SnapshotHolds, LeasedFrozen
<1> QED BY <1>5, <1>6, <1>7 DEF SecretsInv

LEMMA SnapshotKeeps ==
  ASSUME SecretsInv, NEW a \in Audit, Snapshot(a)
  PROVE  SecretsInv'
<1>1. current \in 1..current /\ current \in Version /\ current \in Nat
  BY SecretsAssumption DEF SecretsInv, SecretsTypeOK, Version
<1>2. versions[current] = Envelope(versions[current].value, current)
      /\ versions[current].value \in Value
  BY <1>1 DEF SecretsInv, SecretsTypeOK, VersionsWritten, Envelope
<1>3. SecretsTypeOK' /\ VersionsWritten' /\ ToldWhatItWrote'
  <2>1. frozen' \in [Audit -> Snap]
    BY <1>1, <1>2 DEF SecretsInv, SecretsTypeOK, Snap, Snapshot
  <2> QED BY <2>1 DEF SecretsInv, SecretsTypeOK, VersionsWritten, ToldWhatItWrote, Snapshot
<1>4. SnapshotHolds'
  BY <1>1, <1>2 DEF SecretsInv, SecretsTypeOK, SnapshotHolds, Snapshot
<1>5. LeasedFrozen'
  BY DEF SecretsInv, SecretsTypeOK, LeasedFrozen, Snapshot
<1> QED BY <1>3, <1>4, <1>5 DEF SecretsInv

LEMMA OtherStepsKeep ==
  ASSUME SecretsInv,
         \/ \E w \in Writer : BeginRotate(w) \/ BeginRevoke(w) \/ CommitRevoke(w)
         \/ \E a \in Audit : Dispatch(a) \/ CheckCredential(a)
         \/ UNCHANGED secretVars
  PROVE  SecretsInv'
<1> USE SecretsAssumption
<1>1. ASSUME NEW w \in Writer, BeginRotate(w) \/ BeginRevoke(w) \/ CommitRevoke(w)
      PROVE  SecretsInv'
  <2>1. /\ UNCHANGED <<current, versions, frozen, lease>> /\ revoked' \in BOOLEAN
        /\ writer[w].at \in {"none", "revoking"}
        /\ \/ writer' = [writer EXCEPT ![w] = [at |-> "rotating", read |-> current, told |-> 0]]
              /\ current <= MaxVersion
           \/ \E pos \in {"refused", "revoking", "done"} : writer' = [writer EXCEPT ![w].at = pos]
    BY <1>1 DEF SecretsInv, SecretsTypeOK, BeginRotate, BeginRevoke, CommitRevoke, WriterAt
  <2>2. writer' \in [Writer -> Rotation]
    <3>1. writer \in [Writer -> Rotation] /\ current \in Nat
      BY DEF SecretsInv, SecretsTypeOK, Version
    <3>2. CASE writer' = [writer EXCEPT ![w] = [at |-> "rotating", read |-> current, told |-> 0]]
      <4>1. [at |-> "rotating", read |-> current, told |-> 0] \in Rotation
        BY <3>1 DEF Rotation
      <4> QED BY <3>1, <3>2, <4>1
    <3>3. ASSUME NEW pos \in {"refused", "revoking", "done"}, writer' = [writer EXCEPT ![w].at = pos]
          PROVE  writer' \in [Writer -> Rotation]
      BY <3>1, <3>3 DEF Rotation
    <3> QED BY <2>1, <3>2, <3>3
  <2>3. SecretsTypeOK'
    BY <2>1, <2>2 DEF SecretsInv, SecretsTypeOK
  <2>4. current <= MaxVersion => current \in 1..MaxVersion
    BY DEF SecretsInv, SecretsTypeOK, Version
  <2>5. ToldWhatItWrote'
    <3> USE DEF SecretsInv, SecretsTypeOK, ToldWhatItWrote
    <3>1. CASE /\ writer' = [writer EXCEPT ![w] = [at |-> "rotating", read |-> current, told |-> 0]]
               /\ current <= MaxVersion
      BY <2>1, <2>4, <3>1
    <3>2. ASSUME NEW pos \in {"refused", "revoking", "done"}, writer' = [writer EXCEPT ![w].at = pos]
          PROVE  ToldWhatItWrote'
      <4>1. writer[w] \in Rotation /\ (writer[w].at \in {"none", "revoking"})
        BY <2>1
      <4>2. \A x \in Writer : writer'[x].told = writer[x].told /\ writer'[x].read = writer[x].read
                               /\ (writer'[x].at \in {"none", "rotating"} => writer'[x].at = writer[x].at)
        BY <3>2, <4>1 DEF Rotation
      <4> QED BY <2>1, <4>2
    <3> QED BY <2>1, <3>1, <3>2
  <2>6. VersionsWritten' /\ SnapshotHolds' /\ LeasedFrozen'
    BY <2>1 DEF SecretsInv, VersionsWritten, SnapshotHolds, LeasedFrozen
  <2> QED BY <2>3, <2>5, <2>6 DEF SecretsInv
<1>2. ASSUME NEW a \in Audit, Dispatch(a) \/ CheckCredential(a) PROVE SecretsInv'
  <2>1. /\ UNCHANGED <<current, revoked, versions, writer, lease>> /\ frozen[a].at # "none"
        /\ \E pos \in {"stored", "resolving"} : frozen' = [frozen EXCEPT ![a].at = pos]
    BY <1>2 DEF Dispatch, CheckCredential
  <2>2. frozen' \in [Audit -> Snap]
    BY <2>1 DEF SecretsInv, SecretsTypeOK, Snap
  <2>3. SecretsTypeOK'
    BY <2>1, <2>2 DEF SecretsInv, SecretsTypeOK
  <2>4. SnapshotHolds' /\ LeasedFrozen'
    BY <2>1 DEF SecretsInv, SecretsTypeOK, SnapshotHolds, LeasedFrozen
  <2>5. VersionsWritten' /\ ToldWhatItWrote'
    BY <2>1 DEF SecretsInv, VersionsWritten, ToldWhatItWrote
  <2> QED BY <2>3, <2>4, <2>5 DEF SecretsInv
<1>3. CASE UNCHANGED secretVars
  BY <1>3 DEF SecretsInv, SecretsTypeOK, VersionsWritten, ToldWhatItWrote, SnapshotHolds,
     LeasedFrozen, secretVars
<1> QED BY <1>1, <1>2, <1>3

LEMMA SecretsKept == SecretsInv /\ [SecretsNext]_secretVars => SecretsInv'
BY RotationKeeps, ResolutionKeeps, SnapshotKeeps, OtherStepsKeep DEF SecretsNext

\* Whatever rotations and revocations race, and however many audits take snapshots
\* (secrets.service rotate, ai-configuration snapshot, resolveForWorker): no two
\* requests were told one version, and agents get the frozen value or nothing.
THEOREM CredentialStaysFrozen == SecretsSpec => []FrozenCredential
<1>1. SecretsInv => FrozenCredential
  BY DEF SecretsInv, ToldWhatItWrote, LeasedFrozen, FrozenCredential
<1> QED BY <1>1, SecretsInitially, SecretsKept, PTL DEF SecretsSpec

-----------------------------------------------------------------------------
(* AdmittedWasEntitled for every set of users, tokens, projects and routes. *)

Roles == Role \cup {NoOne} \cup {TokenRole[t] : t \in Token}
Place == ProjectId \cup Organization \cup DOMAIN AuditProject \cup {NoOne}
KnownRequest == [at : {"none", "authenticated", "scoped", "admitted", "denied"},
                 who : Principal \cup {NoOne}, route : Route \cup {NoOne}, param : Place,
                 project : Place, role : Role \cup {NoOne}]

AccessTypeOK ==
  /\ member \in [User -> [ProjectId -> {NoOne} \cup Role]]
  /\ orgAdmin \subseteq User /\ session \subseteq User
  /\ request \in [Request -> KnownRequest]
  /\ held \in [Request -> SUBSET Roles]

OfProject(q) == request[q].route.mode \in {"project", "audit"}

\* What the guards that a request has passed established, and the roles its caller
\* has meanwhile.
Guarded(q) ==
  /\ request[q].at \in {"authenticated", "scoped"} =>
       /\ request[q].route \in Route /\ request[q].param \in Param(request[q].route.mode)
       /\ request[q].who \in Principal
       /\ request[q].route.mode # "public"
  /\ request[q].at \in {"authenticated", "scoped"} /\ OfProject(q) =>
       /\ ProjectOf(q) \in ProjectId
       /\ RoleIn(request[q].who, ProjectOf(q)) \in held[q]
  /\ request[q].at = "scoped" =>
       /\ request[q].route.mode # "none"
       /\ OfProject(q) => request[q].role \in held[q] \cap Role

AccessInv == AccessTypeOK /\ (\A q \in Request : Guarded(q)) /\ AdmittedWasEntitled

LEMMA RoleInType ==
  ASSUME AccessAssumption, AccessTypeOK, NEW who \in Principal \cup {NoOne}, NEW p \in ProjectId
  PROVE  RoleIn(who, p) \in Roles
BY DEF RoleIn, Roles, AccessTypeOK, AccessAssumption, Principal

LEMMA ParamPlace ==
  ASSUME AccessAssumption, NEW route \in Route, NEW param \in Param(route.mode)
  PROVE  /\ param \in Place
         /\ route.mode = "audit" => param \in DOMAIN AuditProject /\ AuditProject[param] \in ProjectId
         /\ route.mode = "project" => param \in ProjectId
BY DEF Param, Place, AccessAssumption

LEMMA AuthenticateKeeps ==
  ASSUME AccessAssumption, AccessInv, NEW q \in Request, Authenticate(q)
  PROVE  AccessInv'
<1> DEFINE Asks(w, t, m) ==
      LET asked == [NoRequest EXCEPT !.who = w, !.route = t, !.param = m]
          role == IF w \in Token THEN TokenRole[w] ELSE NoOne
      IN  /\ Answer(q, IF t.mode = "public" THEN [asked EXCEPT !.at = "admitted"]
                       ELSE IF CredentialGood(w) /\ (w \in Token => role \in Role)
                            THEN [asked EXCEPT !.at = "authenticated", !.role = role]
                            ELSE [asked EXCEPT !.at = "denied"])
          /\ held' = [held EXCEPT ![q] =
               IF t.mode \in {"project", "audit"}
               THEN {RoleIn(w, IF t.mode = "audit" THEN AuditProject[m] ELSE m)} ELSE {}]
<1> PICK who \in Principal \cup {NoOne}, route \in Route : \E m \in Param(route.mode) : Asks(who, route, m)
  BY DEF Authenticate
<1> PICK param \in Param(route.mode) : Asks(who, route, param)
  OBVIOUS
<1> DEFINE role == IF who \in Token THEN TokenRole[who] ELSE NoOne
           asked == [NoRequest EXCEPT !.who = who, !.route = route, !.param = param]
           good == CredentialGood(who) /\ (who \in Token => role \in Role)
           verdict == IF route.mode = "public" THEN [asked EXCEPT !.at = "admitted"]
                      ELSE IF good THEN [asked EXCEPT !.at = "authenticated", !.role = role]
                      ELSE [asked EXCEPT !.at = "denied"]
<1>1. request' = [request EXCEPT ![q] = verdict]
  BY Zenon DEF Answer
<1>2. param \in Place /\ UNCHANGED Rows
  BY ParamPlace DEF Authenticate
<1>3. /\ verdict \in KnownRequest /\ verdict.who = who /\ verdict.route = route /\ verdict.param = param
      /\ verdict.at = IF route.mode = "public" THEN "admitted" ELSE IF good THEN "authenticated" ELSE "denied"
  <2>1. NoRequest \in KnownRequest
    BY DEF NoRequest, KnownRequest, Place
  <2>2. asked = [NoRequest EXCEPT !.who = who, !.route = route, !.param = param]
    OBVIOUS
  <2>3. /\ route.mode = "public" => verdict = [asked EXCEPT !.at = "admitted"]
        /\ route.mode # "public" /\ good => verdict = [asked EXCEPT !.at = "authenticated", !.role = role]
        /\ route.mode # "public" /\ ~good => verdict = [asked EXCEPT !.at = "denied"]
    BY Zenon
  <2>4. route.mode # "public" /\ good => role \in Role \cup {NoOne}
    OBVIOUS
  <2> HIDE DEF asked, verdict, role, good
  <2>5. asked \in KnownRequest /\ asked.who = who /\ asked.route = route /\ asked.param = param
    BY <1>2, <2>1, <2>2 DEF KnownRequest
  <2>6. CASE route.mode = "public"
    <3>1. /\ verdict \in KnownRequest /\ verdict.who = asked.who /\ verdict.route = asked.route
          /\ verdict.param = asked.param /\ verdict.at = "admitted"
      BY <2>3, <2>5, <2>6 DEF KnownRequest
    <3> QED BY <2>5, <2>6, <3>1
  <2>7. CASE route.mode # "public" /\ good
    <3>1. /\ verdict \in KnownRequest /\ verdict.who = asked.who /\ verdict.route = asked.route
          /\ verdict.param = asked.param /\ verdict.at = "authenticated"
      BY <2>3, <2>4, <2>5, <2>7 DEF KnownRequest
    <3> QED BY <2>5, <2>7, <3>1
  <2>8. CASE route.mode # "public" /\ ~good
    <3>1. /\ verdict \in KnownRequest /\ verdict.who = asked.who /\ verdict.route = asked.route
          /\ verdict.param = asked.param /\ verdict.at = "denied"
      BY <2>3, <2>5, <2>8 DEF KnownRequest
    <3> QED BY <2>5, <2>8, <3>1
  <2> QED BY <2>6, <2>7, <2>8
<1> HIDE DEF verdict
<1>4. held'[q] \subseteq Roles
  <2>1. route.mode \in {"project", "audit"} => (IF route.mode = "audit" THEN AuditProject[param] ELSE param) \in ProjectId
    BY ParamPlace
  <2>2. held'[q] = (IF route.mode \in {"project", "audit"}
                    THEN {RoleIn(who, IF route.mode = "audit" THEN AuditProject[param] ELSE param)} ELSE {})
    BY DEF AccessInv, AccessTypeOK
  <2> QED BY <2>1, <2>2, RoleInType DEF AccessInv
<1>5. AccessTypeOK'
  <2>1. request' \in [Request -> KnownRequest]
    BY <1>1, <1>3 DEF AccessInv, AccessTypeOK
  <2>2. held' \in [Request -> SUBSET Roles]
    BY <1>4 DEF AccessInv, AccessTypeOK
  <2> QED
    BY <1>2, <2>1, <2>2 DEF AccessInv, AccessTypeOK, Rows
<1>6. ASSUME NEW p \in Request PROVE Guarded(p)'
  <2>1. CASE p = q
    <3>1. request'[p] = verdict
      BY <1>1, <2>1 DEF AccessInv, AccessTypeOK
    <3>2. CASE verdict.at = "authenticated"
      <4>1. route.mode # "public" /\ good
        BY <1>3, <3>2
      <4>2. who \in Principal
        BY <4>1 DEF CredentialGood, AccessInv, AccessTypeOK, Principal
      <4>3. held'[p] = IF route.mode \in {"project", "audit"}
               THEN {RoleIn(who, IF route.mode = "audit" THEN AuditProject[param] ELSE param)} ELSE {}
        BY <2>1 DEF AccessInv, AccessTypeOK
      <4>4. member' = member
        BY <1>2 DEF Rows
      <4> QED
        BY <1>3, <3>1, <3>2, <4>1, <4>2, <4>3, <4>4, ParamPlace DEF Guarded, OfProject, ProjectOf, RoleIn
    <3>3. CASE verdict.at # "authenticated"
      BY <1>3, <3>1, <3>3 DEF Guarded
    <3> QED BY <3>2, <3>3
  <2>2. CASE p # q
    <3>1. request'[p] = request[p] /\ held'[p] = held[p] /\ member' = member
      BY <1>1, <1>2, <2>2 DEF AccessInv, AccessTypeOK, Rows
    <3> QED
      BY <3>1 DEF AccessInv, Guarded, OfProject, ProjectOf, RoleIn
  <2> QED BY <2>1, <2>2
<1>7. AdmittedWasEntitled'
  <2> SUFFICES ASSUME NEW p \in Request, request'[p].at = "admitted", request'[p].route.mode # "public"
               PROVE  request'[p] = request[p] /\ held'[p] = held[p]
    BY DEF AccessInv, AdmittedWasEntitled
  <2>1. p # q
    BY <1>1, <1>3 DEF AccessInv, AccessTypeOK
  <2> QED
    BY <1>1, <2>1 DEF AccessInv, AccessTypeOK
<1> QED
  BY <1>5, <1>6, <1>7 DEF AccessInv

LEMMA ScopeKeeps ==
  ASSUME AccessAssumption, AccessInv, NEW q \in Request, Scope(q)
  PROVE  AccessInv'
<1> DEFINE r == request[q]
           role == RoleIn(request[q].who, ProjectOf(q))
<1>1. Guarded(q) /\ r \in KnownRequest
  BY DEF AccessInv, AccessTypeOK
<1>2. r.at = "authenticated" /\ UNCHANGED <<member, orgAdmin, session, held>>
  BY DEF Scope, Rows
<1>3. PICK v : /\ request' = [request EXCEPT ![q] = v]
               /\ \/ /\ OfProject(q) /\ role \in Role
                     /\ v = [r EXCEPT !.at = "scoped", !.project = ProjectOf(q), !.role = role]
                  \/ r.route.mode = "org" /\ v = [r EXCEPT !.at = "scoped"]
                  \/ v = [r EXCEPT !.at = "denied"]
  <2>1. CASE OfProject(q)
    <3>1. request' = [request EXCEPT ![q] = AuthorizedFor(q)]
      BY <2>1, Zenon DEF Scope, Answer, OfProject
    <3> QED BY <2>1, <3>1, Zenon DEF AuthorizedFor, Refused
  <2>2. CASE ~OfProject(q) /\ r.route.mode = "org" /\ r.who \in User
    <3>1. request' = [request EXCEPT ![q] = [request[q] EXCEPT !.at = "scoped"]]
      BY <2>2, Zenon DEF Scope, Answer, OfProject
    <3> QED BY <2>2, <3>1, Zenon
  <2>3. CASE ~OfProject(q) /\ ~(r.route.mode = "org" /\ r.who \in User)
    <3>1. request' = [request EXCEPT ![q] = Refused(q)]
      BY <2>3, Zenon DEF Scope, Answer, OfProject
    <3> QED BY <3>1, Zenon DEF Refused
  <2> QED BY <2>1, <2>2, <2>3
<1> HIDE DEF role
<1>4. /\ OfProject(q) => ProjectOf(q) \in Place /\ role \in held[q]
  BY <1>1, <1>2 DEF Guarded, Place, role
<1>5. v \in KnownRequest /\ v.at \in {"scoped", "denied"} /\ v.route = r.route /\ v.param = r.param /\ v.who = r.who
      /\ (v.at = "scoped" => r.route.mode \in {"project", "audit", "org"})
      /\ (v.at = "scoped" /\ OfProject(q) => v.role = role /\ role \in Role)
  <2>1. CASE OfProject(q) /\ role \in Role /\ v = [r EXCEPT !.at = "scoped", !.project = ProjectOf(q), !.role = role]
    <3>1. v \in KnownRequest /\ v.at = "scoped" /\ v.route = r.route /\ v.param = r.param /\ v.who = r.who /\ v.role = role
      BY <1>1, <1>4, <2>1 DEF KnownRequest
    <3> QED BY <2>1, <3>1 DEF OfProject
  <2>2. CASE r.route.mode = "org" /\ v = [r EXCEPT !.at = "scoped"]
    <3>1. v \in KnownRequest /\ v.at = "scoped" /\ v.route = r.route /\ v.param = r.param /\ v.who = r.who
      BY <1>1, <2>2 DEF KnownRequest
    <3> QED BY <2>2, <3>1 DEF OfProject
  <2>3. CASE v = [r EXCEPT !.at = "denied"]
    <3>1. v \in KnownRequest /\ v.at = "denied" /\ v.route = r.route /\ v.param = r.param /\ v.who = r.who
      BY <1>1, <2>3 DEF KnownRequest
    <3> QED BY <3>1
  <2> QED BY <1>3, <2>1, <2>2, <2>3
<1>6. AccessTypeOK'
  BY <1>2, <1>3, <1>5 DEF AccessInv, AccessTypeOK
<1>7. request'[q] = v /\ \A p \in Request : p # q => request'[p] = request[p]
  BY <1>3 DEF AccessInv, AccessTypeOK
<1>8. ASSUME NEW p \in Request PROVE Guarded(p)'
  <2>1. CASE p = q
    <3>1. UNCHANGED <<ProjectOf(q), OfProject(q), role>>
      BY <1>2, <1>5, <1>7 DEF ProjectOf, OfProject, RoleIn, role
    <3> QED
      BY <1>1, <1>2, <1>4, <1>5, <1>7, <2>1, <3>1 DEF Guarded, OfProject, role
  <2>2. CASE p # q
    BY <1>2, <1>7, <2>2 DEF AccessInv, Guarded, OfProject, ProjectOf, RoleIn
  <2> QED BY <2>1, <2>2
<1>9. AdmittedWasEntitled'
  BY <1>2, <1>5, <1>7 DEF AccessInv, AdmittedWasEntitled
<1> QED
  BY <1>6, <1>8, <1>9 DEF AccessInv

LEMMA AdmitKeeps ==
  ASSUME AccessAssumption, AccessInv, NEW q \in Request, CheckRoles(q)
  PROVE  AccessInv'
<1> DEFINE ok == RoleAllowed(q) /\ (request[q].route.admin => AdminOf(request[q].who, request[q].param))
<1>1. /\ request[q].at = "scoped" /\ UNCHANGED <<member, orgAdmin, session, held>>
      /\ request' = [request EXCEPT ![q] = [request[q] EXCEPT !.at = IF ok THEN "admitted" ELSE "denied"]]
  BY DEF CheckRoles, Answer, Refused, Rows
<1>2. Guarded(q) /\ request[q] \in KnownRequest
  BY DEF AccessInv, AccessTypeOK
<1>3. AccessTypeOK'
  BY <1>1, <1>2 DEF AccessInv, AccessTypeOK, KnownRequest
<1>4. \A p \in Request : p # q => request'[p] = request[p]
  BY <1>1 DEF AccessInv, AccessTypeOK
<1>5. /\ request'[q].at = (IF ok THEN "admitted" ELSE "denied") /\ request'[q].route = request[q].route
      /\ request'[q].param = request[q].param /\ request'[q].who = request[q].who
  BY <1>1, <1>2 DEF AccessInv, AccessTypeOK, KnownRequest
<1>6. ASSUME NEW p \in Request PROVE Guarded(p)'
  BY <1>1, <1>4, <1>5 DEF AccessInv, Guarded, OfProject, ProjectOf, RoleIn
<1>7. ok => /\ request[q].route.admin => request[q].who \in User /\ OrgOf[request[q].who] = request[q].param
            /\ OfProject(q) => \E role \in held[q] \cap Role : request[q].route.roles = {} \/ role \in request[q].route.roles
            /\ request[q].route.mode # "none"
  BY <1>1, <1>2 DEF AdminOf, RoleAllowed, Guarded, AccessInv, AccessTypeOK
<1>8. AdmittedWasEntitled'
  BY <1>1, <1>4, <1>5, <1>7 DEF AccessInv, AdmittedWasEntitled, OfProject
<1> QED
  BY <1>3, <1>6, <1>8 DEF AccessInv

LEMMA ChangeKeeps ==
  ASSUME AccessAssumption, AccessInv,
         \/ \E u \in User, p \in ProjectId : ChangeMember(u, p)
         \/ \E u \in User : DismissAdmin(u) \/ ExpireSession(u)
         \/ \E t \in Token : CreateToken(t) \/ RevokeToken(t)
         \/ UNCHANGED accessVars
  PROVE  AccessInv'
<1>1. ASSUME NEW u \in User, NEW p \in ProjectId, ChangeMember(u, p) PROVE AccessInv'
  <2>1. PICK role \in (Role \cup {NoOne}) : member' = [member EXCEPT ![u][p] = role]
    BY <1>1 DEF ChangeMember
  <2>2. /\ UNCHANGED <<request, orgAdmin, session>>
        /\ held' = [q \in Request |->
             IF request[q].who = u /\ request[q].at \in {"authenticated", "scoped"} /\ held[q] # {}
                /\ ProjectOf(q) = p
             THEN held[q] \cup {member'[u][p]} ELSE held[q]]
    BY <1>1 DEF ChangeMember, Change
  <2>3. member'[u][p] = role /\ \A v \in User, r \in ProjectId : ~(v = u /\ r = p) => member'[v][r] = member[v][r]
    BY <2>1 DEF AccessInv, AccessTypeOK
  <2>4. AccessTypeOK'
    BY <2>1, <2>2, <2>3 DEF AccessInv, AccessTypeOK, Roles
  <2>5. ASSUME NEW q \in Request PROVE held[q] \subseteq held'[q] /\ Guarded(q)'
    <3>1. held[q] \subseteq held'[q]
      BY <2>2
    <3>2. ASSUME request[q].at \in {"authenticated", "scoped"}, OfProject(q)
          PROVE  RoleIn(request[q].who, ProjectOf(q))' \in held'[q]
      <4>1. ProjectOf(q) \in ProjectId /\ RoleIn(request[q].who, ProjectOf(q)) \in held[q] /\ ProjectOf(q)' = ProjectOf(q)
            /\ request[q].who \in Principal
        BY <2>2, <3>2 DEF AccessInv, Guarded, ProjectOf
      <4>2. CASE request[q].who = u /\ ProjectOf(q) = p
        <5>1. RoleIn(request[q].who, ProjectOf(q))' = role
          BY <2>2, <2>3, <4>1, <4>2, AccessAssumption DEF RoleIn, AccessAssumption
        <5>2. held'[q] = held[q] \cup {role}
          BY <2>2, <2>3, <3>2, <4>1, <4>2
        <5> QED BY <5>1, <5>2
      <4>3. CASE ~(request[q].who = u /\ ProjectOf(q) = p)
        BY <2>2, <2>3, <3>1, <4>1, <4>3 DEF RoleIn
      <4> QED BY <4>2, <4>3
    <3> QED
      BY <2>2, <3>1, <3>2 DEF AccessInv, Guarded, OfProject, ProjectOf
  <2>6. AdmittedWasEntitled'
    BY <2>2, <2>5 DEF AccessInv, AdmittedWasEntitled
  <2> QED BY <2>4, <2>5, <2>6 DEF AccessInv
<1>2. ASSUME UNCHANGED <<member, request, held>>, orgAdmin' \subseteq orgAdmin, session' \subseteq session
      PROVE  AccessInv'
  BY <1>2 DEF AccessInv, AccessTypeOK, Guarded, AdmittedWasEntitled, OfProject, ProjectOf, RoleIn
<1> QED
  BY <1>1, <1>2 DEF DismissAdmin, ExpireSession, CreateToken, RevokeToken, Change, accessVars

\* However memberships change, tokens are revoked and sessions expire while the
\* guards run, a request reaches a handler of a project only with a role that its
\* caller held in that very project meanwhile and that the route allows, and a route
\* with the organization-admin guard only by a session of that organization.
THEOREM GuardsEntitle ==
  ASSUME AccessAssumption
  PROVE  AccessSpec => []AdmittedWasEntitled
<1>1. AccessInit => AccessInv
  <2> SUFFICES ASSUME AccessInit PROVE AccessInv
    OBVIOUS
  <2>1. NoRequest \in KnownRequest
    BY DEF NoRequest, KnownRequest, Place
  <2> QED
    BY <2>1 DEF AccessInit, AccessInv, AccessTypeOK, Guarded, AdmittedWasEntitled, NoRequest
<1>2. AccessInv /\ [AccessNext]_accessVars => AccessInv'
  BY AuthenticateKeeps, ScopeKeeps, AdmitKeeps, ChangeKeeps DEF AccessNext
<1>3. AccessInv => AdmittedWasEntitled
  BY DEF AccessInv
<1> QED
  BY <1>1, <1>2, <1>3, PTL DEF AccessSpec

-----------------------------------------------------------------------------
(* ExitTellsVerdict for every audit, cursor and number of reconnections. *)

CliTypeOK ==
  /\ followed \in [mode : Mode, status : {"queued", "running"} \cup Ended, cancel : BOOLEAN]
  /\ log \in Seq({"running"} \cup Ended)
  /\ cli \in [at : {"connecting", "streaming", "checking", "fetching", "cancelling", "done"}, last : Nat,
              told : {"none", "stop"} \cup Ended, exit : {Running, 0, 2, 5, 130}]

\* An event that ends the audit is written once the audit ended, and only such an
\* event takes the client from the stream to its last question.
CliInv ==
  /\ CliTypeOK
  /\ \A i \in 1..Len(log) : log[i] \in Ended => Over
  /\ work = "reporting" => Over
  /\ cli.at = "fetching" => Over
  /\ ExitTellsVerdict

\* What a step of the audit leaves of the client, and of its own end.
LEMMA AuditStepKeeps ==
  ASSUME CliInv, UNCHANGED cli, CliTypeOK',
         Over => followed'.status = followed.status,
         followed'.cancel = followed.cancel,
         log' = log \/ (\E e \in {"running"} \cup Ended : log' = Append(log, e) /\ (e \in Ended => Over')),
         work' = "reporting" => Over'
  PROVE  CliInv'
<1>1. Over => Over'
  BY DEF Over
<1>2. \A i \in 1..Len(log)' : log'[i] \in Ended => Over'
  <2>1. CASE log' = log
    BY <1>1, <2>1 DEF CliInv
  <2>2. CASE \E e \in {"running"} \cup Ended : log' = Append(log, e) /\ (e \in Ended => Over')
    BY <1>1, <2>2 DEF CliInv, CliTypeOK
  <2> QED BY <2>1, <2>2
<1>3. ExitTellsVerdict'
  BY DEF CliInv, ExitTellsVerdict, Over, Ended
<1> QED
  BY <1>1, <1>2, <1>3 DEF CliInv

LEMMA AuditKeeps ==
  ASSUME CliInv,
         StartAudit \/ JobsSettle \/ SchedulerEnds \/ SmokeSucceeds \/ SmokeReports \/ WorkerLost \/ SmokeFails
  PROVE  CliInv'
<1> DEFINE Ends(status) == followed' = [followed EXCEPT !.status = status]
           Logs(e) == log' = Append(log, e)
<1> USE DEF CliInv
<1>1. UNCHANGED cli
  BY DEF StartAudit, JobsSettle, SchedulerEnds, SmokeSucceeds, SmokeReports, WorkerLost, SmokeFails
<1>2. ASSUME NEW status \in {"running"} \cup Ended, Ends(status)
      PROVE  /\ followed' \in [mode : Mode, status : {"queued", "running"} \cup Ended, cancel : BOOLEAN]
             /\ followed'.status = status /\ followed'.cancel = followed.cancel
             /\ status \in Ended => Over'
  BY <1>2 DEF CliTypeOK, Over
<1>3. ASSUME NEW e \in {"running"} \cup Ended, Logs(e)
      PROVE  log' \in Seq({"running"} \cup Ended)
  BY <1>3 DEF CliTypeOK
<1>4. Over => ~Open
  BY DEF Over, Open, Ended
<1>5. CASE StartAudit
  BY <1>1, <1>2, <1>3, <1>5, AuditStepKeeps DEF StartAudit, EndAudit, CliTypeOK, Over, Ended
<1>6. CASE JobsSettle \/ WorkerLost
  BY <1>1, <1>6, AuditStepKeeps DEF JobsSettle, WorkerLost, CliTypeOK, Over
<1>7. CASE SchedulerEnds
  <2>1. PICK status \in Ended : Ends(status) /\ Logs(status)
    BY <1>7 DEF SchedulerEnds, EndAudit, Ended
  <2> HIDE DEF CliInv
  <2> QED
    BY <1>1, <1>2, <1>3, <1>4, <1>7, <2>1, AuditStepKeeps DEF SchedulerEnds, CliTypeOK, CliInv
<1>8. CASE SmokeSucceeds
  BY <1>1, <1>2, <1>4, <1>8, AuditStepKeeps DEF SmokeSucceeds, EndAudit, CliTypeOK, Ended
<1>9. CASE SmokeReports
  BY <1>1, <1>3, <1>9, AuditStepKeeps DEF SmokeReports, CliTypeOK, Over, Ended
<1>10. CASE SmokeFails
  <2>1. PICK status \in {"failed", "cancelled"} : Ends(status)
    BY <1>10 DEF SmokeFails, EndAudit
  <2> QED
    BY <1>1, <1>2, <1>4, <1>10, <2>1, AuditStepKeeps DEF SmokeFails, CliTypeOK, Ended
<1> QED
  BY <1>5, <1>6, <1>7, <1>8, <1>9, <1>10

\* A client step that exits gives the code of a verdict, an error or a cancellation.
LEMMA ClientKeeps ==
  ASSUME CliInv, OpenStream \/ NextEvent \/ StreamEnds \/ StreamBreaks \/ Check \/ Fetch \/ Interrupt
  PROVE  CliInv'
<1> USE DEF CliInv
<1>1. UNCHANGED <<followed, work, log>> /\ (Over' <=> Over)
  BY DEF OpenStream, NextEvent, StreamEnds, StreamBreaks, Check, Fetch, Interrupt, Client, Over
<1>2. ASSUME CliTypeOK', cli'.at = "fetching" => Over, ExitTellsVerdict'
      PROVE  CliInv'
  BY <1>1, <1>2
<1>3. ASSUME NEW at \in {"connecting", "streaming", "checking", "cancelling"}, cli' = [cli EXCEPT !.at = at]
      PROVE  CliInv'
  BY <1>1, <1>2, <1>3 DEF CliTypeOK, ExitTellsVerdict
<1>4. ASSUME NEW told \in {"none"} \cup Ended, NEW code \in {0, 2, 5, 130}, cli' = Exit(told, code),
             \/ code = 5
             \/ Over /\ code = TerminalExit(followed.status)
      PROVE  CliInv'
  <2>1. CliTypeOK' /\ cli'.at = "done" /\ cli'.exit = code
    BY <1>1, <1>4 DEF CliTypeOK, Exit
  <2>2. ExitTellsVerdict'
    BY <1>1, <1>4, <2>1 DEF ExitTellsVerdict, TerminalExit, Over, Ended
  <2> QED BY <1>2, <2>1, <2>2
<1>5. CASE OpenStream \/ StreamEnds
  BY <1>3, <1>5 DEF OpenStream, StreamEnds, Client
<1>6. CASE NextEvent
  <2>1. cli.last \in Nat /\ cli.last + 1 \in 1..Len(log)
    BY <1>6 DEF NextEvent, CliTypeOK
  <2>2. PICK at \in {"fetching", "streaming"} :
          /\ cli' = [cli EXCEPT !.last = cli.last + 1, !.at = at]
          /\ at = "fetching" => Over
    BY <1>6, <2>1 DEF NextEvent, Client, IsTerminal
  <2> DEFINE last == cli.last + 1
  <2>3. last \in Nat /\ at \in {"connecting", "streaming", "checking", "fetching", "cancelling", "done"}
    BY <2>1
  <2>4. cli' = [cli EXCEPT !.last = last, !.at = at]
    BY <2>2
  <2> HIDE DEF last
  <2>5. CliTypeOK' /\ cli'.at = at /\ cli'.exit = cli.exit
    BY <1>1, <2>3, <2>4 DEF CliTypeOK
  <2> QED BY <1>1, <1>2, <2>2, <2>5 DEF ExitTellsVerdict
<1>7. CASE StreamBreaks
  BY <1>4, <1>7 DEF StreamBreaks, Client
<1>8. TerminalExit(followed.status) \in {0, 2, 5, 130}
  BY DEF TerminalExit
<1>9. CASE Check
  <2>1. CASE Over
    BY <1>4, <1>8, <1>9, <2>1 DEF Check, Client, Over
  <2>2. CASE ~Over
    BY <1>3, <1>9, <2>2 DEF Check, Client
  <2> QED BY <2>1, <2>2
<1>10. CASE Fetch
  BY <1>4, <1>8, <1>10, ZenonT(60) DEF Fetch, Client, Over
<1>11. CASE Interrupt
  <2>1. CASE cli.at = "checking"
    <3>1. CliTypeOK' /\ cli'.at = cli.at /\ cli'.exit = cli.exit
      BY <1>1, <1>11, <2>1 DEF Interrupt, Client, CliTypeOK
    <3> QED BY <1>1, <1>2, <3>1 DEF ExitTellsVerdict
  <2>2. CASE cli.at # "checking"
    BY <1>3, <1>11, <2>2 DEF Interrupt, Client
  <2> QED BY <2>1, <2>2
<1> QED
  BY <1>5, <1>6, <1>7, <1>9, <1>10, <1>11

LEMMA CancelKeeps ==
  ASSUME CliInv, RequestCancellation
  PROVE  CliInv'
<1> USE DEF CliInv
<1>1. UNCHANGED <<work, log>> /\ Running \in Int
  BY DEF RequestCancellation, Running
<1>2. CASE followed.status \in Ended \ {"cancelled"}
  <2>1. cli' = [cli EXCEPT !.at = "done", !.told = "none", !.exit = 5] /\ followed' = followed
    BY <1>2 DEF RequestCancellation, Exit
  <2>2. CliTypeOK' /\ cli'.at = "done" /\ cli'.exit = 5
    BY <1>1, <2>1 DEF CliTypeOK
  <2> QED BY <1>1, <2>1, <2>2 DEF ExitTellsVerdict, Over
<1>3. CASE followed.status \notin Ended \ {"cancelled"}
  <2>1. /\ cli' = [cli EXCEPT !.at = "done", !.told = "none", !.exit = 130]
        /\ followed' = [followed EXCEPT !.cancel = Open]
    BY <1>3 DEF RequestCancellation, Exit
  <2>2. Open \in BOOLEAN
    BY DEF Open
  <2>3. /\ CliTypeOK' /\ cli'.at = "done" /\ cli'.exit = 130
        /\ followed'.status = followed.status /\ followed'.cancel = Open
    BY <1>1, <2>1, <2>2 DEF CliTypeOK
  <2>4. Open \/ followed.status = "cancelled"
    BY <1>3 DEF CliTypeOK, Open
  <2> QED BY <1>1, <2>3, <2>4 DEF ExitTellsVerdict, Over
<1> QED
  BY <1>2, <1>3

\* Whatever happens to the stream, the workers and the audit meanwhile, kase exits
\* with 0 or 2 only for the verdict the audit has for good, and with 130 only of an
\* audit that is cancelled or will be.
THEOREM ExitCodesTell == CliSpec => []ExitTellsVerdict
<1>1. CliInit => CliInv
  <2> SUFFICES ASSUME CliInit PROVE CliInv
    OBVIOUS
  <2>1. CliTypeOK /\ log = <<>>
    <3>1. followed \in [mode : Mode, status : {"queued", "running"} \cup Ended, cancel : BOOLEAN]
      BY DEF CliInit
    <3>2. log = <<>> /\ log \in Seq({"running"} \cup Ended)
      BY DEF CliInit
    <3>3. cli \in [at : {"connecting", "streaming", "checking", "fetching", "cancelling", "done"}, last : Nat,
                   told : {"none", "stop"} \cup Ended, exit : {Running, 0, 2, 5, 130}]
      BY DEF CliInit
    <3> QED BY <3>1, <3>2, <3>3 DEF CliTypeOK
  <2>2. cli.exit \notin {0, 2, 130} /\ cli.at = "connecting" /\ work = "running"
    BY DEF CliInit, Running
  <2> QED BY <2>1, <2>2 DEF CliInv, ExitTellsVerdict
<1>2. CliInv /\ [CliNext]_cliVars => CliInv'
  <2> SUFFICES ASSUME CliInv, [CliNext]_cliVars PROVE CliInv'
    OBVIOUS
  <2>1. CASE UNCHANGED cliVars
    BY <2>1 DEF cliVars, CliInv, CliTypeOK, ExitTellsVerdict, Over
  <2> QED
    BY <2>1, AuditKeeps, ClientKeeps, CancelKeeps DEF CliNext
<1>3. CliInv => ExitTellsVerdict
  BY DEF CliInv
<1> QED
  BY <1>1, <1>2, <1>3, PTL DEF CliSpec
-----------------------------------------------------------------------------
(***************************************************************************)
(* Proofs about ProjectConfig. Policies of a project are only ever          *)
(* appended, and a project that has one cannot be removed, so that the      *)
(* number of a policy that a dispatch or an audit holds means the same      *)
(* policy however late it is used; a request that is about to enqueue holds *)
(* the only audit of its key.                                               *)
(***************************************************************************)

CallFields == {"op", "at", "project", "on", "key", "hosts", "row", "repository", "policy",
               "oldest", "answer"}
ProjectFields == {"exists", "slug"}
HostSets == Pattern \cup {Nothing}
PolicyRecord == [hosts : HostSets, max : Nat, at : Nat]

Shape ==
  /\ now \in Nat /\ policies \in [Project -> Seq(PolicyRecord)]
  /\ DOMAIN project = Project /\ \A p \in Project : DOMAIN project[p] = ProjectFields
  /\ DOMAIN call = Caller
  /\ \A q \in Caller : DOMAIN call[q] = CallFields /\ call[q].hosts \in HostSets

\* RESTRICT keeps the policies, and so the project.
PoliciesHaveProject == \A p \in Project : policies[p] # <<>> => project[p].exists

Holds(q, from) == call[q].op = "dispatch" /\ call[q].at \in from
Attests(p, n, host) == n \in 1..Len(policies[p]) /\ host \in policies[p][n].hosts

\* What a dispatch remembers: the policies there were when it came in, the policy it
\* checked, the audit it made.
DispatchOK(q) ==
  /\ Holds(q, {"looked", "loaded", "allowed", "create", "enqueue"}) => call[q].project \in Project
  /\ Holds(q, {"looked", "loaded"}) => call[q].oldest \in 0..Len(policies[call[q].project])
  /\ Holds(q, {"allowed", "create"}) =>
       /\ Attests(call[q].project, call[q].policy, call[q].row.host)
       /\ call[q].oldest \in Nat /\ call[q].oldest <= call[q].policy
  /\ Holds(q, {"enqueue"}) => call[q].answer \in audits /\ call[q].answer.by = q
  /\ Holds(q, {"enqueue", "done"}) =>
       call[q].answer.project = call[q].project /\ call[q].answer.key = call[q].key

AuditFields == {"by", "project", "key", "target", "repository", "host", "policy", "oldest",
                "limit", "status"}
AuditOK(a) ==
  /\ DOMAIN a = AuditFields /\ a.project \in Project /\ Attests(a.project, a.policy, a.host)
  /\ a.limit = policies[a.project][a.policy].max /\ a.policy >= a.oldest
OneToAKey == \A a, b \in audits : a.project = b.project /\ a.key = b.key => a = b

ConfigInv ==
  /\ Shape /\ PoliciesHaveProject /\ OneToAKey
  /\ \A q \in Caller : DispatchOK(q)
  /\ \A a \in audits : AuditOK(a)

\* What a policy's number says, it says for good.
Grows ==
  \A p \in Project :
    /\ Len(policies[p]) \in Nat /\ Len(policies'[p]) \in Nat /\ Len(policies[p]) <= Len(policies'[p])
    /\ \A n \in 1..Len(policies[p]) : policies'[p][n] = policies[p][n]
-----------------------------------------------------------------------------
LEMMA ConfigInitially == ASSUME ConfigAssumption, ConfigInit PROVE ConfigInv
<1> USE DEF ConfigInit, ConfigAssumption
<1>1. Shape
  <2>1. PICK hosts \in Pattern :
          policies = [p \in Project |-> IF p \in Founded THEN <<NewPolicy(hosts, 1)>> ELSE <<>>]
    OBVIOUS
  <2>2. NewPolicy(hosts, 1) \in PolicyRecord
    BY DEF NewPolicy, PolicyRecord, HostSets
  <2>3. policies \in [Project -> Seq(PolicyRecord)]
    BY <2>1, <2>2
  <2>4. DOMAIN project = Project /\ \A p \in Project : DOMAIN project[p] = ProjectFields
    BY DEF NoProject, ProjectFields
  <2>5. DOMAIN call = Caller /\ \A q \in Caller : DOMAIN call[q] = CallFields /\ call[q].hosts \in HostSets
    BY DEF NoCall, CallFields, HostSets
  <2> QED BY <2>3, <2>4, <2>5 DEF Shape
<1>2. PoliciesHaveProject
  BY DEF PoliciesHaveProject
<1>3. \A q \in Caller : DispatchOK(q)
  BY DEF DispatchOK, Holds, NoCall
<1> QED BY <1>1, <1>2, <1>3 DEF ConfigInv, OneToAKey

LEMMA SamePolicies ==
  ASSUME Shape, UNCHANGED policies
  PROVE  Grows
BY LenProperties DEF Shape, Grows

LEMMA AttestsStill ==
  ASSUME Grows, NEW p \in Project, NEW n, NEW host, Attests(p, n, host)
  PROVE  Attests(p, n, host)' /\ policies'[p][n].max = policies[p][n].max
BY DEF Attests, Grows

\* A step of request q that makes no audit.
LEMMA OneRequest ==
  ASSUME ConfigInv, NEW q \in Caller, NEW c, Set(q, c),
         Shape', PoliciesHaveProject', Grows, DispatchOK(q)', UNCHANGED audits
  PROVE  ConfigInv'
<1>1. ASSUME NEW v \in Caller, v # q PROVE DispatchOK(v)'
  <2>1. call'[v] = call[v] /\ DispatchOK(v)
    BY <1>1 DEF Set, ConfigInv, Shape
  <2>2. Holds(v, {"looked", "loaded"}) => call[v].oldest \in 0..Len(policies'[call[v].project])
    BY <2>1 DEF DispatchOK, Grows, Holds
  <2>3. Holds(v, {"allowed", "create"}) =>
          Attests(call[v].project, call[v].policy, call[v].row.host)'
    BY <2>1, AttestsStill DEF DispatchOK, Attests, Holds
  <2> QED BY <2>1, <2>2, <2>3 DEF DispatchOK, Holds
<1>2. ASSUME NEW a \in audits PROVE AuditOK(a)'
  BY <1>2, AttestsStill DEF ConfigInv, AuditOK
<1> QED BY <1>1, <1>2 DEF ConfigInv, OneToAKey

\* A request that is not a dispatch.
LEMMA Otherwise ==
  ASSUME ConfigInv, NEW q \in Caller, NEW c, Set(q, c), UNCHANGED <<now, audits>>,
         DOMAIN c = CallFields, c.hosts \in HostSets, c.op # "dispatch",
         policies' \in [Project -> Seq(PolicyRecord)], Grows, PoliciesHaveProject',
         DOMAIN project' = Project, \A p \in Project : DOMAIN project'[p] = ProjectFields
  PROVE  ConfigInv'
<1>1. call'[q] = c /\ DOMAIN call' = Caller /\ \A v \in Caller : v # q => call'[v] = call[v]
  BY DEF Set, ConfigInv, Shape
<1>2. Shape'
  BY <1>1 DEF Shape, ConfigInv
<1>3. DispatchOK(q)'
  BY <1>1 DEF DispatchOK, Holds
<1> QED BY <1>2, <1>3, OneRequest

\* It reads.
LEMMA BeginCallKeeps ==
  ASSUME ConfigInv, NEW q \in Caller, NEW op, op # "dispatch", NEW ok, NEW c,
         DOMAIN c = CallFields, c.hosts \in HostSets, BeginCall(q, op, ok, c)
  PROVE  ConfigInv'
<1> DEFINE d == [c EXCEPT !.op = op, !.at = IF ok THEN "write" ELSE "refused"]
<1>1. Set(q, d) /\ DOMAIN d = CallFields /\ d.hosts = c.hosts /\ d.op = op
  BY DEF BeginCall, CallFields
<1>2. UNCHANGED <<now, audits, policies, project>>
  BY DEF BeginCall, Tables
<1>3. Grows
  BY <1>2, SamePolicies DEF ConfigInv
<1> HIDE DEF d
<1> QED BY <1>1, <1>2, <1>3, Otherwise DEF ConfigInv, Shape, PoliciesHaveProject

\* It writes.
LEMMA WriteKeeps ==
  ASSUME ConfigInv, NEW q \in Caller, NEW op, op # "dispatch", NEW ok,
         Write(q, op, ok), UNCHANGED audits,
         policies' \in [Project -> Seq(PolicyRecord)], Grows, PoliciesHaveProject',
         DOMAIN project' = Project, \A p \in Project : DOMAIN project'[p] = ProjectFields
  PROVE  ConfigInv'
<1> DEFINE verdict == IF ok THEN "done" ELSE "refused"
           d == [call[q] EXCEPT !.at = verdict]
<1>1. Set(q, d) /\ UNCHANGED now /\ call[q].op = op
  BY DEF Write, Respond
<1>2. DOMAIN d = CallFields /\ d.hosts \in HostSets /\ d.op # "dispatch"
  BY <1>1 DEF ConfigInv, Shape, CallFields
<1> HIDE DEF d
<1> QED BY <1>1, <1>2, Otherwise

LEMMA WriteElsewhere ==
  ASSUME ConfigInv, NEW q \in Caller, NEW op, op # "dispatch", NEW ok,
         Write(q, op, ok), UNCHANGED <<project, policies, audits>>
  PROVE  ConfigInv'
<1>1. Grows
  BY SamePolicies DEF ConfigInv
<1> QED BY <1>1, WriteKeeps DEF ConfigInv, Shape, PoliciesHaveProject
-----------------------------------------------------------------------------
(* Requests that configure. *)

LEMMA ProjectKeeps ==
  ASSUME ConfigAssumption, ConfigInv, NEW q \in Caller,
         BeginCreate(q) \/ BeginUpdate(q) \/ BeginRemove(q) \/ BeginReplace(q) \/ Revoke(q)
  PROVE  ConfigInv'
<1> USE DEF ConfigAssumption
<1>1. CASE BeginCreate(q)
  <2>1. PICK slug \in Slug, hosts \in Pattern, destructive \in BOOLEAN :
          BeginCall(q, "createProject", ~Clash(slug) /\ DestructiveAttested(destructive, hosts),
                [NoCall EXCEPT !.on = slug, !.hosts = hosts])
    BY <1>1 DEF BeginCreate
  <2> DEFINE c == [NoCall EXCEPT !.on = slug, !.hosts = hosts]
             ok == ~Clash(slug) /\ DestructiveAttested(destructive, hosts)
  <2>2. DOMAIN c = CallFields /\ c.hosts \in HostSets /\ ok \in BOOLEAN
    BY DEF NoCall, CallFields, HostSets
  <2>3. BeginCall(q, "createProject", ok, c)
    BY <2>1
  <2> HIDE DEF c, ok
  <2> QED BY <2>2, <2>3, BeginCallKeeps
<1>2. CASE BeginUpdate(q)
  <2>1. PICK p \in Project, slug \in Slug :
          BeginCall(q, "updateProject", project[p].exists /\ (slug = project[p].slug \/ ~Clash(slug)),
                [NoCall EXCEPT !.project = p, !.on = slug])
    BY <1>2 DEF BeginUpdate
  <2> DEFINE c == [NoCall EXCEPT !.project = p, !.on = slug]
             ok == project[p].exists /\ (slug = project[p].slug \/ ~Clash(slug))
  <2>2. DOMAIN c = CallFields /\ c.hosts \in HostSets /\ ok \in BOOLEAN
    BY DEF NoCall, CallFields, HostSets
  <2>3. BeginCall(q, "updateProject", ok, c)
    BY <2>1
  <2> HIDE DEF c, ok
  <2> QED BY <2>2, <2>3, BeginCallKeeps
<1>3. CASE BeginRemove(q)
  <2>1. PICK p \in Project : BeginCall(q, "removeProject", project[p].exists, [NoCall EXCEPT !.project = p])
    BY <1>3 DEF BeginRemove
  <2> DEFINE c == [NoCall EXCEPT !.project = p]
  <2>2. DOMAIN c = CallFields /\ c.hosts \in HostSets
    BY DEF NoCall, CallFields, HostSets
  <2>3. BeginCall(q, "removeProject", project[p].exists, c)
    BY <2>1
  <2> HIDE DEF c
  <2> QED BY <2>2, <2>3, BeginCallKeeps
<1>4. CASE BeginReplace(q)
  <2>1. PICK p \in Project, hosts \in Pattern, destructive \in BOOLEAN :
          BeginCall(q, "replacePolicy", project[p].exists /\ DestructiveAttested(destructive, hosts),
                [NoCall EXCEPT !.project = p, !.hosts = hosts])
    BY <1>4 DEF BeginReplace
  <2> DEFINE c == [NoCall EXCEPT !.project = p, !.hosts = hosts]
             ok == project[p].exists /\ DestructiveAttested(destructive, hosts)
  <2>2. DOMAIN c = CallFields /\ c.hosts \in HostSets /\ ok \in BOOLEAN
    BY DEF NoCall, CallFields, HostSets
  <2>3. BeginCall(q, "replacePolicy", ok, c)
    BY <2>1
  <2> HIDE DEF c, ok
  <2> QED BY <2>2, <2>3, BeginCallKeeps
<1>5. CASE Revoke(q)
  <2> DEFINE c == [NoCall EXCEPT !.op = "revoke", !.at = "done"]
  <2>1. Set(q, c) /\ DOMAIN c = CallFields /\ c.hosts \in HostSets /\ c.op # "dispatch"
    BY <1>5 DEF Revoke, NoCall, CallFields, HostSets
  <2>2. UNCHANGED <<now, audits, policies, project>> /\ Grows
    BY <1>5, SamePolicies DEF Revoke, ConfigInv
  <2> HIDE DEF c
  <2> QED BY <2>1, <2>2, Otherwise DEF ConfigInv, Shape, PoliciesHaveProject
<1> QED BY <1>1, <1>2, <1>3, <1>4, <1>5

LEMMA CommitProjectKeeps ==
  ASSUME ConfigAssumption, ConfigInv, NEW q \in Caller,
         CommitCreate(q) \/ CommitUpdate(q) \/ CommitRemove(q) \/ CommitReplace(q)
  PROVE  ConfigInv'
<1>s. Shape /\ PoliciesHaveProject
  BY DEF ConfigInv
<1>h. call[q].hosts \in HostSets
  BY <1>s DEF Shape
<1>1. CASE CommitCreate(q)
  <2>1. PICK p \in Project :
          /\ ~project[p].exists /\ Write(q, "createProject", ~Clash(call[q].on))
          /\ \/ Clash(call[q].on) /\ UNCHANGED Tables
             \/ /\ project' = [project EXCEPT ![p] = [exists |-> TRUE, slug |-> call[q].on]]
                /\ policies' = [policies EXCEPT ![p] = <<NewPolicy(call[q].hosts, 1)>>]
                /\ UNCHANGED <<target, repository, usable, audits>>
    BY <1>1 DEF CommitCreate
  <2>2. CASE UNCHANGED Tables
    BY <2>1, <2>2, WriteElsewhere DEF Tables
  <2>3. CASE /\ project' = [project EXCEPT ![p] = [exists |-> TRUE, slug |-> call[q].on]]
             /\ policies' = [policies EXCEPT ![p] = <<NewPolicy(call[q].hosts, 1)>>]
             /\ UNCHANGED <<target, repository, usable, audits>>
    \* A project that does not exist has no policy that could be lost.
    <3>1. policies[p] = <<>>
      BY <2>1, <1>s DEF PoliciesHaveProject
    <3>2. NewPolicy(call[q].hosts, 1) \in PolicyRecord
      BY <1>h, <1>s DEF NewPolicy, PolicyRecord, Shape
    <3>3. <<NewPolicy(call[q].hosts, 1)>> \in Seq(PolicyRecord)
      BY <3>2
    <3>4. policies' \in [Project -> Seq(PolicyRecord)]
      BY <3>3, <2>3, <1>s DEF Shape
    <3>5. \A v \in Project : v # p => policies'[v] = policies[v]
      BY <2>3, <1>s DEF Shape
    <3>6. Grows
      <4>1. Len(policies[p]) = 0
        BY <3>1
      <4>2. \A v \in Project : Len(policies[v]) \in Nat /\ Len(policies'[v]) \in Nat
        BY <3>4, <1>s, LenProperties DEF Shape
      <4> QED BY <4>1, <4>2, <3>5 DEF Grows
    <3>7. PoliciesHaveProject'
      BY <2>3, <3>5, <1>s DEF PoliciesHaveProject, Shape, ProjectFields
    <3>8. DOMAIN project' = Project /\ \A v \in Project : DOMAIN project'[v] = ProjectFields
      BY <2>3, <1>s DEF Shape, ProjectFields
    <3> QED BY <2>1, <2>3, <3>4, <3>6, <3>7, <3>8, WriteKeeps
  <2> QED BY <2>1, <2>2, <2>3
<1>2. CASE CommitUpdate(q)
  <2> DEFINE p == call[q].project
             ok == project[p].exists /\ (project[p].slug = call[q].on \/ ~Clash(call[q].on))
  <2>1. /\ Write(q, "updateProject", ok) /\ ok \in BOOLEAN
        /\ project' = IF ok THEN [project EXCEPT ![p].slug = call[q].on] ELSE project
        /\ UNCHANGED <<policies, audits>>
    BY <1>2 DEF CommitUpdate
  <2> HIDE DEF ok, p
  <2>2. /\ DOMAIN project' = Project
        /\ \A v \in Project : /\ DOMAIN project'[v] = ProjectFields
                              /\ project'[v].exists = project[v].exists
    BY <2>1, <1>s DEF Shape, ProjectFields
  <2>3. Grows /\ PoliciesHaveProject' /\ policies' \in [Project -> Seq(PolicyRecord)]
    BY <2>1, <2>2, <1>s, SamePolicies DEF PoliciesHaveProject, Shape
  <2> QED BY <2>1, <2>2, <2>3, WriteKeeps
<1>3. CASE CommitRemove(q)
  <2> DEFINE p == call[q].project
             ok == project[p].exists /\ ~Referenced(p)
  <2>1. /\ Write(q, "removeProject", ok) /\ ok \in BOOLEAN
        /\ project' = IF Referenced(p) THEN project ELSE [project EXCEPT ![p] = NoProject]
        /\ UNCHANGED <<policies, audits>>
    BY <1>3 DEF CommitRemove
  <2> HIDE DEF ok, p
  <2>2. DOMAIN project' = Project /\ \A v \in Project : DOMAIN project'[v] = ProjectFields
    BY <2>1, <1>s DEF Shape, ProjectFields, NoProject
  <2>3. \A v \in Project : policies[v] # <<>> => project'[v] = project[v]
    BY <2>1, <1>s DEF Referenced, Shape
  <2>4. Grows /\ PoliciesHaveProject' /\ policies' \in [Project -> Seq(PolicyRecord)]
    BY <2>1, <2>3, <1>s, SamePolicies DEF PoliciesHaveProject, Shape
  <2> QED BY <2>1, <2>2, <2>4, WriteKeeps
<1>4. CASE CommitReplace(q)
  <2> DEFINE p == call[q].project
             longer == Append(policies[p], NewPolicy(call[q].hosts, Len(policies[p]) + 1))
  <2>1. /\ Write(q, "replacePolicy", project[p].exists) /\ UNCHANGED <<project, audits>>
        /\ policies' = IF ~project[p].exists THEN policies ELSE [policies EXCEPT ![p] = longer]
    BY <1>4 DEF CommitReplace
  <2> HIDE DEF p, longer
  <2>2. CASE p \in Project /\ project[p].exists
    <3>1. policies[p] \in Seq(PolicyRecord) /\ Len(policies[p]) \in Nat
      BY <2>2, <1>s, LenProperties DEF Shape
    <3>2. NewPolicy(call[q].hosts, Len(policies[p]) + 1) \in PolicyRecord
      BY <3>1, <1>h, <1>s DEF NewPolicy, PolicyRecord, Shape
    <3>3. /\ longer \in Seq(PolicyRecord) /\ Len(longer) = Len(policies[p]) + 1
          /\ \A n \in 1..Len(policies[p]) : longer[n] = policies[p][n]
      BY <3>1, <3>2, AppendProperties DEF longer
    <3>4. policies' = [policies EXCEPT ![p] = longer]
      BY <2>1, <2>2
    <3>5. policies' \in [Project -> Seq(PolicyRecord)] /\ policies'[p] = longer
            /\ \A v \in Project : v # p => policies'[v] = policies[v]
      BY <3>3, <3>4, <2>2, <1>s DEF Shape
    <3>6. Grows
      <4>1. ASSUME NEW v \in Project, v # p
            PROVE  policies[v] \in Seq(PolicyRecord) /\ policies'[v] = policies[v]
        BY <3>5, <4>1, <1>s DEF Shape
      <4>2. \A v \in Project : v # p => Len(policies[v]) \in Nat
        BY <4>1, LenProperties
      <4> QED BY <3>1, <3>3, <3>5, <4>1, <4>2 DEF Grows
    <3>7. PoliciesHaveProject'
      BY <3>5, <2>1, <2>2, <1>s DEF PoliciesHaveProject
    <3> QED BY <2>1, <2>2, <3>5, <3>6, <3>7, <1>s, WriteKeeps DEF Shape
  <2>3. CASE ~(p \in Project /\ project[p].exists)
    <3>1. UNCHANGED policies
      BY <2>1, <2>3, <1>s DEF Shape
    <3> QED BY <3>1, <2>1, WriteElsewhere
  <2> QED BY <2>2, <2>3
<1> QED BY <1>1, <1>2, <1>3, <1>4

\* Targets and repositories: no policy, project or audit is touched.
LEMMA RowsKeep ==
  ASSUME ConfigAssumption, ConfigInv, NEW q \in Caller,
         \/ BeginCreateRepository(q) \/ BeginUpdateRepository(q) \/ BeginRemoveRepository(q)
         \/ BeginCreateTarget(q) \/ BeginUpdateTarget(q) \/ BeginRemoveTarget(q)
  PROVE  ConfigInv'
<1>1. ASSUME NEW op, op # "dispatch", NEW ok, NEW c, DOMAIN c = CallFields, c.hosts \in HostSets,
             BeginCall(q, op, ok, c)
      PROVE  ConfigInv'
  BY <1>1, BeginCallKeeps
<1>2. ASSUME NEW p, NEW on, NEW row
      PROVE  /\ DOMAIN [NoCall EXCEPT !.project = p, !.row = row] = CallFields
             /\ [NoCall EXCEPT !.project = p, !.row = row].hosts \in HostSets
             /\ DOMAIN [NoCall EXCEPT !.project = p, !.on = on, !.row = row] = CallFields
             /\ [NoCall EXCEPT !.project = p, !.on = on, !.row = row].hosts \in HostSets
             /\ DOMAIN [NoCall EXCEPT !.project = p, !.on = on] = CallFields
             /\ [NoCall EXCEPT !.project = p, !.on = on].hosts \in HostSets
  BY DEF NoCall, CallFields, HostSets
<1>3. CASE BeginCreateRepository(q)
  <2>1. PICK p, ok, row : BeginCall(q, "createRepository", ok, [NoCall EXCEPT !.project = p, !.row = row])
    BY <1>3 DEF BeginCreateRepository
  <2> QED BY <1>1, <1>2, <2>1
<1>4. CASE BeginUpdateRepository(q)
  <2>1. PICK p, ok, on, row : BeginCall(q, "updateRepository", ok, [NoCall EXCEPT !.project = p, !.on = on, !.row = row])
    BY <1>4 DEF BeginUpdateRepository
  <2> QED BY <1>1, <1>2, <2>1
<1>5. CASE BeginRemoveRepository(q)
  <2>1. PICK p, ok, on : BeginCall(q, "removeRepository", ok, [NoCall EXCEPT !.project = p, !.on = on])
    BY <1>5 DEF BeginRemoveRepository
  <2> QED BY <1>1, <1>2, <2>1
<1>6. CASE BeginCreateTarget(q)
  <2>1. PICK p, ok, row : BeginCall(q, "createTarget", ok, [NoCall EXCEPT !.project = p, !.row = row])
    BY <1>6 DEF BeginCreateTarget
  <2> QED BY <1>1, <1>2, <2>1
<1>7. CASE BeginUpdateTarget(q)
  <2>1. PICK p, ok, on, row : BeginCall(q, "updateTarget", ok, [NoCall EXCEPT !.project = p, !.on = on, !.row = row])
    BY <1>7 DEF BeginUpdateTarget
  <2> QED BY <1>1, <1>2, <2>1
<1>8. CASE BeginRemoveTarget(q)
  <2>1. PICK p, ok, on : BeginCall(q, "removeTarget", ok, [NoCall EXCEPT !.project = p, !.on = on])
    BY <1>8 DEF BeginRemoveTarget
  <2> QED BY <1>1, <1>2, <2>1
<1> QED BY <1>3, <1>4, <1>5, <1>6, <1>7, <1>8

LEMMA CommitRowsKeep ==
  ASSUME ConfigInv, NEW q \in Caller,
         \/ CommitCreateRepository(q) \/ CommitUpdateRepository(q) \/ CommitRemoveRepository(q)
         \/ CommitCreateTarget(q) \/ CommitUpdateTarget(q) \/ CommitRemoveTarget(q)
  PROVE  ConfigInv'
<1>1. /\ UNCHANGED <<project, policies, audits>>
      /\ \E op \in Operations \ {"dispatch"} : \E ok : Write(q, op, ok)
  BY DEF Operations, CommitCreateRepository, CommitUpdateRepository, CommitRemoveRepository,
         CommitCreateTarget, CommitUpdateTarget, CommitRemoveTarget
<1>2. PICK op \in Operations \ {"dispatch"}, ok \in BOOLEAN : Write(q, op, ok)
  BY <1>1 DEF Write
<1> QED BY <1>1, <1>2, WriteElsewhere
-----------------------------------------------------------------------------
(* Dispatch. *)

\* A step of a dispatch that only reads.
LEMMA ReadsOnly ==
  ASSUME ConfigInv, NEW q \in Caller, NEW c, Set(q, c), UNCHANGED <<now, Tables>>,
         DOMAIN c = CallFields, c.hosts \in HostSets, DispatchOK(q)'
  PROVE  ConfigInv'
<1>1. Grows /\ PoliciesHaveProject'
  BY SamePolicies DEF ConfigInv, Tables, PoliciesHaveProject
<1>2. Shape'
  BY DEF Set, Shape, ConfigInv, Tables
<1> QED BY <1>1, <1>2, OneRequest DEF Tables

LEMMA LookUpKeyKeeps == ASSUME ConfigInv, NEW q \in Caller, LookUpKey(q) PROVE ConfigInv'
<1>s. Shape
  BY DEF ConfigInv
<1>1. PICK p \in Project, key \in Key :
        LET asked == [NoCall EXCEPT !.op = "dispatch", !.project = p, !.key = key,
                                    !.oldest = Len(policies[p])]
        IN  Set(q, IF AuditFor(p, key) = {} THEN [asked EXCEPT !.at = "looked"]
                   ELSE [asked EXCEPT !.at = "done", !.answer = CHOOSE a \in AuditFor(p, key) : TRUE])
  BY DEF LookUpKey
<1> DEFINE asked == [NoCall EXCEPT !.op = "dispatch", !.project = p, !.key = key,
                                   !.oldest = Len(policies[p])]
           old == CHOOSE a \in AuditFor(p, key) : TRUE
           new == [asked EXCEPT !.at = "looked"]
           known == [asked EXCEPT !.at = "done", !.answer = old]
<1>2. /\ DOMAIN asked = CallFields /\ asked.hosts \in HostSets
      /\ asked.op = "dispatch" /\ asked.project = p /\ asked.key = key /\ asked.oldest = Len(policies[p])
  BY DEF NoCall, CallFields, HostSets
<1>3. UNCHANGED <<now, Tables>> /\ Set(q, IF AuditFor(p, key) = {} THEN new ELSE known)
  BY <1>1 DEF LookUpKey
<1>4. CASE AuditFor(p, key) = {}
  <2> HIDE DEF asked
  <2>1. /\ DOMAIN new = CallFields /\ new.hosts \in HostSets /\ new.op = "dispatch"
        /\ new.at = "looked" /\ new.project = p /\ new.oldest = Len(policies[p])
    BY <1>2 DEF CallFields
  <2> HIDE DEF new, known
  <2>2. Set(q, new)
    BY <1>3, <1>4
  <2>3. Len(policies[p]) \in Nat
    BY <1>s, LenProperties DEF Shape
  <2>4. DispatchOK(q)'
    <3>1. call'[q] = new /\ policies' = policies
      BY <2>2, <1>3, <1>s DEF Set, Shape, Tables
    <3> QED BY <3>1, <2>1, <2>3 DEF DispatchOK, Holds
  <2> QED BY <1>3, <2>1, <2>2, <2>4, ReadsOnly
<1>5. CASE AuditFor(p, key) # {}
  <2>1. old.project = p /\ old.key = key
    BY <1>5 DEF AuditFor
  <2> HIDE DEF asked, old
  <2>2. /\ DOMAIN known = CallFields /\ known.hosts \in HostSets /\ known.op = "dispatch"
        /\ known.at = "done" /\ known.project = p /\ known.key = key /\ known.answer = old
    BY <1>2 DEF CallFields
  <2> HIDE DEF new, known
  <2>3. Set(q, known)
    BY <1>3, <1>5
  <2>4. DispatchOK(q)'
    <3>1. call'[q] = known
      BY <2>3, <1>s DEF Set, Shape
    <3> QED BY <3>1, <2>1, <2>2 DEF DispatchOK, Holds
  <2> QED BY <1>3, <2>2, <2>3, <2>4, ReadsOnly
<1> QED BY <1>4, <1>5

\* Every later step of a dispatch either refuses it or goes on.
LEMMA RefusalKeeps ==
  ASSUME ConfigInv, NEW q \in Caller, UNCHANGED <<now, Tables>>, Set(q, [call[q] EXCEPT !.at = "refused"])
  PROVE  ConfigInv'
<1> DEFINE c == [call[q] EXCEPT !.at = "refused"]
<1>1. DOMAIN c = CallFields /\ c.hosts \in HostSets /\ c.at = "refused" /\ Set(q, c)
  BY DEF ConfigInv, Shape, CallFields
<1> HIDE DEF c
<1>2. call'[q] = c
  BY <1>1 DEF Set, ConfigInv, Shape
<1>3. DispatchOK(q)'
  BY <1>1, <1>2 DEF DispatchOK, Holds
<1> QED BY <1>1, <1>3, ReadsOnly

LEMMA LoadTargetKeeps == ASSUME ConfigInv, NEW q \in Caller, LoadTarget(q) PROVE ConfigInv'
<1>1. PICK t \in Target, r \in Repository :
        Goes(q, "looked", IF target[t].project = call[q].project /\ repository[r].project = call[q].project
              THEN [call[q] EXCEPT !.at = "loaded", !.on = t, !.row = target[t], !.repository = r]
              ELSE [call[q] EXCEPT !.at = "refused"])
  BY DEF LoadTarget
<1>2. UNCHANGED <<now, Tables>> /\ call[q].op = "dispatch" /\ call[q].at = "looked"
  BY <1>1 DEF LoadTarget, Goes
<1> DEFINE c == [call[q] EXCEPT !.at = "loaded", !.on = t, !.row = target[t], !.repository = r]
<1>3. Set(q, c) \/ Set(q, [call[q] EXCEPT !.at = "refused"])
  BY <1>1 DEF Goes
<1>4. /\ DOMAIN c = CallFields /\ c.hosts \in HostSets /\ c.op = "dispatch" /\ c.at = "loaded"
      /\ c.project = call[q].project /\ c.oldest = call[q].oldest
  BY <1>2 DEF ConfigInv, Shape, CallFields
<1> HIDE DEF c
<1>5. ASSUME Set(q, c) PROVE ConfigInv'
  <2>1. call'[q] = c /\ policies' = policies
    BY <1>2, <1>5 DEF Set, ConfigInv, Shape, Tables
  <2>2. DispatchOK(q)'
    BY <2>1, <1>2, <1>4 DEF DispatchOK, Holds, ConfigInv
  <2> QED BY <1>2, <1>4, <1>5, <2>2, ReadsOnly
<1> QED BY <1>2, <1>3, <1>5, RefusalKeeps

LEMMA CheckPolicyKeeps == ASSUME ConfigInv, NEW q \in Caller, CheckPolicy(q) PROVE ConfigInv'
<1> DEFINE n == Len(policies[call[q].project])
           c == [call[q] EXCEPT !.at = "allowed", !.policy = n]
<1>1. /\ UNCHANGED <<now, Tables>> /\ call[q].op = "dispatch" /\ call[q].at = "loaded"
      /\ Set(q, IF n > 0 /\ HostAllowed(q, n) THEN c ELSE [call[q] EXCEPT !.at = "refused"])
  BY DEF CheckPolicy, Goes
<1>2. n \in Nat /\ call[q].project \in Project
  BY <1>1, LenProperties DEF ConfigInv, Shape, DispatchOK, Holds
<1>3. /\ DOMAIN c = CallFields /\ c.hosts \in HostSets /\ c.op = "dispatch" /\ c.at = "allowed"
      /\ c.project = call[q].project /\ c.oldest = call[q].oldest /\ c.row = call[q].row /\ c.policy = n
  BY <1>1 DEF ConfigInv, Shape, CallFields
<1> HIDE DEF c
<1>4. CASE n > 0 /\ HostAllowed(q, n)
  <2>1. Set(q, c)
    BY <1>1, <1>4
  <2>2. call'[q] = c /\ policies' = policies
    BY <1>1, <2>1 DEF Set, ConfigInv, Shape, Tables
  <2>3. call[q].oldest \in 0..n
    BY <1>1 DEF ConfigInv, DispatchOK, Holds
  <2>4. DispatchOK(q)'
    BY <2>2, <2>3, <1>2, <1>3, <1>4 DEF DispatchOK, Holds, Attests, HostAllowed
  <2> QED BY <1>1, <1>3, <2>1, <2>4, ReadsOnly
<1>5. CASE ~(n > 0 /\ HostAllowed(q, n))
  BY <1>1, <1>5, RefusalKeeps
<1> QED BY <1>4, <1>5

LEMMA CheckCredentialKeeps == ASSUME ConfigInv, NEW q \in Caller, CheckTargetCredential(q) PROVE ConfigInv'
<1> DEFINE c == [call[q] EXCEPT !.at = "create"]
<1>1. /\ UNCHANGED <<now, Tables>> /\ call[q].op = "dispatch" /\ call[q].at = "allowed"
      /\ Set(q, c) \/ Set(q, [call[q] EXCEPT !.at = "refused"])
  BY DEF CheckTargetCredential, Goes
<1>2. /\ DOMAIN c = CallFields /\ c.hosts \in HostSets /\ c.op = "dispatch" /\ c.at = "create"
      /\ c.project = call[q].project /\ c.oldest = call[q].oldest /\ c.row = call[q].row
      /\ c.policy = call[q].policy
  BY <1>1 DEF ConfigInv, Shape, CallFields
<1> HIDE DEF c
<1>3. ASSUME Set(q, c) PROVE ConfigInv'
  <2>1. call'[q] = c /\ policies' = policies
    BY <1>1, <1>3 DEF Set, ConfigInv, Shape, Tables
  <2>2. DispatchOK(q)'
    BY <2>1, <1>1, <1>2 DEF DispatchOK, Holds, ConfigInv, Attests
  <2> QED BY <1>1, <1>2, <1>3, <2>2, ReadsOnly
<1> QED BY <1>1, <1>3, RefusalKeeps

\* The other requests and audits, when one audit is added or replaced.
LEMMA OthersKeep ==
  ASSUME ConfigInv, NEW q \in Caller, NEW c, Set(q, c), UNCHANGED <<now, project, policies>>,
         DOMAIN c = CallFields, c.hosts \in HostSets,
         \A v \in Caller : v # q /\ Holds(v, {"enqueue"}) => call[v].answer \in audits'
  PROVE  /\ Shape' /\ PoliciesHaveProject' /\ call'[q] = c
         /\ \A v \in Caller : v # q => DispatchOK(v)'
         /\ \A a \in audits : AuditOK(a)'
<1>1. call'[q] = c /\ Shape' /\ PoliciesHaveProject'
  BY DEF Set, Shape, ConfigInv, PoliciesHaveProject
<1>2. ASSUME NEW v \in Caller, v # q PROVE DispatchOK(v)'
  <2>1. call'[v] = call[v] /\ DispatchOK(v)
    BY <1>2 DEF Set, ConfigInv, Shape
  <2> QED BY <2>1, <1>2 DEF DispatchOK, Holds, Attests
<1>3. \A a \in audits : AuditOK(a)'
  BY DEF AuditOK, Attests, ConfigInv
<1> QED BY <1>1, <1>2, <1>3

LEMMA CreateAuditKeeps == ASSUME ConfigInv, NEW q \in Caller, CreateAudit(q) PROVE ConfigInv'
<1> DEFINE c == call[q]
           audit == [by |-> q, project |-> c.project, key |-> c.key, target |-> c.on,
                     repository |-> c.repository, host |-> c.row.host, policy |-> c.policy,
                     oldest |-> c.oldest, limit |-> policies[c.project][PolicyRead(q)].max,
                     status |-> "queued"]
           ok == /\ KeyFree(c.project, c.key)
                 /\ target[c.on] # NoTarget /\ repository[c.repository] # NoRepository
           d == [c EXCEPT !.at = "enqueue", !.answer = audit]
<1>1. /\ UNCHANGED <<now, project, policies, target, repository, usable>>
      /\ c.op = "dispatch" /\ c.at = "create"
      /\ Set(q, IF ok THEN d ELSE [call[q] EXCEPT !.at = "refused"])
      /\ audits' = IF ok THEN audits \cup {audit} ELSE audits
  BY DEF CreateAudit, Goes
<1>2. CASE ~ok
  BY <1>1, <1>2, RefusalKeeps DEF Tables
<1>3. CASE ok
  <2>1. /\ c.project \in Project /\ Attests(c.project, c.policy, c.row.host)
        /\ c.oldest \in Nat /\ c.oldest <= c.policy
    BY <1>1 DEF ConfigInv, DispatchOK, Holds
  <2>2. /\ DOMAIN audit = AuditFields /\ audit.project = c.project /\ audit.policy = c.policy
        /\ audit.host = c.row.host /\ audit.oldest = c.oldest /\ audit.by = q /\ audit.key = c.key
        /\ audit.limit = policies[c.project][c.policy].max
    BY DEF AuditFields, PolicyRead
  <2>3. \A a \in audits : ~(a.project = c.project /\ a.key = c.key)
    BY <1>3 DEF KeyFree, AuditFor
  <2>r. PICK row : row = audit
    OBVIOUS
  <2> HIDE DEF audit
  <2>4. /\ DOMAIN d = CallFields /\ d.hosts \in HostSets /\ d.op = "dispatch" /\ d.at = "enqueue"
        /\ d.project = c.project /\ d.key = c.key /\ d.answer = row
    BY <1>1, <2>r DEF ConfigInv, Shape, CallFields
  <2>5. Set(q, d) /\ audits' = audits \cup {row}
    BY <1>1, <1>3, <2>r
  <2> HIDE DEF d, ok
  <2>6. /\ Shape' /\ PoliciesHaveProject' /\ call'[q] = d
        /\ \A v \in Caller : v # q => DispatchOK(v)'
        /\ \A a \in audits : AuditOK(a)'
    <3>1. \A v \in Caller : v # q /\ Holds(v, {"enqueue"}) => call[v].answer \in audits'
      BY <2>5 DEF ConfigInv, DispatchOK
    <3> QED BY <3>1, <1>1, <2>4, <2>5, OthersKeep
  <2>7. AuditOK(row)'
    BY <1>1, <2>1, <2>2, <2>r DEF AuditOK, Attests
  <2>8. DispatchOK(q)'
    BY <2>1, <2>2, <2>r, <2>4, <2>5, <2>6 DEF DispatchOK, Holds
  <2>9. OneToAKey'
    BY <2>2, <2>r, <2>3, <2>5 DEF ConfigInv, OneToAKey
  <2> QED BY <2>5, <2>6, <2>7, <2>8, <2>9 DEF ConfigInv
<1> QED BY <1>2, <1>3

LEMMA EnqueueKeeps == ASSUME ConfigInv, NEW q \in Caller, Enqueue(q) PROVE ConfigInv'
<1>1. PICK sent \in BOOLEAN :
        /\ Goes(q, "enqueue", [call[q] EXCEPT !.at = IF sent THEN "done" ELSE "refused"])
        /\ audits' = IF sent THEN audits
                     ELSE (audits \ {call[q].answer}) \cup {[call[q].answer EXCEPT !.status = "failed"]}
        /\ UNCHANGED <<now, project, policies, target, repository, usable>>
  BY DEF Enqueue
<1>o. PICK old : old = call[q].answer
  OBVIOUS
<1> DEFINE new == [old EXCEPT !.status = "failed"]
           c == [call[q] EXCEPT !.at = IF sent THEN "done" ELSE "refused"]
<1>2. /\ call[q].op = "dispatch" /\ call[q].at = "enqueue" /\ Set(q, c)
      /\ old \in audits /\ old.by = q /\ AuditOK(old)
      /\ old.project = call[q].project /\ old.key = call[q].key
  BY <1>1, <1>o DEF Goes, ConfigInv, DispatchOK, Holds
<1>3. /\ DOMAIN c = CallFields /\ c.hosts \in HostSets /\ c.op = "dispatch"
      /\ c.at = (IF sent THEN "done" ELSE "refused")
      /\ c.project = call[q].project /\ c.key = call[q].key /\ c.answer = old
  BY <1>2, <1>o DEF ConfigInv, Shape, CallFields
<1> HIDE DEF c
<1>4. /\ DOMAIN new = AuditFields /\ new.project = old.project /\ new.key = old.key
      /\ new.policy = old.policy /\ new.host = old.host /\ new.oldest = old.oldest /\ new.limit = old.limit
  BY <1>2 DEF AuditOK, AuditFields
<1> HIDE DEF new
<1>5. /\ Shape' /\ PoliciesHaveProject' /\ call'[q] = c
      /\ \A v \in Caller : v # q => DispatchOK(v)'
      /\ \A a \in audits : AuditOK(a)'
  <2>1. ASSUME NEW v \in Caller, v # q, Holds(v, {"enqueue"}) PROVE call[v].answer \in audits'
    <3>1. call[v].answer \in audits /\ call[v].answer.by = v
      BY <2>1 DEF ConfigInv, DispatchOK
    <3>2. call[v].answer # old
      BY <3>1, <2>1, <1>2
    <3> QED BY <3>1, <3>2, <1>1, <1>o
  <2> QED BY <2>1, <1>1, <1>2, <1>3, OthersKeep
<1>6. DispatchOK(q)'
  BY <1>2, <1>3, <1>5 DEF DispatchOK, Holds
<1>7. CASE sent
  BY <1>1, <1>5, <1>6, <1>7 DEF ConfigInv, OneToAKey
<1>8. CASE ~sent
  <2>1. audits' = (audits \ {old}) \cup {new}
    BY <1>1, <1>8, <1>o DEF new
  <2>2. AuditOK(new)'
    <3>1. AuditOK(old)'
      BY <1>2, <1>5, <1>1 DEF AuditOK, Attests
    <3> QED BY <3>1, <1>4, <1>1 DEF AuditOK, Attests
  <2>3. OneToAKey'
    BY <2>1, <1>2, <1>4 DEF ConfigInv, OneToAKey
  <2> QED BY <2>1, <2>2, <2>3, <1>5, <1>6 DEF ConfigInv
<1> QED BY <1>7, <1>8

LEMMA ConfigStep == ASSUME ConfigAssumption, ConfigInv, [ConfigNext]_configVars PROVE ConfigInv'
<1>1. CASE Tick \/ UNCHANGED configVars
  <2>1. now' \in Nat /\ UNCHANGED <<Tables, call>>
    BY <1>1 DEF Tick, configVars, ConfigInv, Shape, Tables
  <2> QED BY <2>1 DEF Tables, ConfigInv, Shape, PoliciesHaveProject, OneToAKey, DispatchOK, Holds,
                      AuditOK, Attests
<1>2. ASSUME NEW q \in Caller,
             \/ BeginCreate(q) \/ CommitCreate(q) \/ BeginUpdate(q) \/ CommitUpdate(q)
             \/ BeginRemove(q) \/ CommitRemove(q) \/ BeginReplace(q) \/ CommitReplace(q) \/ Revoke(q)
             \/ BeginCreateRepository(q) \/ CommitCreateRepository(q) \/ BeginUpdateRepository(q)
             \/ CommitUpdateRepository(q) \/ BeginRemoveRepository(q) \/ CommitRemoveRepository(q)
             \/ BeginCreateTarget(q) \/ CommitCreateTarget(q) \/ BeginUpdateTarget(q)
             \/ CommitUpdateTarget(q) \/ BeginRemoveTarget(q) \/ CommitRemoveTarget(q)
             \/ LookUpKey(q) \/ LoadTarget(q) \/ CheckPolicy(q) \/ CheckTargetCredential(q)
             \/ CreateAudit(q) \/ Enqueue(q)
      PROVE  ConfigInv'
  BY <1>2, ProjectKeeps, CommitProjectKeeps, RowsKeep, CommitRowsKeep, LookUpKeyKeeps,
     LoadTargetKeeps, CheckPolicyKeeps, CheckCredentialKeeps, CreateAuditKeeps, EnqueueKeeps
<1> QED BY <1>1, <1>2 DEF ConfigNext

\* However many requests run side by side, a key names one audit, its senders are
\* answered with it, and each audit has the host and the budget of one policy that was
\* in force after the request came in (orchestrator.service dispatch).
THEOREM DispatchesAuthorized ==
  ASSUME ConfigAssumption PROVE ConfigSpec => []AuditsAuthorized
<1>1. ConfigInit => ConfigInv
  BY ConfigInitially
<1>2. ConfigInv /\ [ConfigNext]_configVars => ConfigInv'
  BY ConfigStep
<1>3. ConfigInv => AuditsAuthorized
  BY DEF ConfigInv, AuditsAuthorized, OneToAKey, DispatchOK, Holds, AuditOK, Attests
<1> QED BY <1>1, <1>2, <1>3, PTL DEF ConfigSpec
-----------------------------------------------------------------------------
(***************************************************************************)
(* Proofs about ScopePatterns. The registrant of a host of three labels or  *)
(* more is found in its last three; a valid wildcard fixes them, since what *)
(* follows the star is no public suffix.                                    *)
(***************************************************************************)

AnyLabel == Label \cup BadLabel \cup {"*", "localhost", "10", "0", "1"}
Entry == [labels : Seq(AnyLabel) \ {<<>>}, flaw : Flaw]

PatternsInv ==
  /\ allowedHosts \in Seq(Entry)
  /\ answer = "valid" => ValidAllowedHosts(allowedHosts)

\* Where the public suffix of a longer host starts.
SuffixStart(h) ==
  IF SubSeq(h, Len(h) - 1, Len(h)) \in MultipartSuffixes THEN Len(h) - 1 ELSE Len(h)

\* A part of a host has as many labels as its ends say.
LEMMA PartOfHost ==
  ASSUME NEW h \in Seq(Label), NEW i \in 1..Len(h)
  PROVE  /\ SubSeq(h, i, Len(h)) \in Seq(Label)
         /\ Len(SubSeq(h, i, Len(h))) = Len(h) - i + 1
         /\ SubSeq(h, i, Len(h))[1] = h[i]
<1>1. Len(h) \in Nat /\ i \in Int /\ i <= Len(h) /\ 1 <= i
  BY LenProperties
<1>2. \A k \in i..Len(h) : h[k] \in Label
  BY <1>1, ElementOfSeq
<1> QED BY <1>1, <1>2, SubSeqProperties

\* Public suffixes have one label, or two if they are listed.
LEMMA PublicSuffixes ==
  ASSUME NEW s \in PublicSuffix \cup SingleLabel
  PROVE  /\ Len(s) \in {1, 2}
         /\ Len(s) = 2 => s \in MultipartSuffixes
<1>1. CASE s \in MultipartSuffixes
  <2>1. s \in [1..2 -> Label]
    BY <1>1, PatternAssumption
  <2>2. Len(s) = 2
    BY <2>1
  <2> QED BY <1>1, <2>2
<1>2. CASE s \in SingleLabel \cup {<<l>> : l \in Label}
  BY <1>2 DEF SingleLabel
<1> QED BY <1>1, <1>2 DEF PublicSuffix

\* The registrant of a longer host is its public suffix and one label more.
LEMMA RegistrantOfHost ==
  ASSUME NEW h \in Seq(Label), Len(h) >= 3
  PROVE  Registrant(h) = SubSeq(h, SuffixStart(h) - 1, Len(h))
<1> DEFINE n == Len(h)
           d == SuffixStart(h)
<1>1. n \in Nat /\ n >= 3 /\ d \in {n - 1, n} /\ d \in 1..n /\ d # 1
  <2>1. n \in Nat /\ n >= 3
    BY LenProperties
  <2>2. d = n - 1 \/ d = n
    BY DEF SuffixStart
  <2> QED BY <2>1, <2>2
<1>2. \A k \in 1..n : Len(SubSeq(h, k, n)) = n - k + 1
  BY PartOfHost
<1>3. SubSeq(h, d, n) \in PublicSuffix
  <2>1. CASE d = n - 1
    <3>1. n - 1 # n
      BY <1>1
    <3>2. SubSeq(h, n - 1, n) \in MultipartSuffixes
      BY <2>1, <3>1 DEF SuffixStart
    <3> QED BY <2>1, <3>2 DEF PublicSuffix
  <2>2. CASE d = n
    <3>1. h[n] \in Label /\ SubSeq(h, n, n) \in Seq(Label) /\ Len(SubSeq(h, n, n)) = 1 /\ SubSeq(h, n, n)[1] = h[n]
      BY <1>1, PartOfHost, ElementOfSeq
    <3>2. <<h[n]>> \in Seq(Label) /\ Len(<<h[n]>>) = 1 /\ <<h[n]>>[1] = h[n]
      BY <3>1
    <3>3. SubSeq(h, n, n) = <<h[n]>>
      <4>1. \A i \in 1..Len(SubSeq(h, n, n)) : SubSeq(h, n, n)[i] = <<h[n]>>[i]
        BY <3>1, <3>2
      <4>2. Len(SubSeq(h, n, n)) = Len(<<h[n]>>)
        BY <3>1, <3>2
      <4> HIDE DEF n
      <4> QED BY <3>1, <3>2, <4>1, <4>2, SeqEqual
    <3> QED BY <2>2, <3>1, <3>3 DEF PublicSuffix
  <2> QED BY <1>1, <2>1, <2>2
<1>4. ASSUME NEW k \in 1..(d - 1) PROVE SubSeq(h, k, n) \notin PublicSuffix
  <2>1. k \in 1..n /\ k < d
    BY <1>1
  <2>2. SUFFICES ASSUME SubSeq(h, k, n) \in PublicSuffix PROVE FALSE
    OBVIOUS
  <2>3. n - k + 1 \in {1, 2} /\ (n - k + 1 = 2 => SubSeq(h, k, n) \in MultipartSuffixes)
    BY <1>2, <2>1, <2>2, PublicSuffixes
  <2>4. k = n - 1 /\ d = n
    BY <1>1, <2>1, <2>3
  <2> QED BY <1>1, <2>3, <2>4 DEF SuffixStart
<1>5. d \in 1..n /\ IsSuffix(h, d)
  BY <1>1, <1>3, <1>4 DEF IsSuffix
<1>6. ASSUME NEW i \in 1..n, IsSuffix(h, i) PROVE i = d
  <2>1. ~(i > d)
    <3>1. i > d => d \in 1..(i - 1)
      BY <1>1
    <3> QED BY <1>3, <1>6, <3>1 DEF IsSuffix
  <2>2. ~(i < d)
    <3>1. SUFFICES ASSUME i < d PROVE FALSE
      OBVIOUS
    <3>2. SubSeq(h, i, n) \notin PublicSuffix
      BY <1>1, <1>4, <3>1
    <3>3. SubSeq(h, i, n) \in SingleLabel
      BY <1>6, <3>2 DEF IsSuffix
    <3>4. \A s \in SingleLabel : Len(s) = 1
      BY DEF SingleLabel
    <3>5. Len(SubSeq(h, i, n)) = 1
      BY <3>3, <3>4
    <3> QED BY <1>1, <1>2, <3>1, <3>5
  <2> QED BY <1>1, <2>1, <2>2
<1>7. SuffixAt(h) = d
  BY <1>5, <1>6 DEF SuffixAt
<1> HIDE DEF d
<1>8. Registrant(h) = SubSeq(h, IF d = 1 THEN 1 ELSE d - 1, Len(h))
  BY <1>7 DEF Registrant
<1>9. Registrant(h) = SubSeq(h, d - 1, Len(h))
  BY <1>1, <1>8
<1> QED BY <1>9 DEF d

\* Beyond its first label, a part of a host is one of its suffix.
LEMMA PartOfSuffix ==
  ASSUME NEW h \in Seq(Label), NEW i \in 2..Len(h)
  PROVE  SubSeq(h, i, Len(h)) = SubSeq(Suffix(h), i - 1, Len(h) - 1)
<1>1. Len(h) \in Nat
  BY LenProperties
<1>2. \A k \in 2..Len(h) : h[k] \in Label
  BY <1>1, ElementOfSeq
<1>3. SubSeq(h, 2, Len(h)) \in Seq(Label)
  BY <1>1, <1>2, SubSeqProperties
<1>4. /\ 2 \in 1..Len(h) /\ Len(h) \in 1..Len(h)
      /\ i - 1 \in 1..(Len(h) - 2 + 1) /\ Len(h) - 1 \in 1..(Len(h) - 2 + 1)
      /\ 2 + (i - 1) - 1 = i /\ 2 + (Len(h) - 1) - 1 = Len(h)
  BY <1>1
<1> HIDE DEF Suffix
<1>5. SubSeq(SubSeq(h, 2, Len(h)), i - 1, Len(h) - 1) = SubSeq(h, 2 + (i - 1) - 1, 2 + (Len(h) - 1) - 1)
  BY <1>3, <1>4, SubSeqOfSubSeq
<1> QED BY <1>4, <1>5 DEF Suffix

\* A host of several labels is a sequence of DNS labels.
LEMMA LongHost == ASSUME NEW h \in Hosts, Len(h) >= 3 PROVE h \in Seq(Label)
<1>1. CASE h \in SingleLabel
  <2>1. Len(h) = 1
    BY <1>1 DEF SingleLabel
  <2> QED BY <2>1
<1>2. CASE h \in UNION {[1..n -> Label] : n \in 1..MaxLabels}
  <2>1. PICK n \in 1..MaxLabels : h \in [1..n -> Label]
    BY <1>2
  <2>2. n \in Nat
    BY PatternAssumption
  <2>3. h \in UNION {[1..m -> Label] : m \in Nat}
    BY <2>1, <2>2
  <2> QED BY <2>3, SeqDef, Zenon
<1> QED BY <1>1, <1>2 DEF Hosts, Names

\* Whatever a valid pattern covers belongs to one registrant.
LEMMA OneRegistrant ==
  ASSUME NEW e \in Entry, ValidHostPattern(e),
         NEW g \in Hosts, HostMatchesPattern(g, e.labels),
         NEW h \in Hosts, HostMatchesPattern(h, e.labels)
  PROVE  Registrant(g) = Registrant(h)
<1>1. CASE e.labels[1] # "*"
  BY <1>1 DEF HostMatchesPattern
<1>2. CASE e.labels[1] = "*"
  <2> DEFINE n == Len(e.labels)
  <2>1. 1 \in Wild(e.labels)
    <3>1. n \in Nat /\ n >= 1
      BY LenProperties, EmptySeq DEF Entry
    <3> QED BY <1>2, <3>1 DEF Wild
  <2>2. Registrable(e.labels)
    BY <2>1 DEF ValidHostPattern
  <2>3. /\ n >= 3 /\ Suffix(e.labels) \notin MultipartSuffixes
        /\ Len(g) = n /\ Len(h) = n /\ Suffix(g) = Suffix(e.labels) /\ Suffix(h) = Suffix(e.labels)
    BY <1>2, <2>2 DEF Registrable, HostMatchesPattern
  <2>4. g \in Seq(Label) /\ h \in Seq(Label) /\ n \in Nat
    BY <2>3, LongHost, LenProperties
  <2> HIDE DEF n
  <2>5. ASSUME NEW i \in 2..n PROVE SubSeq(g, i, n) = SubSeq(h, i, n)
    <3>1. SubSeq(g, i, n) = SubSeq(Suffix(g), i - 1, n - 1)
      BY <2>3, <2>4, PartOfSuffix
    <3>2. SubSeq(h, i, n) = SubSeq(Suffix(h), i - 1, n - 1)
      BY <2>3, <2>4, PartOfSuffix
    <3> QED BY <2>3, <3>1, <3>2
  <2>6. SuffixStart(g) = SuffixStart(h)
    <3>1. SubSeq(g, n - 1, n) = SubSeq(h, n - 1, n)
      BY <2>3, <2>4, <2>5
    <3> QED BY <2>3, <3>1 DEF SuffixStart
  <2>7. SuffixStart(g) - 1 \in 2..n
    <3>1. CASE SubSeq(g, n - 1, n) \in MultipartSuffixes
      <4>1. n # 3
        <5>1. SUFFICES ASSUME n = 3 PROVE FALSE
          OBVIOUS
        <5>2. SubSeq(g, 2, 3) = Suffix(g)
          BY <2>3, <5>1 DEF Suffix
        <5>3. SubSeq(g, 2, 3) \in MultipartSuffixes
          <6>1. n - 1 = 2
            BY <5>1
          <6> QED BY <3>1, <5>1, <6>1
        <5> QED BY <2>3, <5>2, <5>3
      <4>2. SuffixStart(g) = n - 1
        BY <2>3, <3>1 DEF SuffixStart
      <4> QED BY <2>3, <2>4, <4>1, <4>2
    <3>2. CASE SubSeq(g, n - 1, n) \notin MultipartSuffixes
      <4>1. SuffixStart(g) = n
        BY <2>3, <3>2 DEF SuffixStart
      <4> QED BY <2>3, <2>4, <4>1
    <3> QED BY <3>1, <3>2
  <2>8. /\ Registrant(g) = SubSeq(g, SuffixStart(g) - 1, n)
        /\ Registrant(h) = SubSeq(h, SuffixStart(h) - 1, n)
    BY <2>3, <2>4, RegistrantOfHost
  <2> QED BY <2>5, <2>6, <2>7, <2>8
<1> QED BY <1>1, <1>2

\* Hence a valid list reaches no more registrants than it has patterns.
LEMMA RegistrantsOfList ==
  ASSUME NEW hosts \in Seq(Entry), ValidAllowedHosts(hosts)
  PROVE  Cardinality({Registrant(h) : h \in {h \in Hosts : IsHostAllowed(h, hosts)}}) <= Len(hosts)
<1> DEFINE T == {Registrant(h) : h \in {h \in Hosts : IsHostAllowed(h, hosts)}}
           Covers(i, h) == h \in Hosts /\ HostMatchesPattern(h, hosts[i].labels)
           Used == {i \in 1..Len(hosts) : \E h : Covers(i, h)}
           f == [i \in Used |-> Registrant(CHOOSE h : Covers(i, h))]
<1>1. Len(hosts) \in Nat /\ \A i \in 1..Len(hosts) : hosts[i] \in Entry /\ ValidHostPattern(hosts[i])
  BY LenProperties, ElementOfSeq DEF ValidAllowedHosts
<1>2. \A i \in Used : Covers(i, CHOOSE h : Covers(i, h))
  OBVIOUS
<1>3. \A i \in Used : f[i] \in T
  <2> SUFFICES ASSUME NEW i \in Used PROVE f[i] \in T
    OBVIOUS
  <2>1. PICK h : h = (CHOOSE x : Covers(i, x))
    OBVIOUS
  <2>2. Covers(i, h)
    BY <1>2, <2>1
  <2>3. h \in Hosts /\ IsHostAllowed(h, hosts)
    BY <2>2 DEF IsHostAllowed
  <2>4. f[i] = Registrant(h)
    BY <2>1
  <2> QED BY <2>3, <2>4
<1>4. \A r \in T : \E i \in Used : f[i] = r
  <2> SUFFICES ASSUME NEW r \in T PROVE \E i \in Used : f[i] = r
    OBVIOUS
  <2>1. PICK h \in Hosts : IsHostAllowed(h, hosts) /\ r = Registrant(h)
    OBVIOUS
  <2>2. PICK i \in 1..Len(hosts) : HostMatchesPattern(h, hosts[i].labels)
    BY <2>1 DEF IsHostAllowed
  <2>3. Covers(i, h) /\ i \in Used
    BY <2>2
  <2>4. PICK g : g = (CHOOSE x : Covers(i, x))
    OBVIOUS
  <2>5. Covers(i, g)
    BY <1>2, <2>3, <2>4
  <2>6. Registrant(g) = Registrant(h)
    BY <1>1, <2>3, <2>5, OneRegistrant
  <2>7. f[i] = Registrant(g)
    BY <2>3, <2>4
  <2> QED BY <2>1, <2>3, <2>6, <2>7
<1>5. f \in Surjection(Used, T)
  <2>1. f \in [Used -> T]
    BY <1>3
  <2> HIDE DEF f, Used, T
  <2> QED BY <1>4, <2>1 DEF Surjection
<1>6. IsFiniteSet(1..Len(hosts)) /\ Cardinality(1..Len(hosts)) = Len(hosts)
  <2>1. /\ IsFiniteSet(1..Len(hosts))
        /\ Cardinality(1..Len(hosts)) = IF 1 > Len(hosts) THEN 0 ELSE Len(hosts) - 1 + 1
    BY <1>1, FS_Interval, SMTT(30)
  <2> QED BY <1>1, <2>1
<1>7. /\ IsFiniteSet(Used) /\ Cardinality(Used) <= Len(hosts)
  BY <1>6, FS_Subset
<1> HIDE DEF f, Used, T
<1>8. Cardinality(T) <= Cardinality(Used) /\ Cardinality(T) \in Nat /\ Cardinality(Used) \in Nat
  BY <1>5, <1>7, FS_Surjection, FS_CardinalityType
<1>9. Cardinality(T) <= Len(hosts)
  BY <1>1, <1>7, <1>8
<1> QED BY <1>9 DEF T

LEMMA PatternsInitial == PatternInit => PatternsInv
<1> SUFFICES ASSUME PatternInit PROVE PatternsInv
  OBVIOUS
<1>1. PICK raw \in RawPatterns : allowedHosts = <<raw>>
  BY DEF PatternInit
<1>2. raw.labels \in Seq(AnyLabel) \ {<<>>}
  <2>1. ASSUME raw.labels \in SingleLabel \cup Address PROVE raw.labels \in Seq(AnyLabel) \ {<<>>}
    <3>1. raw.labels = <<"localhost">> \/ raw.labels = <<"10", "0", "0", "1">>
      BY <2>1 DEF SingleLabel, Address
    <3>2. {"localhost", "10", "0", "1"} \subseteq AnyLabel
      BY DEF AnyLabel
    <3>3. raw.labels \in Seq(AnyLabel)
      <4>1. <<"localhost">> \in Seq(AnyLabel)
        BY <3>2
      <4>2. <<"10", "0", "0", "1">> \in Seq(AnyLabel)
        BY <3>2
      <4> QED BY <3>1, <4>1, <4>2
    <3>4. raw.labels # <<>>
      BY <3>1
    <3> QED BY <3>3, <3>4
  <2>2. CASE raw.labels \in UNION {[1..n -> Label \cup {"*"} \cup BadLabel] : n \in 1..MaxLabels}
    <3>1. PICK n \in 1..MaxLabels : raw.labels \in [1..n -> Label \cup {"*"} \cup BadLabel]
      BY <2>2
    <3>2. n \in Nat /\ n # 0 /\ raw.labels \in [1..n -> AnyLabel]
      BY <3>1, PatternAssumption DEF AnyLabel
    <3>3. raw.labels \in Seq(AnyLabel)
      <4>1. raw.labels \in UNION {[1..m -> AnyLabel] : m \in Nat}
        BY <3>2
      <4> QED BY <4>1, SeqDef, Zenon
    <3>4. Len(raw.labels) = n
      BY <3>2, <3>3
    <3>5. raw.labels # <<>>
      BY <3>2, <3>4
    <3> QED BY <3>3, <3>5
  <2>3. raw.labels \in Names(Label \cup {"*"} \cup BadLabel) \cup Address \cup SingleLabel
    BY DEF RawPatterns
  <2>4. Names(Label \cup {"*"} \cup BadLabel)
          = SingleLabel \cup UNION {[1..n -> Label \cup {"*"} \cup BadLabel] : n \in 1..MaxLabels}
    BY DEF Names
  <2> HIDE DEF Names
  <2> QED BY <2>1, <2>2, <2>3, <2>4
<1>3. raw \in Entry
  BY <1>2, PatternAssumption DEF RawPatterns, Entry
<1>4. answer = "none"
  BY DEF PatternInit
<1> QED BY <1>1, <1>3, <1>4 DEF PatternsInv

LEMMA PatternsStep == PatternsInv /\ [PatternNext]_patternVars => PatternsInv'
<1> SUFFICES ASSUME PatternsInv, [PatternNext]_patternVars PROVE PatternsInv'
  OBVIOUS
<1>1. CASE Ask
  BY <1>1 DEF Ask, PatternsInv
<1>2. CASE AddPattern
  <2>1. allowedHosts \in Seq(Entry) /\ 1 \in 1..Len(allowedHosts) /\ allowedHosts[1] \in Entry
    <3>1. allowedHosts \in Seq(Entry) /\ allowedHosts # <<>>
      BY <1>2 DEF AddPattern, PatternsInv, ValidAllowedHosts
    <3>2. 1 \in 1..Len(allowedHosts)
      BY <3>1, EmptySeq
    <3> QED BY <3>1, <3>2, ElementOfSeq
  <2> DEFINE labels == allowedHosts[1].labels
             new == [labels |-> <<"*">> \o Suffix(labels), flaw |-> "none"]
  <2>2. labels \in Seq(AnyLabel)
    BY <2>1 DEF Entry
  <2>3. Suffix(labels) \in Seq(AnyLabel)
    <3>1. Len(labels) \in Nat /\ \A k \in 2..Len(labels) : labels[k] \in AnyLabel
      BY <2>2, LenProperties, ElementOfSeq
    <3> HIDE DEF labels
    <3> QED BY <3>1, SubSeqProperties DEF Suffix
  <2>4. <<"*">> \o Suffix(labels) \in Seq(AnyLabel) \ {<<>>}
    <3>1. <<"*">> \in Seq(AnyLabel)
      BY DEF AnyLabel
    <3> HIDE DEF labels
    <3>2. <<"*">> \o Suffix(labels) \in Seq(AnyLabel) /\ Len(<<"*">> \o Suffix(labels)) = 1 + Len(Suffix(labels))
      BY <2>3, <3>1, ConcatProperties
    <3>3. Len(Suffix(labels)) \in Nat
      BY <2>3, LenProperties
    <3> QED BY <3>2, <3>3
  <2>5. new \in Entry
    BY <2>4, PatternAssumption DEF Entry
  <2>6. allowedHosts' \in {Append(allowedHosts, new), Append(allowedHosts, allowedHosts[1])} /\ answer' = "none"
    BY <1>2 DEF AddPattern
  <2> HIDE DEF new
  <2>7. allowedHosts' \in Seq(Entry)
    BY <2>1, <2>5, <2>6
  <2> QED BY <2>6, <2>7 DEF PatternsInv
<1>3. CASE UNCHANGED patternVars
  BY <1>3 DEF patternVars, PatternsInv
<1> QED BY <1>1, <1>2, <1>3 DEF PatternNext

\* However a list of host patterns comes about, one that is accepted reaches no more
\* registrants than it has entries: for every set of labels, listed suffixes and length.
THEOREM PatternsStayNarrow == PatternSpec => []PatternsKeepToOneRegistrant
<1>1. PatternInit => PatternsInv
  BY PatternsInitial
<1>2. PatternsInv /\ [PatternNext]_patternVars => PatternsInv'
  BY PatternsStep
<1>3. PatternsInv => PatternsKeepToOneRegistrant
  BY RegistrantsOfList DEF PatternsInv, PatternsKeepToOneRegistrant
<1> QED BY <1>1, <1>2, <1>3, PTL DEF PatternSpec
=============================================================================
