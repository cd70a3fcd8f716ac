-------------------------------- MODULE SignIn --------------------------------
(***************************************************************************)
(* Signing in by invitation (apps/web/src/auth): an OAuth handshake proves  *)
(* who somebody is, an invite for the proven address creates the user, in   *)
(* one transaction with the memberships. Handshakes of one person race, and *)
(* invites expire and are renewed while they run.                           *)
(***************************************************************************)
EXTENDS Integers, FiniteSets

CONSTANTS
  Email, Org,
  Invite,      \* Invite rows that may exist: address, organization, projects
  Provider,    \* providers of handshakes, configured or added later
  Handshake,   \* handshakes under way; a user made by one carries its name
  MaxRenewals, \* bound on what administrators do to invites
  Nobody

ASSUME SignInAssumption ==
  /\ \A i, j \in Invite : i.email = j.email /\ i.org = j.org => i = j
  /\ \A i \in Invite : i.email \in Email /\ i.org \in Org

VARIABLES
  invite,     \* invite[i]: none, live or expired, and who accepted it
  user,       \* User rows
  handshake,  \* handshake[h]: where it is, its address, the invite it goes by
  proven,     \* what the provider of h really knows: is the address verified
  signedIn,   \* the user and organization each session was given
  renewals

signInVars == <<invite, user, handshake, proven, signedIn, renewals>>

NoInvite == [state |-> "none", by |-> Nobody]
NoSession == [org |-> Nobody, by |-> Nobody]
NoHandshake == [at |-> "none", email |-> Nobody, with |-> Nobody]

SignInInit ==
  /\ invite \in [Invite -> {NoInvite, [state |-> "live", by |-> Nobody]}]
  /\ user = {} /\ renewals = 0
  /\ handshake = [h \in Handshake |-> NoHandshake]
  /\ proven = [h \in Handshake |-> FALSE]
  /\ signedIn = [h \in Handshake |-> NoSession]
-----------------------------------------------------------------------------
\* What providers say of an address: booleans, or strings of their names; GitHub's
\* library only hands over verified addresses and says nothing.
Says(provider, verified) ==
  CASE provider = "google" -> {IF verified THEN "TRUE" ELSE "FALSE"}
    [] provider = "apple" -> IF verified THEN {"TRUE", "'true'"} ELSE {"FALSE", "'false'", "missing"}
    [] provider = "github" -> IF verified THEN {"missing"} ELSE {}
    [] OTHER -> {"TRUE"}

\* Mutant: whatever JavaScript takes for true.
Truthy(provider, claim) == claim \notin {"FALSE", "missing"} \/ provider = "github"
ProviderVerifiedEmail(provider, claim) ==
  CASE provider = "google" -> claim = "TRUE"
    [] provider = "apple" -> claim \in {"TRUE", "'true'"}
    [] provider = "github" -> TRUE
    [] OTHER -> FALSE

MoveTo(h, step) == handshake' = [handshake EXCEPT ![h] = step]
Denied(h) == [handshake[h] EXCEPT !.at = "denied"]
UserOf(email) == {u \in user : u.email = email}

\* An OAuth handshake ended, with an address or without one.
Begin(h) ==
  /\ handshake[h].at = "none"
  /\ \E provider \in Provider, verified \in BOOLEAN, email \in Email \cup {Nobody} :
       \E claim \in Says(provider, verified) :
         /\ MoveTo(h, [NoHandshake EXCEPT !.email = email, !.at =
                IF email # Nobody /\ ProviderVerifiedEmail(provider, claim) THEN "verified" ELSE "denied"])
         /\ proven' = [proven EXCEPT ![h] = verified]
  /\ UNCHANGED <<invite, user, signedIn, renewals>>

Admit(h, u) ==
  signedIn' = [signedIn EXCEPT ![h] = [org |-> u.org, by |-> u.by]]

\* Somebody who was here before needs no invite.
FindUser(h) ==
  /\ handshake[h].at = "verified"
  /\ IF UserOf(handshake[h].email) = {}
     THEN MoveTo(h, [handshake[h] EXCEPT !.at = "new"]) /\ UNCHANGED signedIn
     ELSE /\ MoveTo(h, [handshake[h] EXCEPT !.at = "in"])
          /\ \E u \in UserOf(handshake[h].email) : Admit(h, u)
  /\ UNCHANGED <<invite, user, proven, renewals>>

\* findFirst takes any invite for the address, whichever organization it is of.
FindInvite(h) ==
  LET sent == {i \in Invite : i.email = handshake[h].email /\ invite[i].state # "none"}
  IN  /\ handshake[h].at = "new"
      /\ \/ sent = {} /\ MoveTo(h, Denied(h))
         \/ \E i \in sent :
              MoveTo(h, IF invite[i].by # Nobody \/ invite[i].state = "expired" THEN Denied(h)
                    ELSE [handshake[h] EXCEPT !.at = "invited", !.with = i])
      /\ UNCHANGED <<invite, user, proven, signedIn, renewals>>

\* Mutant: nothing makes addresses unique.
AddressAlwaysFree(h) == TRUE
AddressFree(h) == UserOf(handshake[h].email) = {}

\* The user, the memberships and the invite, together.
Provision(h) ==
  LET i == handshake[h].with
      u == [email |-> handshake[h].email, org |-> i.org, projects |-> i.projects, by |-> h]
  IN  /\ handshake[h].at = "invited"
      /\ IF AddressFree(h)
         THEN /\ user' = user \cup {u} /\ Admit(h, u)
              /\ invite' = [invite EXCEPT ![i].by = h]
              /\ MoveTo(h, [handshake[h] EXCEPT !.at = "in"])
         ELSE MoveTo(h, Denied(h)) /\ UNCHANGED <<user, invite, signedIn>>
      /\ UNCHANGED <<proven, renewals>>
-----------------------------------------------------------------------------
(* Administrators; inviting an address again updates its row. *)

Renew(i) ==
  /\ renewals < MaxRenewals /\ renewals' = renewals + 1
  /\ invite' = [invite EXCEPT ![i].state = "live"]
  /\ UNCHANGED <<user, handshake, proven, signedIn>>

Expire(i) ==
  /\ invite[i].state = "live"
  /\ invite' = [invite EXCEPT ![i].state = "expired"]
  /\ UNCHANGED <<user, handshake, proven, signedIn, renewals>>

SignInNext ==
  \/ \E h \in Handshake : Begin(h) \/ FindUser(h) \/ FindInvite(h) \/ Provision(h)
  \/ \E i \in Invite : Renew(i) \/ Expire(i)

SignInSpec == SignInInit /\ [][SignInNext]_signInVars
-----------------------------------------------------------------------------
\* A handshake does not make a user, an invite does: however handshakes race, each
\* address has one user, made from an invite for that very address that names the
\* maker, in its organization and projects, and every session belongs to a user
\* whose address the session's own provider had verified.
MembersWereInvited ==
  /\ \A u, v \in user : u.email = v.email => u = v
  /\ \A u \in user : \E i \in Invite :
       i.email = u.email /\ i.org = u.org /\ i.projects = u.projects /\ invite[i].by = u.by
  /\ \A h \in Handshake : handshake[h].at = "in" =>
       /\ proven[h]
       /\ \E u \in UserOf(handshake[h].email) : signedIn[h] = [org |-> u.org, by |-> u.by]
=============================================================================
