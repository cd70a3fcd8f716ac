-------------------------------- MODULE Access --------------------------------
(***************************************************************************)
(* Who may do what: the guards a request passes one after the other         *)
(* (auth.guard, project-scope.guard, roles.guard, organization-admin.guard) *)
(* while memberships change, tokens are revoked and sessions expire.        *)
(***************************************************************************)
EXTENDS Integers, FiniteSets

CONSTANTS
  User, Token, ProjectId, Organization,
  OrgOf,        \* OrgOf[u]: the organization of user u's session
  TokenProject, \* the one project a token was created for
  TokenRole,    \* its role, which may be corrupt
  AuditProject, \* AuditProject[a]: the project of audit a
  Role,         \* ROLES
  Route,        \* routes: mode, the roles of @Roles, the organization-admin guard
  Request,
  MaxRevisions,   \* changes of memberships, tokens and sessions
  NoOne

AccessAssumption ==
  /\ OrgOf \in [User -> Organization] /\ TokenProject \in [Token -> ProjectId]
  /\ AuditProject \in [DOMAIN AuditProject -> ProjectId]
  /\ Route \subseteq [mode : {"public", "none", "project", "audit", "org"},
                      roles : SUBSET Role, admin : BOOLEAN]
  /\ NoOne \notin User \cup Token \cup ProjectId \cup Role /\ User \cap Token = {}

VARIABLES
  member,    \* ProjectMember.role
  orgAdmin,  \* users with the admin role in their organization
  token,     \* ApiToken rows: not created yet, valid, revoked or expired
  session,   \* users whose session JWT still verifies
  request,   \* what the guards know of each request
  held,      \* held[q]: roles the caller of q had in its project while q was served
  revisions

accessVars == <<member, orgAdmin, token, session, request, held, revisions>>

Principal == User \cup Token
\* The parameter of a route names a project, an audit or an organization; no id has a bad form.
Param(m) == CASE m = "project" -> ProjectId [] m = "audit" -> DOMAIN AuditProject
              [] m = "org" -> Organization [] OTHER -> {NoOne}
NoRequest == [at |-> "none", who |-> NoOne, route |-> NoOne, param |-> NoOne,
              project |-> NoOne, role |-> NoOne]

AccessInit ==
  /\ member \in [User -> [ProjectId -> {NoOne} \cup Role]]
  /\ orgAdmin = User /\ session = User
  /\ token = [t \in Token |-> "none"]
  /\ request = [q \in Request |-> NoRequest] /\ held = [q \in Request |-> {}]
  /\ revisions = 0
-----------------------------------------------------------------------------
(* The guards, in the order of the module. *)

RoleIn(who, p) ==
  IF who \in Token THEN IF TokenProject[who] = p THEN TokenRole[who] ELSE NoOne
  ELSE IF who \in User THEN member[who][p] ELSE NoOne
ProjectOf(q) == IF request[q].route.mode = "audit" THEN AuditProject[request[q].param]
                ELSE request[q].param

Answer(q, verdict) == request' = [request EXCEPT ![q] = verdict]
Refused(q) == [request[q] EXCEPT !.at = "denied"]
Rows == <<member, orgAdmin, token, session, revisions>>

\* A request with the bearer's credential, or none: canActivate of the AuthGuard.
CredentialGood(who) == IF who \in Token THEN token[who] = "valid" ELSE who \in session
Authenticate(q) ==
  /\ request[q].at = "none"
  /\ \E who \in Principal \cup {NoOne}, route \in Route : \E param \in Param(route.mode) :
       LET asked == [NoRequest EXCEPT !.who = who, !.route = route, !.param = param]
           role == IF who \in Token THEN TokenRole[who] ELSE NoOne
       IN  /\ Answer(q, IF route.mode = "public" THEN [asked EXCEPT !.at = "admitted"]
                        ELSE IF CredentialGood(who) /\ (who \in Token => role \in Role)
                             THEN [asked EXCEPT !.at = "authenticated", !.role = role]
                             ELSE [asked EXCEPT !.at = "denied"])
           /\ held' = [held EXCEPT ![q] =
                IF route.mode \in {"project", "audit"}
                THEN {RoleIn(who, IF route.mode = "audit" THEN AuditProject[param] ELSE param)} ELSE {}]
  /\ UNCHANGED Rows

\* Mutant: an audit's route is not held against the project of the audit.
AnyProject(q) == [request[q] EXCEPT !.at = "scoped", !.project = ProjectOf(q),
                    !.role = IF @ = NoOne THEN RoleIn(request[q].who, ProjectOf(q)) ELSE @]
\* authorizeProject: a token's project, or the membership as it is now.
AuthorizedFor(q) ==
  LET role == RoleIn(request[q].who, ProjectOf(q))
  IN  IF role \in Role THEN [request[q] EXCEPT !.at = "scoped", !.project = ProjectOf(q), !.role = role]
      ELSE Refused(q)

\* ProjectScopeGuard: a route without a scope is denied; checkOrgScope wants a session.
Scope(q) ==
  /\ request[q].at = "authenticated"
  /\ Answer(q, CASE request[q].route.mode \in {"project", "audit"} -> AuthorizedFor(q)
                 [] request[q].route.mode = "org" /\ request[q].who \in User ->
                      [request[q] EXCEPT !.at = "scoped"]
                 [] OTHER -> Refused(q))
  /\ UNCHANGED <<Rows, held>>

\* OrganizationAdminGuard: a session in that organization, an administrator of it.
AdminOf(who, org) == who \in orgAdmin /\ OrgOf[who] = org
\* RolesGuard, then the organization guard where a route has one.
RoleAllowed(q) == request[q].route.roles = {} \/ request[q].role \in request[q].route.roles

CheckRoles(q) ==
  /\ request[q].at = "scoped"
  /\ Answer(q, IF RoleAllowed(q) /\ (request[q].route.admin => AdminOf(request[q].who, request[q].param))
               THEN [request[q] EXCEPT !.at = "admitted"] ELSE Refused(q))
  /\ UNCHANGED <<Rows, held>>
-----------------------------------------------------------------------------
(* Meanwhile. *)

Change == revisions < MaxRevisions /\ revisions' = revisions + 1 /\ UNCHANGED request

\* Members are enrolled, for one by the project they create, change roles and leave.
ChangeMember(u, p) ==
  /\ Change
  /\ \E role \in (Role \cup {NoOne}) \ {member[u][p]} : member' = [member EXCEPT ![u][p] = role]
  /\ held' = [q \in Request |->
       IF request[q].who = u /\ request[q].at \in {"authenticated", "scoped"} /\ held[q] # {}
          /\ ProjectOf(q) = p
       THEN held[q] \cup {member'[u][p]} ELSE held[q]]
  /\ UNCHANGED <<orgAdmin, token, session>>

DismissAdmin(u) == Change /\ orgAdmin' = orgAdmin \ {u} /\ UNCHANGED <<member, token, session, held>>
CreateToken(t) == /\ Change /\ token[t] = "none" /\ token' = [token EXCEPT ![t] = "valid"]
                  /\ UNCHANGED <<member, orgAdmin, session, held>>
\* TokensService.revoke, which does nothing to a revoked one; or the token expires.
RevokeToken(t) == /\ Change /\ token[t] = "valid" /\ token' = [token EXCEPT ![t] = "dead"]
                  /\ UNCHANGED <<member, orgAdmin, session, held>>
ExpireSession(u) == Change /\ session' = session \ {u} /\ UNCHANGED <<member, orgAdmin, token, held>>

AccessNext ==
  \/ \E q \in Request : Authenticate(q) \/ Scope(q) \/ CheckRoles(q)
  \/ \E u \in User, p \in ProjectId : ChangeMember(u, p)
  \/ \E u \in User : DismissAdmin(u) \/ ExpireSession(u)
  \/ \E t \in Token : CreateToken(t) \/ RevokeToken(t)

AccessSpec == AccessInit /\ [][AccessNext]_accessVars
-----------------------------------------------------------------------------
\* However memberships change under a request, one that reaches a handler of a
\* project was made by somebody who, while it was served, held in that very project
\* a role the route allows; and a route with the organization-admin guard is reached by
\* sessions of that organization only. The guards ask no more of the other organization
\* routes than a session: those name no organization, or their handler checks it.
AdmittedWasEntitled ==
  \A q \in Request : request[q].at = "admitted" /\ request[q].route.mode # "public" =>
    /\ request[q].route.mode # "none"
    /\ request[q].route.mode \in {"project", "audit"} =>
         \E role \in held[q] \cap Role : request[q].route.roles = {} \/ role \in request[q].route.roles
    /\ request[q].route.admin => request[q].who \in User /\ OrgOf[request[q].who] = request[q].param
=============================================================================
