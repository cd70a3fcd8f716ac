SPECIFICATION ServicesSpec
CONSTANTS
  Nobody = Nobody
  Email = {"a", "b"}
  Org = {"o1", "o2"}
  Invite <- TheInvites
  Provider = {"google", "apple", "github", "saml"}
  Handshake = {"h1", "h2"}
  MaxRenewals = 1
  Writer = {"w1", "w2", "w3"}
  Audit = {"a1", "a2"}
  MaxVersion = 3
  NoOne = Nobody
  User = {"u1"}
  Token = {"t1", "t2"}
  ProjectId = {"p1", "p2"}
  Organization = {"o1", "o2"}
  OrgOf <- TheOrgs
  TokenProject <- TheTokenProjects
  TokenRole <- TheTokenRoles
  AuditProject <- TheAuditProjects
  Role = {"viewer", "admin"}
  Route <- TheRoutes
  Request = {"q1"}
  MaxRevisions = 2
  Nothing = Nothing
  Project = {"p1", "p2"}
  Target = {"t1"}
  Repository = {"r1"}
  Founded = {"p1"}
  Slug = {"p1", "s2"}
  Key = {"k1"}
  Host = {"h1", "h2"}
  Pattern <- ThePatterns
  Wildcard <- TheWildcards
  Caller = {"q1", "q2"}
  Operation <- Operations
  MaxPolicies = 2
  MaxAge = 0
  MaxTime = 1
  Label = {"acme", "co", "uk"}
  BadLabel = {"-x"}
  MultipartSuffixes <- TheSuffixes
  MaxLabels = 4
  Flaw = {"none", "uppercase", "scheme", "credentials", "path", "port"}
  Appender = {"w1", "w2"}
  MaxEvents = 4
  Batch = 2
  MaxDrops = 2
  Mode = {"smoke", "full"}
  MaxBreaks = 3
  Url = {"base", "a", "aq", "x"}
  Page <- ThePages
  Base = "base"
  Policy = {"s1", "s2"}
  Allows <- TheScopes
  Crawl = {"a", "aq"}
  Redirects <- TheRedirects
  Claims <- TheClaims
  MaxChanges = 1
INVARIANT MembersWereInvited
INVARIANT FrozenCredential
INVARIANT AdmittedWasEntitled
INVARIANT AuditsAuthorized
INVARIANT PatternsKeepToOneRegistrant
INVARIANT EventsInOrder
INVARIANT ExitTellsVerdict
INVARIANT CrawlAccountedFor
PROPERTY EventsArrive
PROPERTY FullWaitReturns
PROPERTY ChecksConclude
CHECK_DEADLOCK FALSE
