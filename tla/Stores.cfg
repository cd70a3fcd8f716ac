SPECIFICATION StoresSpec
CONSTANTS
  Commit = {"c1", "c2"}
  Nothing = Nothing
  CallerClaims = {"c1", Nothing}
  SourceClaims = 3
  Nobody = Nobody
  AuditId = {"a1", "a2", "a3"}
  Endpoint = {"e1", "e2"}
  Status = {200, 401}
  Template <- TheTemplates
  Crawls <- TheCrawls
  Attempts <- TheAttempts
  Audit = {"a1", "a2"}
  Reported <- TheReports
  AgentPrint = {"g1", "g2"}
  Role = {"blackbox"}
  CategoryOf <- TheCategories
  Claims = 2
  Overlap = FALSE
  MaxCalls = 2
  Static <- TheStatic
  Documents <- TheDocuments
  Graphs <- TheGraphs
  Probed <- TheProbed
  Scanned <- TheScanned
  Compatible <- ThePairs
  Unstated = Nobody
  Url = {"base", "sub", "other"}
  Origin <- TheOrigins
  Host <- TheHosts
  Path <- ThePaths
  BaseUrl = "base"
  Allows <- TheCover
  DeniedPath <- TheDenied
  Destructive = {"p1"}
  Quota <- TheQuotas
  Rate <- TheRates
  MaxRequests = 8
  ReconLimit = 3
  MaxHops = 3
  MaxChanges = 2
  ReconShare = 3
  AuditRequests = 4
  MaxRequested = 2
  MaxAttempt = 2
  Faults = {"crash", "redis"}
  Method = {"h", "a", "b"}
  Handler = "h"
  External = "ext"
  MaxCallsPerMethod = 2
  Limits <- TheLimits
  Checker = {"c1", "c2"}
  GateId = {"a", "b"}
  Draft <- TheDrafts
  Option <- TheOptions
  Jobs = 1
  MaxSaves = 1
  Process = {"n1", "n2"}
  Leaf = {"l1", "l2"}
  Handle = {"h1", "h2"}
  Wild = {"*"}
  Owns <- TheOwned
  RepoPath <- TheRepository
  MaxCommands = 6
  Session = {"x", "y"}
  Scope = {"s1", "s2"}
  Hook = {"h1", "h2"}
  SessionOf <- TheSessions
  Wanted <- TheWanted
  MAX_BLOCKS = 2
  MaxSessions = 2
  MaxHookChanges = 2
INVARIANT SavedAgrees
INVARIANT FirstSeenInherited
INVARIANT NeverCountedTwice
INVARIANT JoinsAreGrounded
INVARIANT GraphIsReachability
INVARIANT ProbesAuthorized
INVARIANT RequestsCharged
INVARIANT ResultsEarned
INVARIANT SharedFilesAgree
INVARIANT HookReleases
CONSTRAINT InTurn
CHECK_DEADLOCK FALSE
