SPECIFICATION Spec
CONSTANTS
  Primary = "production"
  None = None
  Grouped = TRUE
  DefaultBox = "east"
  MaxEdits = 2
  Boxes <- MCBoxes
  BoxEnv <- MCBoxEnv
  Group <- MCGroup
  HasIp <- MCHasIp
  Bases <- MCBases
  Catalogue <- MCCatalogue
  NewLevels <- MCNewLevels
  NewEnv <- MCNewEnv
  DocValues <- MCDocValues
  DeployValues <- MCDeployValues
  LevelValues <- MCLevelValues
  LockValues <- MCLockValues
  ResourceValues <- MCResourceValues
  RouteDomains <- MCRouteDomains
  HookDomains <- MCHookDomains
  HandNames <- MCHandNames
  Requests <- MCRequests
  Paths <- MCRequests
  Hosts <- MCHosts
  Under <- MCUnder
  Starts <- MCStarts
  StartsAny <- MCStartsAny
  PathLen <- MCPathLen
  HostRuleLen <- MCHostRuleLen
  Rank <- MCRank
INVARIANTS
  AcceptedDeploys
  NamesApart
  UrlsAnswer
  RequestsGoHome
  LockedStaysIn
  PushReachesAll
  ProbesReach
CHECK_DEADLOCK FALSE
