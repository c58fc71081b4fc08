CONSTANTS
  a = a
  b = b
  team = team
  shop = shop
  bank = bank
  prod = prod
  Global = Global
  Slot = {1, 2}
  Identity = {a, b}
  Group = {team}
  Project = {shop, bank}
  Environment = {prod}
  ProjectOf <- MCProjectOf
  Serial = {1, 2}
  Inputs <- MCInputs
  Deploys <- MCDeploys
  MaxTime = 1
  Editor = {c1, c2, c3}
  ProjectSlug = {p}
  MaxIds = 4
  MaxErrors = 1
  Isolates = 2
  AuditedProject <- AuditProject
  Env <- AuditEnv
  Parent <- AuditParent
  Slug <- AuditSlug
  Limit = 1
  MaxCounter = 1
  Scenes <- AuditScenes
  PageSize = 3
  MaxPages = 3
  Ahead = {1}
  Behind = {0}
  PerPage = {1}
  MaxSecrets = 3
  MaxEvents = 2
  MaxFailures = 1
SPECIFICATION ServerSpec
INVARIANTS
  ExplainAgrees
  ResourcesAreAsReported
PROPERTIES
  AccessChangesByAuthority
  RevocationsTakeWhatWasFound
  ExclusionIsExact
  LogIsCompleteAndPrivate
CHECK_DEADLOCK FALSE
