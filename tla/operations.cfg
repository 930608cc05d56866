SPECIFICATION MCSpec
CONSTANTS
  RowChoices <- MCRows
  Registries <- MCRegistries
  Manifest <- MCManifest
  Contents <- MCContents
  MinPeriods = 2
  MinPerPeriod = 1
  MinTotal = 3
  MaxRows = 3
  MaxRuns = 2
  Drills = {d1, d2}
  Targets = {t1}
  Assertions <- MCAssertions
  ObjectStorage = TRUE
  RetentionDays = 2
  RemoteRetentionDays = 1
  MaxLive = 2
  MaxDays = 3
  MaxBackups = 2
  o1 = o1
  o2 = o2
  o3 = o3
  Orgs = {o1, o2, o3}
  NoOrg = none
  Callers <- MCCallers
  Txns = {x1, x2}
  Keys = {"k1", "k2"}
  NoKey = "no key"
  Units = {1, 2}
  Limits = {2, 3}
  NoLimit = NoLimit
  LastPeriod = 2
  NoRequest = NoRequest
  Requests <- MCRequests
  Staff = {u1, u2}
  Founders = {u1}
  Roles = {"super_admin", "member_ops"}
  Calls = {a1, a2}
  Sources = {k1}
  KeyOrder <- MCKeyOrder
  PageSize = 1
  AuditLimit = 1
  PlanLimits = {1, 2}
  LegacyLimit = 3
  CacheTime = 1
  Sessions = {s1}
  Clicks = {c1, c2}
  Refunds = {p1, p2}
  EventRows = {e1, e2}
  Cost = 2
  MaxAudit = 2
  MaxPrices = 3
INVARIANTS PublicationIsSound AnnouncedBackupsAreKept DrillsAreHonest ContactIsMutual HistoryIsComplete BooksAreRight
INVARIANTS ConsoleIsAccountable ViewsAreComplete 
PROPERTIES ImplementsLedger 
CHECK_DEADLOCK FALSE
