SPECIFICATION Spec
CONSTANTS
  Tabs = {"t1", "t2"}
  People = {"u1", "u2"}
  FirstPeople = {"u1"}
  Providers = {"sso", "ldap"}
  MaxSessions = 2
  MaxInFlight = 2
  MaxSteps = 3
  NoName = NoName
  Nobody = Nobody
  Users = {"owner"}
  Owner = "owner"
  Services = {"api"}
  KeyIds = {"k0", "k1"}
  OldKeys = {"k0"}
  Callers = {"program"}
  OwnerSlots = {1}
  UsersSlots = {2}
  SettingsSlots = {2, 3}
  Handlers = {1, 2, 3}
  MaxLoads = 1
  MaxClicks = 2
  MaxCalls = 1
  Defs = {"d1", "d2"}
  NoDef = "none"
  operator = TRUE
  Slots = {1, 2}
  Nothing = Nothing
  MaxRuns = 3
  MaxPageActs = 3
  Definitions = {"d1", "d2"}
  NoDefinition = "none"
  Outcomes <- Reports
  Plan <- Plans
  Severity <- Graveness
  IGNORED_FINDINGS = {4}
  NotAfter <- Expiries
  NoCert = 0
  TrustedBy <- Stores
  HOSTNAME_SAN = 1
  DASHBOARD_RUNS = 2
  EXPIRY_WINDOW_DAYS = 1
  TREND_POINTS = 2
  VIGILANCE_LIMIT = 2
  MAX_LISTED = 1
  MAX_SERIES = 2
  LastDay = 2
  MaxFinished = 3
  MaxDeleted = 1
CHECK_DEADLOCK FALSE
INVARIANTS WriteAsShown OnlyTheEntitledAreServed EveryRowListedOnce EveryEndpointListedOnce EvolutionAddsUp 
PROPERTIES DeadSessionLeaves ShownCatchesUp RetrievalEndShows
