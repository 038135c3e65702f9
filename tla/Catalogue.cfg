SPECIFICATION PartsSpec
CONSTANTS
  e1 = e1
  e2 = e2
  i1 = i1
  i2 = i2
  s1 = s1
  root = root
  inter = inter
  Items = {i1, i2}
  Editors = {e1, e2}
  Contents <- NoneOrAll
  MaxVersions = 2
  Stores = {s1}
  Certs = {root, inter}
  Anchors = {root}
  MaxStoreVersions = 2
  MaxRuns = 1
  NoEditor = NoEditor
  Values = {"a", "b"}
  MaxTargets = 3
  MaxSaves = 2
  MaxEdits = 1
  Hidden = "smtp"
  MaxChanges = 5
  Found <- Names_MC
  PAGE = 4
  BULK = 2
  MaxDiscoveries = 1
  MaxActs = 5
CHECK_DEADLOCK FALSE
INVARIANTS EveryVersionHasAnchor PublicationsNeverCollide NoSilentDowngrade SnapshotsPinVersions GroupIsWhole TickedIsSelected BulkSkipsDoubtful
PROPERTIES StaysPublished
SYMMETRY Symmetric
