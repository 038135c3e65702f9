SPECIFICATION Spec
CONSTANTS
  e1 = e1
  e2 = e2
  i1 = i1
  i2 = i2
  s1 = s1
  root = root
  inter = inter
  Items = {i1}
  Editors = {e1, e2}
  Contents <- NoneOrAll
  MaxVersions = 2
  Stores = {s1}
  Certs = {root, inter}
  Anchors = {root}
  MaxStoreVersions = 3
  MaxRuns = 1
  NoEditor = NoEditor

PROPERTIES OnlyRemovedLeave
