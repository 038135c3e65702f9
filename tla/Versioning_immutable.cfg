SPECIFICATION VersioningSpec
CONSTANTS
  e1 = e1
  e2 = e2
  i1 = i1
  c1 = c1
  c2 = c2
  Items = {i1}
  Editors = {e1, e2}
  Contents = {c1, c2}
  MaxVersions = 3

PROPERTIES PublishedNeverModified
