SPECIFICATION Spec
CONSTANTS
  k1 = k1
  k2 = k2
  e1 = e1
  e2 = e2
  c1 = c1
  c2 = c2
  a = a
  b = b
  Null = Null
  Unset = Unset
  Absent = Absent
  Key = {k1}
  Uid = {e1, e2}
  Sites <- MCSites
  ConnectorId = {c1}
  Revision = {a}
  MaxTime = 1
  MaxList = 2
PROPERTIES
  ParentsAreStamped
