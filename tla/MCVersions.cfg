SPECIFICATION Spec
CONSTANTS
  u1 = u1
  u2 = u2
  None = None
  Url = {u1, u2}
  Supported <- MCSupported
  MaxVersions = 3
CHECK_DEADLOCK FALSE
INVARIANTS
  TypeOK
  ChosenVersionIsServed
  HighestMutualIsChosen
PROPERTY ForeignEntryIsIgnored
