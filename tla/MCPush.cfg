SPECIFICATION FairSpec
CONSTANTS
  s1 = s1
  s2 = s2
  p1 = p1
  x1 = x1
  x2 = x2
  Null = Null
  Unset = Unset
  Absent = Absent
  Unknown = Unknown
  NoCall = NoCall
  Status = {s1, s2}
  Valid = {s1}
  Period = {}
  Amount = {x1}
  MaxTime = 3
  MaxLosses = 1
  MaxRestarts = 1
CHECK_DEADLOCK FALSE
INVARIANTS
  TypeOK
  AckedIsStored
  CopyIsASnapshot
  BlockedStaysBlocked
  PreferencesSettle
PROPERTIES
  Converges
  PatchInStepIsMergePatch
