SPECIFICATION AnyPatchSpec
CONSTANTS
  s1 = s1
  s2 = s2
  p1 = p1
  x1 = x1
  x2 = x2
  Null = Null
  Unset = Unset
  Absent = Absent
  Unknown = Unknown
  NoCall = NoCall
  Status = {s1}
  Valid = {s1}
  Period = {}
  Amount = {x1, x2}
  MaxTime = 3
  MaxLosses = 0
  MaxRestarts = 0
CHECK_DEADLOCK FALSE
PROPERTIES
  PatchIsMergePatch
