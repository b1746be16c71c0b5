SPECIFICATION FairSpec
CONSTANTS
  q1 = q1
  q2 = q2
  Nothing = Nothing
  Id = {q1, q2}
  Services <- MCServices
  MaxLosses = 2
CHECK_DEADLOCK FALSE
INVARIANTS
  TypeOK
  ResultIsMeant
  RefusedIsNotExecuted
PROPERTIES
  ResultsArrive
  CallsSettle
