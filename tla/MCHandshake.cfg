SPECIFICATION HFairSpec
CONSTANTS
  r1 = r1
  r2 = r2
  r3 = r3
  u1 = u1
  rev1 = rev1
  rev2 = rev2
  TokenA = TokenA
  TokenC = TokenC
  NoToken = NoToken
  NoEndpoints = NoEndpoints
  Absent = Absent
  Nothing = Nothing
  Request = {r1, r2}
  Token = {TokenA, TokenC}
  Body = {rev1, rev2}
  Url = {u1}
  Offer <- MCOffer
  Config <- MCConfig
  MaxLosses = 1
  MaxRestarts = 1
INVARIANTS
  HTypeOK
  Agreement
  LockedOnlyByLostPost
PROPERTIES
  LossIsNoticed
  Recovers
