SPECIFICATION ClosedSpec
CONSTANTS
  r1 = r1
  r2 = r2
  r3 = r3
  u1 = u1
  u2 = u2
  rev1 = rev1
  rev2 = rev2
  other = other
  TokenA = TokenA
  TokenC = TokenC
  NoToken = NoToken
  NoEndpoints = NoEndpoints
  Absent = Absent
  Nothing = Nothing
  Request = {r1, r2}
  Token = {TokenA, TokenC}
  Body = {rev1, other}
  Url = {u1, u2}
  Offer <- MCOffer
  Config <- MCConfig
PROPERTY PostRefusedOnlyIfRegistered
CHECK_DEADLOCK FALSE
