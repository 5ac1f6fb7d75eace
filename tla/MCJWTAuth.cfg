\* The refresh path serves an expired access token on the refresh token of
\* another principal.
CONSTANTS
  Users = {"u1", "u2"}
  Clients = {"c1"}
  Foreign <- MCForeign
  Threshold = 2
  AccessDuration = 3
  RefreshDuration = 5
  MaxClock = 6
  MaxIssued = 6
SPECIFICATION Spec
INVARIANT
  SessionRenewedByItsOwnRefreshToken
