\* Tokens signed, refreshed, expired and presented in any combination, and
\* the three activity routes behind the middleware.
CONSTANTS
  Users = {"u1", "u2"}
  Clients = {"c1"}
  Foreign <- MCForeign
  Threshold = 2
  AccessDuration = 3
  RefreshDuration = 4
  MaxClock = 4
  MaxIssued = 4
  Issues = {"i1"}
  Containers = {"i1", "i9"}
  Comments = {"x"}
  SystemRows <- MCSystemRows
  MaxActivities = 2
SPECIFICATION ActivitySpec
INVARIANTS
  ServedOnlyOnAccessToken
  RefreshedOnlyOnRefreshToken
  ExpiredAccessServedOnlyRefreshed
PROPERTIES
  CommentsByTheirAuthor
