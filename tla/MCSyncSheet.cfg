\* Two sync requests, one after the other, in a tenant-mode project (the
\* mode in which the handler sets database IDs).
CONSTANTS
  Listings <- MCListings
  SheetName <- MCSheetName
  PathDB <- MCPathDB
  NoDB = NoDB
  Tenant = TRUE
  Requests = {s1, s2}
  MaxSheets = 3
  Concurrent = FALSE
SPECIFICATION Spec
INVARIANTS
  SheetNamesUnique
PROPERTY
  SyncedSheetsMatchList
