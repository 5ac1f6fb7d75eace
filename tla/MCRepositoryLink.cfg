\* Requests handled one at a time.
CONSTANTS
  Projects <- MCProjects
  URLs <- MCURLs
  Requests <- MCRequests
  ReqProject <- MCReqProject
  ReqKind <- MCReqKind
  MaxHooks = 3
  Concurrent = FALSE

SPECIFICATION Spec

INVARIANT TypeOK
INVARIANT LinkedHookLive

