\* Requests overlap.
CONSTANTS
  Projects <- MCProjects
  URLs <- MCURLs
  Requests <- MCRequests
  ReqProject <- MCReqProject
  ReqKind <- MCReqKind
  MaxHooks = 3
  Concurrent = TRUE

SPECIFICATION Spec

INVARIANT LinkedHookLive
