CONSTANTS
  Repos <- MCRepos
  Files <- MCFiles
  Tokens <- MCTokens
  WorkspaceID = "w"
  DevMode = TRUE
  RepoConf <- MCRepoConf
  Kind <- MCKind
  MigType <- MCMigType
  YAML <- MCYAML
  Deleted = {"f4"}
  SortedFileList <- MCSortedFileList
  Databases <- MCDatabases
  CandidateDBs <- MCCandidateDBs
  HasPolicy <- MCHasPolicy
  CheckResults <- MCCheckResults

SPECIFICATION Spec

INVARIANT ReviewTasksIsolated

\* A request ends: once the handler has answered and every goroutine has
\* returned, or the runtime has aborted, no step is left.  Responds checks
\* that the handler is never stuck before answering.
CHECK_DEADLOCK FALSE
