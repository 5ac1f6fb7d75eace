CONSTANTS
  Repos <- MCRepos
  Tokens <- MCTokens
  Files <- MCFiles
  DBNames <- MCDBNames
  RepoConf <- MCRepoConf
  Kind <- MCKind
  DBOf <- MCDBOf
  Version <- MCVersion
  MigType <- MCMigType
  ItemType <- MCItemType
  YAML <- MCYAML

SPECIFICATION Spec

INVARIANT TypeOK
INVARIANT IssueTargetsOneGroup
INVARIANT IssueVersionsAscending
INVARIANT DiffFilesAccounted
