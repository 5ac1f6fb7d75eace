------------------------------ MODULE FileInfo ------------------------------
(***************************************************************************)
(* getFileInfo and groupFileInfoByRepo of server/webhook.go, shared by the *)
(* push webhook and the SQL review webhook.  The template match of         *)
(* db.ParseMigrationInfo / db.ParseSchemaFileInfo (base directory prefix,  *)
(* file path template, schema path template, tenant-mode YAML variant and *)
(* allowOmitDatabaseName) is abstracted into the constant Kind.            *)
(***************************************************************************)
EXTENDS FiniteSets

CONSTANTS
  Repos,      \* repository links found by the webhook endpoint ID
  Files,      \* changed file paths
  Kind,       \* Kind[f][r]: "migration", "schema" or "none"
  MigType,    \* migrationInfo.Type: "Migrate", "Data" or "Baseline"
  YAML        \* the file has the YAML extension

\* Repositories of the filtered list whose templates match the file.
MatchingRepos(list, f) == {r \in list : Kind[f][r] # "none"}

\* getFileInfo fails at once for a YAML file that is not DML.
YAMLError(list, f) ==
  /\ YAML[f] /\ MigType[f] # "Data"
  /\ \E r \in MatchingRepos(list, f) : Kind[f][r] = "migration"

\* Variant that accepts a file matched by several repositories.
ClassifiedAnyMatch(list, f) ==
  MatchingRepos(list, f) # {} /\ ~YAMLError(list, f)

\* getFileInfo succeeds: exactly one repository matches the file.
Classified(list, f) ==
  Cardinality(MatchingRepos(list, f)) = 1 /\ ~YAMLError(list, f)

\* The repository getFileInfo returns for a classified file.
RepoOf(list, f) == CHOOSE r \in MatchingRepos(list, f) : TRUE

=============================================================================
