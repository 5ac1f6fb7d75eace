------------------------------ MODULE PushEvent ------------------------------
(***************************************************************************)
(* One push-webhook request of server/webhook.go, from the repository     *)
(* filter to the issues and project activities it leaves in the store:    *)
(*   filterRepository -> filterFilesByCommitsDiff -> groupFileInfoByRepo   *)
(*   -> groupFileInfoByDatabase -> sortFilesBySchemaVersion               *)
(*   -> processFilesInProject (per group, in Go map order)                 *)
(* Every outbound call (VCS diff, file read, database lookup, task lookup, *)
(* issue and activity creation) may fail; the model takes each outcome as  *)
(* a nondeterministic choice.  Path templates are abstracted into the      *)
(* constant Kind, the result of ParseMigrationInfo / ParseSchemaFileInfo.  *)
(***************************************************************************)
EXTENDS Naturals, Sequences, FiniteSets, SequencesExt, FileInfo

CONSTANTS
  Tokens,     \* webhook secrets a request proves (token or signature key)
  DBNames,    \* database names of migration info ("" = omitted)
  RepoConf,   \* per repository: filter attributes and project mode
  DBOf,       \* migrationInfo.Database of each file
  Version,    \* migrationInfo.Version, ordered as the code compares it
  ItemType    \* "added" or "modified"

ASSUME Repos # {} /\ Files # {}

VARIABLES
  pc,              \* "receive", "diff", "group", "file", "done"
  result,          \* "none", "ok", "bad request", "error", "forbidden"
  licensed,        \* FeatureMultiTenancy is enabled
  repoList,        \* filterRepository's result
  diffList,        \* paths GetDiffFileList returned
  infos,           \* files groupFileInfoByRepo kept
  groups,          \* (repository, database) groups not yet processed
  cur,             \* the group being processed
  queue,           \* its files still to process, in sorted order
  details,         \* files whose migration details are collected
  pending,         \* files with an ignored-file activity built
  createdInGroup,  \* an SDL issue was created in this group
  issues,          \* created issues, in creation order
  issueActivity,   \* issues with their "Created issue" activity
  ignoredActivity, \* files with a persisted "Ignored file" activity
  activityLost,    \* files whose ignored-file CreateActivity failed
  outcome          \* what processFilesInProject did with each file

vars == <<pc, result, licensed, repoList, diffList, infos, groups, cur,
          queue, details, pending, createdInGroup, issues, issueActivity,
          ignoredActivity, activityLost, outcome>>

Outcomes == {"none", "ignored", "prepared", "patched", "untouched",
             "skipped", "issue"}
Issue == [repo : Repos, db : DBNames, files : Seq(Files)]

-----------------------------------------------------------------------------
(* Repository resolution and file classification.                         *)

\* The trust check of the route's filter closure: POST /gitlab/:id compares
\* X-Gitlab-Token with the repository's secret; POST /github/:id runs
\* validateGitHubWebhookSignature256, which matches X-Hub-Signature-256 only
\* when the body's HMAC was taken under that secret, so a request's token is
\* the key its signature was made with.
TrustCheck(r, token) == token = RepoConf[r].secret

\* filterRepository with the route's filter closure.
Accepted(r, token) ==
  /\ ~RepoConf[r].archived
  /\ RepoConf[r].hasVCS
  /\ RepoConf[r].externalMatch
  /\ TrustCheck(r, token)
  /\ RepoConf[r].branchMatch

\* getFileInfo against the filtered repository list.
FileRepo(f) == RepoOf(repoList, f)

\* Variant of groupFileInfoByDatabase that ignores the database name.
GroupFilesByRepo(g) == {f \in infos : FileRepo(f) = g[1]}

\* groupFileInfoByRepo then groupFileInfoByDatabase.
GroupFiles(g) == {f \in infos : FileRepo(f) = g[1] /\ DBOf[f] = g[2]}

VersionsOf(s) == [i \in DOMAIN s |-> Version[s[i]]]

\* Variant of sortFilesBySchemaVersion with the comparison reversed.
SortedFilesDesc(S) ==
  {s \in SetToSeqs(S) : IsSorted(VersionsOf(s), LAMBDA a, b : a >= b)}

\* sortFilesBySchemaVersion: sort.Slice is not stable, so equal versions
\* may come out in any order.
SortedFiles(S) ==
  {s \in SetToSeqs(S) : IsSorted(VersionsOf(s), LAMBDA a, b : a <= b)}

\* cur before the first group is started.
NoGroup == <<"none", "">>

Tenant(r) == RepoConf[r].tenant
SDL(r) == RepoConf[r].sdl

-----------------------------------------------------------------------------
Init ==
  /\ pc = "receive"
  /\ result = "none"
  /\ licensed \in BOOLEAN
  /\ repoList = {}
  /\ diffList = {}
  /\ infos = {}
  /\ groups = {}
  /\ cur = NoGroup
  /\ queue = <<>>
  /\ details = <<>>
  /\ pending = {}
  /\ createdInGroup = FALSE
  /\ issues = <<>>
  /\ issueActivity = {}
  /\ ignoredActivity = {}
  /\ activityLost = {}
  /\ outcome = [f \in Files |-> "none"]

Finish(res) == pc' = "done" /\ result' = res

\* An unreadable or malformed body, or an event that is not a push, is
\* answered 400 before any repository is looked up (POST /gitlab/:id checks
\* object_kind, POST /github/:id the X-GitHub-Event header).
Rejected ==
  /\ pc = "receive"
  /\ Finish("bad request")
  /\ UNCHANGED <<licensed, repoList, diffList, infos, groups, cur, queue,
                 details, pending, createdInGroup, issues, issueActivity,
                 ignoredActivity, activityLost, outcome>>

\* POST /github/:id answers GitHub's ping event "OK" and does nothing else.
GitHubPing ==
  /\ pc = "receive"
  /\ Finish("ok")
  /\ UNCHANGED <<licensed, repoList, diffList, infos, groups, cur, queue,
                 details, pending, createdInGroup, issues, issueActivity,
                 ignoredActivity, activityLost, outcome>>

\* POST /gitlab/:id up to processPushEvent: an empty list answers "OK".
Receive ==
  /\ pc = "receive"
  /\ \E token \in Tokens :
       LET list == {r \in Repos : Accepted(r, token)}
       IN /\ repoList' = list
          /\ IF list = {} THEN Finish("ok") ELSE pc' = "diff" /\ UNCHANGED result
  /\ UNCHANGED <<licensed, diffList, infos, groups, cur, queue, details,
                 pending, createdInGroup, issues, issueActivity,
                 ignoredActivity, activityLost, outcome>>

\* filterRepository fails: FindRepository errors, no repository has the
\* webhook endpoint ID, (GitHub) the signature cannot be validated, or
\* isWebhookEventBranch fails: a ref without "refs/heads/", or a branch
\* filter that filepath.Match rejects with ErrBadPattern.
FilterFailed ==
  /\ pc = "receive"
  /\ Finish("error")
  /\ UNCHANGED <<licensed, repoList, diffList, infos, groups, cur, queue,
                 details, pending, createdInGroup, issues, issueActivity,
                 ignoredActivity, activityLost, outcome>>

\* filterFilesByCommitsDiff fails: processPushEvent returns the error.
DiffFailed ==
  /\ pc = "diff"
  /\ Finish("error")
  /\ UNCHANGED <<licensed, repoList, diffList, infos, groups, cur, queue,
                 details, pending, createdInGroup, issues, issueActivity,
                 ignoredActivity, activityLost, outcome>>

\* Variant that classifies every pushed file, whether in the diff or not.
FilterAndGroupAllFiles ==
  /\ pc = "diff"
  /\ \E diff \in SUBSET Files :
       LET kinfo == {f \in Files : Classified(repoList, f)}
       IN /\ diffList' = diff
          /\ infos' = kinfo
          /\ groups' = {<<FileRepo(f), DBOf[f]>> : f \in kinfo}
  /\ pc' = "group"
  /\ UNCHANGED <<result, licensed, repoList, cur, queue, details, pending,
                 createdInGroup, issues, issueActivity, ignoredActivity,
                 activityLost, outcome>>

\* filterFilesByCommitsDiff keeps the files in the diff; groupFileInfoByRepo
\* drops (with a log line) every file getFileInfo rejects.
FilterAndGroup ==
  /\ pc = "diff"
  /\ \E diff \in SUBSET Files :
       LET kinfo == {f \in diff : Classified(repoList, f)}
       IN /\ diffList' = diff
          /\ infos' = kinfo
          /\ groups' = {<<FileRepo(f), DBOf[f]>> : f \in kinfo}
  /\ pc' = "group"
  /\ UNCHANGED <<result, licensed, repoList, cur, queue, details, pending,
                 createdInGroup, issues, issueActivity, ignoredActivity,
                 activityLost, outcome>>

\* Go map iteration: all database groups of one repository are processed
\* before the next repository, in an unspecified order at both levels.
NextGroups ==
  LET sameRepo == {g \in groups : g[1] = cur[1]}
  IN IF sameRepo # {} THEN sameRepo ELSE groups

\* processFilesInProject rejects a tenant project without the license;
\* processPushEvent returns that error and skips every remaining group.
LicenseRejected ==
  /\ pc = "group"
  /\ \E g \in NextGroups : Tenant(g[1]) /\ ~licensed
  /\ Finish("forbidden")
  /\ UNCHANGED <<licensed, repoList, diffList, infos, groups, cur, queue,
                 details, pending, createdInGroup, issues, issueActivity,
                 ignoredActivity, activityLost, outcome>>

StartGroup ==
  /\ pc = "group"
  /\ \E g \in NextGroups :
       /\ Tenant(g[1]) => licensed
       /\ cur' = g
       /\ groups' = groups \ {g}
       /\ queue' \in SortedFiles(GroupFiles(g))
  /\ details' = <<>>
  /\ pending' = {}
  /\ createdInGroup' = FALSE
  /\ pc' = "file"
  /\ UNCHANGED <<result, licensed, repoList, diffList, infos, issues,
                 issueActivity, ignoredActivity, activityLost, outcome>>

AllGroupsDone ==
  /\ pc = "group"
  /\ groups = {}
  /\ Finish("ok")
  /\ UNCHANGED <<licensed, repoList, diffList, infos, groups, cur, queue,
                 details, pending, createdInGroup, issues, issueActivity,
                 ignoredActivity, activityLost, outcome>>

-----------------------------------------------------------------------------
(* processFilesInProject: one step per file of the sorted group.          *)

File == Head(queue)
Repo == cur[1]

\* The file leaves the queue with the given outcome.
Done(o) ==
  /\ queue' = Tail(queue)
  /\ outcome' = [outcome EXCEPT ![File] = o]

\* createIssueFromMigrationDetailList succeeded: the issue and its
\* "Created issue" project activity are both stored.
IssueStored(fs) ==
  /\ issues' = Append(issues, [repo |-> Repo, db |-> cur[2], files |-> fs])
  /\ issueActivity' = issueActivity \cup {Len(issues) + 1}

\* createIssueFromMigrationDetailList failed: createIssue returned an error,
\* or the issue was stored and CreateActivity then failed.  The error aborts
\* processFilesInProject and processPushEvent.
IssueFailed(fs) ==
  /\ \/ UNCHANGED issues
     \/ issues' = Append(issues, [repo |-> Repo, db |-> cur[2], files |-> fs])
  /\ Finish("error")
  /\ UNCHANGED <<issueActivity, queue, details, pending, createdInGroup,
                 outcome>>

IsSchema == Kind[File][Repo] = "schema"
IsMigration == Kind[File][Repo] = "migration"

\* A schema file of a non-SDL project, or one without a database name
\* (prepareIssueFromSDLFile), is passed over with a debug log only.
SchemaSkipped ==
  /\ pc = "file" /\ queue # <<>> /\ IsSchema
  /\ ~SDL(Repo) \/ DBOf[File] = ""
  /\ Done("skipped")
  /\ UNCHANGED <<pc, result, licensed, repoList, diffList, infos, groups,
                 cur, details, pending, createdInGroup, issues, issueActivity,
                 ignoredActivity, activityLost>>

SDLFile == pc = "file" /\ queue # <<>> /\ IsSchema /\ SDL(Repo)
           /\ DBOf[File] # ""

\* prepareIssueFromSDLFile: readFileContent failed, or (non-tenant)
\* findProjectDatabases failed; an ignored-file activity is built.
SDLFileIgnored ==
  /\ SDLFile
  /\ Done("ignored")
  /\ pending' = pending \cup {File}
  /\ UNCHANGED <<pc, result, licensed, repoList, diffList, infos, groups,
                 cur, details, createdInGroup, issues, issueActivity,
                 ignoredActivity, activityLost>>

\* One "[db] Alter schema" issue for the schema file.
SDLFileIssue ==
  /\ SDLFile
  /\ IssueStored(<<File>>)
  /\ Done("issue")
  /\ createdInGroup' = TRUE
  /\ UNCHANGED <<pc, result, licensed, repoList, diffList, infos, groups,
                 cur, details, pending, ignoredActivity, activityLost>>

SDLFileIssueFailed ==
  /\ SDLFile
  /\ IssueFailed(<<File>>)
  /\ UNCHANGED <<licensed, repoList, diffList, infos, groups, cur,
                 ignoredActivity, activityLost>>

\* prepareIssueFromFile fails: readFileContent, the YAML parse, a
\* findProjectDatabases call or (modified file) FindTask returned an error.
MigrationIgnored ==
  /\ pc = "file" /\ queue # <<>> /\ IsMigration
  /\ Done("ignored")
  /\ pending' = pending \cup {File}
  /\ UNCHANGED <<pc, result, licensed, repoList, diffList, infos, groups,
                 cur, details, createdInGroup, issues, issueActivity,
                 ignoredActivity, activityLost>>

\* Migration details for every target database: any tenant-mode file, and
\* an added file of a non-tenant project.
MigrationPrepared ==
  /\ pc = "file" /\ queue # <<>> /\ IsMigration
  /\ Tenant(Repo) \/ ItemType[File] = "added"
  /\ Done("prepared")
  /\ details' = Append(details, File)
  /\ UNCHANGED <<pc, result, licensed, repoList, diffList, infos, groups,
                 cur, pending, createdInGroup, issues, issueActivity,
                 ignoredActivity, activityLost>>

\* A tenant-mode YAML file whose database list is empty yields no migration
\* detail and no activity.
MigrationYAMLNoDatabase ==
  /\ pc = "file" /\ queue # <<>> /\ IsMigration
  /\ Tenant(Repo) /\ YAML[File]
  /\ Done("untouched")
  /\ UNCHANGED <<pc, result, licensed, repoList, diffList, infos, groups,
                 cur, details, pending, createdInGroup, issues, issueActivity,
                 ignoredActivity, activityLost>>

\* tryUpdateTasksFromModifiedFile: the statement of the one pending or
\* failed task with the file's version is patched; with no such task, more
\* than one, or a failed issue lookup or patch, nothing changes.
MigrationModified ==
  /\ pc = "file" /\ queue # <<>> /\ IsMigration
  /\ ~Tenant(Repo) /\ ItemType[File] = "modified"
  /\ \E o \in {"patched", "untouched"} : Done(o)
  /\ UNCHANGED <<pc, result, licensed, repoList, diffList, infos, groups,
                 cur, details, pending, createdInGroup, issues, issueActivity,
                 ignoredActivity, activityLost>>

\* processPushEvent persists the ignored-file activities of a group only
\* when the group created no issue; each CreateActivity may fail (logged).
PersistIgnored(created) ==
  IF created
  THEN UNCHANGED <<ignoredActivity, activityLost>>
  ELSE \E lost \in SUBSET pending :
         /\ ignoredActivity' = ignoredActivity \cup (pending \ lost)
         /\ activityLost' = activityLost \cup lost

\* End of the file loop with no migration detail collected.
GroupWithoutDetails ==
  /\ pc = "file" /\ queue = <<>> /\ details = <<>>
  /\ PersistIgnored(createdInGroup)
  /\ pc' = "group"
  /\ UNCHANGED <<result, licensed, repoList, diffList, infos, groups, cur,
                 queue, details, pending, createdInGroup, issues,
                 issueActivity, outcome>>

\* One issue for all migration files of the group, in sorted order.
GroupIssue ==
  /\ pc = "file" /\ queue = <<>> /\ details # <<>>
  /\ IssueStored(details)
  /\ PersistIgnored(TRUE)
  /\ pc' = "group"
  /\ UNCHANGED <<result, licensed, repoList, diffList, infos, groups, cur,
                 queue, details, pending, createdInGroup, outcome>>

GroupIssueFailed ==
  /\ pc = "file" /\ queue = <<>> /\ details # <<>>
  /\ IssueFailed(details)
  /\ UNCHANGED <<licensed, repoList, diffList, infos, groups, cur,
                 ignoredActivity, activityLost>>

\* The request has been answered.
Terminated == pc = "done" /\ UNCHANGED vars

Next ==
  \/ Rejected \/ GitHubPing \/ Receive \/ FilterFailed \/ DiffFailed \/ FilterAndGroup
  \/ LicenseRejected \/ StartGroup \/ AllGroupsDone
  \/ SchemaSkipped \/ SDLFileIgnored \/ SDLFileIssue \/ SDLFileIssueFailed
  \/ MigrationIgnored \/ MigrationPrepared \/ MigrationYAMLNoDatabase
  \/ MigrationModified
  \/ GroupWithoutDetails \/ GroupIssue \/ GroupIssueFailed
  \/ Terminated

Spec == Init /\ [][Next]_vars

-----------------------------------------------------------------------------
(* Properties.                                                             *)

TypeOK ==
  /\ pc \in {"receive", "diff", "group", "file", "done"}
  /\ result \in {"none", "ok", "bad request", "error", "forbidden"}
  /\ licensed \in BOOLEAN
  /\ repoList \subseteq Repos
  /\ diffList \subseteq Files /\ infos \subseteq diffList
  /\ groups \subseteq Repos \X DBNames
  /\ queue \in Seq(Files) /\ details \in Seq(Files)
  /\ pending \subseteq Files /\ createdInGroup \in BOOLEAN
  /\ issues \in Seq(Issue)
  /\ issueActivity \subseteq 1..Len(issues)
  /\ ignoredActivity \subseteq Files /\ activityLost \subseteq Files
  /\ outcome \in [Files -> Outcomes]

\* processFilesInProject is called once per (repository, database) group:
\* every file of an issue belongs to the issue's project and database, and
\* no file contributes to two issues of one push event.
IssueTargetsOneGroup ==
  /\ \A i \in DOMAIN issues : \A f \in ToSet(issues[i].files) :
       /\ Kind[f][issues[i].repo] # "none"
       /\ DBOf[f] = issues[i].db
  /\ \A i, j \in DOMAIN issues :
       i # j => ToSet(issues[i].files) \cap ToSet(issues[j].files) = {}

\* sortFilesBySchemaVersion: the migration files of an issue are applied in
\* ascending schema-version order, whatever order the push listed them in.
IssueVersionsAscending ==
  \A i \in DOMAIN issues :
    \A k, l \in DOMAIN issues[i].files :
      k < l => Version[issues[i].files[k]] <= Version[issues[i].files[l]]

\* A push handled without error has dealt with exactly the files that are
\* in the commit diff and belong to exactly one linked repository, and every
\* file whose migration details were prepared is in an issue.
DiffFilesAccounted ==
  pc = "done" /\ result = "ok" /\ repoList # {} =>
    /\ {f \in Files : outcome[f] # "none"} =
         {f \in diffList : Cardinality({r \in repoList : Kind[f][r] # "none"}) = 1
                           /\ ~YAMLError(repoList, f)}
    /\ \A f \in Files : outcome[f] = "prepared" =>
         \E i \in DOMAIN issues : f \in ToSet(issues[i].files)

=============================================================================
