---------------------------- MODULE SQLReviewCI ----------------------------
(***************************************************************************)
(* POST /project/:projectID/repository/:repositoryID/sql-review-ci         *)
(* (src/unnamed/part_000) with setupVCSSQLReviewCI: on the VCS it creates  *)
(* the branch bytebase-vcs-<unix seconds> from the branch filter, upserts *)
(* the SQL review secret, commits the CI files (GitHub: the action file;   *)
(* GitLab: .gitlab-ci.yml, then the SQL review CI file) and opens a pull  *)
(* request; only then does it store EnableSQLReviewCI on the repository.  *)
(* Every VCS and store call may fail, and the first failure ends the      *)
(* request.  Branch names are the second the request created them in.    *)
(***************************************************************************)
EXTENDS Integers, FiniteSets

CONSTANTS
  Requests,    \* setup requests (a user may retry after an error)
  Patches,     \* PATCH /project/:projectID/repository requests
  VCSType,     \* "github" or "gitlab"
  MaxClock,    \* last second of a behaviour
  Concurrent   \* requests may overlap

ASSUME VCSType \in {"github", "gitlab"} /\ MaxClock \in Nat

\* The files setupVCSSQLReviewCIForGitHub / ForGitLab commit.
CIFiles == IF VCSType = "github" THEN {"action"} ELSE {"gitlab-ci", "review-ci"}

Seconds == 0..MaxClock
NoBranch == -1

VARIABLES
  enabled,    \* repository.EnableSQLReviewCI
  clock,      \* time.Now().Unix()
  branches,   \* branches bytebase-vcs-<s> on the VCS
  committed,  \* <<branch, CI file>> pairs committed
  secret,     \* the SQL review secret is set on the VCS repository
  prs,        \* branches with an open setup pull request
  pc,         \* control point of each request
  branch,     \* the branch each request created
  ppc,        \* control point of each PATCH request
  want,       \* EnableSQLReviewCI in the PATCH body: "on", "off", "absent"
  seen        \* EnableSQLReviewCI of the repository the PATCH read

vars == <<enabled, clock, branches, committed, secret, prs, pc, branch,
          ppc, want, seen>>
setupVars == <<clock, branches, committed, secret, prs, pc, branch>>
patchVars == <<ppc, want, seen>>

Init ==
  /\ enabled = FALSE
  /\ clock = 0
  /\ branches = {}
  /\ committed = {}
  /\ secret = FALSE
  /\ prs = {}
  /\ pc = [r \in Requests |-> "idle"]
  /\ branch = [r \in Requests |-> NoBranch]
  /\ ppc = [p \in Patches |-> "idle"]
  /\ want = [p \in Patches |-> "absent"]
  /\ seen = [p \in Patches |-> FALSE]

Goto(r, l) == pc' = [pc EXCEPT ![r] = l]

InFlight(r) == pc[r] \notin {"idle", "done"}

Busy == (\E s \in Requests : InFlight(s)) \/ (\E p \in Patches : ppc[p] = "write")

AllowStart == Concurrent \/ ~Busy

\* Wall-clock time passes.
Tick ==
  /\ clock < MaxClock
  /\ clock' = clock + 1
  /\ UNCHANGED <<enabled, branches, committed, secret, prs, pc, branch>>
  /\ UNCHANGED patchVars

-----------------------------------------------------------------------------
Start(r) ==
  /\ pc[r] = "idle" /\ AllowStart
  /\ Goto(r, "check")
  /\ UNCHANGED <<enabled, clock, branches, committed, secret, prs, branch>>
  /\ UNCHANGED patchVars

\* Bad IDs, repository not found or lookup failed, archived project, or the
\* VCS SQL review feature not licensed.
Rejected(r) ==
  /\ pc[r] = "check"
  /\ Goto(r, "done")
  /\ UNCHANGED <<enabled, clock, branches, committed, secret, prs, branch>>
  /\ UNCHANGED patchVars

\* "SQL review CI is already enabled".
AlreadyEnabled(r) ==
  /\ pc[r] = "check" /\ enabled
  /\ Goto(r, "done")
  /\ UNCHANGED <<enabled, clock, branches, committed, secret, prs, branch>>
  /\ UNCHANGED patchVars

Proceed(r) ==
  /\ pc[r] = "check" /\ ~enabled
  /\ Goto(r, "branch")
  /\ UNCHANGED <<enabled, clock, branches, committed, secret, prs, branch>>
  /\ UNCHANGED patchVars

\* setupVCSSQLReviewBranch: GetBranch of the branch filter, then CreateBranch
\* named after the current second; a name taken in the same second, like
\* any other VCS error, fails the request.
CreateBranch(r) ==
  /\ pc[r] = "branch"
  /\ \/ /\ clock \notin branches
        /\ branches' = branches \cup {clock}
        /\ branch' = [branch EXCEPT ![r] = clock]
        /\ Goto(r, "secret")
     \/ Goto(r, "done") /\ UNCHANGED <<branches, branch>>
  /\ UNCHANGED <<enabled, clock, committed, secret, prs>>
  /\ UNCHANGED patchVars

\* UpsertEnvironmentVariable of the webhook secret.
UpsertSecret(r) ==
  /\ pc[r] = "secret"
  /\ \/ secret' = TRUE /\ Goto(r, "files")
     \/ Goto(r, "done") /\ UNCHANGED secret
  /\ UNCHANGED <<enabled, clock, branches, committed, prs, branch>>
  /\ UNCHANGED patchVars

\* The next CI file to commit on the request's branch.
Pending(r) == {f \in CIFiles : <<branch[r], f>> \notin committed}

\* Variant that opens the pull request after the first CI file.
CommitCIFileFirstOnly(r) ==
  /\ pc[r] = "files" /\ Pending(r) # {}
  /\ \/ \E f \in Pending(r) :
          /\ committed' = committed \cup {<<branch[r], f>>}
          /\ Goto(r, "pr")
     \/ Goto(r, "done") /\ UNCHANGED committed
  /\ UNCHANGED <<enabled, clock, branches, secret, prs, branch>>
  /\ UNCHANGED patchVars

\* GitHub: ReadFileMeta (any error ignored) and CreateFile.  GitLab:
\* createOrUpdateVCSSQLReviewFileForGitLab for .gitlab-ci.yml, then for
\* the SQL review CI file (ReadFileMeta, an error other than NotFound
\* fails; for .gitlab-ci.yml ReadFileContent and the YAML merge; then
\* OverwriteFile or CreateFile).  The GitLab order is fixed.
CommitCIFile(r) ==
  /\ pc[r] = "files" /\ Pending(r) # {}
  /\ LET f == IF "gitlab-ci" \in Pending(r) THEN "gitlab-ci"
              ELSE CHOOSE g \in Pending(r) : TRUE
     IN \/ /\ committed' = committed \cup {<<branch[r], f>>}
           /\ Goto(r, IF Pending(r) = {f} THEN "pr" ELSE "files")
        \/ Goto(r, "done") /\ UNCHANGED committed
  /\ UNCHANGED <<enabled, clock, branches, secret, prs, branch>>
  /\ UNCHANGED patchVars

\* CreatePullRequest from the branch into the branch filter.
CreatePullRequest(r) ==
  /\ pc[r] = "pr"
  /\ \/ prs' = prs \cup {branch[r]} /\ Goto(r, "patch")
     \/ Goto(r, "done") /\ UNCHANGED prs
  /\ UNCHANGED <<enabled, clock, branches, committed, secret, branch>>
  /\ UNCHANGED patchVars

\* PatchRepository with EnableSQLReviewCI; the response is the PR's URL.
PatchRepository(r) ==
  /\ pc[r] = "patch"
  /\ \/ enabled' = TRUE
     \/ UNCHANGED enabled
  /\ Goto(r, "done")
  /\ UNCHANGED <<clock, branches, committed, secret, prs, branch>>
  /\ UNCHANGED patchVars

-----------------------------------------------------------------------------
(* PATCH /project/:projectID/repository                                    *)

\* Body, project, templates, branch filter and VCS checks up to
\* FindRepository by project, which reads the repository row; any of them
\* may reject the request instead.
PatchRead(p) ==
  /\ ppc[p] = "idle" /\ AllowStart
  /\ \E w \in {"absent", "on", "off"} :
       \/ /\ want' = [want EXCEPT ![p] = w]
          /\ seen' = [seen EXCEPT ![p] = enabled]
          /\ ppc' = [ppc EXCEPT ![p] = "write"]
       \/ ppc' = [ppc EXCEPT ![p] = "done"] /\ UNCHANGED <<want, seen>>
  /\ UNCHANGED <<enabled, setupVars>>

\* Variant that stores the body's EnableSQLReviewCI as it is.
PatchWriteNoGuard(p) ==
  /\ ppc[p] = "write"
  /\ \/ enabled' = IF want[p] = "absent" THEN enabled ELSE want[p] = "on"
     \/ UNCHANGED enabled
  /\ ppc' = [ppc EXCEPT ![p] = "done"]
  /\ UNCHANGED <<want, seen, setupVars>>

\* "DO NOT enable the EnableSQLReviewCI field": a request to turn it on is
\* replaced by the value read from the row; PatchRepository writes only the
\* fields the patch carries, and may fail.
PatchWrite(p) ==
  /\ ppc[p] = "write"
  /\ LET v == IF want[p] = "on" /\ ~seen[p] THEN seen[p] ELSE want[p] = "on"
     IN \/ enabled' = IF want[p] = "absent" THEN enabled ELSE v
        \/ UNCHANGED enabled
  /\ ppc' = [ppc EXCEPT ![p] = "done"]
  /\ UNCHANGED <<want, seen, setupVars>>

Terminated ==
  /\ \A r \in Requests : pc[r] = "done"
  /\ \A p \in Patches : ppc[p] = "done"
  /\ UNCHANGED vars

Next ==
  \/ Tick
  \/ \E r \in Requests :
       \/ Start(r) \/ Rejected(r) \/ AlreadyEnabled(r) \/ Proceed(r)
       \/ CreateBranch(r) \/ UpsertSecret(r) \/ CommitCIFile(r)
       \/ CreatePullRequest(r) \/ PatchRepository(r)
  \/ \E p \in Patches : PatchRead(p) \/ PatchWrite(p)
  \/ Terminated

Spec == Init /\ [][Next]_vars

-----------------------------------------------------------------------------
(* Properties.                                                             *)

\* A setup pull request is opened only when its CI can run: the secret the
\* CI job sends is set and every CI file of the provider is committed on
\* its branch, whichever step of this or an earlier attempt failed.
PullRequestComplete ==
  \A b \in prs : secret /\ \A f \in CIFiles : <<b, f>> \in committed

\* EnableSQLReviewCI turns on only where a setup that opened its pull
\* request stores it: the PATCH route never enables it, whatever the body.
CIEnabledOnlyBySetup ==
  [][~enabled /\ enabled' =>
       \E r \in Requests : pc[r] = "patch" /\ branch[r] \in prs]_vars

\* The CI stays enabled until a user's PATCH turns it off.
CIDisabledOnlyByUser ==
  [][enabled /\ ~enabled' =>
       \E p \in Patches : ppc[p] = "write" /\ want[p] = "off"]_vars

=============================================================================
