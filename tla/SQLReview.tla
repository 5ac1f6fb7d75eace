------------------------------ MODULE SQLReview ------------------------------
(***************************************************************************)
(* POST /hook/sql-review/:id of server/webhook.go: the pull-request SQL    *)
(* review.  The handler filters the repositories, lists the pull request's *)
(* files and launches one goroutine per classified file (wg.Add before     *)
(* go).  Each goroutine runs sqlAdviceForFile and stores its advice in the *)
(* shared map sqlCheckAdvice without a lock.  After wg.Wait the handler    *)
(* formats the map (convertSQLAdviceToGitLabCIResult / ...GitHubAction...).*)
(* A map assignment is split into a begin and an end step so that two     *)
(* goroutines can be inside it at once, as in the code.                    *)
(***************************************************************************)
EXTENDS Naturals, Sequences, FiniteSets, SequencesExt, FileInfo

CONSTANTS
  Tokens,         \* X-SQL-Review-Token values a request may carry
  WorkspaceID,    \* the workspace ID, accepted as token in dev mode
  DevMode,        \* profile.Mode = ReleaseModeDev
  RepoConf,       \* per repository: filter attributes and project mode
  Deleted,        \* pull-request files that are deletions
  SortedFileList, \* Files in sort.Strings order
  Databases,      \* candidate databases
  CandidateDBs,   \* findProjectDatabases result of each file, in order
  HasPolicy,      \* the database's environment has a SQL review policy
  CheckResults    \* advice kinds a SQLReviewCheck run may return

ASSUME /\ ToSet(SortedFileList) = Files
       /\ \A f \in Files : CandidateDBs[f] \in Seq(Databases)

VARIABLES
  phase,       \* handler: "receive", "list", "spawn", "wait", "responded"
  response,    \* "none", "empty", "failed", "report"
  status,      \* aggregate status of the report
  repoList,    \* filterRepository's result
  toSpawn,     \* classified files not yet given a goroutine
  wg,          \* sync.WaitGroup counter
  gpc,         \* goroutine control point of each file
  idx,         \* index of the candidate database being tried
  advice,      \* advice list sqlAdviceForFile returned ({} = none)
  writing,     \* goroutines inside the sqlCheckAdvice assignment
  lost,        \* files whose map entry a concurrent write lost
  crashed,     \* Go runtime "concurrent map writes" fatal error
  adviceMap,   \* sqlCheckAdvice
  driverOpen   \* files holding an unclosed read-only database driver

vars == <<phase, response, status, repoList, toSpawn, wg, gpc, idx, advice,
          writing, lost, crashed, adviceMap, driverOpen>>

AdviceKinds == {"ok", "warn", "error"}   \* "ok" is advisor.Ok, code 0
GPCs == {"idle", "start", "db", "write", "writing", "exit", "done"}

-----------------------------------------------------------------------------
\* filterRepository with the SQL review filter closure.
Accepted(r, token) ==
  /\ ~RepoConf[r].archived
  /\ RepoConf[r].hasVCS
  /\ RepoConf[r].externalMatch
  /\ RepoConf[r].enableCI
  /\ RepoConf[r].urlPrefix
  /\ (token = WorkspaceID /\ DevMode) \/ token = RepoConf[r].secret

Tenant(f) == RepoConf[RepoOf(repoList, f)].tenant

\* Variant of the formatter step that lets a warning replace an error.
StatusStepNoGuard(s, a) ==
  CASE a = "error" -> "error"
    [] a = "warn"  -> "warn"
    [] OTHER       -> s

\* One advice of the formatter loop: an error always wins, a warning wins
\* unless an error was seen; code-0 advice is skipped.
StatusStep(s, a) ==
  CASE a = "error"                -> "error"
    [] a = "warn" /\ s # "error"  -> "warn"
    [] OTHER                      -> s

AdviceSeq(A) == SelectSeq(<<"ok", "warn", "error">>, LAMBDA a : a \in A)

\* The status both formatters compute over the files in sorted order.
ReportStatus(m) ==
  LET files == SelectSeq(SortedFileList, LAMBDA f : f \in DOMAIN m)
      fileStep(s, f) == FoldLeft(StatusStep, s, AdviceSeq(m[f]))
  IN FoldLeft(fileStep, "success", files)

-----------------------------------------------------------------------------
Init ==
  /\ phase = "receive"
  /\ response = "none"
  /\ status = "none"
  /\ repoList = {}
  /\ toSpawn = {}
  /\ wg = 0
  /\ gpc = [f \in Files |-> "idle"]
  /\ idx = [f \in Files |-> 1]
  /\ advice = [f \in Files |-> {}]
  /\ writing = {}
  /\ lost = {}
  /\ crashed = FALSE
  /\ adviceMap = <<>>
  /\ driverOpen = {}

Respond(res, st) == phase' = "responded" /\ response' = res /\ status' = st

HandlerVars == <<phase, response, status, repoList, toSpawn, wg>>
TaskVars == <<gpc, idx, advice, writing, lost, adviceMap, driverOpen>>

\* An empty repository list answers success with no content.
Receive ==
  /\ phase = "receive" /\ ~crashed
  /\ \E token \in Tokens :
       LET list == {r \in Repos : Accepted(r, token)}
       IN /\ repoList' = list
          /\ IF list = {} THEN Respond("empty", "success")
                          ELSE phase' = "list" /\ UNCHANGED <<response, status>>
  /\ UNCHANGED <<toSpawn, wg, crashed>>
  /\ UNCHANGED TaskVars

\* filterRepository fails: FindRepository errors or no repository has the
\* webhook endpoint ID.
FilterFailed ==
  /\ phase = "receive" /\ ~crashed
  /\ Respond("failed", "none")
  /\ UNCHANGED <<repoList, toSpawn, wg, crashed>>
  /\ UNCHANGED TaskVars

\* ListPullRequestFile fails: HTTP 500.
ListFailed ==
  /\ phase = "list" /\ ~crashed
  /\ Respond("failed", "none")
  /\ UNCHANGED <<repoList, toSpawn, wg, crashed>>
  /\ UNCHANGED TaskVars

\* Deleted files are dropped, then groupFileInfoByRepo classifies the rest.
ListFiles ==
  /\ phase = "list" /\ ~crashed
  /\ toSpawn' = {f \in Files \ Deleted : Classified(repoList, f)}
  /\ phase' = "spawn"
  /\ UNCHANGED <<response, status, repoList, wg, crashed>>
  /\ UNCHANGED TaskVars

\* Variant that launches a file's goroutine without taking it off the list.
SpawnKeep ==
  /\ phase = "spawn" /\ ~crashed
  /\ \E f \in toSpawn :
       /\ wg' = wg + 1
       /\ gpc' = [gpc EXCEPT ![f] = "start"]
  /\ UNCHANGED <<phase, response, status, repoList, toSpawn, crashed, idx,
                 advice, writing, lost, adviceMap, driverOpen>>

\* wg.Add(1); go func(file) ...
Spawn ==
  /\ phase = "spawn" /\ ~crashed
  /\ \E f \in toSpawn :
       /\ toSpawn' = toSpawn \ {f}
       /\ wg' = wg + 1
       /\ gpc' = [gpc EXCEPT ![f] = "start"]
  /\ UNCHANGED <<phase, response, status, repoList, crashed, idx, advice,
                 writing, lost, adviceMap, driverOpen>>

SpawnedAll ==
  /\ phase = "spawn" /\ toSpawn = {} /\ ~crashed
  /\ phase' = "wait"
  /\ UNCHANGED <<response, status, repoList, toSpawn, wg, crashed>>
  /\ UNCHANGED TaskVars

\* Variant without the wg.Wait barrier.
WaitReleasedNoBarrier == TRUE

\* wg.Wait returns once every goroutine has called wg.Done.
WaitReleased == wg = 0

\* wg.Wait, then the formatter of the first repository's VCS type.
Report ==
  /\ phase = "wait" /\ ~crashed
  /\ WaitReleased
  /\ Respond("report", ReportStatus(adviceMap))
  /\ UNCHANGED <<repoList, toSpawn, wg, crashed>>
  /\ UNCHANGED TaskVars

-----------------------------------------------------------------------------
(* sqlAdviceForFile and the goroutine around it, for file f.              *)

Goto(f, l) == gpc' = [gpc EXCEPT ![f] = l]

\* Return an advice list; the goroutine goes on to store it in the map.
ReturnAdvice(f, A) ==
  /\ advice' = [advice EXCEPT ![f] = A]
  /\ Goto(f, "write")

\* A tenant-mode project gets one "not supported" warning.
ReviewTenant(f) ==
  /\ gpc[f] = "start" /\ ~crashed /\ Tenant(f)
  /\ ReturnAdvice(f, {"warn"})
  /\ UNCHANGED <<idx, writing, lost, adviceMap, driverOpen>>
  /\ UNCHANGED <<HandlerVars, crashed>>

\* findProjectDatabases or ReadFileContent fails: the error is logged.
ReviewLookupFailed(f) ==
  /\ gpc[f] = "start" /\ ~crashed /\ ~Tenant(f)
  /\ Goto(f, "exit")
  /\ UNCHANGED <<idx, advice, writing, lost, adviceMap, driverOpen>>
  /\ UNCHANGED <<HandlerVars, crashed>>

ReviewStart(f) ==
  /\ gpc[f] = "start" /\ ~crashed /\ ~Tenant(f)
  /\ Goto(f, "db")
  /\ UNCHANGED <<idx, advice, writing, lost, adviceMap, driverOpen>>
  /\ UNCHANGED <<HandlerVars, crashed>>

CurrentDB(f) == CandidateDBs[f][idx[f]]

\* GetNormalSQLReviewPolicy returns NotFound: try the next database.
NoPolicyHere(f) ==
  /\ gpc[f] = "db" /\ ~crashed /\ idx[f] <= Len(CandidateDBs[f])
  /\ ~HasPolicy[CurrentDB(f)]
  /\ idx' = [idx EXCEPT ![f] = @ + 1]
  /\ UNCHANGED <<gpc, advice, writing, lost, adviceMap, driverOpen>>
  /\ UNCHANGED <<HandlerVars, crashed>>

\* The policy lookup fails otherwise, or ConvertToAdvisorDBType,
\* NewCatalog or GetReadOnlyDatabaseDriver fails: return the error.
CheckSetupFailed(f) ==
  /\ gpc[f] = "db" /\ ~crashed /\ idx[f] <= Len(CandidateDBs[f])
  /\ Goto(f, "exit")
  /\ UNCHANGED <<idx, advice, writing, lost, adviceMap, driverOpen>>
  /\ UNCHANGED <<HandlerVars, crashed>>

\* The driver is open and GetDBConnection fails: the function returns the
\* error before driver.Close.
ConnectionFailed(f) ==
  /\ gpc[f] = "db" /\ ~crashed /\ idx[f] <= Len(CandidateDBs[f])
  /\ HasPolicy[CurrentDB(f)]
  /\ driverOpen' = driverOpen \cup {f}
  /\ Goto(f, "exit")
  /\ UNCHANGED <<idx, advice, writing, lost, adviceMap>>
  /\ UNCHANGED <<HandlerVars, crashed>>

\* SQLReviewCheck runs against the first database with a policy, then
\* driver.Close; its error, or its advice, is returned.
RunCheck(f) ==
  /\ gpc[f] = "db" /\ ~crashed /\ idx[f] <= Len(CandidateDBs[f])
  /\ HasPolicy[CurrentDB(f)]
  /\ \/ Goto(f, "exit") /\ UNCHANGED advice
     \/ \E A \in CheckResults : ReturnAdvice(f, A)
  /\ UNCHANGED <<idx, writing, lost, adviceMap, driverOpen>>
  /\ UNCHANGED <<HandlerVars, crashed>>

\* No candidate database has a policy: one "policy not found" warning.
PolicyNotFound(f) ==
  /\ gpc[f] = "db" /\ ~crashed /\ idx[f] > Len(CandidateDBs[f])
  /\ ReturnAdvice(f, {"warn"})
  /\ UNCHANGED <<idx, writing, lost, adviceMap, driverOpen>>
  /\ UNCHANGED <<HandlerVars, crashed>>

\* sqlCheckAdvice[file] = adviceList starts.  A goroutine that finds
\* another one inside the assignment is a concurrent map write: the Go
\* runtime aborts the process if it notices, or the entry may be lost.
BeginMapWrite(f) ==
  /\ gpc[f] = "write" /\ ~crashed
  /\ writing' = writing \cup {f}
  /\ Goto(f, "writing")
  /\ \/ UNCHANGED <<crashed, lost>>
     \/ writing # {} /\ crashed' = TRUE /\ UNCHANGED lost
     \/ writing # {} /\ lost' = lost \cup {f} /\ UNCHANGED crashed
  /\ UNCHANGED <<idx, advice, adviceMap, driverOpen>>
  /\ UNCHANGED HandlerVars

EndMapWrite(f) ==
  /\ gpc[f] = "writing" /\ ~crashed
  /\ adviceMap' = IF f \in lost THEN adviceMap
                  ELSE [g \in DOMAIN adviceMap \cup {f} |->
                          IF g = f THEN advice[f] ELSE adviceMap[g]]
  /\ writing' = writing \ {f}
  /\ Goto(f, "exit")
  /\ UNCHANGED <<idx, advice, lost, driverOpen>>
  /\ UNCHANGED <<HandlerVars, crashed>>

\* Variant in which a return path skips wg.Done.
TaskDoneNoWgDone(f) ==
  /\ gpc[f] = "exit" /\ ~crashed
  /\ Goto(f, "done")
  /\ UNCHANGED <<phase, response, status, repoList, toSpawn, wg, crashed, idx,
                 advice, writing, lost, adviceMap, driverOpen>>

\* defer wg.Done()
TaskDone(f) ==
  /\ gpc[f] = "exit" /\ ~crashed
  /\ wg' = wg - 1
  /\ Goto(f, "done")
  /\ UNCHANGED <<phase, response, status, repoList, toSpawn, crashed, idx,
                 advice, writing, lost, adviceMap, driverOpen>>

\* One step of file f's goroutine.
Review(f) ==
  \/ ReviewTenant(f) \/ ReviewLookupFailed(f) \/ ReviewStart(f)
  \/ NoPolicyHere(f) \/ CheckSetupFailed(f) \/ ConnectionFailed(f)
  \/ RunCheck(f) \/ PolicyNotFound(f)
  \/ BeginMapWrite(f) \/ EndMapWrite(f) \/ TaskDone(f)

Next ==
  \/ Receive \/ FilterFailed \/ ListFailed \/ ListFiles \/ Spawn \/ SpawnedAll \/ Report
  \/ \E f \in Files : Review(f)

\* The handler and every goroutine keep running until they return: none of
\* them blocks except wg.Wait, and the Go scheduler runs runnable goroutines.
Fairness ==
  /\ WF_vars(Receive \/ FilterFailed \/ ListFailed \/ ListFiles \/ Spawn \/ SpawnedAll \/ Report)
  /\ \A f \in Files : WF_vars(Review(f))

Spec == Init /\ [][Next]_vars /\ Fairness

-----------------------------------------------------------------------------
(* Properties.                                                             *)

TypeOK ==
  /\ phase \in {"receive", "list", "spawn", "wait", "responded"}
  /\ response \in {"none", "empty", "failed", "report"}
  /\ status \in {"none", "success", "warn", "error"}
  /\ repoList \subseteq Repos /\ toSpawn \subseteq Files
  /\ wg \in 0..Cardinality(Files)
  /\ gpc \in [Files -> GPCs]
  /\ idx \in [Files -> Nat]
  /\ advice \in [Files -> SUBSET AdviceKinds]
  /\ writing \subseteq Files /\ lost \subseteq Files
  /\ crashed \in BOOLEAN
  /\ DOMAIN adviceMap \subseteq Files
  /\ \A f \in DOMAIN adviceMap : adviceMap[f] \in SUBSET AdviceKinds
  /\ driverOpen \subseteq Files

Worst(S) == IF "error" \in S THEN "error"
            ELSE IF "warn" \in S THEN "warn" ELSE "success"

\* The report is built after every file's review has finished: it holds
\* the advice of exactly the files whose review returned advice, less any
\* entry a concurrent map write lost.
ReportCoversReviews ==
  response = "report" =>
    /\ DOMAIN adviceMap =
         {f \in Files : gpc[f] # "idle" /\ advice[f] # {}} \ lost
    /\ \A f \in DOMAIN adviceMap : adviceMap[f] = advice[f]

\* The formatters' aggregate status is the most severe status of the
\* advice in the report, whatever order files and advice are visited in.
ReportStatusIsWorst ==
  response = "report" =>
    status = Worst(UNION {adviceMap[f] : f \in DOMAIN adviceMap})

\* Every request is answered unless the process dies: wg.Wait returns
\* because every goroutine, whatever path it takes, calls wg.Done.
Responds == <>(phase = "responded" \/ crashed)

\* No two goroutines assign to the sqlCheckAdvice map at the same time.
NoConcurrentMapWrite == Cardinality(writing) <= 1

\* The review fan-out as spec 5 schedules it: a file's goroutine shares
\* nothing with the others but the advice map, which no two of them write at
\* once, and the read-only driver it opens for a candidate database is
\* closed by the time the goroutine returns, whatever the check's outcome.
ReviewTasksIsolated ==
  /\ NoConcurrentMapWrite
  /\ \A f \in driverOpen : gpc[f] \notin {"exit", "done"}

=============================================================================
