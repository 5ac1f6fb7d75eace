---------------------------- MODULE MCSQLReview ----------------------------
(***************************************************************************)
(* A pull request of four files reviewed through two repository links:    *)
(*   r1  non-tenant project: f1 and f2 match it, f4 is a deleted file     *)
(*   r2  tenant-mode project: f3 matches it                                *)
(* f1's candidate databases are d1 (no policy) then d2 (policy), f2's only *)
(* d1, so the loop, the early returns and the "policy not found" warning   *)
(* are all reached, and three goroutines can reach the map assignment.     *)
(***************************************************************************)
EXTENDS SQLReview

MCRepos == {"r1", "r2"}
MCFiles == {"f1", "f2", "f3", "f4"}
MCTokens == {"w", "t2"}
MCDatabases == {"d1", "d2"}

Conf(tenant) ==
  [archived |-> FALSE, hasVCS |-> TRUE, externalMatch |-> TRUE,
   enableCI |-> TRUE, urlPrefix |-> TRUE, secret |-> "t1", tenant |-> tenant]

MCRepoConf == [r \in MCRepos |-> Conf(r = "r2")]

MCKind ==
  [f \in MCFiles |-> [r \in MCRepos |->
     IF (f = "f3") = (r = "r2") THEN "migration" ELSE "none"]]

MCMigType == [f \in MCFiles |-> "Data"]
MCYAML == [f \in MCFiles |-> FALSE]
MCSortedFileList == <<"f1", "f2", "f3", "f4">>
MCCandidateDBs == ("f1" :> <<"d1", "d2">> @@ "f2" :> <<"d1">>
                   @@ "f3" :> <<"d2">> @@ "f4" :> <<"d2">>)
MCHasPolicy == [d \in MCDatabases |-> d = "d2"]
MCCheckResults == {{"ok"}, {"warn"}, {"error"}, {"warn", "error"}}
=============================================================================
