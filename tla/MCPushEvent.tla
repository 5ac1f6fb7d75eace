---------------------------- MODULE MCPushEvent ----------------------------
(***************************************************************************)
(* A monorepo push seen by three repository links on one webhook endpoint: *)
(*   r1  non-tenant SDL project, base directory shared with r2's schema   *)
(*   r2  tenant-mode migration-based project                               *)
(*   r3  archived project (filtered out)                                   *)
(* Nine changed files cover every branch of getFileInfo (f9, a YAML DDL   *)
(* file of the tenant project, is the YAML error) and                     *)
(* processFilesInProject; which of them the commit diff keeps, the         *)
(* license, the request token and every outbound call's outcome are left   *)
(* open.                                                                   *)
(***************************************************************************)
EXTENDS PushEvent

MCRepos == {"r1", "r2", "r3"}
MCTokens == {"t1", "t2"}
MCFiles == {"f1", "f2", "f3", "f4", "f5", "f6", "f7", "f8", "f9"}
MCDBNames == {"", "d1", "d2"}

Conf(tenant, sdl, archived) ==
  [archived |-> archived, hasVCS |-> TRUE, externalMatch |-> TRUE,
   secret |-> "t1", branchMatch |-> TRUE, tenant |-> tenant, sdl |-> sdl]

MCRepoConf ==
  [r \in MCRepos |-> CASE r = "r1" -> Conf(FALSE, TRUE, FALSE)
                       [] r = "r2" -> Conf(TRUE, FALSE, FALSE)
                       [] r = "r3" -> Conf(FALSE, FALSE, TRUE)]

\* f7 sits where both r1's schema template and r2's file template match.
MigrationPairs == {<<"f1", "r1">>, <<"f2", "r1">>, <<"f4", "r1">>,
                   <<"f5", "r2">>, <<"f7", "r2">>, <<"f8", "r1">>, <<"f9", "r2">>,
                   <<"f1", "r3">>}
SchemaPairs == {<<"f3", "r1">>, <<"f6", "r2">>, <<"f7", "r1">>}

MCKind ==
  [f \in MCFiles |-> [r \in MCRepos |->
     IF <<f, r>> \in MigrationPairs THEN "migration"
     ELSE IF <<f, r>> \in SchemaPairs THEN "schema" ELSE "none"]]

MCDBOf == ("f1" :> "d1" @@ "f2" :> "d1" @@ "f3" :> "d1" @@ "f4" :> "d2"
           @@ "f5" :> "" @@ "f6" :> "" @@ "f7" :> "d1" @@ "f8" :> "d1" @@ "f9" :> "")
MCVersion == ("f1" :> 2 @@ "f2" :> 1 @@ "f3" :> 0 @@ "f4" :> 1
              @@ "f5" :> 1 @@ "f6" :> 0 @@ "f7" :> 1 @@ "f8" :> 2 @@ "f9" :> 2)
MCMigType == [f \in MCFiles |-> IF f \in {"f1", "f9"} THEN "Migrate" ELSE "Data"]
MCItemType == [f \in MCFiles |-> IF f = "f4" THEN "modified" ELSE "added"]
MCYAML == [f \in MCFiles |-> f \in {"f5", "f9"}]
=============================================================================
