----------------------------- MODULE SyncSheet -----------------------------
(***************************************************************************)
(* POST /project/:projectID/sync-sheet (src/unnamed/part_000): every file *)
(* the VCS lists under the sheet path's directory is upserted as a sheet  *)
(* of the project, looked up by the sheet name parsed from its path.  The *)
(* handler checks project, repository and VCS, fetches the file list,    *)
(* then per file reads content, meta and last commit, resolves the        *)
(* database named by the path, looks the sheet up (GetSheet) and creates  *)
(* or patches it.  The first error ends the request; the sheets already   *)
(* written stay.  A sheet's statement is the file it was read from.       *)
(***************************************************************************)
EXTENDS Naturals, Sequences, FiniteSets

CONSTANTS
  Listings,    \* what FetchRepositoryFileList may return (the repository
               \* changes between syncs), each a sequence of paths
  SheetName,   \* sheet name parseSheetInfo takes from each path ("" = none)
  PathDB,      \* database FindDatabase and the environment match give a
               \* path that names ENV_NAME and DB_NAME, or NoDB
  NoDB,
  Tenant,      \* project.TenantMode != TenantModeDisabled
  Requests,    \* sync-sheet requests
  MaxSheets,   \* bound on sheet rows
  Concurrent   \* requests may overlap

Files == UNION {{l[i] : i \in DOMAIN l} : l \in Listings}
MaxList == CHOOSE n \in {Len(l) : l \in Listings} : \A l \in Listings : Len(l) <= n

ASSUME /\ SheetName \in [Files -> STRING]
       /\ DOMAIN PathDB = Files

Sheet == [name : STRING, stmt : Files, db : {PathDB[f] : f \in Files} \cup {NoDB}]

VARIABLES
  sheets,     \* sheet rows: id -> sheet
  list,       \* the file list each request fetched
  pc,         \* control point of each request
  idx,        \* position of the file being synced
  found,      \* the sheet id GetSheet returned (0 = nil)
  response    \* what each request answered

vars == <<sheets, list, pc, idx, found, response>>

Init ==
  /\ sheets = <<>>
  /\ list = [r \in Requests |-> <<>>]
  /\ pc = [r \in Requests |-> "idle"]
  /\ idx = [r \in Requests |-> 0]
  /\ found = [r \in Requests |-> 0]
  /\ response = [r \in Requests |-> "none"]

File(r) == list[r][idx[r]]

InFlight(r) == pc[r] \notin {"idle", "done"}

AllowStart == Concurrent \/ \A s \in Requests : ~InFlight(s)

\* The request answers and stops.
Respond(r, code) ==
  /\ pc' = [pc EXCEPT ![r] = "done"]
  /\ response' = [response EXCEPT ![r] = code]

\* databaseID: only when the project's tenant mode is not disabled.
DatabaseID(f) == IF Tenant THEN PathDB[f] ELSE NoDB

-----------------------------------------------------------------------------
\* Project, repository and VCS look-ups, and the file list fetch.
Start(r) ==
  /\ pc[r] = "idle" /\ AllowStart
  /\ pc' = [pc EXCEPT ![r] = "check"]
  /\ UNCHANGED <<sheets, list, idx, found, response>>

\* A bad project ID, project, repository or VCS missing or failing, a
\* project not in the VCS workflow, or FetchRepositoryFileList failing.
Rejected(r) ==
  /\ pc[r] = "check"
  /\ Respond(r, "error")
  /\ UNCHANGED <<sheets, list, idx, found>>

Listed(r) ==
  /\ pc[r] = "check"
  /\ \E l \in Listings : list' = [list EXCEPT ![r] = l]
  /\ idx' = [idx EXCEPT ![r] = 1]
  /\ pc' = [pc EXCEPT ![r] = "file"]
  /\ UNCHANGED <<sheets, found, response>>

\* The loop is over: 200.
SyncDone(r) ==
  /\ pc[r] = "file" /\ idx[r] > Len(list[r])
  /\ Respond(r, "ok")
  /\ UNCHANGED <<sheets, list, idx, found>>

\* parseSheetInfo yields no sheet name: 400.
EmptySheetName(r) ==
  /\ pc[r] = "file" /\ idx[r] <= Len(list[r])
  /\ SheetName[File(r)] = ""
  /\ Respond(r, "error")
  /\ UNCHANGED <<sheets, list, idx, found>>

\* ReadFileContent, ReadFileMeta, FetchCommitByID, the payload marshal,
\* FindDatabase or GetSheet failed: 500.
FileFailed(r) ==
  /\ pc[r] = "file" /\ idx[r] <= Len(list[r])
  /\ SheetName[File(r)] # ""
  /\ Respond(r, "error")
  /\ UNCHANGED <<sheets, list, idx, found>>

\* GetSheet by name, project, source and type.
FindSheet(r) ==
  /\ pc[r] = "file" /\ idx[r] <= Len(list[r])
  /\ SheetName[File(r)] # ""
  /\ LET ids == {i \in DOMAIN sheets : sheets[i].name = SheetName[File(r)]}
     IN found' = [found EXCEPT ![r] = IF ids = {} THEN 0
                                      ELSE CHOOSE i \in ids : TRUE]
  /\ pc' = [pc EXCEPT ![r] = "write"]
  /\ UNCHANGED <<sheets, list, idx, response>>

Next1(r) ==
  /\ idx' = [idx EXCEPT ![r] = @ + 1]
  /\ pc' = [pc EXCEPT ![r] = "file"]

\* Variant that always creates, never patching the sheet GetSheet found.
WriteSheetAlwaysCreate(r) ==
  /\ pc[r] = "write" /\ Len(sheets) < MaxSheets
  /\ sheets' = Append(sheets, [name |-> SheetName[File(r)], stmt |-> File(r),
                               db |-> DatabaseID(File(r))])
  /\ Next1(r)
  /\ UNCHANGED <<list, found, response>>

\* Variant of the patch that leaves the statement as it was.
WriteSheetNoStatement(r) ==
  /\ pc[r] = "write"
  /\ IF found[r] = 0
     THEN /\ Len(sheets) < MaxSheets
          /\ sheets' = Append(sheets, [name |-> SheetName[File(r)],
                                       stmt |-> File(r),
                                       db |-> DatabaseID(File(r))])
     ELSE sheets' = [sheets EXCEPT ![found[r]].db =
                       IF DatabaseID(File(r)) # NoDB THEN DatabaseID(File(r))
                       ELSE @]
  /\ Next1(r)
  /\ UNCHANGED <<list, found, response>>

\* CreateSheet when GetSheet found none, else PatchSheet: the statement is
\* replaced, the database only when databaseID is set.
WriteSheet(r) ==
  /\ pc[r] = "write"
  /\ IF found[r] = 0
     THEN /\ Len(sheets) < MaxSheets
          /\ sheets' = Append(sheets, [name |-> SheetName[File(r)],
                                       stmt |-> File(r),
                                       db |-> DatabaseID(File(r))])
     ELSE sheets' = [sheets EXCEPT ![found[r]].stmt = File(r),
                                   ![found[r]].db =
                       IF DatabaseID(File(r)) # NoDB THEN DatabaseID(File(r))
                       ELSE @]
  /\ Next1(r)
  /\ UNCHANGED <<list, found, response>>

\* CreateSheet or PatchSheet failed: 500.
WriteFailed(r) ==
  /\ pc[r] = "write"
  /\ Respond(r, "error")
  /\ UNCHANGED <<sheets, list, idx, found>>

Terminated == \A r \in Requests : pc[r] = "done" /\ UNCHANGED vars

Next ==
  \/ \E r \in Requests :
       \/ Start(r) \/ Rejected(r) \/ Listed(r) \/ SyncDone(r)
       \/ EmptySheetName(r) \/ FileFailed(r) \/ FindSheet(r)
       \/ WriteSheet(r) \/ WriteFailed(r)
  \/ Terminated

Spec == Init /\ [][Next]_vars

-----------------------------------------------------------------------------
(* Properties.                                                             *)

\* The last file of list l that carries sheet name n.
LastNamed(l, n) ==
  l[CHOOSE i \in DOMAIN l :
      /\ SheetName[l[i]] = n
      /\ \A j \in DOMAIN l : SheetName[l[j]] = n => j <= i]

\* GetSheet before CreateSheet: a project never holds two VCS sheets of one
\* name, however many syncs ran and wherever they failed.
SheetNamesUnique ==
  \A i, j \in DOMAIN sheets : i # j => sheets[i].name # sheets[j].name

\* A sync answers 200 only when every sheet name of the file list it
\* fetched has a sheet holding the last file of that name in list order
\* (files in different directories may share a name), whatever earlier
\* syncs of other repository contents left behind.
SyncedSheetsMatchList ==
  [][\A r \in Requests :
       SyncDone(r) =>
         \A f \in {list[r][i] : i \in DOMAIN list[r]} :
           \E i \in DOMAIN sheets :
             /\ sheets[i].name = SheetName[f]
             /\ sheets[i].stmt = LastNamed(list[r], SheetName[f])]_vars

=============================================================================
