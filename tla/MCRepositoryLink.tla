-------------------------- MODULE MCRepositoryLink --------------------------
(***************************************************************************)
(* Two projects and two VCS repositories.  Project p1 is linked, unlinked  *)
(* and linked again; p2 is linked and unlinked; each create picks either   *)
(* web URL, so rows share a webhook, a second create for a linked project *)
(* meets Conflict, and the last row of a web URL is deleted.               *)
(***************************************************************************)
EXTENDS RepositoryLink

MCProjects == {"p1", "p2"}
MCURLs == {"u1", "u2"}
MCRequests == {"c1", "c2", "c3", "d1", "d2"}
MCReqProject == [r \in MCRequests |-> IF r \in {"c2", "d2"} THEN "p2" ELSE "p1"]
MCReqKind == [r \in MCRequests |-> IF r \in {"d1", "d2"} THEN "delete" ELSE "create"]
=============================================================================
