--------------------------- MODULE RepositoryLink ---------------------------
(***************************************************************************)
(* POST and DELETE /project/:projectID/repository (server project routes, *)
(* src/unnamed/part_000).  All projects linked to one VCS repository (one  *)
(* web URL) are meant to share one VCS webhook: a create reuses the        *)
(* webhook of a repository row found by web URL, or creates a new one     *)
(* before storing its own row; a delete removes the row, then removes the *)
(* webhook if no row with that web URL is left.  Each request is a process *)
(* whose store and VCS calls are separate steps; with Concurrent = FALSE   *)
(* a request starts only when no other one is in flight.                   *)
(***************************************************************************)
EXTENDS Naturals, FiniteSets

CONSTANTS
  Projects,     \* project IDs
  URLs,         \* VCS repository web URLs
  Requests,     \* request IDs
  ReqProject,   \* project of each request
  ReqKind,      \* "create" or "delete"
  MaxHooks,     \* bound on webhooks created in a behaviour
  Concurrent    \* requests may overlap

ASSUME /\ ReqProject \in [Requests -> Projects]
       /\ ReqKind \in [Requests -> {"create", "delete"}]
       /\ MaxHooks \in Nat

\* A VCS webhook: the web URL it was created on and its creation number.
Hooks == URLs \X (1..MaxHooks)
NoHook == <<"none", 0>>
Link == {[url |-> h[1], hook |-> h] : h \in Hooks}
NoRepo == [url |-> "none", hook |-> NoHook]

VARIABLES
  repo,       \* repository row of each project (UNIQUE project_id)
  hooks,      \* webhooks that exist on the VCS
  made,       \* webhooks created so far
  pc,         \* control point of each request
  want,       \* web URL a create request links
  hookOf,     \* webhook a create request will store
  gone,       \* row a delete request read before deleting it
  stale       \* webhooks whose DeleteWebhook failed (logged only)

vars == <<repo, hooks, made, pc, want, hookOf, gone, stale>>

Linked(p) == repo[p] # NoRepo

\* FindRepository by web URL.
RowsWithURL(u) == {p \in Projects : Linked(p) /\ repo[p].url = u}

Init ==
  /\ repo = [p \in Projects |-> NoRepo]
  /\ hooks = {}
  /\ made = 0
  /\ pc = [r \in Requests |-> "idle"]
  /\ want = [r \in Requests |-> "none"]
  /\ hookOf = [r \in Requests |-> NoHook]
  /\ gone = [r \in Requests |-> NoRepo]
  /\ stale = {}

Goto(r, l) == pc' = [pc EXCEPT ![r] = l]

InFlight(r) == pc[r] \notin {"idle", "done"}

\* A request is received; unless requests overlap, only when none is open.
AllowStart(r) == Concurrent \/ \A s \in Requests : ~InFlight(s)

-----------------------------------------------------------------------------
(* POST /project/:projectID/repository                                     *)

CreateStart(r) ==
  /\ pc[r] = "idle" /\ ReqKind[r] = "create" /\ AllowStart(r)
  /\ \E u \in URLs : want' = [want EXCEPT ![r] = u]
  /\ Goto(r, "check")
  /\ UNCHANGED <<repo, hooks, made, hookOf, gone, stale>>

\* Malformed payload or template, missing project or VCS, branch not found
\* or branch lookup failed, FindRepository failed: an error, no change.
CreateRejected(r) ==
  /\ pc[r] = "check"
  /\ Goto(r, "done")
  /\ UNCHANGED <<repo, hooks, made, want, hookOf, gone, stale>>

\* Variant whose lookup ignores the web URL.
CreateFindAnyURL(r) ==
  /\ pc[r] = "check"
  /\ IF \E p \in Projects : Linked(p)
     THEN \E p \in {q \in Projects : Linked(q)} :
            /\ hookOf' = [hookOf EXCEPT ![r] = repo[p].hook]
            /\ Goto(r, "store")
     ELSE Goto(r, "hook") /\ UNCHANGED hookOf
  /\ UNCHANGED <<repo, hooks, made, want, gone, stale>>

\* FindRepository by web URL: reuse repositories[0]'s webhook, or go on to
\* create one.
CreateFind(r) ==
  /\ pc[r] = "check"
  /\ IF RowsWithURL(want[r]) # {}
     THEN \E p \in RowsWithURL(want[r]) :
            /\ hookOf' = [hookOf EXCEPT ![r] = repo[p].hook]
            /\ Goto(r, "store")
     ELSE Goto(r, "hook") /\ UNCHANGED hookOf
  /\ UNCHANGED <<repo, hooks, made, want, gone, stale>>

\* createVCSWebhook with a new endpoint ID and secret.
CreateHook(r) ==
  /\ pc[r] = "hook" /\ made < MaxHooks
  /\ LET h == <<want[r], made + 1>>
     IN /\ hooks' = hooks \cup {h}
        /\ hookOf' = [hookOf EXCEPT ![r] = h]
  /\ made' = made + 1
  /\ Goto(r, "store")
  /\ UNCHANGED <<repo, want, gone, stale>>

\* RandomString or createVCSWebhook failed.
CreateHookFailed(r) ==
  /\ pc[r] = "hook"
  /\ Goto(r, "done")
  /\ UNCHANGED <<repo, hooks, made, want, hookOf, gone, stale>>

\* CreateRepository: stored, or Conflict (the project already has a row),
\* or another store error; the webhook is left as it is on error.
CreateStore(r) ==
  /\ pc[r] = "store"
  /\ LET p == ReqProject[r]
     IN \/ /\ ~Linked(p)
           /\ repo' = [repo EXCEPT ![p] = [url |-> want[r], hook |-> hookOf[r]]]
        \/ UNCHANGED repo
  /\ Goto(r, "done")
  /\ UNCHANGED <<hooks, made, want, hookOf, gone, stale>>

-----------------------------------------------------------------------------
(* DELETE /project/:projectID/repository                                   *)

DeleteStart(r) ==
  /\ pc[r] = "idle" /\ ReqKind[r] = "delete" /\ AllowStart(r)
  /\ Goto(r, "find")
  /\ UNCHANGED <<repo, hooks, made, want, hookOf, gone, stale>>

\* FindRepository by project: no row is 404; the lookup or GetVCSByID may
\* fail.
DeleteFind(r) ==
  /\ pc[r] = "find"
  /\ LET p == ReqProject[r]
     IN \/ /\ Linked(p)
           /\ gone' = [gone EXCEPT ![r] = repo[p]]
           /\ Goto(r, "delete")
        \/ Goto(r, "done") /\ UNCHANGED gone
  /\ UNCHANGED <<repo, hooks, made, want, hookOf, stale>>

\* DeleteRepository removes the project's row, or fails.
DeleteRow(r) ==
  /\ pc[r] = "delete"
  /\ \/ repo' = [repo EXCEPT ![ReqProject[r]] = NoRepo] /\ Goto(r, "remain")
     \/ Goto(r, "done") /\ UNCHANGED repo
  /\ UNCHANGED <<hooks, made, want, hookOf, gone, stale>>

\* Variant that removes the webhook without looking for other rows.
DeleteFindRemainingSkip(r) ==
  /\ pc[r] = "remain"
  /\ Goto(r, "unhook")
  /\ UNCHANGED <<repo, hooks, made, want, hookOf, gone, stale>>

\* FindRepository by web URL: the webhook is removed only when no row with
\* the deleted row's web URL is left; the lookup may fail (HTTP 500 after
\* the row is gone).
DeleteFindRemaining(r) ==
  /\ pc[r] = "remain"
  /\ \/ RowsWithURL(gone[r].url) = {} /\ Goto(r, "unhook")
     \/ Goto(r, "done")
  /\ UNCHANGED <<repo, hooks, made, want, hookOf, gone, stale>>

\* DeleteWebhook; a failure is only logged and the request succeeds.
DeleteHook(r) ==
  /\ pc[r] = "unhook"
  /\ \/ hooks' = hooks \ {gone[r].hook} /\ UNCHANGED stale
     \/ stale' = stale \cup {gone[r].hook} /\ UNCHANGED hooks
  /\ Goto(r, "done")
  /\ UNCHANGED <<repo, made, want, hookOf, gone>>

\* Every request has been answered.
Terminated ==
  /\ \A r \in Requests : pc[r] = "done"
  /\ UNCHANGED vars

Next ==
  \/ \E r \in Requests :
       \/ CreateStart(r) \/ CreateRejected(r) \/ CreateFind(r)
       \/ CreateHook(r) \/ CreateHookFailed(r) \/ CreateStore(r)
       \/ DeleteStart(r) \/ DeleteFind(r) \/ DeleteRow(r)
       \/ DeleteFindRemaining(r) \/ DeleteHook(r)
  \/ Terminated

Spec == Init /\ [][Next]_vars

-----------------------------------------------------------------------------
(* Properties.                                                             *)

TypeOK ==
  /\ repo \in [Projects -> Link \cup {NoRepo}]
  /\ hooks \subseteq Hooks /\ stale \subseteq Hooks
  /\ made \in 0..MaxHooks
  /\ pc \in [Requests -> {"idle", "check", "hook", "store", "find", "delete",
                          "remain", "unhook", "done"}]
  /\ want \in [Requests -> URLs \cup {"none"}]
  /\ hookOf \in [Requests -> Hooks \cup {NoHook}]
  /\ gone \in [Requests -> Link \cup {NoRepo}]

\* A linked repository's webhook exists on the VCS: pushes to it reach the
\* endpoint.  Create reuses the webhook of a row it found by web URL; a
\* delete removes the webhook once it finds no row with that web URL.
LinkedHookLive ==
  \A p \in Projects : Linked(p) => repo[p].hook \in hooks

\* "For a particular VCS repo, all Bytebase projects share the same webhook"
\* (comment of the create handler): rows with one web URL have one webhook.
\* Nothing orders the lookup by web URL (line 285) against another create's
\* CreateRepository (312), so two creates on a new web URL can both find no
\* row and each create a webhook.
LinksShareWebhook ==
  \A p, q \in Projects :
    Linked(p) /\ Linked(q) /\ repo[p].url = repo[q].url =>
      repo[p].hook = repo[q].hook

=============================================================================
