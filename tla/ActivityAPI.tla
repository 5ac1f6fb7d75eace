----------------------------- MODULE ActivityAPI -----------------------------
(***************************************************************************)
(* The activity routes of server/activity.go behind JWTMiddleware: POST   *)
(* /activity creates an issue comment, GET /activity lists activities,    *)
(* PATCH /activity/:activityID changes one.  Each request first passes the *)
(* middleware (module JWTAuth); only a served request reaches the handler, *)
(* which reads the principal the middleware stored in the context.  An    *)
(* activity row keeps its type, creator, container (issue ID), comment   *)
(* and last updater; payloads, levels and list filters are left out.     *)
(***************************************************************************)
EXTENDS JWTAuth, Sequences

CONSTANTS
  Issues,          \* issue IDs GetIssueByID finds
  Containers,      \* container IDs a request may name, Issues among them
  Comments,        \* comment texts
  SystemRows,      \* activities the server recorded before (issue events)
  MaxActivities    \* bound on activity rows

CommentType == "bb.issue.comment.create"

ASSUME Issues \subseteq Containers

VARIABLES
  activities,  \* activity rows: ID -> row
  response     \* status the latest activity handler answered

allVars == <<vars, activities, response>>

ActivityInit ==
  /\ Init
  /\ activities = SystemRows
  /\ response = "none"

\* The middleware rejected the request; no handler runs.
Unserved ==
  /\ last'.result # "served"
  /\ response' = "none"
  /\ UNCHANGED activities

\* The handler answers without writing.
Answer(code) == response' = code /\ UNCHANGED activities

\* A request from client c carrying tokens a and r, served or rejected.
Through(c, a, r, handler) ==
  /\ Middleware(c, a, r)
  /\ UNCHANGED clock
  /\ \/ Unserved
     \/ last'.result = "served" /\ handler

-----------------------------------------------------------------------------
\* Variant that keeps the creator named in the request body.
PostActivityBodyCreator(c, a, r, type, container, creator, comment) ==
  Through(c, a, r,
    \/ Answer("400")
    \/ type # CommentType /\ Answer("400")
    \/ /\ type = CommentType
       /\ \/ Answer("500")
          \/ container \notin Issues /\ Answer("400")
          \/ /\ container \in Issues /\ Len(activities) < MaxActivities
             /\ activities' = Append(activities,
                  [type |-> type, creator |-> creator, container |-> container,
                   comment |-> comment, updater |-> creator])
             /\ response' = "200")

\* POST /activity: a malformed body is 400; only issue comments may be
\* created (400); the level is set to info and the creator to the context's
\* principal; GetIssueByID failing is 500, finding none 400;
\* ActivityManager.CreateActivity failing is 500.
PostActivity(c, a, r, type, container, creator, comment) ==
  Through(c, a, r,
    \/ Answer("400")
    \/ type # CommentType /\ Answer("400")
    \/ /\ type = CommentType
       /\ \/ Answer("500")
          \/ container \notin Issues /\ Answer("400")
          \/ /\ container \in Issues /\ Len(activities) < MaxActivities
             /\ activities' = Append(activities,
                  [type |-> type, creator |-> last'.principal,
                   container |-> container, comment |-> comment,
                   updater |-> last'.principal])
             /\ response' = "200")

\* GET /activity: a user, container or limit query parameter that is not a
\* number, or an unknown order, is 400; FindActivity failing is 500.
GetActivity(c, a, r) ==
  Through(c, a, r, Answer("400") \/ Answer("500") \/ Answer("200"))

\* PATCH /activity/:activityID: an ID that is not a number or a malformed
\* body is 400; PatchActivity answers NotFound (404) for an unknown ID, may
\* fail (500), and otherwise sets the comment and the updater.
PatchActivity(c, a, r, id, comment) ==
  Through(c, a, r,
    \/ Answer("400")
    \/ id \notin DOMAIN activities /\ Answer("404")
    \/ /\ id \in DOMAIN activities
       /\ \/ Answer("500")
          \/ /\ activities' = [activities EXCEPT ![id].comment = comment,
                                                 ![id].updater = last'.principal]
             /\ response' = "200")

ActivityNext ==
  \/ Tick /\ UNCHANGED <<activities, response>>
  \/ \E c \in Clients, u \in Users :
       Login(c, u) /\ UNCHANGED <<activities, response>>
  \/ \E c \in Clients : \E a, r \in Presentable(c) :
       \/ \E type \in {CommentType, "bb.issue.create"}, ct \in Containers,
             u \in Users, m \in Comments :
            PostActivity(c, a, r, type, ct, u, m)
       \/ GetActivity(c, a, r)
       \/ \E id \in 1..MaxActivities, m \in Comments :
            PatchActivity(c, a, r, id, m)

ActivitySpec == ActivityInit /\ [][ActivityNext]_allVars

-----------------------------------------------------------------------------
(* Properties.                                                             *)

\* A comment is written in its author's name: every row POST /activity adds
\* is an issue comment on an issue that exists, created by the principal
\* whose server-signed access token the request carried, whatever creator
\* the request body named.
CommentsByTheirAuthor ==
  [][Len(activities') > Len(activities) =>
       LET n == activities'[Len(activities')]
       IN /\ n.type = CommentType
          /\ n.container \in Issues
          /\ last'.access \in issued
          /\ n.creator = last'.access.sub]_allVars

=============================================================================
