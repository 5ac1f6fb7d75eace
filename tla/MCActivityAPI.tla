---------------------------- MODULE MCActivityAPI ----------------------------
(***************************************************************************)
(* The activity routes for two principals on one client, as in MCJWTAuth: *)
(* the client may sign in as either, and may send a forged u1 access token *)
(* and a u1 access token of another release mode.  Issue i1 exists, i9   *)
(* does not; u1 created i1, which recorded one activity.                  *)
(***************************************************************************)
EXTENDS ActivityAPI

MCForeign ==
  {[aud |-> AccessAud, sub |-> "u1", exp |-> 20, signed |-> FALSE],
   [aud |-> "bb.user.access.other-mode", sub |-> "u1", exp |-> 20,
    signed |-> TRUE]}

MCSystemRows ==
  <<[type |-> "bb.issue.create", creator |-> "u1", container |-> "i1",
     comment |-> "", updater |-> "u1"]>>
=============================================================================
