------------------------------ MODULE MCJWTAuth ------------------------------
(***************************************************************************)
(* Two principals and one client that may sign in as either (a shared    *)
(* machine, or one person with two accounts).  The client may also send a *)
(* forged access token of u1 and a u1 access token signed by a server in  *)
(* another release mode.  Time units: refresh threshold 2, access token 3, *)
(* refresh token 5; the clock runs to 6, so a token of either kind can    *)
(* expire and be presented after it did.                                   *)
(***************************************************************************)
EXTENDS JWTAuth

MCForeign ==
  {[aud |-> AccessAud, sub |-> "u1", exp |-> 20, signed |-> FALSE],
   [aud |-> "bb.user.access.other-mode", sub |-> "u1", exp |-> 20,
    signed |-> TRUE]}
=============================================================================
