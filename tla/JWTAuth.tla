------------------------------ MODULE JWTAuth ------------------------------
(***************************************************************************)
(* JWTMiddleware of server/activity.go and the token generation it uses.  *)
(* Signing in (GenerateTokensAndSetCookies) hands a client an access token *)
(* and a refresh token, each a JWT whose audience names its kind and the   *)
(* release mode, whose subject is the principal ID and whose expiry is the *)
(* issue time plus a duration.  Every request carries the access token    *)
(* (cookie or, on OpenAPI paths, Bearer header) and may carry the refresh *)
(* cookie; the middleware either rejects it, or serves it as the access   *)
(* token's subject, first issuing a fresh pair when the access token has  *)
(* expired or is about to.                                                 *)
(*                                                                         *)
(* A client is any HTTP client: it sends whichever tokens it has received *)
(* (a browser sends its current cookies; a script may send older ones),   *)
(* and Foreign tokens it did not get from this server: forgeries (bad     *)
(* signature, wrong kid or algorithm) and tokens of a server in another   *)
(* release mode that shares the secret.  A JWT string is the record of its *)
(* claims and whether its signature verifies under the server's key.     *)
(* Durations are in a common time unit, their order kept:                 *)
(* Threshold < AccessDuration < RefreshDuration.                           *)
(***************************************************************************)
EXTENDS Naturals, FiniteSets

CONSTANTS
  Users,            \* principal IDs (strings)
  Clients,          \* HTTP clients
  Foreign,          \* tokens every client may present without sign-in
  Threshold,        \* refreshThresholdDuration
  AccessDuration,   \* accessTokenDuration
  RefreshDuration,  \* refreshTokenDuration
  MaxClock,         \* last instant of a behaviour
  MaxIssued         \* bound on the tokens the server signs

\* fmt.Sprintf(accessTokenAudienceFmt / refreshTokenAudienceFmt, mode).
AccessAud == "bb.user.access"
RefreshAud == "bb.user.refresh"

Token == [aud : STRING, sub : STRING, exp : Nat, signed : BOOLEAN]

\* The absent cookie or header.
NoToken == [aud |-> "", sub |-> "", exp |-> 0, signed |-> FALSE]

ASSUME /\ Foreign \subseteq Token
       /\ Threshold < AccessDuration /\ AccessDuration < RefreshDuration

VARIABLES
  clock,    \* time.Now()
  issued,   \* tokens this server signed
  known,    \* tokens each client has received
  last      \* the latest request through the middleware: the answer, the
            \* principal stored in the context, the access token it was
            \* served on, the refresh token of a new pair, and when

vars == <<clock, issued, known, last>>

Init ==
  /\ clock = 0
  /\ issued = {}
  /\ known = [c \in Clients |-> {}]
  /\ last = [client |-> CHOOSE c \in Clients : TRUE, access |-> NoToken,
             refresh |-> NoToken, result |-> "none", principal |-> "",
             refreshed |-> FALSE, at |-> 0]

Tick ==
  /\ clock < MaxClock
  /\ clock' = clock + 1
  /\ UNCHANGED <<issued, known, last>>

-----------------------------------------------------------------------------
(* Token generation                                                        *)

\* generateToken: HS256 with kid v1, so the signature verifies.
GenerateToken(u, aud, duration) ==
  [aud |-> aud, sub |-> u, exp |-> clock + duration, signed |-> TRUE]

\* GenerateTokensAndSetCookies: a new access and refresh token for u, sent
\* to client c as the access-token and refresh-token cookies.
GenerateTokensAndSetCookies(c, u) ==
  LET pair == {GenerateToken(u, AccessAud, AccessDuration),
               GenerateToken(u, RefreshAud, RefreshDuration)}
  IN /\ Cardinality(issued) < MaxIssued
     /\ issued' = issued \cup pair
     /\ known' = [known EXCEPT ![c] = @ \cup pair]

\* A user signs in from client c (the auth routes, which call
\* GenerateTokensAndSetCookies).
Login(c, u) ==
  /\ GenerateTokensAndSetCookies(c, u)
  /\ UNCHANGED <<clock, last>>

-----------------------------------------------------------------------------
(* JWTMiddleware                                                           *)

\* jwt.ParseWithClaims: the validation errors of a token.  The key function
\* accepts HS256 with kid v1 only; the claims check fails once the expiry
\* time is not after now.
ParseErrors(t) ==
  (IF t.signed THEN {} ELSE {"signature"})
    \cup (IF clock < t.exp THEN {} ELSE {"expired"})

\* The tokens client c can put in a request: what it received, what it
\* did not, or nothing.
Presentable(c) == known[c] \cup Foreign \cup {NoToken}

\* Variant without the audience check of the access token.
DecideNoAudience(a, r) ==
  LET errs == ParseErrors(a)
      generate == a.exp - clock < Threshold \/ errs = {"expired"}
      refreshOK == r # NoToken /\ ParseErrors(r) = {} /\ r.aud = RefreshAud
  IN IF a = NoToken THEN "missing"
     ELSE IF errs \ {"expired"} # {} THEN "invalid"
     ELSE IF generate /\ refreshOK THEN "refreshed"
     ELSE IF generate /\ errs # {} THEN "refresh failed"
     ELSE "served"

\* Variant without the audience check of the refresh token.
DecideRefreshAnyAudience(a, r) ==
  LET errs == ParseErrors(a)
      generate == a.exp - clock < Threshold \/ errs = {"expired"}
      refreshOK == r # NoToken /\ ParseErrors(r) = {}
  IN IF a = NoToken THEN "missing"
     ELSE IF a.aud # AccessAud THEN "audience"
     ELSE IF errs \ {"expired"} # {} THEN "invalid"
     ELSE IF generate /\ refreshOK THEN "refreshed"
     ELSE IF generate /\ errs # {} THEN "refresh failed"
     ELSE "served"

\* Variant in which a failed refresh is only logged.
DecideRefreshFailureIgnored(a, r) ==
  LET errs == ParseErrors(a)
      generate == a.exp - clock < Threshold \/ errs = {"expired"}
      refreshOK == r # NoToken /\ ParseErrors(r) = {} /\ r.aud = RefreshAud
  IN IF a = NoToken THEN "missing"
     ELSE IF a.aud # AccessAud THEN "audience"
     ELSE IF errs \ {"expired"} # {} THEN "invalid"
     ELSE IF generate /\ refreshOK THEN "refreshed"
     ELSE "served"

\* The middleware's decision on access token a and refresh cookie r, the
\* principal store answering.  An expiry-only error is cleared and forces
\* the refresh; a refresh that fails rejects the request only when the
\* access token is not valid.
Decide(a, r) ==
  LET errs == ParseErrors(a)
      generate == a.exp - clock < Threshold \/ errs = {"expired"}
      refreshOK == r # NoToken /\ ParseErrors(r) = {} /\ r.aud = RefreshAud
  IN IF a = NoToken THEN "missing"
     ELSE IF a.aud # AccessAud THEN "audience"
     ELSE IF errs \ {"expired"} # {} THEN "invalid"
     ELSE IF generate /\ refreshOK THEN "refreshed"
     ELSE IF generate /\ errs # {} THEN "refresh failed"
     ELSE "served"

\* One request from client c through the middleware.  GetPrincipalByID
\* may fail (500) before any refresh; every other outcome is Decide's.
Middleware(c, a, r) ==
  LET d == Decide(a, r)
      stored(res, p, fresh) ==
        last' = [client |-> c, result |-> res, principal |-> p,
                 access |-> IF res = "served" THEN a ELSE NoToken,
                 refresh |-> IF fresh THEN r ELSE NoToken,
                 refreshed |-> fresh, at |-> clock]
  IN \/ /\ d \in {"served", "refreshed", "refresh failed"}
        /\ stored("store error", "", FALSE)
        /\ UNCHANGED <<issued, known>>
     \/ /\ d = "refreshed"
        /\ GenerateTokensAndSetCookies(c, a.sub)
        /\ stored("served", a.sub, TRUE)
     \/ /\ d = "served"
        /\ stored("served", a.sub, FALSE)
        /\ UNCHANGED <<issued, known>>
     \/ /\ d \notin {"served", "refreshed"}
        /\ stored(d, "", FALSE)
        /\ UNCHANGED <<issued, known>>

Serve(c) ==
  /\ \E a, r \in Presentable(c) : Middleware(c, a, r)
  /\ UNCHANGED clock

\* /auth, /actuator, GET /subscription and the OpenAPI SQL endpoint pass
\* without a token and without a principal.
Skipped(c) ==
  /\ last' = [client |-> c, access |-> NoToken, refresh |-> NoToken,
              result |-> "skipped", principal |-> "", refreshed |-> FALSE,
              at |-> clock]
  /\ UNCHANGED <<clock, issued, known>>

Next ==
  \/ Tick
  \/ \E c \in Clients, u \in Users : Login(c, u)
  \/ \E c \in Clients : Serve(c) \/ Skipped(c)

Spec == Init /\ [][Next]_vars

-----------------------------------------------------------------------------
(* Properties.                                                             *)

\* Only the access token decides who a request is: a request is served as
\* u only on an access-audience token for u that this server signed, never
\* on a refresh token, a forgery or a token of another release mode.
ServedOnlyOnAccessToken ==
  last.result = "served" =>
    /\ last.access \in issued
    /\ last.access.aud = AccessAud
    /\ last.principal = last.access.sub

\* The middleware signs a fresh pair only for a request that carried a
\* refresh token this server issued and that had not yet expired.
RefreshedOnlyOnRefreshToken ==
  last.refreshed =>
    /\ last.refresh \in issued
    /\ last.refresh.aud = RefreshAud
    /\ last.at < last.refresh.exp

\* An expired access token gets through only by way of a refresh: a served
\* request whose access token had expired is one that issued a new pair.
ExpiredAccessServedOnlyRefreshed ==
  last.result = "served" /\ last.at >= last.access.exp => last.refreshed

\* Holding an expired access token of u is not a session of u: the
\* middleware serves an expired access token (and signs a fresh pair for
\* its subject) only on a refresh token of the same principal.
SessionRenewedByItsOwnRefreshToken ==
  last.result = "served" /\ last.at >= last.access.exp =>
    last.refresh.sub = last.access.sub

=============================================================================
