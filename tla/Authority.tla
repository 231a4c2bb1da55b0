----------------------------- MODULE Authority -----------------------------
(***************************************************************************)
(* Sessions composed with the credentials that come of them.  A login      *)
(* answers with an access token, an authorization with a code; at the      *)
(* token endpoint a code or refresh token buys an access token and, with   *)
(* offline_access, a refresh token; and an access token of a user is       *)
(* enough to authorize again (internal/application/auth/service.go,        *)
(* internal/infrastructure/jwt).                                           *)
(*                                                                         *)
(* Access tokens are signed and not stored: no logout, block or disabled   *)
(* user ends one before its time, and neither the exchange of a code nor a *)
(* refresh reads the user.  So for each user only the time counts until    *)
(* which there may be an access token, and a code or refresh token, that   *)
(* is still good.  That each is spent once is TokenEndpoint's part; here   *)
(* the ones not spent may be all there are.                                *)
(***************************************************************************)
EXTENDS Sessions, FiniteSetsExt

CONSTANTS AccessTTL, CodeTTL, RefreshTTL

ASSUME AuthorityAssumption ==
  AccessTTL \in Nat /\ CodeTTL \in Nat /\ RefreshTTL \in Nat

VARIABLES
  access,   \* when the last access token of each user expires
  standing  \* the first reading at which no code or refresh token of the
            \* user is good any more

authority == <<access, standing>>
allVars == <<vars, authority>>

AuthorityTypeOK ==
  /\ TypeOK
  /\ access \in [Users -> Nat]
  /\ standing \in [Users -> Nat]

AuthorityInit ==
  /\ Init
  /\ access = [u \in Users |-> 0]
  /\ standing = [u \in Users |-> 0]

(* exp is compared with >=; the mutant takes any signed token.             *)
EverSigned(u) == access[u] > 0
AccessGood(u) == clock < access[u]

(* expires_at of codes and refresh tokens is compared with After.          *)
StandingGood(u) == clock < standing[u]

Later(f, u, t) == [f EXCEPT ![u] = Max({@, t})]

-----------------------------------------------------------------------------
(* Login signs for the time it read before it saved the session.           *)
LoginAnswer(r) ==
  /\ SaveSession(r)
  /\ access' = Later(access, req[r].user, req[r].now + AccessTTL)
  /\ UNCHANGED standing

BearerUser(r) ==
  /\ PresentBearer(r)
  /\ AccessGood(req'[r].user)
  /\ UNCHANGED authority

(* The rest of the handler: an authorization ends in a code, a consent,    *)
(* /auth/me or an administrator's call does not.                           *)
ActForUser(r) ==
  /\ Act(r)
  /\ \/ /\ ~req[r].csrf
        /\ standing' = Later(standing, req[r].user, clock + CodeTTL + 1)
     \/ UNCHANGED standing
  /\ UNCHANGED access

(* POST /oauth/token, as one step at the clock reading all its lifetimes   *)
(* count from: it reads neither user nor session.  newRefreshToken counts  *)
(* from now, not from the lifetime of the token it replaces.               *)
Redeem(u) ==
  /\ StandingGood(u)
  /\ access' = Later(access, u, clock + AccessTTL)
  /\ \/ standing' = Later(standing, u, clock + RefreshTTL + 1)
     \/ UNCHANGED standing
  /\ UNCHANGED vars

-----------------------------------------------------------------------------
(* The steps of Sessions that issue nothing.                               *)
Plain(r) ==
  \/ LoginUser(r)
  \/ VerifyPassword(r)
  \/ LogoutCSRF(r)
  \/ RevokeSession(r)
  \/ ConsentCSRF(r)
  \/ ConsentSession(r)
  \/ AuthorizeSession(r)
  \/ ReadUser(r)
  \/ Abort(r)
  \/ Fail(r)

AuthorityNext ==
  \/ \E r \in Requests :
       \/ Plain(r) /\ UNCHANGED authority
       \/ LoginAnswer(r)
       \/ BearerUser(r)
       \/ ActForUser(r)
  \/ \E u \in Users : Redeem(u) \/ (SetDisabled(u) /\ UNCHANGED authority)
  \/ Tick /\ UNCHANGED authority

AuthoritySpec == AuthorityInit /\ [][AuthorityNext]_allVars

(* A logout that has started keeps running.                                *)
FairAuthority ==
  /\ AuthoritySpec
  /\ \A r \in Requests :
       WF_allVars((RevokeSession(r) \/ Fail(r)) /\ UNCHANGED authority)

-----------------------------------------------------------------------------
(* Properties.                                                             *)

(* A user without a live session, a good access token, code or refresh     *)
(* token and a request in flight gets none of them but by logging in: no   *)
(* chain of authorizations, exchanges and refreshes outlives all of its    *)
(* links, whatever sessions and tokens are presented (authorizeUser,       *)
(* VerifyAccessToken, ExchangeAuthorizationCode, Refresh).                 *)
Powerless(u) ==
  /\ clock >= access[u]
  /\ clock >= standing[u]
  /\ \A s \in SessionIds : sessions[s] # None /\ sessions[s].user = u => Dead(s)
  /\ \A r \in Requests : req[r].user # u
LogsIn(u) == \E r \in Requests : req'[r].at = "password" /\ req'[r].user = u
AuthorityNeedsLogin ==
  [][\A u \in Users : Powerless(u) => Powerless(u)' \/ LogsIn(u)]_allVars

(* Once a user is disabled and the requests past their user look-up are    *)
(* over, nothing is done for the user until the user is enabled again, no  *)
(* session begins, and what the token endpoint still issues it issues for  *)
(* a code or refresh token from before: clients keep what they have by     *)
(* refreshing it and get no more (Login, authorizeUser with its callers'   *)
(* check, Me; Exchange and Refresh do not read the user).                  *)
Gains(u) == access'[u] > access[u] \/ standing'[u] > standing[u]
DisabledGainsNothing ==
  [][\A u \in disabled \cap disabled' :
       (\A r \in Requests : ~PastLookup(r, u)) =>
         /\ \A r \in Requests : ~PastLookup(r, u)'
         /\ \A s \in SessionIds :
              sessions[s] = None /\ sessions'[s] # None => sessions'[s].user # u
         /\ Gains(u) => clock < standing[u]]_allVars
=============================================================================
