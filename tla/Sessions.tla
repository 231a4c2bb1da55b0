------------------------------ MODULE Sessions ------------------------------
(***************************************************************************)
(* Who a request acts for: login sessions, their CSRF check, logout, and   *)
(* the user look-up in front of /oauth/authorize, /oauth/consent and the   *)
(* administration (internal/application/auth/service.go, handlers/auth.go, *)
(* handlers/oauth.go, handlers/admin_auth.go).  The look-ups are database  *)
(* calls of their own: sessions are revoked and users disabled between     *)
(* them.  "act" is the rest of the handler, which writes for the user it   *)
(* was given and looks at neither again.                                   *)
(*                                                                         *)
(* Here are the rows and the look-ups; Authority adds the access tokens,   *)
(* codes and refresh tokens that logins and authorizations lead to, and    *)
(* the specification of it all.  A request with neither session nor token  *)
(* is not started.                                                         *)
(***************************************************************************)
EXTENDS Naturals, FiniteSets

CONSTANTS
  Users,
  SessionIds,  \* ids idgen can return
  Requests,    \* requests the server can have in flight together
  SessionTTL,
  MaxClock,    \* bound: the last clock reading
  Faults,      \* a database call may fail or its context be cancelled
  None

ASSUME SessionsAssumption == SessionTTL \in Nat /\ MaxClock \in Nat

VARIABLES
  clock,     \* ports.Clock
  disabled,  \* users with disabled set
  sessions,  \* auth_sessions
  req        \* the requests in flight

vars == <<clock, disabled, sessions, req>>

SessionRow == [user : Users, exp : Nat, revoked : Nat \cup {None}]

ASSUME NoneAssumption == None \notin Users \cup SessionIds \cup SessionRow \cup Nat

Stages ==
  {"idle",
   "password", "saveSession",      \* Login
   "revoke",                       \* Logout
   "session",                      \* Consent, after ValidateCSRF
   "user", "act",                  \* Authorize, Consent, requireAdmin
   "failed"}                       \* a call failed, the handler gives up

Request ==
  [at : Stages, user : Users \cup {None}, session : SessionIds \cup {None},
   csrf : BOOLEAN, now : Nat]

Idle ==
  [at |-> "idle", user |-> None, session |-> None, csrf |-> FALSE, now |-> 0]

TypeOK ==
  /\ clock \in 0..MaxClock
  /\ disabled \subseteq Users
  /\ sessions \in [SessionIds -> SessionRow \cup {None}]
  /\ req \in [Requests -> Request]

Init ==
  /\ clock = 0
  /\ disabled = {}
  /\ sessions = [s \in SessionIds |-> None]
  /\ req = [r \in Requests |-> Idle]

Finish(r) == req' = [req EXCEPT ![r] = Idle]

Live(s) ==
  /\ sessions[s] # None
  /\ sessions[s].revoked = None
  /\ clock < sessions[s].exp

(* Bound: a login starts only when the model has a session id left for it. *)
SessionLeft ==
  Cardinality({r \in Requests : req[r].at \in {"password", "saveSession"}})
    < Cardinality({s \in SessionIds : sessions[s] = None})

-----------------------------------------------------------------------------
(* POST /auth/login: user, password, session.                              *)

LoginUser(r) ==
  /\ req[r].at = "idle"
  /\ SessionLeft
  /\ \E u \in Users \ disabled :
       req' = [req EXCEPT ![r] = [Idle EXCEPT !.at = "password", !.user = u]]
  /\ UNCHANGED <<clock, disabled, sessions>>

(* The slow hash comes between the user's row and the clock reading.  The  *)
(* last_login_at update is best effort and nothing reads it.               *)
VerifyPassword(r) ==
  /\ req[r].at = "password"
  /\ req' = [req EXCEPT ![r].at = "saveSession", ![r].now = clock]
  /\ UNCHANGED <<clock, disabled, sessions>>

(* The inserted row, and a mutant that counts the lifetime backwards.      *)
ExpiredSession(u, now) == [user |-> u, exp |-> now - SessionTTL, revoked |-> None]
NewSession(u, now) == [user |-> u, exp |-> now + SessionTTL, revoked |-> None]

SaveSession(r) ==
  /\ req[r].at = "saveSession"
  /\ \E s \in SessionIds :
       /\ sessions[s] = None
       /\ sessions' = [sessions EXCEPT ![s] = NewSession(req[r].user, req[r].now)]
  /\ Finish(r)
  /\ UNCHANGED <<clock, disabled>>

-----------------------------------------------------------------------------
(* POST /auth/logout and POST /oauth/consent start with ValidateCSRF.      *)

LogoutCSRF(r) ==
  /\ req[r].at = "idle"
  /\ \E s \in SessionIds :
       /\ Live(s)
       /\ req' = [req EXCEPT ![r] = [Idle EXCEPT !.at = "revoke", !.session = s]]
  /\ UNCHANGED <<clock, disabled, sessions>>

(* UPDATE ... WHERE revoked_at IS NULL.  The mutants ask for a session that *)
(* is still alive, and for nothing.                                        *)
RevokeLive(r) ==
  /\ req[r].at = "revoke"
  /\ sessions' = [sessions EXCEPT ![req[r].session].revoked =
                    IF Live(req[r].session) THEN clock ELSE @]
  /\ Finish(r)
  /\ UNCHANGED <<clock, disabled>>
RevokeAgain(r) ==
  /\ req[r].at = "revoke"
  /\ sessions' = [sessions EXCEPT ![req[r].session].revoked = clock]
  /\ Finish(r)
  /\ UNCHANGED <<clock, disabled>>
RevokeSession(r) ==
  /\ req[r].at = "revoke"
  /\ sessions' = [sessions EXCEPT ![req[r].session].revoked =
                    IF @ = None THEN clock ELSE @]
  /\ Finish(r)
  /\ UNCHANGED <<clock, disabled>>

ConsentCSRF(r) ==
  /\ req[r].at = "idle"
  /\ \E s \in SessionIds :
       /\ Live(s)
       /\ req' = [req EXCEPT ![r] = [Idle EXCEPT !.at = "session",
                                       !.session = s, !.csrf = TRUE]]
  /\ UNCHANGED <<clock, disabled, sessions>>

(* authorizeUser reads the session a second time.  A consent carries no    *)
(* access token to fall back on.                                           *)
ConsentSession(r) ==
  /\ req[r].at = "session"
  /\ LET s == req[r].session IN
     IF Live(s)
     THEN req' = [req EXCEPT ![r].at = "user", ![r].user = sessions[s].user]
     ELSE Finish(r)
  /\ UNCHANGED <<clock, disabled, sessions>>

(* GET /oauth/authorize: a live session, or else the access token.         *)
AuthorizeSession(r) ==
  /\ req[r].at = "idle"
  /\ \E s \in SessionIds :
       /\ Live(s)
       /\ req' = [req EXCEPT ![r] = [Idle EXCEPT !.at = "user", !.session = s,
                                                 !.user = sessions[s].user]]
  /\ UNCHANGED <<clock, disabled, sessions>>

(* The same without a live session, /auth/me and requireAdmin.             *)
PresentBearer(r) ==
  /\ req[r].at = "idle"
  /\ \E u \in Users :
       req' = [req EXCEPT ![r] = [Idle EXCEPT !.at = "user", !.user = u]]
  /\ UNCHANGED <<clock, disabled, sessions>>

(* The mutant forgets to look at disabled.                                 *)
AnyUser(r) ==
  /\ req[r].at = "user"
  /\ req' = [req EXCEPT ![r].at = "act"]
  /\ UNCHANGED <<clock, disabled, sessions>>
ReadUser(r) ==
  /\ req[r].at = "user"
  /\ IF req[r].user \notin disabled
     THEN req' = [req EXCEPT ![r].at = "act"]
     ELSE Finish(r)
  /\ UNCHANGED <<clock, disabled, sessions>>

Act(r) ==
  /\ req[r].at = "act"
  /\ Finish(r)
  /\ UNCHANGED <<clock, disabled, sessions>>

-----------------------------------------------------------------------------
(* A database error, a cancelled request context or a crash, at any call.  *)
Abort(r) ==
  /\ Faults
  /\ req[r].at \notin {"idle", "failed"}
  /\ req' = [req EXCEPT ![r] = [Idle EXCEPT !.at = "failed"]]
  /\ UNCHANGED <<clock, disabled, sessions>>

Fail(r) ==
  /\ req[r].at = "failed"
  /\ Finish(r)
  /\ UNCHANGED <<clock, disabled, sessions>>

Tick ==
  /\ clock < MaxClock
  /\ clock' = clock + 1
  /\ UNCHANGED <<disabled, sessions, req>>

(* An operator edits users.disabled.                                       *)
SetDisabled(u) ==
  /\ disabled' = IF u \in disabled THEN disabled \ {u} ELSE disabled \cup {u}
  /\ UNCHANGED <<clock, sessions, req>>

-----------------------------------------------------------------------------
(* Properties.                                                             *)

(* A logout is final: of logouts that race for one session the first one   *)
(* sets its time, and nothing that is in flight or comes later writes the  *)
(* row again.  Once a session is revoked or has expired and the requests   *)
(* that saw it alive are over, nothing acts on it either (GetSessionByID   *)
(* is asked by ValidateCSRF and again by authorizeUser).                   *)
Dead(s) ==
  sessions[s] # None /\ (sessions[s].revoked # None \/ clock >= sessions[s].exp)
ActsOn(r, s) == req[r].session = s /\ req[r].at # "idle"
DeadSessionQuiet ==
  [][\A s \in SessionIds :
       /\ sessions[s] # None /\ sessions[s].revoked # None
            => sessions'[s] = sessions[s]
       /\ Dead(s) /\ (\A r \in Requests : ~ActsOn(r, s))
            => Dead(s)' /\ \A r \in Requests : ~ActsOn(r, s)']_vars

(* The requests that no longer look whether their user is disabled.        *)
PastLookup(r, u) ==
  req[r].user = u /\ req[r].at \in {"password", "saveSession", "act"}

(* A logout that passed the CSRF check ends in a revoked session, though   *)
(* it may expire meanwhile, unless one of its calls fails.                 *)
LogoutTakesEffect ==
  \A r \in Requests, s \in SessionIds :
    req[r].at = "revoke" /\ req[r].session = s
      ~> \/ sessions[s] # None /\ sessions[s].revoked # None
         \/ req[r].at = "failed"
=============================================================================
