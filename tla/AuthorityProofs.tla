-------------------------- MODULE AuthorityProofs --------------------------
(* Theorems about Sessions and Authority, for any users, sessions,         *)
(* requests and lifetimes.                                                 *)
EXTENDS Authority, TLAPS

(* What a request knows at the stage it has reached.                       *)
StageOK(q) ==
  /\ q.at \in {"password", "saveSession", "user", "act"} => q.user \in Users
  /\ q.at \in {"revoke", "session"} =>
       q.session \in SessionIds /\ sessions[q.session] # None
  /\ q.at = "idle" => q.session = None

AuthorityInv ==
  /\ AuthorityTypeOK
  /\ \A r \in Requests : StageOK(req[r])

-----------------------------------------------------------------------------
(* One step of a request: where a session or user it did not have before   *)
(* comes from, and what it passed the user look-up with.                   *)
Moves(r, q) ==
  /\ req' = [req EXCEPT ![r] = q]
  /\ UNCHANGED <<clock, disabled>>
  /\ q.session \in {None, req[r].session} \/ Live(q.session)
  /\ \/ q.user \in {None, req[r].user}
     \/ q.at = "password"
     \/ /\ q.at = "user"
        /\ \/ AccessGood(q.user)
           \/ \E s \in SessionIds : Live(s) /\ sessions[s].user = q.user
  /\ q.at \in {"password", "act"} => q.user \notin disabled
  /\ q.at = "saveSession" => req[r].at = "password" /\ q.user = req[r].user

Opens(r) ==
  \E s \in SessionIds :
    /\ sessions[s] = None
    /\ sessions' = [sessions EXCEPT ![s] = NewSession(req[r].user, req[r].now)]

Revokes(r) ==
  sessions' = [sessions EXCEPT ![req[r].session].revoked =
                 IF @ = None THEN clock ELSE @]

RequestStep(r) ==
  \/ Plain(r) /\ UNCHANGED authority
  \/ LoginAnswer(r)
  \/ BearerUser(r)
  \/ ActForUser(r)

LEMMA Fresh ==
  /\ Idle \in Request
  /\ Idle.user = None /\ Idle.session = None /\ Idle.at = "idle"
  BY DEF Idle, Request, Stages

LEMMA RowsOfSessions ==
  ASSUME AuthorityInv, NEW s \in SessionIds, sessions[s] # None
  PROVE  sessions[s] \in SessionRow
  BY DEF AuthorityInv, AuthorityTypeOK, TypeOK

LEMMA Moving ==
  ASSUME AuthorityInv, NEW r \in Requests, RequestStep(r)
  PROVE  \E q \in Request : Moves(r, q) /\ StageOK(q)
<1>0. req \in [Requests -> Request] /\ req[r] \in Request /\ StageOK(req[r])
      /\ clock \in Nat
  BY SessionsAssumption DEF AuthorityInv, AuthorityTypeOK, TypeOK
<1>1. CASE /\ req' = [req EXCEPT ![r] = Idle]
           /\ UNCHANGED <<clock, disabled>>
  BY <1>1, Fresh DEF Moves, StageOK
<1>2. CASE Abort(r)
  <2> DEFINE q == [Idle EXCEPT !.at = "failed"]
  <2>1. q \in Request /\ q.user = None /\ q.session = None /\ q.at = "failed"
    BY DEF Idle, Request, Stages
  <2>2. Moves(r, q) /\ StageOK(q)
    BY <1>2, <2>1 DEF Moves, StageOK, Abort
  <2> QED BY <2>1, <2>2
<1>3. CASE LoginUser(r)
  <2>1. PICK u \in Users \ disabled :
          req' = [req EXCEPT ![r] = [Idle EXCEPT !.at = "password", !.user = u]]
    BY <1>3 DEF LoginUser
  <2> DEFINE q == [Idle EXCEPT !.at = "password", !.user = u]
  <2>2. q \in Request /\ q.user = u /\ q.session = None /\ q.at = "password"
    BY DEF Idle, Request, Stages
  <2>3. Moves(r, q) /\ StageOK(q)
    BY <1>3, <2>1, <2>2 DEF Moves, StageOK, LoginUser
  <2> QED BY <2>2, <2>3
<1>4. CASE VerifyPassword(r)
  <2> DEFINE q == [req[r] EXCEPT !.at = "saveSession", !.now = clock]
  <2>1. req' = [req EXCEPT ![r] = q]
    BY <1>0, <1>4 DEF VerifyPassword, Request
  <2>2. q \in Request /\ q.user = req[r].user /\ q.session = req[r].session
        /\ q.at = "saveSession"
    BY <1>0 DEF Request, Stages
  <2>3. Moves(r, q) /\ StageOK(q)
    BY <1>0, <1>4, <2>1, <2>2 DEF Moves, StageOK, VerifyPassword
  <2> QED BY <2>2, <2>3
<1>5. CASE LogoutCSRF(r)
  <2>1. PICK s \in SessionIds : Live(s)
          /\ req' = [req EXCEPT ![r] = [Idle EXCEPT !.at = "revoke", !.session = s]]
    BY <1>5 DEF LogoutCSRF
  <2> DEFINE q == [Idle EXCEPT !.at = "revoke", !.session = s]
  <2>2. q \in Request /\ q.user = None /\ q.session = s /\ q.at = "revoke"
    BY DEF Idle, Request, Stages
  <2>3. Moves(r, q) /\ StageOK(q)
    BY <1>5, <2>1, <2>2 DEF Moves, StageOK, LogoutCSRF, Live
  <2> QED BY <2>2, <2>3
<1>6. CASE ConsentCSRF(r)
  <2>1. PICK s \in SessionIds : Live(s)
          /\ req' = [req EXCEPT ![r] = [Idle EXCEPT !.at = "session",
                                          !.session = s, !.csrf = TRUE]]
    BY <1>6 DEF ConsentCSRF
  <2> DEFINE q == [Idle EXCEPT !.at = "session", !.session = s, !.csrf = TRUE]
  <2>2. q \in Request /\ q.user = None /\ q.session = s /\ q.at = "session"
    BY DEF Idle, Request, Stages
  <2>3. Moves(r, q) /\ StageOK(q)
    BY <1>6, <2>1, <2>2 DEF Moves, StageOK, ConsentCSRF, Live
  <2> QED BY <2>2, <2>3
<1>7. CASE /\ ConsentSession(r)
           /\ Live(req[r].session)
  <2> DEFINE s == req[r].session
             q == [req[r] EXCEPT !.at = "user", !.user = sessions[s].user]
  <2>1. s \in SessionIds /\ sessions[s].user \in Users
    BY <1>0, <1>7, RowsOfSessions DEF StageOK, ConsentSession, SessionRow
  <2>2. req' = [req EXCEPT ![r] = q]
    BY <1>0, <1>7 DEF ConsentSession, Request
  <2>3. q \in Request /\ q.user = sessions[s].user /\ q.session = s /\ q.at = "user"
    BY <1>0, <2>1 DEF Request, Stages
  <2>4. Moves(r, q) /\ StageOK(q)
    BY <1>7, <2>1, <2>2, <2>3 DEF Moves, StageOK, ConsentSession
  <2> QED BY <2>3, <2>4
<1>8. CASE AuthorizeSession(r)
  <2>1. PICK s \in SessionIds : Live(s)
          /\ req' = [req EXCEPT ![r] = [Idle EXCEPT !.at = "user", !.session = s,
                                                    !.user = sessions[s].user]]
    BY <1>8 DEF AuthorizeSession
  <2> DEFINE q == [Idle EXCEPT !.at = "user", !.session = s,
                               !.user = sessions[s].user]
  <2>2. sessions[s].user \in Users
    BY <2>1, RowsOfSessions DEF Live, SessionRow
  <2>3. q \in Request /\ q.user = sessions[s].user /\ q.session = s /\ q.at = "user"
    BY <2>2 DEF Idle, Request, Stages
  <2>4. Moves(r, q) /\ StageOK(q)
    BY <1>8, <2>1, <2>2, <2>3 DEF Moves, StageOK, AuthorizeSession
  <2> QED BY <2>3, <2>4
<1>9. CASE BearerUser(r)
  <2>1. PICK u \in Users :
          req' = [req EXCEPT ![r] = [Idle EXCEPT !.at = "user", !.user = u]]
    BY <1>9 DEF BearerUser, PresentBearer
  <2> DEFINE q == [Idle EXCEPT !.at = "user", !.user = u]
  <2>2. q \in Request /\ q.user = u /\ q.session = None /\ q.at = "user"
    BY DEF Idle, Request, Stages
  <2>3. AccessGood(u)
    BY <1>0, <1>9, <2>1, <2>2 DEF BearerUser
  <2>4. Moves(r, q) /\ StageOK(q)
    BY <1>9, <2>1, <2>2, <2>3 DEF Moves, StageOK, BearerUser, PresentBearer
  <2> QED BY <2>2, <2>4
<1>10. CASE ReadUser(r) /\ req[r].user \notin disabled
  <2> DEFINE q == [req[r] EXCEPT !.at = "act"]
  <2>1. req' = [req EXCEPT ![r] = q]
    BY <1>0, <1>10 DEF ReadUser, Request
  <2>2. q \in Request /\ q.user = req[r].user /\ q.session = req[r].session
        /\ q.at = "act"
    BY <1>0 DEF Request, Stages
  <2>3. Moves(r, q) /\ StageOK(q)
    BY <1>0, <1>10, <2>1, <2>2 DEF Moves, StageOK, ReadUser
  <2> QED BY <2>2, <2>3
<1>11. CASE \/ RevokeSession(r)
            \/ ConsentSession(r) /\ ~Live(req[r].session)
            \/ ReadUser(r) /\ req[r].user \in disabled
            \/ Fail(r)
            \/ LoginAnswer(r)
            \/ ActForUser(r)
  BY <1>1, <1>11 DEF RevokeSession, ConsentSession, ReadUser, Fail, LoginAnswer,
                     SaveSession, ActForUser, Act, Finish
<1> QED BY <1>2, <1>3, <1>4, <1>5, <1>6, <1>7, <1>8, <1>9, <1>10, <1>11
        DEF RequestStep, Plain

-----------------------------------------------------------------------------
(* What a step does to the rows of the sessions, and to the two times.     *)

LEMMA RowSteps ==
  ASSUME AuthorityInv, NEW r \in Requests, RequestStep(r)
  PROVE  \/ UNCHANGED sessions
         \/ req[r].at = "saveSession" /\ Opens(r)
         \/ req[r].at = "revoke" /\ Revokes(r)
<1>1. CASE LoginAnswer(r)
  BY <1>1 DEF LoginAnswer, SaveSession, Opens
<1>2. CASE RevokeSession(r)
  BY <1>2 DEF RevokeSession, Revokes
<1> QED BY <1>1, <1>2
        DEF RequestStep, Plain, LoginUser, VerifyPassword, LogoutCSRF,
            ConsentCSRF, ConsentSession, AuthorizeSession, ReadUser, Abort,
            Fail, BearerUser, PresentBearer, ActForUser, Act

(* A row keeps its user and its time, and all of it once it is revoked; a  *)
(* new one is for the user of a login that saves it.                       *)
Kept(s) ==
  IF sessions[s] # None
  THEN /\ sessions'[s] # None
       /\ sessions'[s].user = sessions[s].user
       /\ sessions'[s].exp = sessions[s].exp
       /\ sessions[s].revoked # None => sessions'[s] = sessions[s]
  ELSE sessions'[s] # None =>
         \E r \in Requests :
           req[r].at = "saveSession" /\ sessions'[s].user = req[r].user

LEMMA SessionsKept ==
  ASSUME AuthorityInv, [AuthorityNext]_allVars
  PROVE  /\ sessions' \in [SessionIds -> SessionRow \cup {None}]
         /\ \A s \in SessionIds : Kept(s)
<1>0. sessions \in [SessionIds -> SessionRow \cup {None}] /\ clock \in Nat
      /\ None \notin SessionRow /\ None \notin Nat
  BY NoneAssumption, SessionsAssumption DEF AuthorityInv, AuthorityTypeOK, TypeOK
<1>1. CASE UNCHANGED sessions
  BY <1>0, <1>1 DEF Kept
<1>2. ASSUME NEW r \in Requests, RequestStep(r)
      PROVE  /\ sessions' \in [SessionIds -> SessionRow \cup {None}]
             /\ \A s \in SessionIds : Kept(s)
  <2>0. req[r] \in Request /\ StageOK(req[r])
    BY DEF AuthorityInv, AuthorityTypeOK, TypeOK
  <2>1. CASE req[r].at = "saveSession" /\ Opens(r)
    <3> DEFINE row == NewSession(req[r].user, req[r].now)
    <3>1. row \in SessionRow /\ row.user = req[r].user
      BY <2>0, <2>1, SessionsAssumption
         DEF StageOK, NewSession, SessionRow, Request
    <3>2. PICK s \in SessionIds :
            sessions[s] = None /\ sessions' = [sessions EXCEPT ![s] = row]
      BY <2>1 DEF Opens
    <3> HIDE DEF row
    <3> QED BY <1>0, <2>1, <3>1, <3>2 DEF Kept
  <2>2. CASE req[r].at = "revoke" /\ Revokes(r)
    <3> PICK s \in SessionIds, row \in SessionRow :
          /\ sessions[s] \in SessionRow
          /\ sessions' = [sessions EXCEPT ![s] = row]
          /\ row.user = sessions[s].user /\ row.exp = sessions[s].exp
          /\ sessions[s].revoked # None => row = sessions[s]
      <4> DEFINE o == req[r].session
                 old == sessions[o]
                 new == [old EXCEPT !.revoked = IF @ = None THEN clock ELSE @]
      <4>1. o \in SessionIds /\ old \in SessionRow
        BY <1>0, <2>0, <2>2 DEF StageOK
      <4>2. new \in SessionRow /\ new.user = old.user /\ new.exp = old.exp
        BY <1>0, <4>1 DEF SessionRow
      <4>3. old.revoked # None => new = old
        BY <4>1 DEF SessionRow
      <4>4. sessions' = [sessions EXCEPT ![o] = new]
        BY <1>0, <2>2, <4>1 DEF Revokes
      <4> HIDE DEF new
      <4> QED BY <4>1, <4>2, <4>3, <4>4
    <3>1. sessions'[s] = row /\ row # None /\ sessions[s] # None
      BY <1>0
    <3>2. \A t \in SessionIds \ {s} : sessions'[t] = sessions[t]
      BY <1>0
    <3>3. Kept(s)
      BY <3>1 DEF Kept
    <3>4. ASSUME NEW t \in SessionIds, t # s PROVE Kept(t)
      BY <3>2, <3>4 DEF Kept
    <3>5. sessions' \in [SessionIds -> SessionRow \cup {None}]
      BY <1>0
    <3> QED BY <3>3, <3>4, <3>5
  <2> QED BY <1>1, <1>2, <2>1, <2>2, RowSteps
<1>3. ASSUME NEW u \in Users, Redeem(u) \/ SetDisabled(u)
      PROVE  UNCHANGED sessions
  BY <1>3 DEF Redeem, SetDisabled, vars
<1>4. CASE Tick \/ UNCHANGED allVars
  BY <1>1, <1>4 DEF Tick, allVars, vars
<1> QED BY <1>1, <1>2, <1>3, <1>4 DEF AuthorityNext, RequestStep

LEMMA LaterTimes ==
  ASSUME NEW f \in [Users -> Nat], NEW u, NEW t \in Nat
  PROVE  /\ Later(f, u, t) \in [Users -> Nat]
         /\ \A v \in Users : v # u => Later(f, u, t)[v] = f[v]
<1>1. ASSUME u \in Users PROVE Max({f[u], t}) \in Nat
  <2>1. \E m \in {f[u], t} : \A y \in {f[u], t} : m >= y
    BY <1>1
  <2> QED BY <1>1, <2>1 DEF Max
<1> QED BY <1>1 DEF Later

(* Only a login, an authorization or what the token endpoint redeems moves *)
(* a user's times on.                                                      *)
LEMMA TimeSteps ==
  ASSUME AuthorityInv, [AuthorityNext]_allVars
  PROVE  /\ access' \in [Users -> Nat] /\ standing' \in [Users -> Nat]
         /\ \A u \in Users :
              \/ access'[u] = access[u] /\ standing'[u] = standing[u]
              \/ clock < standing[u]
              \/ \E r \in Requests :
                   req[r].user = u /\ req[r].at \in {"saveSession", "act"}
<1>0. /\ access \in [Users -> Nat] /\ standing \in [Users -> Nat] /\ clock \in Nat
      /\ \A r \in Requests : req[r].now \in Nat
  BY SessionsAssumption DEF AuthorityInv, AuthorityTypeOK, TypeOK, Request
<1>1. CASE UNCHANGED authority
  BY <1>0, <1>1 DEF authority
<1>2. ASSUME NEW r \in Requests, LoginAnswer(r)
      PROVE  /\ access' \in [Users -> Nat] /\ UNCHANGED standing
             /\ req[r].at = "saveSession"
             /\ \A u \in Users : u # req[r].user => access'[u] = access[u]
  <2>1. req[r].now + AccessTTL \in Nat
    BY <1>0, AuthorityAssumption
  <2> QED BY <1>0, <1>2, <2>1, LaterTimes DEF LoginAnswer, SaveSession
<1>3. ASSUME NEW r \in Requests, ActForUser(r)
      PROVE  /\ standing' \in [Users -> Nat] /\ UNCHANGED access
             /\ req[r].at = "act"
             /\ \A u \in Users : u # req[r].user => standing'[u] = standing[u]
  <2>1. clock + CodeTTL + 1 \in Nat
    BY <1>0, AuthorityAssumption
  <2> QED BY <1>0, <1>3, <2>1, LaterTimes DEF ActForUser, Act
<1>4. ASSUME NEW u \in Users, Redeem(u)
      PROVE  /\ access' \in [Users -> Nat] /\ standing' \in [Users -> Nat]
             /\ clock < standing[u]
             /\ \A v \in Users : v # u =>
                  access'[v] = access[v] /\ standing'[v] = standing[v]
  <2>1. clock + AccessTTL \in Nat /\ clock + RefreshTTL + 1 \in Nat
    BY <1>0, AuthorityAssumption
  <2> QED BY <1>0, <1>4, <2>1, LaterTimes DEF Redeem, StandingGood
<1>5. CASE UNCHANGED allVars
  BY <1>1, <1>5 DEF allVars
<1>6. CASE \E r \in Requests : LoginAnswer(r)
  BY <1>0, <1>2, <1>6
<1>7. CASE \E r \in Requests : ActForUser(r)
  BY <1>0, <1>3, <1>7
<1>8. CASE \E u \in Users : Redeem(u)
  BY <1>0, <1>4, <1>8
<1>9. ASSUME NEW r \in Requests, BearerUser(r) PROVE UNCHANGED authority
  BY <1>9 DEF BearerUser
<1> QED BY <1>1, <1>5, <1>6, <1>7, <1>8, <1>9 DEF AuthorityNext

-----------------------------------------------------------------------------
(* The inductive invariant.                                                *)

(* A step is one of a request, or leaves the requests alone.               *)
LEMMA Steps ==
  ASSUME AuthorityInv, [AuthorityNext]_allVars
  PROVE  \/ \E r \in Requests : \E q \in Request : Moves(r, q) /\ StageOK(q)
         \/ /\ UNCHANGED req
            /\ clock' \in 0..MaxClock /\ clock <= clock'
            /\ disabled' \subseteq Users
<1>0. clock \in 0..MaxClock /\ disabled \subseteq Users /\ MaxClock \in Nat
  BY SessionsAssumption DEF AuthorityInv, AuthorityTypeOK, TypeOK
<1>1. CASE UNCHANGED vars
  BY <1>0, <1>1 DEF vars
<1>2. CASE \E r \in Requests : RequestStep(r)
  BY <1>2, Moving
<1>3. ASSUME NEW u \in Users, SetDisabled(u)
      PROVE  /\ UNCHANGED <<req, clock>> /\ disabled' \subseteq Users
  BY <1>0, <1>3 DEF SetDisabled
<1>4. CASE Tick
  BY <1>0, <1>4 DEF Tick
<1>5. ASSUME NEW u \in Users, Redeem(u) PROVE UNCHANGED vars
  BY <1>5 DEF Redeem
<1>6. CASE UNCHANGED allVars
  BY <1>1, <1>6 DEF allVars
<1> QED BY <1>0, <1>1, <1>2, <1>3, <1>4, <1>5, <1>6 DEF AuthorityNext, RequestStep

LEMMA InvInit == AuthorityInit => AuthorityInv
<1> SUFFICES ASSUME AuthorityInit PROVE AuthorityInv
  OBVIOUS
<1>1. 0 \in 0..MaxClock /\ \A r \in Requests : req[r] = Idle
  BY SessionsAssumption DEF AuthorityInit, Init
<1> QED BY <1>1, Fresh
        DEF AuthorityInit, Init, AuthorityInv, AuthorityTypeOK, TypeOK, StageOK

LEMMA InvKept ==
  ASSUME AuthorityInv, [AuthorityNext]_allVars PROVE AuthorityInv'
<1>0. TypeOK /\ None \notin SessionRow
  BY NoneAssumption DEF AuthorityInv, AuthorityTypeOK
<1>1. ASSUME NEW q, StageOK(q) PROVE StageOK(q)'
  BY <1>1, SessionsKept DEF StageOK, Kept
<1>2. /\ clock' \in 0..MaxClock /\ disabled' \subseteq Users
      /\ req' \in [Requests -> Request]
      /\ \A r \in Requests : StageOK(req'[r])
  <2>1. ASSUME NEW r \in Requests, NEW q \in Request, Moves(r, q), StageOK(q)
        PROVE  <1>2!:
    BY <1>0, <2>1 DEF Moves, TypeOK, AuthorityInv
  <2> QED BY <1>0, <2>1, Steps DEF TypeOK, AuthorityInv
<1>3. \A r \in Requests : StageOK(req[r])'
  BY <1>1, <1>2
<1> QED BY <1>2, <1>3, SessionsKept, TimeSteps
        DEF AuthorityInv, AuthorityTypeOK, TypeOK

LEMMA Invariance == AuthoritySpec => []AuthorityInv
  BY InvInit, InvKept, PTL DEF AuthoritySpec

(* Rows, requests and times stay of their types.                           *)
THEOREM AuthorityTypes == AuthoritySpec => []AuthorityTypeOK
<1>1. AuthorityInv => AuthorityTypeOK
  BY DEF AuthorityInv
<1> QED BY <1>1, Invariance, PTL

-----------------------------------------------------------------------------
(* What ends.                                                              *)

LEMMA DeadIsNotLive ==
  ASSUME AuthorityInv, NEW s \in SessionIds, Dead(s) PROVE ~Live(s)
<1>1. sessions[s].exp \in Nat /\ clock \in Nat
  BY RowsOfSessions, SessionsAssumption
     DEF Dead, SessionRow, AuthorityInv, AuthorityTypeOK, TypeOK
<1> QED BY <1>1 DEF Dead, Live

LEMMA ClockNeverBack ==
  ASSUME AuthorityInv, [AuthorityNext]_allVars
  PROVE  clock \in Nat /\ clock' \in Nat /\ clock <= clock'
<1>1. clock \in Nat /\ clock' \in Nat
  BY InvKept, SessionsAssumption DEF AuthorityInv, AuthorityTypeOK, TypeOK
<1> QED BY <1>1, Steps DEF Moves

LEMMA DeadStaysDead ==
  ASSUME AuthorityInv, [AuthorityNext]_allVars, NEW s \in SessionIds, Dead(s)
  PROVE  Dead(s)'
<1>1. sessions[s].exp \in Nat
  BY RowsOfSessions DEF Dead, SessionRow
<1> QED BY <1>1, SessionsKept, ClockNeverBack DEF Dead, Kept

(* A logout is final, whatever other logouts are in flight, and a session  *)
(* that is over and out of every request's hands stays that way.           *)
THEOREM DeadIsQuiet == AuthoritySpec => DeadSessionQuiet
<1> DEFINE Quiet ==
             \A s \in SessionIds :
               /\ sessions[s] # None /\ sessions[s].revoked # None
                    => sessions'[s] = sessions[s]
               /\ Dead(s) /\ (\A r \in Requests : ~ActsOn(r, s))
                    => Dead(s)' /\ \A r \in Requests : ~ActsOn(r, s)'
<1>1. ASSUME AuthorityInv, [AuthorityNext]_allVars PROVE Quiet
  <2>0. ASSUME NEW s \in SessionIds, sessions[s] # None, sessions[s].revoked # None
        PROVE  sessions'[s] = sessions[s]
    BY <1>1, <2>0, SessionsKept DEF Kept
  <2> SUFFICES ASSUME NEW s \in SessionIds, Dead(s),
                      \A r \in Requests : ~ActsOn(r, s),
                      NEW r \in Requests
               PROVE  ~ActsOn(r, s)'
    BY <1>1, <2>0, DeadStaysDead
  <2>1. ASSUME NEW p \in Requests, NEW q \in Request, Moves(p, q), StageOK(q)
        PROVE  ~ActsOn(r, s)'
    <3>1. req'[r] = IF r = p THEN q ELSE req[r]
      BY <1>1, <2>1 DEF Moves, AuthorityInv, AuthorityTypeOK, TypeOK
    <3>2. r = p /\ q.session = s => req[r].session = s
      BY <1>1, <2>1, DeadIsNotLive, NoneAssumption DEF Moves
    <3>3. req[r].session = s => req[r].at = "idle" /\ s = None
      BY <1>1 DEF ActsOn, AuthorityInv, StageOK
    <3>4. s # None
      BY NoneAssumption
    <3> QED BY <3>1, <3>2, <3>3, <3>4 DEF ActsOn
  <2> QED BY <1>1, <2>1, Steps DEF ActsOn
<1>2. AuthorityInv /\ [AuthorityNext]_allVars => [Quiet]_vars
  BY <1>1
<1> QED BY <1>2, Invariance, PTL DEF AuthoritySpec, DeadSessionQuiet

LEMMA PowerNeedsLogin ==
  ASSUME AuthorityInv, [AuthorityNext]_allVars, NEW u \in Users,
         Powerless(u), ~LogsIn(u)
  PROVE  Powerless(u)'
<1>0. /\ access[u] \in Nat /\ standing[u] \in Nat
      /\ clock \in Nat /\ clock' \in Nat /\ clock <= clock'
  BY ClockNeverBack DEF AuthorityInv, AuthorityTypeOK
<1>1. access'[u] = access[u] /\ standing'[u] = standing[u]
  BY <1>0, TimeSteps DEF Powerless
<1>2. clock' >= access'[u] /\ clock' >= standing'[u]
  BY <1>0, <1>1 DEF Powerless
<1>3. ASSUME NEW s \in SessionIds, sessions'[s] # None, sessions'[s].user = u
      PROVE  Dead(s)'
  <2>1. Kept(s)
    BY SessionsKept
  <2>2. sessions[s] # None /\ sessions[s].user = u
    BY <1>3, <2>1 DEF Kept, Powerless
  <2> QED BY <2>2, DeadStaysDead DEF Powerless
<1>4. ASSUME NEW r \in Requests PROVE req'[r].user # u
  <2>1. ASSUME NEW p \in Requests, NEW q \in Request, Moves(p, q), StageOK(q)
        PROVE  req'[r].user # u
    <3>1. req'[r] = IF r = p THEN q ELSE req[r]
      BY <2>1 DEF Moves, AuthorityInv, AuthorityTypeOK, TypeOK
    <3>2. ~AccessGood(u)
      BY <1>0 DEF Powerless, AccessGood
    <3>3. \A s \in SessionIds : Live(s) => sessions[s].user # u
      BY DeadIsNotLive DEF Powerless, Live
    <3>4. u # None /\ req[r].user # u
      BY NoneAssumption DEF Powerless
    <3>5. r = p => ~(q.at = "password" /\ q.user = u)
      BY <3>1 DEF LogsIn
    <3> QED BY <2>1, <3>1, <3>2, <3>3, <3>4, <3>5 DEF Moves
  <2> QED BY <2>1, Steps DEF Powerless
<1> QED BY <1>2, <1>3, <1>4 DEF Powerless

(* Nobody who has lost everything acts again but by logging in.            *)
THEOREM NeedsLogin == AuthoritySpec => AuthorityNeedsLogin
<1> DEFINE Needs == \A u \in Users : Powerless(u) => Powerless(u)' \/ LogsIn(u)
<1>1. AuthorityInv /\ [AuthorityNext]_allVars => [Needs]_allVars
  BY PowerNeedsLogin
<1> QED BY <1>1, Invariance, PTL DEF AuthoritySpec, AuthorityNeedsLogin

(* So losing everything is for good: without another login no sequence of  *)
(* authorizations, consents, exchanges and refreshes, however long, gives  *)
(* a user anything back (authorizeUser, Exchange, Refresh).                *)
THEOREM PowerlessForGood ==
  ASSUME NEW u \in Users
  PROVE  AuthoritySpec =>
           [](Powerless(u) /\ [][~LogsIn(u)]_allVars => []Powerless(u))
<1>1. ASSUME Powerless(u), UNCHANGED allVars PROVE Powerless(u)'
  BY <1>1 DEF Powerless, Dead, allVars, vars, authority
<1>2. /\ AuthorityInv /\ [AuthorityNext]_allVars
      /\ Powerless(u) /\ [~LogsIn(u)]_allVars
      => Powerless(u)'
  BY <1>1, PowerNeedsLogin
<1> QED BY <1>2, Invariance, PTL DEF AuthoritySpec

-----------------------------------------------------------------------------
(* Nobody is past the look-up of a user's disabled flag.                   *)
NobodyPast(u) == \A r \in Requests : ~PastLookup(r, u)

LEMMA DisabledStep ==
  ASSUME AuthorityInv, [AuthorityNext]_allVars,
         NEW u \in disabled, NobodyPast(u)
  PROVE  /\ NobodyPast(u)'
         /\ \A s \in SessionIds :
              sessions[s] = None /\ sessions'[s] # None => sessions'[s].user # u
         /\ \/ clock < standing[u]
            \/ access'[u] = access[u] /\ standing'[u] = standing[u]
<1>0. u \in Users /\ access[u] \in Nat /\ standing[u] \in Nat
  BY DEF AuthorityInv, AuthorityTypeOK, TypeOK
<1>1. ASSUME NEW r \in Requests PROVE ~PastLookup(r, u)'
  <2>1. ASSUME NEW p \in Requests, NEW q \in Request, Moves(p, q), StageOK(q)
        PROVE  ~PastLookup(r, u)'
    <3>1. req'[r] = IF r = p THEN q ELSE req[r]
      BY <2>1 DEF Moves, AuthorityInv, AuthorityTypeOK, TypeOK
    <3> QED BY <2>1, <3>1 DEF Moves, NobodyPast, PastLookup
  <2> QED BY <2>1, Steps DEF NobodyPast, PastLookup
<1>2. ASSUME NEW s \in SessionIds, sessions[s] = None, sessions'[s] # None
      PROVE  sessions'[s].user # u
  BY <1>2, SessionsKept DEF Kept, NobodyPast, PastLookup
<1>3. \/ clock < standing[u]
      \/ access'[u] = access[u] /\ standing'[u] = standing[u]
  BY <1>0, TimeSteps DEF NobodyPast, PastLookup
<1> QED BY <1>1, <1>2, <1>3 DEF NobodyPast

(* A disabled user gains nothing but what the token endpoint makes of      *)
(* codes and refresh tokens from before.                                   *)
THEOREM NothingForDisabled == AuthoritySpec => DisabledGainsNothing
<1> DEFINE Nothing ==
             \A u \in disabled \cap disabled' :
               (\A r \in Requests : ~PastLookup(r, u)) =>
                 /\ \A r \in Requests : ~PastLookup(r, u)'
                 /\ \A s \in SessionIds :
                      sessions[s] = None /\ sessions'[s] # None
                        => sessions'[s].user # u
                 /\ Gains(u) => clock < standing[u]
<1>1. ASSUME AuthorityInv, [AuthorityNext]_allVars PROVE Nothing
  <2> SUFFICES ASSUME NEW u \in disabled, NobodyPast(u)
               PROVE  /\ \A r \in Requests : ~PastLookup(r, u)'
                      /\ \A s \in SessionIds :
                           sessions[s] = None /\ sessions'[s] # None
                             => sessions'[s].user # u
                      /\ Gains(u) => clock < standing[u]
    BY DEF NobodyPast
  <2>0. access[u] \in Nat /\ standing[u] \in Nat
    BY <1>1 DEF AuthorityInv, AuthorityTypeOK, TypeOK
  <2> QED BY <1>1, <2>0, DisabledStep DEF NobodyPast, Gains
<1>2. AuthorityInv /\ [AuthorityNext]_allVars => [Nothing]_allVars
  BY <1>1
<1> QED BY <1>2, Invariance, PTL DEF AuthoritySpec, DisabledGainsNothing

(* A disabled user's clients may go on refreshing.  Once they have let     *)
(* every code and refresh token expire, the user is out for as long as it  *)
(* is disabled: no access token is issued for it, and none of what may     *)
(* still be presented outlives the time it had then (Refresh, Exchange).   *)
LapsedAt(u, t) == NobodyPast(u) /\ clock >= standing[u] /\ access[u] = t
THEOREM DisabledRunsOut ==
  ASSUME NEW u \in Users, NEW t \in Nat
  PROVE  AuthoritySpec =>
           [](LapsedAt(u, t) /\ [](u \in disabled) => []LapsedAt(u, t))
<1>1. ASSUME AuthorityInv, [AuthorityNext]_allVars,
             LapsedAt(u, t), u \in disabled
      PROVE  LapsedAt(u, t)'
  <2>1. /\ standing[u] \in Nat /\ clock \in Nat /\ clock' \in Nat
        /\ clock <= clock'
    BY <1>1, ClockNeverBack DEF AuthorityInv, AuthorityTypeOK
  <2>2. /\ NobodyPast(u)'
        /\ access'[u] = access[u] /\ standing'[u] = standing[u]
    BY <1>1, <2>1, DisabledStep DEF LapsedAt
  <2> QED BY <1>1, <2>1, <2>2 DEF LapsedAt
<1> QED BY <1>1, Invariance, PTL DEF AuthoritySpec
=============================================================================
