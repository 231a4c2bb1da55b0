---------------------------- MODULE Registration ----------------------------
(***************************************************************************)
(* Self-registration with e-mail verification:                             *)
(* internal/application/registration/service.go over the rows of           *)
(* email_verifications and users.  A request runs one database call at a   *)
(* time; between two calls other requests run and the clock may advance    *)
(* (the password hash between CountPending and the clock reading is slow). *)
(*                                                                         *)
(* A request its first call would reject changes nothing and is not        *)
(* started.  Any code may be presented at any time: the right one comes    *)
(* from the mail, which may be lost after the row was saved.  A password   *)
(* is told apart by the row that holds its hash.                           *)
(***************************************************************************)
EXTENDS Naturals, FiniteSets

CONSTANTS
  Emails,
  Rows,        \* email_verifications ids idgen can return
  Codes,       \* what generateCode returns: one code in development mode
  Requests,    \* requests the server can have in flight together
  MaxPending,  \* maxPendingCodes
  CodeTTL,
  MaxClock,    \* bound: the last clock reading
  Faults,      \* a database call may fail or its context be cancelled
  None

ASSUME BoundsAssumption ==
  MaxPending \in Nat /\ CodeTTL \in Nat /\ MaxClock \in Nat

ASSUME RequestsAssumption == IsFiniteSet(Requests) /\ Requests # {}

VARIABLES
  clock,          \* ports.Clock and the database's CURRENT_TIMESTAMP
  verifications,  \* email_verifications
  users,          \* users, under the unique e-mail: whose hash they carry
  req,            \* the requests in flight
  dropped         \* history: rows whose account an aborted request owed

vars == <<clock, verifications, users, req, dropped>>

VerificationRow ==
  [email : Emails, code : Codes, exp : Nat, created : Nat, verified : BOOLEAN]

ASSUME NoneAssumption == None \notin Emails \cup Rows \cup Codes \cup VerificationRow

Stages ==
  {"idle",
   "count", "generate", "save",     \* Register
   "account", "mark", "saveUser"}   \* VerifyEmail

Request ==
  [at : Stages, email : Emails \cup {None}, code : Codes \cup {None},
   row : Rows \cup {None}, now : Nat]

Idle == [at |-> "idle", email |-> None, code |-> None, row |-> None, now |-> 0]

TypeOK ==
  /\ clock \in 0..MaxClock
  /\ verifications \in [Rows -> VerificationRow \cup {None}]
  /\ users \in [Emails -> Rows \cup {None}]
  /\ req \in [Requests -> Request]
  /\ dropped \subseteq Rows

Init ==
  /\ clock = 0
  /\ verifications = [v \in Rows |-> None]
  /\ users = [e \in Emails |-> None]
  /\ req = [r \in Requests |-> Idle]
  /\ dropped = {}

Finish(r) == req' = [req EXCEPT ![r] = Idle]

Waiting(e, v) ==
  /\ verifications[v] # None
  /\ verifications[v].email = e
  /\ ~verifications[v].verified

(* expires_at > CURRENT_TIMESTAMP, while VerifyEmail still accepts a code  *)
(* at its very expiry.                                                     *)
Pending(e) == {v \in Rows : Waiting(e, v) /\ verifications[v].exp > clock}

(* The rate limit, and a mutant one off.                                   *)
AtMostLimit(e) == Cardinality(Pending(e)) <= MaxPending
BelowLimit(e) == Cardinality(Pending(e)) < MaxPending

(* The rows that ORDER BY created_at DESC LIMIT 1 may return.              *)
Newest(e, c) ==
  LET match == {v \in Rows : Waiting(e, v) /\ verifications[v].code = c}
  IN {v \in match : \A w \in match :
        verifications[w].created <= verifications[v].created}

(* The row SaveEmailVerification inserts; the mutant stores the wrong time.*)
ExpiredRow(e, c, now) ==
  [email |-> e, code |-> c, exp |-> now - CodeTTL, created |-> clock,
   verified |-> FALSE]
NewRow(e, c, now) ==
  [email |-> e, code |-> c, exp |-> now + CodeTTL, created |-> clock,
   verified |-> FALSE]

(* Bound: a registration starts only when the model has a row left for it. *)
RowLeft ==
  Cardinality({r \in Requests : req[r].at \in {"count", "generate", "save"}})
    < Cardinality({v \in Rows : verifications[v] = None})

-----------------------------------------------------------------------------
(* POST /auth/register                                                     *)

RegisterLookup(r) ==
  /\ req[r].at = "idle"
  /\ RowLeft
  /\ \E e \in Emails :
       /\ users[e] = None
       /\ req' = [req EXCEPT ![r] = [Idle EXCEPT !.at = "count", !.email = e]]
  /\ UNCHANGED <<clock, verifications, users, dropped>>

CountPending(r) ==
  /\ req[r].at = "count"
  /\ IF BelowLimit(req[r].email)
     THEN req' = [req EXCEPT ![r].at = "generate"]
     ELSE Finish(r)
  /\ UNCHANGED <<clock, verifications, users, dropped>>

GenerateCode(r) ==
  /\ req[r].at = "generate"
  /\ \E c \in Codes :
       req' = [req EXCEPT ![r].at = "save", ![r].code = c, ![r].now = clock]
  /\ UNCHANGED <<clock, verifications, users, dropped>>

(* The mail goes out afterwards: sent or not, the row stays.               *)
SaveEmailVerification(r) ==
  /\ req[r].at = "save"
  /\ \E v \in Rows :
       /\ verifications[v] = None
       /\ verifications' = [verifications EXCEPT
            ![v] = NewRow(req[r].email, req[r].code, req[r].now)]
  /\ Finish(r)
  /\ UNCHANGED <<clock, users, dropped>>

-----------------------------------------------------------------------------
(* POST /auth/verify-email                                                 *)

GetPendingByEmailAndCode(r) ==
  /\ req[r].at = "idle"
  /\ \E e \in Emails, c \in Codes : \E v \in Newest(e, c) :
       /\ clock <= verifications[v].exp
       /\ req' = [req EXCEPT ![r] = [Idle EXCEPT !.at = "account",
                                       !.email = e, !.row = v, !.now = clock]]
  /\ UNCHANGED <<clock, verifications, users, dropped>>

(* Mutant: the look-up for an existing account is forgotten.               *)
SkipAccount(r) ==
  /\ req[r].at = "account"
  /\ req' = [req EXCEPT ![r].at = "mark"]
  /\ UNCHANGED <<clock, verifications, users, dropped>>

CheckAccount(r) ==
  /\ req[r].at = "account"
  /\ IF users[req[r].email] = None
     THEN req' = [req EXCEPT ![r].at = "mark"]
     ELSE Finish(r)
  /\ UNCHANGED <<clock, verifications, users, dropped>>

(* The UPDATE does not report whether it found the row unverified.         *)
MarkEmailVerified(r) ==
  /\ req[r].at = "mark"
  /\ verifications' = [verifications EXCEPT ![req[r].row].verified = TRUE]
  /\ req' = [req EXCEPT ![r].at = "saveUser"]
  /\ UNCHANGED <<clock, users, dropped>>

(* Mutants: an upsert on the e-mail, and a second look at the expiry.      *)
UpsertUser(r) ==
  /\ req[r].at = "saveUser"
  /\ users' = [users EXCEPT ![req[r].email] = req[r].row]
  /\ Finish(r)
  /\ UNCHANGED <<clock, verifications, dropped>>
SaveUserInTime(r) ==
  /\ req[r].at = "saveUser"
  /\ users' = IF /\ users[req[r].email] = None
                 /\ clock <= verifications[req[r].row].exp
              THEN [users EXCEPT ![req[r].email] = req[r].row]
              ELSE users
  /\ Finish(r)
  /\ UNCHANGED <<clock, verifications, dropped>>

(* A fresh id never conflicts; a second user under the e-mail is an error. *)
SaveUser(r) ==
  /\ req[r].at = "saveUser"
  /\ users' = IF users[req[r].email] = None
              THEN [users EXCEPT ![req[r].email] = req[r].row]
              ELSE users
  /\ Finish(r)
  /\ UNCHANGED <<clock, verifications, dropped>>

-----------------------------------------------------------------------------
(* A database error, a cancelled request context or a crash, at any call:  *)
(* what earlier calls wrote stays.                                         *)
Abort(r) ==
  /\ Faults
  /\ req[r].at # "idle"
  /\ Finish(r)
  /\ dropped' = IF req[r].at = "saveUser" THEN dropped \cup {req[r].row}
                ELSE dropped
  /\ UNCHANGED <<clock, verifications, users>>

Tick ==
  /\ clock < MaxClock
  /\ clock' = clock + 1
  /\ UNCHANGED <<verifications, users, req, dropped>>

Continue(r) ==
  \/ CountPending(r)
  \/ GenerateCode(r)
  \/ SaveEmailVerification(r)
  \/ CheckAccount(r)
  \/ MarkEmailVerified(r)
  \/ SaveUser(r)

Next ==
  \/ \E r \in Requests :
       RegisterLookup(r) \/ GetPendingByEmailAndCode(r) \/ Continue(r) \/ Abort(r)
  \/ Tick

Spec == Init /\ [][Next]_vars

-----------------------------------------------------------------------------
(* Properties.                                                             *)

(* However many registrations race between CountPending and the insert, an *)
(* e-mail has fewer pending codes than the limit plus the requests that    *)
(* can be in flight.  The limit itself, which src/README.md:241 and 195    *)
(* promise, does not hold: count and insert are separate statements.       *)
PendingBounded ==
  \A e \in Emails :
    Cardinality(Pending(e)) < MaxPending + Cardinality(Requests)

(* Registration seen as an AccountBook: a registration is a verification   *)
(* row, confirmed when it is marked verified.                              *)
RegisteredFor ==
  [v \in Rows |-> IF verifications[v] = None THEN None ELSE verifications[v].email]

ConfirmedRows == {v \in Rows : verifications[v] # None /\ verifications[v].verified}

Book == INSTANCE AccountBook WITH registered <- RegisteredFor,
                                  confirmed <- ConfirmedRows, account <- users

(* An account comes from a registration of its own e-mail whose code was   *)
(* presented, and its password hash is never replaced by a later or a      *)
(* concurrent verification (SaveUser against the unique e-mail): every     *)
(* step of the handlers is a step of the account book or changes nothing   *)
(* in it.                                                                  *)
ImplementsAccountBook == Book!BookSpec

(* Once an e-mail has its account and the requests that had not seen it    *)
(* are over, its verification rows never change again: no code is spent on *)
(* an e-mail that is taken (CheckAccount, RegisterLookup).                 *)
Unaware(r, e) ==
  req[r].email = e /\ req[r].at \in {"count", "generate", "save", "mark", "saveUser"}
RegisteredStaysQuiet ==
  [][\A e \in Emails :
       users[e] # None /\ (\A r \in Requests : ~Unaware(r, e)) =>
         /\ \A r \in Requests : ~Unaware(r, e)'
         /\ \A v \in Rows :
              verifications'[v] # None /\ verifications'[v].email = e
                => verifications'[v] = verifications[v]]_vars

(* A spent code has its account, or a request is about to create it, or    *)
(* the request that was failed at that very call: nothing but a failure    *)
(* there loses an account, neither a race nor the clock                    *)
(* (MarkEmailVerified comes before SaveUser).                              *)
SpentCodeHasAccount ==
  \A v \in Rows \ dropped :
    verifications[v] # None /\ verifications[v].verified =>
      \/ users[verifications[v].email] # None
      \/ \E r \in Requests : req[r].at = "saveUser" /\ req[r].row = v
=============================================================================
