------------------------- MODULE RegistrationProofs -------------------------
(* Registration for every number of e-mails, rows, codes and requests: its *)
(* types, what a spent code is worth, how many codes are pending, and that *)
(* it implements AccountBook.                                              *)
EXTENDS Registration, FiniteSetTheorems, TLAPS

Exists(v) == verifications[v] # None

(* What a request may rely on at each stage: the row it found is there,    *)
(* for its e-mail, and once marked stays marked.                           *)
StageOK(r) ==
  /\ req[r].at # "idle" => req[r].email \in Emails
  /\ req[r].at = "save" => req[r].code \in Codes
  /\ req[r].at \in {"account", "mark", "saveUser"} =>
       /\ req[r].row \in Rows
       /\ Exists(req[r].row)
       /\ verifications[req[r].row].email = req[r].email
  /\ req[r].at = "saveUser" => verifications[req[r].row].verified

RegistrationInv ==
  /\ TypeOK
  /\ \A r \in Requests : StageOK(r)
  /\ SpentCodeHasAccount

(* What no step does to a row: it stays, for its e-mail, and verified.     *)
RowsKept ==
  \A v \in Rows : Exists(v) =>
    /\ Exists(v)'
    /\ verifications'[v].email = verifications[v].email
    /\ verifications[v].verified => verifications'[v].verified

LEMMA InitInv == Init => RegistrationInv
<1> SUFFICES ASSUME Init PROVE RegistrationInv
  OBVIOUS
<1>1. Idle \in Request
  BY DEF Idle, Request, Stages
<1>2. clock \in 0..MaxClock
  BY BoundsAssumption DEF Init
<1>3. TypeOK
  BY <1>1, <1>2 DEF Init, TypeOK
<1>4. \A r \in Requests : StageOK(r)
  BY DEF Init, StageOK, Idle
<1> QED BY <1>3, <1>4 DEF RegistrationInv, SpentCodeHasAccount, Init

LEMMA RowFields ==
  ASSUME NEW row \in VerificationRow
  PROVE  /\ row # None
         /\ row.email \in Emails /\ row.code \in Codes
         /\ row.exp \in Nat /\ row.created \in Nat /\ row.verified \in BOOLEAN
  BY NoneAssumption DEF VerificationRow

(* A step of one request that keeps the rows leaves to the others what     *)
(* they rely on.                                                           *)
LEMMA OthersKeep ==
  ASSUME RowsKept, NEW q \in Requests, StageOK(q), req'[q] = req[q]
  PROVE  StageOK(q)'
  BY DEF StageOK, RowsKept, Exists

LEMMA StepKeeps ==
  ASSUME RegistrationInv, TypeOK', RowsKept, NEW r \in Requests,
         \A q \in Requests \ {r} : req'[q] = req[q],
         StageOK(r)', SpentCodeHasAccount'
  PROVE  RegistrationInv'
<1>1. ASSUME NEW q \in Requests PROVE StageOK(q)'
  BY OthersKeep DEF RegistrationInv
<1> QED BY <1>1 DEF RegistrationInv

(* A step that marks no row, opens no account and is not the last of a     *)
(* verification leaves spent codes with what they have.                    *)
LEMMA SpentKept ==
  ASSUME RegistrationInv, NEW r \in Requests, req[r].at # "saveUser",
         \A q \in Requests \ {r} : req'[q] = req[q],
         UNCHANGED <<verifications, users>>, dropped \subseteq dropped'
  PROVE  SpentCodeHasAccount'
<1>1. ASSUME NEW v \in Rows \ dropped', Exists(v), verifications[v].verified
      PROVE  \/ users[verifications[v].email] # None
             \/ \E q \in Requests : req'[q].at = "saveUser" /\ req'[q].row = v
  <2>1. CASE users[verifications[v].email] # None
    BY <2>1
  <2>2. CASE \E q \in Requests : req[q].at = "saveUser" /\ req[q].row = v
    <3>1. PICK q \in Requests : req[q].at = "saveUser" /\ req[q].row = v
      BY <2>2
    <3>2. req'[q] = req[q]
      BY <3>1
    <3> QED BY <3>1, <3>2
  <2> QED BY <1>1, <2>1, <2>2 DEF RegistrationInv, SpentCodeHasAccount, Exists
<1> QED BY <1>1 DEF SpentCodeHasAccount, Exists

(* The steps of a request that only read.                                  *)
LEMMA ReadingKeeps ==
  ASSUME RegistrationInv, NEW r \in Requests,
         \/ RegisterLookup(r) \/ CountPending(r) \/ GenerateCode(r)
         \/ GetPendingByEmailAndCode(r) \/ CheckAccount(r) \/ Abort(r)
  PROVE  RegistrationInv'
<1> USE DEF RegistrationInv, TypeOK
<1>1. Idle \in Request /\ Idle.at = "idle"
  BY DEF Idle, Request, Stages
<1>2. UNCHANGED <<clock, verifications, users>> /\ dropped \subseteq dropped'
  BY DEF RegisterLookup, CountPending, GenerateCode, GetPendingByEmailAndCode,
         CheckAccount, Abort
<1>3. RowsKept
  BY <1>2 DEF RowsKept, Exists
<1>4. /\ req' = [req EXCEPT ![r] = req'[r]]
      /\ req'[r] \in Request
      /\ StageOK(r)'
  <2>1. CASE RegisterLookup(r)
    <3>1. PICK e \in Emails :
            req' = [req EXCEPT ![r] = [Idle EXCEPT !.at = "count", !.email = e]]
      BY <2>1 DEF RegisterLookup
    <3> QED BY <3>1 DEF Idle, Request, Stages, StageOK
  <2>2. CASE CountPending(r)
    BY <1>1, <2>2 DEF CountPending, Finish, Request, Stages, StageOK
  <2>3. CASE GenerateCode(r)
    <3>1. PICK c \in Codes :
            req' = [req EXCEPT ![r].at = "save", ![r].code = c, ![r].now = clock]
      BY <2>3 DEF GenerateCode
    <3>2. clock \in Nat
      BY BoundsAssumption
    <3>3. req[r].email \in Emails
      BY <2>3 DEF GenerateCode, StageOK
    <3>4. req'[r] = [req[r] EXCEPT !.at = "save", !.code = c, !.now = clock]
      BY <3>1
    <3>5. req'[r] \in Request
      BY <3>2, <3>4 DEF Request, Stages
    <3>6. StageOK(r)'
      BY <3>3, <3>4 DEF Request, StageOK
    <3> QED BY <3>1, <3>5, <3>6
  <2>4. CASE GetPendingByEmailAndCode(r)
    <3>1. PICK e \in Emails, c \in Codes : \E v \in Newest(e, c) :
            req' = [req EXCEPT ![r] = [Idle EXCEPT !.at = "account",
                                         !.email = e, !.row = v, !.now = clock]]
      BY <2>4 DEF GetPendingByEmailAndCode
    <3> PICK v \in Newest(e, c) :
            req' = [req EXCEPT ![r] = [Idle EXCEPT !.at = "account",
                                         !.email = e, !.row = v, !.now = clock]]
      BY <3>1
    <3>2. v \in Rows /\ Exists(v) /\ verifications[v].email = e
      BY DEF Newest, Waiting, Exists
    <3>3. clock \in Nat
      BY BoundsAssumption
    <3>4. Exists(v)' /\ verifications'[v].email = e
      BY <1>2, <3>2 DEF Exists
    <3> QED BY <3>2, <3>3, <3>4 DEF Idle, Request, Stages, StageOK
  <2>5. CASE CheckAccount(r)
    BY <1>1, <1>2, <2>5 DEF CheckAccount, Finish, Request, Stages, StageOK, Exists
  <2>6. CASE Abort(r)
    BY <1>1, <2>6 DEF Abort, Finish, StageOK
  <2> QED BY <2>1, <2>2, <2>3, <2>4, <2>5, <2>6
<1>5. TypeOK'
  <2>1. dropped' \subseteq Rows
    BY DEF RegisterLookup, CountPending, GenerateCode, GetPendingByEmailAndCode,
           CheckAccount, Abort, StageOK
  <2> QED BY <1>2, <1>4, <2>1
<1>6. \A q \in Requests \ {r} : req'[q] = req[q]
  BY <1>4
<1>7. SpentCodeHasAccount'
  <2>1. CASE req[r].at # "saveUser"
    BY <1>2, <1>6, <2>1, SpentKept
  <2>2. CASE req[r].at = "saveUser"
    <3>1. dropped' = dropped \cup {req[r].row}
      BY <2>2 DEF RegisterLookup, CountPending, GenerateCode,
                  GetPendingByEmailAndCode, CheckAccount, Abort
    <3>2. ASSUME NEW v \in Rows \ dropped', Exists(v), verifications[v].verified,
                 users[verifications[v].email] = None
          PROVE  \E q \in Requests : req'[q].at = "saveUser" /\ req'[q].row = v
      <4>1. PICK q \in Requests : req[q].at = "saveUser" /\ req[q].row = v
        BY <3>1, <3>2 DEF SpentCodeHasAccount, Exists
      <4>2. q # r
        BY <3>1, <4>1
      <4> QED BY <1>6, <4>1, <4>2
    <3> QED BY <1>2, <3>2 DEF SpentCodeHasAccount, Exists
  <2> QED BY <2>1, <2>2
<1> QED BY <1>3, <1>4, <1>5, <1>6, <1>7, StepKeeps

(* Inserting a row, which is nobody's yet.                                 *)
LEMMA SaveKeeps ==
  ASSUME RegistrationInv, NEW r \in Requests, SaveEmailVerification(r)
  PROVE  RegistrationInv'
<1> USE DEF RegistrationInv, TypeOK
<1>1. PICK v \in Rows :
        /\ verifications[v] = None
        /\ verifications' = [verifications EXCEPT
             ![v] = NewRow(req[r].email, req[r].code, req[r].now)]
  BY DEF SaveEmailVerification
<1>2. /\ req[r].at = "save"
      /\ req' = [req EXCEPT ![r] = Idle]
      /\ UNCHANGED <<clock, users, dropped>>
  BY DEF SaveEmailVerification, Finish
<1>3. NewRow(req[r].email, req[r].code, req[r].now) \in VerificationRow
  <2>1. req[r].email \in Emails /\ req[r].code \in Codes /\ req[r].now \in Nat
    BY <1>2 DEF StageOK, Request
  <2>2. clock \in Nat
    BY BoundsAssumption
  <2> QED BY <2>1, <2>2, BoundsAssumption DEF NewRow, VerificationRow
<1>4. \A w \in Rows \ {v} : verifications'[w] = verifications[w]
  BY <1>1
<1>5. RowsKept
  BY <1>1, <1>4 DEF RowsKept, Exists
<1>6. TypeOK'
  <2>1. Idle \in Request
    BY DEF Idle, Request, Stages
  <2> QED BY <1>1, <1>2, <1>3, <2>1
<1>7. req'[r] = Idle /\ \A q \in Requests \ {r} : req'[q] = req[q]
  BY <1>2
<1>8. StageOK(r)'
  BY <1>7 DEF StageOK, Idle
<1>9. SpentCodeHasAccount'
  <2>1. ASSUME NEW w \in Rows \ dropped, Exists(w)', verifications'[w].verified
        PROVE  \/ users[verifications'[w].email] # None
               \/ \E q \in Requests : req'[q].at = "saveUser" /\ req'[q].row = w
    <3>1. w # v
      BY <1>1, <2>1 DEF NewRow
    <3>2. verifications'[w] = verifications[w]
      BY <1>4, <3>1
    <3>3. \A q \in Requests : req[q].at = "saveUser" => req'[q] = req[q]
      BY <1>2, <1>7
    <3> QED BY <2>1, <3>2, <3>3 DEF SpentCodeHasAccount, Exists
  <2> QED BY <1>2, <2>1 DEF SpentCodeHasAccount, Exists
<1> QED BY <1>5, <1>6, <1>7, <1>8, <1>9, StepKeeps

(* Marking: the request itself now owes the account.                       *)
LEMMA MarkKeeps ==
  ASSUME RegistrationInv, NEW r \in Requests, MarkEmailVerified(r)
  PROVE  RegistrationInv'
<1> USE DEF RegistrationInv, TypeOK
<1> PICK v \in Rows : v = req[r].row
  BY DEF MarkEmailVerified, StageOK
<1>1. /\ req[r].at = "mark"
      /\ Exists(v) /\ verifications[v].email = req[r].email
      /\ req[r].email \in Emails
  BY DEF MarkEmailVerified, StageOK
<1>2. /\ verifications' = [verifications EXCEPT ![v].verified = TRUE]
      /\ req' = [req EXCEPT ![r].at = "saveUser"]
      /\ UNCHANGED <<clock, users, dropped>>
  BY DEF MarkEmailVerified
<1>3. verifications[v] \in VerificationRow
  BY <1>1 DEF Exists
<1>4. /\ verifications'[v] \in VerificationRow
      /\ verifications'[v].email = verifications[v].email
      /\ verifications'[v].verified
      /\ \A w \in Rows \ {v} : verifications'[w] = verifications[w]
  BY <1>1, <1>2, <1>3 DEF VerificationRow
<1>5. Exists(v)'
  BY <1>4, NoneAssumption DEF Exists
<1>6. RowsKept
  <2>1. ASSUME NEW w \in Rows, Exists(w)
        PROVE  /\ Exists(w)'
               /\ verifications'[w].email = verifications[w].email
               /\ verifications[w].verified => verifications'[w].verified
    <3>1. CASE w = v
      BY <1>4, <1>5, <3>1
    <3>2. CASE w # v
      BY <1>4, <2>1, <3>2 DEF Exists
    <3> QED BY <3>1, <3>2
  <2> QED BY <2>1 DEF RowsKept
<1>7. TypeOK'
  <2>1. req' \in [Requests -> Request]
    BY <1>2 DEF Request, Stages
  <2>2. verifications' \in [Rows -> VerificationRow \cup {None}]
    BY <1>1, <1>2, <1>4
  <2> QED BY <1>2, <2>1, <2>2
<1>8. /\ req'[r].at = "saveUser" /\ req'[r].row = v /\ req'[r].email = req[r].email
      /\ \A q \in Requests \ {r} : req'[q] = req[q]
  BY <1>2 DEF Request
<1>9. StageOK(r)'
  BY <1>1, <1>4, <1>5, <1>8 DEF StageOK
<1>10. SpentCodeHasAccount'
  <2>1. ASSUME NEW w \in Rows \ dropped, Exists(w)', verifications'[w].verified
        PROVE  \/ users[verifications'[w].email] # None
               \/ \E q \in Requests : req'[q].at = "saveUser" /\ req'[q].row = w
    <3>1. CASE w = v
      BY <1>8, <3>1
    <3>2. CASE w # v
      <4>1. verifications'[w] = verifications[w]
        BY <1>4, <3>2
      <4>2. \A q \in Requests : req[q].at = "saveUser" => req'[q] = req[q]
        BY <1>1, <1>8
      <4> QED BY <2>1, <4>1, <4>2 DEF SpentCodeHasAccount, Exists
    <3> QED BY <3>1, <3>2
  <2> QED BY <1>2, <2>1 DEF SpentCodeHasAccount, Exists
<1> QED BY <1>6, <1>7, <1>8, <1>9, <1>10, StepKeeps

(* Opening: the e-mail has its account, this request's or another's.       *)
LEMMA OpenKeeps ==
  ASSUME RegistrationInv, NEW r \in Requests, SaveUser(r)
  PROVE  RegistrationInv'
<1> USE DEF RegistrationInv, TypeOK
<1>1. /\ req[r].at = "saveUser" /\ req[r].email \in Emails /\ req[r].row \in Rows
      /\ verifications[req[r].row].email = req[r].email
  BY DEF SaveUser, StageOK
<1>2. /\ users' = IF users[req[r].email] = None
                  THEN [users EXCEPT ![req[r].email] = req[r].row]
                  ELSE users
      /\ req' = [req EXCEPT ![r] = Idle]
      /\ UNCHANGED <<clock, verifications, dropped>>
  BY DEF SaveUser, Finish
<1>3. Idle \in Request
  BY DEF Idle, Request, Stages
<1>4. TypeOK'
  BY <1>1, <1>2, <1>3
<1>5. RowsKept
  BY <1>2 DEF RowsKept, Exists
<1>6. req'[r] = Idle /\ \A q \in Requests \ {r} : req'[q] = req[q]
  BY <1>2
<1>7. StageOK(r)'
  BY <1>6 DEF StageOK, Idle
<1>8. /\ users'[req[r].email] # None
      /\ \A e \in Emails : users[e] # None => users'[e] # None
  BY <1>1, <1>2, NoneAssumption
<1>9. SpentCodeHasAccount'
  <2>1. ASSUME NEW w \in Rows \ dropped, Exists(w), verifications[w].verified
        PROVE  \/ users'[verifications[w].email] # None
               \/ \E q \in Requests : req'[q].at = "saveUser" /\ req'[q].row = w
    <3>1. verifications[w].email \in Emails
      BY <2>1, RowFields DEF Exists
    <3>2. CASE users[verifications[w].email] # None
      BY <1>8, <3>1, <3>2
    <3>3. CASE \E q \in Requests : req[q].at = "saveUser" /\ req[q].row = w
      <4>1. PICK q \in Requests : req[q].at = "saveUser" /\ req[q].row = w
        BY <3>3
      <4>2. CASE q = r
        BY <1>1, <1>8, <4>1, <4>2
      <4>3. CASE q # r
        BY <1>6, <4>1, <4>3
      <4> QED BY <4>2, <4>3
    <3> QED BY <2>1, <3>2, <3>3 DEF SpentCodeHasAccount, Exists
  <2> QED BY <1>2, <2>1 DEF SpentCodeHasAccount, Exists
<1> QED BY <1>4, <1>5, <1>6, <1>7, <1>9, StepKeeps

LEMMA InvKept == ASSUME RegistrationInv, [Next]_vars PROVE RegistrationInv'
<1>1. CASE Tick
  <2>1. clock' \in 0..MaxClock
    BY <1>1, BoundsAssumption DEF Tick, RegistrationInv, TypeOK
  <2> QED BY <1>1, <2>1
          DEF Tick, RegistrationInv, TypeOK, StageOK, Exists, SpentCodeHasAccount
<1>2. CASE UNCHANGED vars
  BY <1>2 DEF vars, RegistrationInv, TypeOK, StageOK, Exists, SpentCodeHasAccount
<1>3. ASSUME NEW r \in Requests, Continue(r) PROVE RegistrationInv'
  BY <1>3, ReadingKeeps, SaveKeeps, MarkKeeps, OpenKeeps DEF Continue
<1> QED BY <1>1, <1>2, <1>3, ReadingKeeps DEF Next

(* The inductive invariant.                                                *)
LEMMA RegistrationInvariance == Spec => []RegistrationInv
  BY InitInv, InvKept, PTL DEF Spec

(* Rows, accounts and requests stay of their types.                        *)
THEOREM RegistrationTypes == Spec => []TypeOK
<1>1. RegistrationInv => TypeOK
  BY DEF RegistrationInv
<1> QED BY <1>1, RegistrationInvariance, PTL

(* Only a failure at the very last call of a verification loses an         *)
(* account, however many verifications race.                               *)
THEOREM SpentCodes == Spec => []SpentCodeHasAccount
<1>1. RegistrationInv => SpentCodeHasAccount
  BY DEF RegistrationInv
<1> QED BY <1>1, RegistrationInvariance, PTL

-----------------------------------------------------------------------------
(* The account book.                                                       *)

LEMMA BookRows ==
  /\ \A v \in Rows : RegisteredFor[v] = IF Exists(v) THEN verifications[v].email ELSE None
  /\ \A v \in Rows : v \in ConfirmedRows <=> Exists(v) /\ verifications[v].verified
  /\ \A v \in Rows :
       RegisteredFor'[v] = IF Exists(v)' THEN verifications'[v].email ELSE None
  /\ \A v \in Rows :
       v \in ConfirmedRows' <=> Exists(v)' /\ verifications'[v].verified
  BY DEF RegisteredFor, ConfirmedRows, Exists

LEMMA BookFunctions ==
  /\ RegisteredFor = [v \in Rows |-> RegisteredFor[v]]
  /\ RegisteredFor' = [v \in Rows |-> RegisteredFor'[v]]
  /\ ConfirmedRows \subseteq Rows /\ ConfirmedRows' \subseteq Rows
  BY DEF RegisteredFor, ConfirmedRows

LEMMA SameRows ==
  UNCHANGED verifications => UNCHANGED <<RegisteredFor, ConfirmedRows>>
  BY DEF RegisteredFor, ConfirmedRows

LEMMA InitBook == Init => Book!BookInit
  BY DEF Init, Book!BookInit, RegisteredFor, ConfirmedRows

LEMMA RegisterStep ==
  ASSUME RegistrationInv, NEW r \in Requests, SaveEmailVerification(r)
  PROVE  \E v \in Rows, e \in Emails : Book!Register(v, e)
<1> USE DEF RegistrationInv, TypeOK
<1>1. PICK v \in Rows :
        /\ verifications[v] = None
        /\ verifications' = [verifications EXCEPT
             ![v] = NewRow(req[r].email, req[r].code, req[r].now)]
  BY DEF SaveEmailVerification
<1> PICK e \in Emails : e = req[r].email
  BY DEF SaveEmailVerification, StageOK
<1>2. NewRow(req[r].email, req[r].code, req[r].now) \in VerificationRow
  <2>1. req[r].code \in Codes /\ req[r].now \in Nat
    BY DEF SaveEmailVerification, StageOK, Request
  <2>2. clock \in Nat
    BY BoundsAssumption
  <2> QED BY <2>1, <2>2, BoundsAssumption DEF NewRow, VerificationRow
<1>3. /\ verifications'[v] # None
      /\ verifications'[v].email = e /\ ~verifications'[v].verified
      /\ \A w \in Rows \ {v} : verifications'[w] = verifications[w]
  BY <1>1, <1>2, NoneAssumption DEF NewRow
<1>4. /\ RegisteredFor[v] = None /\ RegisteredFor'[v] = e
      /\ \A w \in Rows \ {v} : RegisteredFor'[w] = RegisteredFor[w]
  BY <1>1, <1>3, BookRows DEF Exists
<1>5. RegisteredFor' = [RegisteredFor EXCEPT ![v] = e]
  BY <1>4, BookFunctions
<1>6. \A w \in Rows : w \in ConfirmedRows' <=> w \in ConfirmedRows
  BY <1>1, <1>3, BookRows DEF Exists
<1>7. ConfirmedRows' = ConfirmedRows
  BY <1>6, BookFunctions
<1>8. users' = users
  BY DEF SaveEmailVerification
<1>9. Book!Register(v, e)
  BY <1>4, <1>5, <1>7, <1>8 DEF Book!Register
<1> QED BY <1>9

LEMMA ConfirmStep ==
  ASSUME RegistrationInv, NEW r \in Requests, MarkEmailVerified(r)
  PROVE  \E v \in Rows : Book!Confirm(v)
<1> USE DEF RegistrationInv, TypeOK
<1> PICK v \in Rows : v = req[r].row
  BY DEF MarkEmailVerified, StageOK
<1>1. /\ Exists(v)
      /\ verifications' = [verifications EXCEPT ![v].verified = TRUE]
      /\ users' = users
  BY DEF MarkEmailVerified, StageOK
<1>2. verifications[v] \in VerificationRow
  BY <1>1 DEF Exists
<1>3. /\ verifications'[v] \in VerificationRow
      /\ verifications'[v].email = verifications[v].email
      /\ verifications'[v].verified
      /\ \A w \in Rows \ {v} : verifications'[w] = verifications[w]
  BY <1>1, <1>2 DEF VerificationRow
<1>4. Exists(v)'
  BY <1>3, NoneAssumption DEF Exists
<1>5. \A w \in Rows : RegisteredFor'[w] = RegisteredFor[w]
  BY <1>1, <1>3, <1>4, BookRows DEF Exists
<1>6. RegisteredFor' = RegisteredFor
  BY <1>5, BookFunctions
<1>7. \A w \in Rows : w \in ConfirmedRows' <=> w \in ConfirmedRows \/ w = v
  BY <1>3, <1>4, BookRows DEF Exists
<1>8. ConfirmedRows' = ConfirmedRows \cup {v}
  BY <1>7, BookFunctions
<1>9. RegisteredFor[v] # None
  BY <1>1, <1>2, BookRows, RowFields, NoneAssumption
<1>10. Book!Confirm(v)
  BY <1>1, <1>6, <1>8, <1>9 DEF Book!Confirm
<1> QED BY <1>10

LEMMA OpenStep ==
  ASSUME RegistrationInv, NEW r \in Requests, SaveUser(r)
  PROVE  (\E v \in Rows : Book!OpenAccount(v)) \/ UNCHANGED Book!book
<1> USE DEF RegistrationInv, TypeOK
<1> PICK v \in Rows : v = req[r].row
  BY DEF SaveUser, StageOK
<1>1. /\ Exists(v) /\ verifications[v].email = req[r].email
      /\ verifications[v].verified
  BY DEF SaveUser, StageOK
<1>2. UNCHANGED <<RegisteredFor, ConfirmedRows>>
  BY SameRows DEF SaveUser
<1>3. v \in ConfirmedRows /\ RegisteredFor[v] = req[r].email
  BY <1>1, BookRows
<1>4. CASE users[req[r].email] = None
  <2>1. users' = [users EXCEPT ![RegisteredFor[v]] = v]
    BY <1>3, <1>4 DEF SaveUser
  <2>2. Book!OpenAccount(v)
    BY <1>2, <1>3, <1>4, <2>1 DEF Book!OpenAccount
  <2> QED BY <2>2
<1>5. CASE users[req[r].email] # None
  BY <1>2, <1>5 DEF SaveUser, Book!book
<1> QED BY <1>4, <1>5

LEMMA BookStep ==
  ASSUME RegistrationInv, [Next]_vars PROVE [Book!BookNext]_(Book!book)
<1>1. ASSUME UNCHANGED <<verifications, users>> PROVE UNCHANGED Book!book
  BY <1>1, SameRows DEF Book!book
<1>2. ASSUME NEW r \in Requests,
             \/ RegisterLookup(r) \/ CountPending(r) \/ GenerateCode(r)
             \/ GetPendingByEmailAndCode(r) \/ CheckAccount(r) \/ Abort(r)
      PROVE  UNCHANGED <<verifications, users>>
  BY <1>2 DEF RegisterLookup, CountPending, GenerateCode,
              GetPendingByEmailAndCode, CheckAccount, Abort
<1>3. CASE Tick \/ UNCHANGED vars
  BY <1>1, <1>3 DEF Tick, vars
<1>4. ASSUME NEW r \in Requests, Continue(r)
      PROVE  [Book!BookNext]_(Book!book)
  BY <1>1, <1>2, <1>4, RegisterStep, ConfirmStep, OpenStep
     DEF Continue, Book!BookNext
<1> QED BY <1>1, <1>2, <1>3, <1>4 DEF Next

(* Every behaviour of registration is a behaviour of the account book.     *)
THEOREM RegistrationRefinement == Spec => ImplementsAccountBook
<1>1. RegistrationInv /\ [Next]_vars => [Book!BookNext]_(Book!book)
  BY BookStep
<1> QED BY <1>1, InitBook, RegistrationInvariance, PTL
           DEF Spec, ImplementsAccountBook, Book!BookSpec

-----------------------------------------------------------------------------
(* What the account book is worth.                                         *)

BookInv ==
  /\ Book!BookTypeOK
  /\ \A v \in ConfirmedRows : RegisteredFor[v] # None
  /\ Book!AccountsConfirmed

LEMMA BookInvInit == Book!BookInit => BookInv
  BY DEF Book!BookInit, BookInv, Book!BookTypeOK, Book!AccountsConfirmed

LEMMA BookInvKept ==
  ASSUME BookInv, [Book!BookNext]_(Book!book)
  PROVE  /\ BookInv'
         /\ \A e \in Emails : users[e] # None => users'[e] = users[e]
<1> USE DEF BookInv, Book!BookTypeOK, Book!AccountsConfirmed
<1>1. ASSUME NEW v \in Rows, NEW e \in Emails, Book!Register(v, e)
      PROVE  BookInv' /\ users' = users
  BY <1>1, NoneAssumption DEF Book!Register
<1>2. ASSUME NEW v \in Rows, Book!Confirm(v)
      PROVE  BookInv' /\ users' = users
  BY <1>2 DEF Book!Confirm
<1>3. CASE UNCHANGED Book!book
  BY <1>3 DEF Book!book
<1>4. ASSUME NEW v \in Rows, Book!OpenAccount(v)
      PROVE  BookInv' /\ \A e \in Emails : users[e] # None => users'[e] = users[e]
  <2>1. RegisteredFor[v] # None
    BY <1>4 DEF Book!OpenAccount
  <2>2. PICK e \in Emails : e = RegisteredFor[v]
    BY <2>1
  <2>3. users' = [users EXCEPT ![e] = v] /\ users[e] = None
    BY <1>4, <2>2 DEF Book!OpenAccount
  <2> QED BY <1>4, <2>2, <2>3 DEF Book!OpenAccount
<1> QED BY <1>1, <1>2, <1>3, <1>4 DEF Book!BookNext

(* Every account was opened by a confirmed registration of its own e-mail, *)
(* and nobody who registers the e-mail again replaces its password.        *)
THEOREM AccountsAreSafe ==
  Spec => []Book!AccountsConfirmed /\ Book!AccountsPermanent
<1>1. BookInv /\ [Book!BookNext]_(Book!book) => BookInv'
  BY BookInvKept
<1>2. BookInv /\ [Book!BookNext]_(Book!book)
        => [\A e \in Emails : users[e] # None => users'[e] = users[e]]_(Book!book)
  BY BookInvKept
<1>3. BookInv => Book!AccountsConfirmed
  BY DEF BookInv
<1> QED BY <1>1, <1>2, <1>3, BookInvInit, RegistrationRefinement, PTL
           DEF ImplementsAccountBook, Book!BookSpec, Book!AccountsPermanent
-----------------------------------------------------------------------------
(* Registrations of a taken e-mail.                                        *)

(* A verification row changes only in the hands of a request that is       *)
(* unaware of the account, and no request becomes unaware of one.          *)
LEMMA QuietStep ==
  ASSUME RegistrationInv, [Next]_vars, NEW e \in Emails, users[e] # None,
         \A r \in Requests : ~Unaware(r, e)
  PROVE  /\ \A r \in Requests : ~Unaware(r, e)'
         /\ \A v \in Rows :
              verifications'[v] # None /\ verifications'[v].email = e
                => verifications'[v] = verifications[v]
<1> USE DEF RegistrationInv, TypeOK
<1>1. CASE Tick \/ UNCHANGED vars
  BY <1>1 DEF Tick, vars, Unaware
<1>2. ASSUME NEW r \in Requests,
             RegisterLookup(r) \/ GetPendingByEmailAndCode(r) \/ Continue(r) \/ Abort(r)
      PROVE  /\ \A q \in Requests \ {r} : req'[q] = req[q]
             /\ ~Unaware(r, e)'
  <2>1. CASE RegisterLookup(r)
    BY <2>1 DEF RegisterLookup, Unaware, Idle
  <2>2. CASE GetPendingByEmailAndCode(r)
    BY <2>2 DEF GetPendingByEmailAndCode, Unaware, Idle
  <2>3. CASE CountPending(r)
    BY <2>3 DEF CountPending, Finish, Unaware, Idle, Request
  <2>4. CASE GenerateCode(r)
    BY <2>4 DEF GenerateCode, Unaware, Request
  <2>5. CASE SaveEmailVerification(r) \/ SaveUser(r) \/ Abort(r)
    BY <2>5 DEF SaveEmailVerification, SaveUser, Abort, Finish, Unaware, Idle
  <2>6. CASE CheckAccount(r)
    BY <2>6 DEF CheckAccount, Finish, Unaware, Idle, Request
  <2>7. CASE MarkEmailVerified(r)
    BY <2>7 DEF MarkEmailVerified, Unaware, Request
  <2> QED BY <1>2, <2>1, <2>2, <2>3, <2>4, <2>5, <2>6, <2>7 DEF Continue
<1>3. ASSUME NEW r \in Requests, SaveEmailVerification(r), NEW v \in Rows,
             verifications'[v] # None, verifications'[v].email = e
      PROVE  verifications'[v] = verifications[v]
  <2>1. req[r].email # e
    BY <1>3 DEF SaveEmailVerification, Unaware
  <2> QED BY <1>3, <2>1 DEF SaveEmailVerification, NewRow
<1>4. ASSUME NEW r \in Requests, MarkEmailVerified(r), NEW v \in Rows,
             verifications'[v] # None, verifications'[v].email = e
      PROVE  verifications'[v] = verifications[v]
  <2>1. CASE v = req[r].row
    <3>1. Exists(v) /\ verifications[v].email = req[r].email /\ req[r].email # e
      BY <1>4, <2>1 DEF MarkEmailVerified, StageOK, Unaware
    <3>2. verifications[v] \in VerificationRow
      BY <3>1 DEF Exists
    <3>3. verifications'[v].email = verifications[v].email
      BY <1>4, <2>1, <3>2 DEF MarkEmailVerified, VerificationRow
    <3> QED BY <1>4, <3>1, <3>3
  <2>2. CASE v # req[r].row
    BY <1>4, <2>2 DEF MarkEmailVerified
  <2> QED BY <2>1, <2>2
<1>5. ASSUME NEW r \in Requests,
             \/ RegisterLookup(r) \/ CountPending(r) \/ GenerateCode(r)
             \/ GetPendingByEmailAndCode(r) \/ CheckAccount(r) \/ SaveUser(r)
             \/ Abort(r)
      PROVE  verifications' = verifications
  BY <1>5 DEF RegisterLookup, CountPending, GenerateCode,
              GetPendingByEmailAndCode, CheckAccount, SaveUser, Abort
<1>6. ASSUME NEW r \in Requests,
             RegisterLookup(r) \/ GetPendingByEmailAndCode(r) \/ Continue(r) \/ Abort(r)
      PROVE  /\ \A q \in Requests : ~Unaware(q, e)'
             /\ \A v \in Rows :
                  verifications'[v] # None /\ verifications'[v].email = e
                    => verifications'[v] = verifications[v]
  <2>1. \A q \in Requests : ~Unaware(q, e)'
    BY <1>2, <1>6 DEF Unaware
  <2> QED BY <1>3, <1>4, <1>5, <1>6, <2>1 DEF Continue
<1> QED BY <1>1, <1>6 DEF Next

(* Nobody who does not know of the account spends or gets a code for a     *)
(* taken e-mail.                                                           *)
THEOREM TakenIsQuiet == Spec => RegisteredStaysQuiet
<1>1. RegistrationInv /\ [Next]_vars =>
        [\A e \in Emails :
           users[e] # None /\ (\A r \in Requests : ~Unaware(r, e)) =>
             /\ \A r \in Requests : ~Unaware(r, e)'
             /\ \A v \in Rows :
                  verifications'[v] # None /\ verifications'[v].email = e
                    => verifications'[v] = verifications[v]]_vars
  BY QuietStep
<1> QED BY <1>1, RegistrationInvariance, PTL DEF Spec, RegisteredStaysQuiet

-----------------------------------------------------------------------------
(* How many codes an e-mail has pending.                                   *)

(* The requests that were let through the rate limit and have not saved.   *)
Racing(e) == {r \in Requests : req[r].email = e /\ req[r].at \in {"generate", "save"}}

(* A request is let through below the limit; the codes that can still come *)
(* are those of the requests already let through.                          *)
RaceBounded(e) ==
  /\ IsFiniteSet(Pending(e))
  /\ Cardinality(Pending(e)) + Cardinality(Racing(e))
       < MaxPending + Cardinality(Requests)

PendingInv == RegistrationInv /\ \A e \in Emails : RaceBounded(e)

LEMMA RequestsCount ==
  /\ Cardinality(Requests) \in Nat /\ Cardinality(Requests) > 0
  /\ \A S \in SUBSET Requests :
       IsFiniteSet(S) /\ Cardinality(S) \in Nat /\ Cardinality(S) <= Cardinality(Requests)
<1>1. Cardinality(Requests) \in Nat /\ Cardinality(Requests) # 0
  BY RequestsAssumption, FS_CardinalityType, FS_EmptySet
<1> QED BY <1>1, RequestsAssumption, FS_Subset, FS_CardinalityType

LEMMA InitPending == Init => PendingInv
<1> SUFFICES ASSUME Init, NEW e \in Emails PROVE RaceBounded(e)
  BY InitInv DEF PendingInv
<1>1. Pending(e) = {} /\ Racing(e) = {}
  BY DEF Init, Pending, Waiting, Racing, Idle
<1> QED BY <1>1, FS_EmptySet, RequestsCount, BoundsAssumption DEF RaceBounded

LEMMA FewerPending ==
  ASSUME NEW e \in Emails, RaceBounded(e),
         Pending(e)' \subseteq Pending(e), Racing(e)' \subseteq Racing(e)
  PROVE  RaceBounded(e)'
<1>1. IsFiniteSet(Racing(e))
  BY RequestsCount DEF Racing
<1>2. /\ IsFiniteSet(Pending(e)')
      /\ Cardinality(Pending(e)') \in Nat /\ Cardinality(Pending(e)) \in Nat
      /\ Cardinality(Pending(e)') <= Cardinality(Pending(e))
  BY FS_Subset, FS_CardinalityType DEF RaceBounded
<1>3. /\ Cardinality(Racing(e)') \in Nat /\ Cardinality(Racing(e)) \in Nat
      /\ Cardinality(Racing(e)') <= Cardinality(Racing(e))
  BY <1>1, FS_Subset, FS_CardinalityType
<1> QED BY <1>2, <1>3, RequestsCount, BoundsAssumption DEF RaceBounded

LEMMA LetThrough ==
  ASSUME RegistrationInv, NEW r \in Requests, CountPending(r),
         NEW e \in Emails, RaceBounded(e)
  PROVE  RaceBounded(e)'
<1> USE DEF RegistrationInv, TypeOK
<1>1. Pending(e)' = Pending(e)
  BY DEF CountPending, Pending, Waiting
<1>2. CASE req[r].email = e /\ BelowLimit(e)
  <2>1. Cardinality(Racing(e)') <= Cardinality(Requests) /\ Cardinality(Racing(e)') \in Nat
    BY RequestsCount DEF Racing
  <2>2. Cardinality(Pending(e)') < MaxPending /\ Cardinality(Pending(e)') \in Nat
    BY <1>1, <1>2, FS_CardinalityType DEF BelowLimit, RaceBounded
  <2> QED BY <1>1, <2>1, <2>2, RequestsCount, BoundsAssumption DEF RaceBounded
<1>3. CASE req[r].email # e
  <2>1. Racing(e)' \subseteq Racing(e)
    BY <1>3 DEF CountPending, Finish, Racing, Idle, Request
  <2> QED BY <1>1, <2>1, FewerPending
<1>4. CASE req[r].email = e /\ ~BelowLimit(e)
  <2>1. Racing(e)' \subseteq Racing(e)
    BY <1>4 DEF CountPending, Finish, Racing, Idle
  <2> QED BY <1>1, <2>1, FewerPending
<1> QED BY <1>2, <1>3, <1>4

LEMMA OneSaved ==
  ASSUME RegistrationInv, NEW r \in Requests, SaveEmailVerification(r),
         NEW e \in Emails, RaceBounded(e)
  PROVE  RaceBounded(e)'
<1> USE DEF RegistrationInv, TypeOK
<1>1. PICK v \in Rows :
        /\ verifications[v] = None
        /\ verifications' = [verifications EXCEPT
             ![v] = NewRow(req[r].email, req[r].code, req[r].now)]
  BY DEF SaveEmailVerification
<1>2. /\ req[r].at = "save"
      /\ req' = [req EXCEPT ![r] = Idle]
      /\ clock' = clock
  BY DEF SaveEmailVerification, Finish
<1>3. CASE req[r].email = e
  <2>1. Pending(e)' \subseteq Pending(e) \cup {v} /\ v \notin Pending(e)
    BY <1>1, <1>2 DEF Pending, Waiting
  <2>2. /\ IsFiniteSet(Pending(e) \cup {v})
        /\ Cardinality(Pending(e) \cup {v}) = Cardinality(Pending(e)) + 1
        /\ Cardinality(Pending(e)) \in Nat
    BY <2>1, FS_AddElement, FS_CardinalityType DEF RaceBounded
  <2>3. /\ IsFiniteSet(Pending(e)') /\ Cardinality(Pending(e)') \in Nat
        /\ Cardinality(Pending(e)') <= Cardinality(Pending(e)) + 1
    BY <2>1, <2>2, FS_Subset, FS_CardinalityType
  <2>4. Racing(e)' = Racing(e) \ {r} /\ r \in Racing(e)
    BY <1>2, <1>3 DEF Racing, Idle
  <2>5. /\ Cardinality(Racing(e)') = Cardinality(Racing(e)) - 1
        /\ Cardinality(Racing(e)) \in Nat
    <3>1. IsFiniteSet(Racing(e))
      BY RequestsCount DEF Racing
    <3> QED BY <2>4, <3>1, FS_RemoveElement, FS_CardinalityType
  <2> QED BY <2>2, <2>3, <2>5, RequestsCount, BoundsAssumption DEF RaceBounded
<1>4. CASE req[r].email # e
  <2>1. Pending(e)' \subseteq Pending(e)
    BY <1>1, <1>2, <1>4 DEF Pending, Waiting, NewRow
  <2>2. Racing(e)' \subseteq Racing(e)
    BY <1>2 DEF Racing, Idle
  <2> QED BY <2>1, <2>2, FewerPending
<1> QED BY <1>3, <1>4

LEMMA OthersBounded ==
  ASSUME RegistrationInv, [Next]_vars, NEW e \in Emails,
         \A r \in Requests : ~CountPending(r) /\ ~SaveEmailVerification(r)
  PROVE  Pending(e)' \subseteq Pending(e) /\ Racing(e)' \subseteq Racing(e)
<1> USE DEF RegistrationInv, TypeOK
<1>1. CASE Tick
  <2>1. clock \in Nat /\ clock' = clock + 1
    BY <1>1, BoundsAssumption DEF Tick
  <2>2. \A v \in Rows : Waiting(e, v) => verifications[v].exp \in Nat
    BY RowFields DEF Waiting
  <2> QED BY <1>1, <2>1, <2>2 DEF Tick, Pending, Waiting, Racing
<1>2. CASE UNCHANGED vars
  BY <1>2 DEF vars, Pending, Waiting, Racing
<1>3. ASSUME NEW r \in Requests,
             \/ RegisterLookup(r) \/ GetPendingByEmailAndCode(r) \/ GenerateCode(r)
             \/ CheckAccount(r) \/ SaveUser(r) \/ Abort(r)
      PROVE  Pending(e)' \subseteq Pending(e) /\ Racing(e)' \subseteq Racing(e)
  <2>1. UNCHANGED <<clock, verifications>>
    BY <1>3 DEF RegisterLookup, GetPendingByEmailAndCode, GenerateCode,
                CheckAccount, SaveUser, Abort
  <2>2. /\ \A q \in Requests \ {r} : req'[q] = req[q]
        /\ \/ req'[r].at \notin {"generate", "save"}
           \/ req[r].at = "generate" /\ req'[r].email = req[r].email
    <3>1. CASE RegisterLookup(r) \/ GetPendingByEmailAndCode(r)
      BY <3>1 DEF RegisterLookup, GetPendingByEmailAndCode, Idle
    <3>2. CASE GenerateCode(r)
      BY <3>2 DEF GenerateCode, Request
    <3>3. CASE CheckAccount(r)
      BY <3>3 DEF CheckAccount, Finish, Idle, Request
    <3>4. CASE SaveUser(r) \/ Abort(r)
      BY <3>4 DEF SaveUser, Abort, Finish, Idle
    <3> QED BY <1>3, <3>1, <3>2, <3>3, <3>4
  <2> QED BY <2>1, <2>2 DEF Pending, Waiting, Racing
<1>4. ASSUME NEW r \in Requests, MarkEmailVerified(r)
      PROVE  Pending(e)' \subseteq Pending(e) /\ Racing(e)' \subseteq Racing(e)
  <2>1. Racing(e)' \subseteq Racing(e)
    BY <1>4 DEF MarkEmailVerified, Racing, Request
  <2>2. verifications[req[r].row] \in VerificationRow
    BY <1>4 DEF MarkEmailVerified, StageOK, Exists
  <2>3. /\ verifications'[req[r].row].verified
        /\ \A w \in Rows \ {req[r].row} : verifications'[w] = verifications[w]
    BY <1>4, <2>2 DEF MarkEmailVerified, StageOK, VerificationRow
  <2> QED BY <1>4, <2>1, <2>3 DEF MarkEmailVerified, Pending, Waiting
<1> QED BY <1>1, <1>2, <1>3, <1>4 DEF Next, Continue

LEMMA PendingKept == ASSUME PendingInv, [Next]_vars PROVE PendingInv'
<1>1. RegistrationInv'
  BY InvKept DEF PendingInv
<1>2. ASSUME NEW e \in Emails PROVE RaceBounded(e)'
  <2>1. CASE \E r \in Requests : CountPending(r) \/ SaveEmailVerification(r)
    BY <2>1, LetThrough, OneSaved DEF PendingInv
  <2>2. CASE \A r \in Requests : ~CountPending(r) /\ ~SaveEmailVerification(r)
    BY <2>2, OthersBounded, FewerPending DEF PendingInv
  <2> QED BY <2>1, <2>2
<1> QED BY <1>1, <1>2 DEF PendingInv

(* However many registrations race past the rate limit, an e-mail's        *)
(* pending codes stay below the limit plus the requests in flight.         *)
THEOREM PendingLimit == Spec => []PendingBounded
<1>1. PendingInv => PendingBounded
  <2> SUFFICES ASSUME PendingInv, NEW e \in Emails
               PROVE  Cardinality(Pending(e)) < MaxPending + Cardinality(Requests)
    BY DEF PendingBounded
  <2>1. Cardinality(Racing(e)) \in Nat
    BY RequestsCount DEF Racing
  <2>2. Cardinality(Pending(e)) \in Nat
    BY FS_CardinalityType DEF PendingInv, RaceBounded
  <2> QED BY <2>1, <2>2, RequestsCount, BoundsAssumption DEF PendingInv, RaceBounded
<1> QED BY <1>1, InitPending, PendingKept, PTL DEF Spec
=============================================================================
