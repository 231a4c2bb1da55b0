--------------------------- MODULE TokenEndpoint ---------------------------
(***************************************************************************)
(* The authorization-code and refresh-token flows of                       *)
(* internal/application/auth/service.go, over the rows that                *)
(* internal/infrastructure/sqlite/repositories.go keeps for them.  A       *)
(* request is an HTTP handler: it runs one database call at a time and     *)
(* other requests run between two of its calls.  What a call reads is kept *)
(* in the request's own record until it is used.                           *)
(*                                                                         *)
(* A rejected request changes no row, so a request that would be rejected  *)
(* by its first call is not started, and a rejection later on is a return  *)
(* to "idle".  A response that is lost is a response that is not used: any *)
(* code or token that exists may be presented again at any time.           *)
(***************************************************************************)
EXTENDS ScopeSets

CONSTANTS
  Users, Clients, Resources,  \* users.id, oauth_clients.id, config audience
  Scopes,             \* scope names, aliases included
  RegisteredScopes,   \* RegisteredScopes[c]: oauth_clients.scopes at first
  Reregistrations,    \* <<c, list>>: registrations of c with list to come
  ScopeParameters,    \* the scope parameters a request may carry
  Bindings,           \* redirect_uri with the PKCE challenge it came with
  Codes, Tokens,      \* raw codes and refresh tokens idgen can return
  GrantIds,           \* ids idgen can return for a grant
  Requests,           \* requests the server can have in flight together
  CodeTTL, RefreshTTL,
  MaxClock,           \* bound: the last clock reading
  Driver,             \* config storage.driver
  Faults,             \* a database call may fail or its context be cancelled
  Operators,          \* an operator may block clients and revoke grants
  None                \* no row, no value

Keys == [user : Users, client : Clients, resource : Resources]

ASSUME DriverAssumption == Driver \in {"postgres", "sqlite"}
ASSUME TTLAssumption == CodeTTL \in Nat /\ RefreshTTL \in Nat
ASSUME ClockAssumption == MaxClock \in Nat
ASSUME ScopesAssumption ==
  /\ RegisteredScopes \in [Clients -> SUBSET Scopes]
  /\ Reregistrations \subseteq Clients \X SUBSET Scopes
  /\ ScopeParameters \subseteq SUBSET Scopes
  /\ \A s \in Scopes : CanonicalScope(s) \in Scopes
ASSUME CredentialsAssumption == Codes \cap Tokens = {}
VARIABLES
  clock,       \* ports.Clock, in units of the TTLs
  blocked,     \* clients with disabled set or trust_level "blocked"
  registered,  \* oauth_clients.scopes
  lists,       \* history: the lists of scopes each client was registered with
  grants,      \* oauth_grants, under its unique key
  codes,       \* oauth_authorization_codes, under the hash
  tokens,      \* oauth_refresh_tokens, under the hash
  req,         \* the requests in flight
  origin,      \* history: the code a refresh token descends from
  answers      \* history: successful responses per presented credential

registry == <<blocked, registered, lists>>
rows == <<grants, codes, tokens>>
history == <<origin, answers>>
vars == <<clock, registry, rows, req, history>>

GrantRow == [id : GrantIds, scopes : SUBSET Scopes, active : BOOLEAN]

CodeRow == [key : Keys, binding : Bindings, exp : Nat, used : BOOLEAN]

TokenRow ==
  [gid : GrantIds, key : Keys, scopes : SUBSET Scopes, exp : Nat,
   used : BOOLEAN, revoked : BOOLEAN, next : Tokens \cup {None}]

ASSUME NoneAssumption ==
  /\ None \notin Keys \cup Clients \cup Bindings \cup Codes \cup Tokens
                \cup GrantIds
  /\ None \notin GrantRow \cup CodeRow \cup TokenRow

Stages ==
  {"idle",
   "authGrant", "saveCode",                          \* Authorize
   "upsert",                                         \* Consent
   "codeRead", "markCode", "exchGrant", "saveToken", \* ExchangeAuthorizationCode
   "clientRead", "refreshGrant", "rotate", "commit", \* Refresh
   "revoke", "revoking"}                             \* Refresh, after a replay

Request ==
  [at : Stages,
   client : Clients \cup {None}, key : Keys \cup {None},
   code : Codes \cup {None}, binding : Bindings \cup {None},
   tok : Tokens \cup {None}, next : Tokens \cup {None},
   gid : GrantIds \cup {None}, scopes : SUBSET Scopes,
   now : Nat, family : SUBSET Tokens]

Idle ==
  [at |-> "idle", client |-> None, key |-> None, code |-> None,
   binding |-> None, tok |-> None, next |-> None, gid |-> None,
   scopes |-> {}, now |-> 0, family |-> {}]

TypeOK ==
  /\ clock \in 0..MaxClock
  /\ blocked \subseteq Clients
  /\ registered \in [Clients -> SUBSET Scopes]
  /\ lists \in [Clients -> SUBSET SUBSET Scopes]
  /\ grants \in [Keys -> GrantRow \cup {None}]
  /\ codes \in [Codes -> CodeRow \cup {None}]
  /\ tokens \in [Tokens -> TokenRow \cup {None}]
  /\ req \in [Requests -> Request]
  /\ origin \in [Tokens -> Codes \cup {None}]
  /\ answers \in [Codes \cup Tokens -> Nat]

Init ==
  /\ clock = 0
  /\ blocked = {}
  /\ registered = RegisteredScopes
  /\ lists = [c \in Clients |-> {RegisteredScopes[c]}]
  /\ grants = [k \in Keys |-> None]
  /\ codes = [x \in Codes |-> None]
  /\ tokens = [t \in Tokens |-> None]
  /\ req = [r \in Requests |-> Idle]
  /\ origin = [t \in Tokens |-> None]
  /\ answers = [x \in Codes \cup Tokens |-> 0]

-----------------------------------------------------------------------------
(* Rows and transactions.                                                  *)

Finish(r) == req' = [req EXCEPT ![r] = Idle]

(* SQLite has one writer: an open RotateRefreshToken transaction keeps     *)
(* every other write out.  In PostgreSQL it locks the row it updated.      *)
InTransaction(r) == req[r].at = "commit"

CanWrite == Driver = "postgres" \/ \A r \in Requests : ~InTransaction(r)

(* Mutants: a transaction that blocks itself, as when its UPDATE is sent   *)
(* on another connection, and an UPDATE that locks nothing.                *)
SelfLocked(t) ==
  \E r \in Requests : req[r].at \in {"rotate", "commit"} /\ req[r].tok = t
NeverLocked(t) == FALSE

RowLocked(t) == \E r \in Requests : InTransaction(r) /\ req[r].tok = t

Unborn(t) == tokens[t] = None /\ \A r \in Requests : req[r].next # t

ActiveGrant(k) == grants[k] # None /\ grants[k].active

(* Mutant: a revocation that skips the tokens already used.                *)
UnusedFamily(gid) ==
  {t \in Tokens : /\ tokens[t] # None
                  /\ tokens[t].gid = gid
                  /\ ~tokens[t].used /\ ~tokens[t].revoked}

Family(gid) ==
  {t \in Tokens : tokens[t] # None /\ tokens[t].gid = gid /\ ~tokens[t].revoked}

(* The WHERE clauses of the two conditional updates, and their mutants.    *)
NoCondition(x) == TRUE
MarkCondition(x) == ~codes[x].used

OnlyUnrevoked(t) == ~tokens[t].revoked
OnlyUnused(t) == ~tokens[t].used
RotateCondition(t) == ~tokens[t].used /\ ~tokens[t].revoked

(* The old row after a rotation, and a mutant that forgets replaced_by_id. *)
UsedUp(row, n) == [row EXCEPT !.used = TRUE]
Replaced(row, n) == [row EXCEPT !.used = TRUE, !.next = n]

(* The row newRefreshToken builds, and a mutant with a swapped column.     *)
SwappedTokenRow(gid, key, scopes, now) ==
  [gid |-> key.user, key |-> key, scopes |-> scopes, exp |-> now + RefreshTTL,
   used |-> FALSE, revoked |-> FALSE, next |-> None]
RefreshTokenRow(gid, key, scopes, now) ==
  [gid |-> gid, key |-> key, scopes |-> scopes, exp |-> now + RefreshTTL,
   used |-> FALSE, revoked |-> FALSE, next |-> None]

(* Bounds: a request that may need a fresh code or token starts only when  *)
(* the model has one left for it, so no request is stuck for want of one.  *)
CodeLeft ==
  Cardinality({r \in Requests : req[r].at \in {"authGrant", "saveCode"}})
    < Cardinality({x \in Codes : codes[x] = None})

TokenLeft ==
  Cardinality({r \in Requests : req[r].at \in
                 {"codeRead", "markCode", "exchGrant", "saveToken",
                  "clientRead", "refreshGrant", "rotate"}})
    < Cardinality({t \in Tokens : Unborn(t)})

(* The scopes Authorize and Consent settle on for a client, and a mutant   *)
(* that forgets to restrict the request to the client's own scopes.        *)
AnyScopes(p, c) == NormalizeScopes(p)
ClientScopes(p, c) == GrantScopes(p, registered[c])

(* The request repeats what the code was issued for; the mutant forgets    *)
(* whose code it is.                                                       *)
SameBinding(row, c, b) == row.binding = b
SameRequest(row, c, b) == row.key.client = c /\ row.binding = b

-----------------------------------------------------------------------------
(* GET /oauth/authorize: client, active grant, code.                       *)

AuthorizeClient(r) ==
  /\ req[r].at = "idle"
  /\ CodeLeft
  /\ \E k \in Keys, b \in Bindings, p \in ScopeParameters :
       LET scopes == ClientScopes(p, k.client) IN
       /\ k.client \notin blocked
       /\ scopes # {}
       /\ req' = [req EXCEPT ![r] = [Idle EXCEPT !.at = "authGrant", !.key = k,
                                       !.binding = b, !.scopes = scopes]]
  /\ UNCHANGED <<clock, registry, rows, history>>

AuthorizeGrant(r) ==
  /\ req[r].at = "authGrant"
  /\ IF /\ ActiveGrant(req[r].key)
        /\ Covered(req[r].scopes, grants[req[r].key].scopes)
     THEN req' = [req EXCEPT ![r].at = "saveCode", ![r].now = clock]
     ELSE Finish(r)
  /\ UNCHANGED <<clock, registry, rows, history>>

SaveAuthorizationCode(r) ==
  /\ req[r].at = "saveCode"
  /\ CanWrite
  /\ \E x \in Codes :
       /\ codes[x] = None
       /\ codes' = [codes EXCEPT ![x] =
                      [key |-> req[r].key, binding |-> req[r].binding,
                       exp |-> req[r].now + CodeTTL, used |-> FALSE]]
  /\ Finish(r)
  /\ UNCHANGED <<clock, registry, grants, tokens, history>>

-----------------------------------------------------------------------------
(* POST /oauth/consent: client, then the upsert of the grant row.          *)

ConsentClient(r) ==
  /\ req[r].at = "idle"
  /\ \E k \in Keys, p \in ScopeParameters :
       LET scopes == ClientScopes(p, k.client) IN
       /\ k.client \notin blocked
       /\ scopes # {}
       /\ req' = [req EXCEPT ![r] = [Idle EXCEPT !.at = "upsert", !.key = k,
                                                 !.scopes = scopes]]
  /\ UNCHANGED <<clock, registry, rows, history>>

(* Mutant: an upsert whose conflict clause takes over the new id as well.  *)
ReplaceGrant(r) ==
  /\ req[r].at = "upsert"
  /\ CanWrite
  /\ \E id \in GrantIds :
       /\ \A j \in Keys : grants[j] # None => grants[j].id # id
       /\ grants' = [grants EXCEPT ![req[r].key] =
            [id |-> id, scopes |-> req[r].scopes, active |-> TRUE]]
  /\ Finish(r)
  /\ UNCHANGED <<clock, registry, codes, tokens, history>>

(* The row keeps its id on a conflict; scope and revoked_at are replaced.  *)
UpsertGrant(r) ==
  /\ req[r].at = "upsert"
  /\ CanWrite
  /\ LET k == req[r].key IN
     \/ /\ grants[k] # None
        /\ grants' = [grants EXCEPT ![k].scopes = req[r].scopes,
                                    ![k].active = TRUE]
     \/ /\ grants[k] = None
        /\ \E id \in GrantIds :
             /\ \A j \in Keys : grants[j] # None => grants[j].id # id
             /\ grants' = [grants EXCEPT ![k] =
                  [id |-> id, scopes |-> req[r].scopes, active |-> TRUE]]
  /\ Finish(r)
  /\ UNCHANGED <<clock, registry, codes, tokens, history>>

-----------------------------------------------------------------------------
(* POST /oauth/token, grant_type=authorization_code: client, code row,     *)
(* mark, active grant, refresh token.                                      *)

ExchangeClient(r) ==
  /\ req[r].at = "idle"
  /\ TokenLeft
  /\ \E c \in Clients \ blocked, b \in Bindings, x \in Codes :
       /\ codes[x] # None
       /\ req' = [req EXCEPT ![r] = [Idle EXCEPT !.at = "codeRead", !.code = x,
                                       !.client = c, !.binding = b]]
  /\ UNCHANGED <<clock, registry, rows, history>>

ReadCode(r) ==
  /\ req[r].at = "codeRead"
  /\ LET row == codes[req[r].code] IN
     IF /\ ~row.used
        /\ clock <= row.exp
        /\ SameRequest(row, req[r].client, req[r].binding)
     THEN req' = [req EXCEPT ![r].at = "markCode", ![r].key = row.key,
                             ![r].now = clock]
     ELSE Finish(r)
  /\ UNCHANGED <<clock, registry, rows, history>>

MarkAuthorizationCodeUsed(r) ==
  /\ req[r].at = "markCode"
  /\ CanWrite
  /\ \/ /\ MarkCondition(req[r].code)
        /\ codes' = [codes EXCEPT ![req[r].code].used = TRUE]
        /\ req' = [req EXCEPT ![r].at = "exchGrant"]
     \/ /\ ~MarkCondition(req[r].code)
        /\ Finish(r)
        /\ UNCHANGED codes
  /\ UNCHANGED <<clock, registry, grants, tokens, history>>

(* The access token is signed for the grant; without offline_access that   *)
(* is the whole answer.                                                    *)
ExchangeGrant(r) ==
  /\ req[r].at = "exchGrant"
  /\ LET k == req[r].key IN
     \/ /\ ~ActiveGrant(k)
        /\ Finish(r)
        /\ UNCHANGED answers
     \/ /\ ActiveGrant(k)
        /\ OfflineAccess \notin grants[k].scopes
        /\ answers' = [answers EXCEPT ![req[r].code] = @ + 1]
        /\ Finish(r)
     \/ /\ ActiveGrant(k)
        /\ OfflineAccess \in grants[k].scopes
        /\ req' = [req EXCEPT ![r].at = "saveToken", ![r].gid = grants[k].id,
                              ![r].scopes = grants[k].scopes]
        /\ UNCHANGED answers
  /\ UNCHANGED <<clock, registry, rows, origin>>

SaveRefreshToken(r) ==
  /\ req[r].at = "saveToken"
  /\ CanWrite
  /\ \E t \in Tokens :
       /\ Unborn(t)
       /\ tokens' = [tokens EXCEPT ![t] =
            RefreshTokenRow(req[r].gid, req[r].key, req[r].scopes, req[r].now)]
       /\ origin' = [origin EXCEPT ![t] = req[r].code]
  /\ answers' = [answers EXCEPT ![req[r].code] = @ + 1]
  /\ Finish(r)
  /\ UNCHANGED <<clock, registry, grants, codes>>

-----------------------------------------------------------------------------
(* POST /oauth/token, grant_type=refresh_token: token row, then either the *)
(* revocation of the family, or client, active grant and rotation.  The    *)
(* replay is noticed before the client id, the expiry or the resource is   *)
(* looked at.                                                              *)

ReadRefreshToken(r) ==
  /\ req[r].at = "idle"
  /\ \E t \in Tokens :
       /\ tokens[t] # None
       /\ LET row == tokens[t] IN
          \/ /\ row.used \/ row.revoked
             /\ req' = [req EXCEPT ![r] = [Idle EXCEPT
                          !.at = "revoke", !.tok = t, !.gid = row.gid]]
          \/ /\ ~row.used /\ ~row.revoked
             /\ clock <= row.exp
             /\ TokenLeft
             /\ req' = [req EXCEPT ![r] = [Idle EXCEPT
                          !.at = "clientRead", !.tok = t, !.key = row.key,
                          !.now = clock]]
  /\ UNCHANGED <<clock, registry, rows, history>>

RefreshClient(r) ==
  /\ req[r].at = "clientRead"
  /\ IF req[r].key.client \notin blocked
     THEN req' = [req EXCEPT ![r].at = "refreshGrant"]
     ELSE Finish(r)
  /\ UNCHANGED <<clock, registry, rows, history>>

(* Mutant: the new token gets the scopes of the old one.                   *)
RefreshSameScopes(r) ==
  /\ req[r].at = "refreshGrant"
  /\ LET k == req[r].key IN
     IF ActiveGrant(k)
     THEN req' = [req EXCEPT ![r].at = "rotate", ![r].gid = grants[k].id,
                             ![r].scopes = tokens[req[r].tok].scopes]
     ELSE Finish(r)
  /\ UNCHANGED <<clock, registry, rows, history>>
RefreshGrant(r) ==
  /\ req[r].at = "refreshGrant"
  /\ LET k == req[r].key IN
     IF ActiveGrant(k)
     THEN req' = [req EXCEPT ![r].at = "rotate", ![r].gid = grants[k].id,
                             ![r].scopes = grants[k].scopes]
     ELSE Finish(r)
  /\ UNCHANGED <<clock, registry, rows, history>>

(* RotateRefreshToken up to its commit: the successor is inserted, and the *)
(* UPDATE waits for the row and then finds it unused or rolls back.        *)
RotateRefreshToken(r) ==
  /\ req[r].at = "rotate"
  /\ CanWrite
  /\ ~RowLocked(req[r].tok)
  /\ \/ /\ RotateCondition(req[r].tok)
        /\ \E n \in Tokens :
             /\ Unborn(n)
             /\ req' = [req EXCEPT ![r].at = "commit", ![r].next = n]
     \/ /\ ~RotateCondition(req[r].tok)
        /\ Finish(r)
  /\ UNCHANGED <<clock, registry, rows, history>>

CommitRotation(r) ==
  /\ req[r].at = "commit"
  /\ LET t == req[r].tok
         n == req[r].next IN
     /\ tokens' = [tokens EXCEPT
          ![t] = Replaced(@, n),
          ![n] = RefreshTokenRow(req[r].gid, req[r].key, req[r].scopes,
                                 req[r].now)]
     /\ origin' = [origin EXCEPT ![n] = origin[t]]
     /\ answers' = [answers EXCEPT ![t] = @ + 1]
  /\ Finish(r)
  /\ UNCHANGED <<clock, registry, grants, codes>>

(* RevokeRefreshTokensByGrant.  The PostgreSQL statement updates the rows  *)
(* its snapshot shows, waiting for the locked ones; SQLite runs it alone.  *)
RevokeRows(r, family) ==
  /\ tokens' = [t \in Tokens |->
                 IF t \in family THEN [tokens[t] EXCEPT !.revoked = TRUE]
                                 ELSE tokens[t]]
  /\ Finish(r)
  /\ UNCHANGED <<clock, registry, grants, codes, history>>

RevokeSnapshot(r) ==
  /\ req[r].at = "revoke"
  /\ Driver = "postgres"
  /\ req' = [req EXCEPT ![r].at = "revoking", ![r].family = Family(req[r].gid)]
  /\ UNCHANGED <<clock, registry, rows, history>>

RevokeSnapshotRows(r) ==
  /\ req[r].at = "revoking"
  /\ \A t \in req[r].family : ~RowLocked(t)
  /\ RevokeRows(r, req[r].family)

RevokeAlone(r) ==
  /\ req[r].at = "revoke"
  /\ Driver = "sqlite"
  /\ CanWrite
  /\ RevokeRows(r, Family(req[r].gid))

-----------------------------------------------------------------------------
(* The environment.                                                        *)

(* A database error or a cancelled request context, at any call: the       *)
(* handler returns, an open transaction is rolled back, and what earlier   *)
(* calls wrote stays.  A crash of the server is one of these per request.  *)
Abort(r) ==
  /\ Faults
  /\ req[r].at # "idle"
  /\ Finish(r)
  /\ UNCHANGED <<clock, registry, rows, history>>

Tick ==
  /\ clock < MaxClock
  /\ clock' = clock + 1
  /\ UNCHANGED <<registry, rows, req, history>>

SetBlocked(c) ==
  /\ Operators
  /\ blocked' = IF c \in blocked THEN blocked \ {c} ELSE blocked \cup {c}
  /\ UNCHANGED <<clock, registered, lists, rows, req, history>>

(* Dynamic registration under an id that exists: the upsert of the row,    *)
(* which gives the client another list of scopes and leaves it neither     *)
(* disabled nor blocked.  Grants and tokens stay.                          *)
ReplaceClient(c) ==
  /\ CanWrite
  /\ \E list \in SUBSET Scopes :
       /\ <<c, list>> \in Reregistrations
       /\ registered' = [registered EXCEPT ![c] = list]
       /\ lists' = [lists EXCEPT ![c] = @ \cup {list}]
  /\ blocked' = blocked \ {c}
  /\ UNCHANGED <<clock, rows, req, history>>

RevokeGrant(k) ==
  /\ Operators
  /\ ActiveGrant(k)
  /\ grants' = [grants EXCEPT ![k].active = FALSE]
  /\ UNCHANGED <<clock, registry, codes, tokens, req, history>>

-----------------------------------------------------------------------------
Begin(r) ==
  \/ AuthorizeClient(r)
  \/ ConsentClient(r)
  \/ ExchangeClient(r)
  \/ ReadRefreshToken(r)

Continue(r) ==
  \/ AuthorizeGrant(r)
  \/ SaveAuthorizationCode(r)
  \/ UpsertGrant(r)
  \/ ReadCode(r)
  \/ MarkAuthorizationCodeUsed(r)
  \/ ExchangeGrant(r)
  \/ SaveRefreshToken(r)
  \/ RefreshClient(r)
  \/ RefreshGrant(r)
  \/ RotateRefreshToken(r)
  \/ CommitRotation(r)
  \/ RevokeSnapshot(r)
  \/ RevokeSnapshotRows(r)
  \/ RevokeAlone(r)

Next ==
  \/ \E r \in Requests : Begin(r) \/ Continue(r) \/ Abort(r)
  \/ Tick
  \/ \E c \in Clients : SetBlocked(c) \/ ReplaceClient(c)
  \/ \E k \in Keys : RevokeGrant(k)

Spec == Init /\ [][Next]_vars

(* A handler that has started keeps running, a row lock is released when   *)
(* its holder commits.  Nobody is obliged to send a request.               *)
FairSpec == Spec /\ \A r \in Requests : WF_vars(Continue(r))

-----------------------------------------------------------------------------
(* Properties.                                                             *)

(* A code or refresh token earns at most one successful response, however  *)
(* many requests present it at the same time or again later                *)
(* (MarkAuthorizationCodeUsed and RotateRefreshToken against the stale     *)
(* reads of ExchangeAuthorizationCode and Refresh).                        *)
AnsweredOnce == \A x \in Codes \cup Tokens : answers[x] <= 1

(* All refresh tokens that descend from one code form one chain with at    *)
(* most one unused token at its end: concurrent exchanges and rotations    *)
(* never fork the lineage (RotateRefreshToken inserts and marks in one     *)
(* transaction).                                                           *)
OneUnusedPerLineage ==
  \A t, u \in Tokens :
    /\ tokens[t] # None /\ ~tokens[t].used
    /\ tokens[u] # None /\ ~tokens[u].used
    /\ origin[t] = origin[u]
    => t = u

(* A token is used exactly when it names a successor, the successor exists *)
(* under the same grant and outlives it, and no two tokens name the same   *)
(* one (RotateRefreshToken, newRefreshToken).                              *)
RotationChain ==
  \A t \in Tokens : tokens[t] # None =>
    LET n == tokens[t].next IN
    /\ tokens[t].used <=> n # None
    /\ n # None =>
         /\ tokens[n] # None
         /\ tokens[n].gid = tokens[t].gid
         /\ tokens[n].key = tokens[t].key
         /\ tokens[n].exp >= tokens[t].exp
         /\ \A u \in Tokens \ {t} : tokens[u] # None => tokens[u].next # n

(* Every code and refresh token belongs to a grant row of its user, client *)
(* and resource, and the grant id a token carries is that row's id for as  *)
(* long as the token exists: revoking by grant id reaches it even after    *)
(* later consents (UpsertGrant keeps the id on a conflict).                *)
CredentialsHaveTheirGrant ==
  /\ \A x \in Codes : codes[x] # None => grants[codes[x].key] # None
  /\ \A t \in Tokens : tokens[t] # None =>
       /\ grants[tokens[t].key] # None
       /\ grants[tokens[t].key].id = tokens[t].gid
       /\ codes[origin[t]] # None
       /\ codes[origin[t]].key = tokens[t].key

(* What users grant and tokens carry is never empty, which grantScopes     *)
(* would read as "everything", and stays within one list of scopes the     *)
(* client was registered with, the one Consent read: registrations that    *)
(* replace the row meanwhile mix no two lists.  A list of nothing allows   *)
(* all.  What the client is registered with now does not bound it: Refresh *)
(* issues the grant's scopes and does not look at the client's.            *)
ScopesStayRegistered ==
  LET Within(scopes, c) ==
        /\ scopes # {}
        /\ \E list \in lists[c] :
             \/ NormalizeScopes(list) = {}
             \/ scopes \subseteq NormalizeScopes(list)
  IN /\ \A k \in Keys : grants[k] # None => Within(grants[k].scopes, k.client)
     /\ \A t \in Tokens : tokens[t] # None =>
          Within(tokens[t].scopes, tokens[t].key.client)

(* When a replay has revoked a token, the token that replaced it is        *)
(* revoked too: the thief's and the owner's end of the chain die together  *)
(* (RevokeRefreshTokensByGrant against a concurrent RotateRefreshToken).   *)
RevocationReachesSuccessor ==
  \A t \in Tokens :
    tokens[t] # None /\ tokens[t].revoked /\ tokens[t].next # None
      => tokens[tokens[t].next].revoked

(* A revoked token is final: it is never rotated, un-revoked or rewritten  *)
(* by a request that read it before the revocation.                        *)
RevokedIsFinal ==
  [][\A t \in Tokens :
       tokens[t] # None /\ tokens[t].revoked => tokens'[t] = tokens[t]]_vars

(* Once a client is blocked and the requests that had already read it as   *)
(* allowed are over, no flow starts again for it, and no grant or token of *)
(* it is inserted and no code of it inserted or changed, until it is       *)
(* unblocked, whichever client the request claims to be.  A replay of its  *)
(* tokens still revokes them.                                              *)
Concerns(r, c) ==
  \/ req[r].at = "codeRead" /\ req[r].client = c
  \/ /\ req[r].at \notin {"clientRead", "revoke", "revoking"}
     /\ req[r].key # None
     /\ req[r].key.client = c

Quiet(c) == \A r \in Requests : ~Concerns(r, c)

BlockedStaysQuiet ==
  [][\A c \in blocked \cap blocked' : Quiet(c) =>
       /\ Quiet(c)'
       /\ \A k \in Keys : k.client = c /\ grants[k] = None => grants'[k] = None
       /\ \A x \in Codes :
            codes'[x] # None /\ codes'[x].key.client = c => codes'[x] = codes[x]
       /\ \A t \in Tokens :
            tokens[t] = None /\ tokens'[t] # None => tokens'[t].key.client # c]_vars

(* Once a scope is no longer granted, by a narrower consent or because the *)
(* grant is revoked, and the requests that had read or were writing the    *)
(* grant with it are over, no new token gets it until the user consents to *)
(* it again, although older tokens still carry it (ExchangeAuthorization-  *)
(* Code and Refresh issue what the grant has, not what the code or the old *)
(* token was for).                                                         *)
Withdrawn(k, s) ==
  /\ grants[k] # None
  /\ ~grants[k].active \/ s \notin grants[k].scopes
Carries(r, k, s) ==
  /\ req[r].at \in {"upsert", "saveToken", "rotate", "commit"}
  /\ req[r].key = k
  /\ s \in req[r].scopes
WithdrawnScopeStaysOut ==
  [][\A k \in Keys, s \in Scopes :
       Withdrawn(k, s) /\ (\A r \in Requests : ~Carries(r, k, s)) =>
         /\ Withdrawn(k, s)'
         /\ \A r \in Requests : Carries(r, k, s)' => req'[r].at = "upsert"
         /\ \A t \in Tokens :
              tokens[t] = None /\ tokens'[t] # None /\ tokens'[t].key = k
                => s \notin tokens'[t].scopes]_vars

(* Every request that has started returns, whatever locks others hold.     *)
RequestsReturn == \A r \in Requests : req[r].at # "idle" ~> req[r].at = "idle"

(* Without database errors, a replayed token is revoked in the end.        *)
ReplayIsRevoked ==
  \A r \in Requests, t \in Tokens :
    req[r].at = "revoke" /\ req[r].tok = t
      ~> tokens[t] # None /\ tokens[t].revoked
=============================================================================
