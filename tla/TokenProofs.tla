---------------------------- MODULE TokenProofs ----------------------------
(* Proofs about TokenEndpoint for every value of its constants. *)
EXTENDS TokenInvariants, ScopeProofs, TLAPS

USE NoneAssumption

(* Rows are never deleted; their keys and ids are never rewritten.         *)
RowsStay ==
  /\ \A k \in Keys : grants[k] # None =>
       grants'[k] # None /\ grants'[k].id = grants[k].id
  /\ \A x \in Codes : codes[x] # None =>
       codes'[x] # None /\ codes'[x].key = codes[x].key
  /\ \A t \in Tokens : tokens[t] # None =>
       tokens'[t] # None /\ tokens'[t].key = tokens[t].key

LEMMA IdleIsRequest == Idle \in Request
  BY DEF Idle, Request, Stages

LEMMA Others ==
  ASSUME StagesInv, RowsStay,
         NEW r \in Requests, \A s \in Requests \ {r} : req'[s] = req[s],
         NEW s \in Requests, s # r
  PROVE  StageOK(s)'
<1> DEFINE q == req[s]
<1>1. req'[s] = q /\ q \in Request
  BY DEF StagesInv, TypeOK
<1>2. StageOK(s)
  BY DEF StagesInv
<1>3. q.at \in {"markCode", "exchGrant", "saveToken"} => q.key \in Keys
  BY <1>2 DEF StageOK, StagesInv, TypeOK, CodeRow
<1>4. q.at \in {"clientRead", "refreshGrant", "rotate", "commit"} => q.key \in Keys
  BY <1>2 DEF StageOK, StagesInv, TypeOK, TokenRow
<1>5. q.family \subseteq Tokens
  BY <1>1 DEF Request
<1> HIDE DEF q
<1>6. QED
  BY <1>1, <1>2, <1>3, <1>4, <1>5 DEF StageOK, RowsStay, q

LEMMA Finished ==
  ASSUME TypeOK, NEW r \in Requests, Finish(r)
  PROVE  /\ req' \in [Requests -> Request]
         /\ req'[r] = Idle
         /\ \A s \in Requests \ {r} : req'[s] = req[s]
         /\ StageOK(r)'
<1>1. /\ req' \in [Requests -> Request]
      /\ req'[r] = Idle
      /\ \A s \in Requests \ {r} : req'[s] = req[s]
  BY IdleIsRequest DEF Finish, TypeOK
<1>2. StageOK(r)'
  BY <1>1 DEF StageOK, Idle
<1> QED BY <1>1, <1>2

(* A step of one request preserves StagesInv when the rows stay and the    *)
(* request's own record is right afterwards.                               *)
LEMMA StepOfOne ==
  ASSUME StagesInv, RowsStay, TypeOK',
         NEW r \in Requests, \A s \in Requests \ {r} : req'[s] = req[s],
         StageOK(r)'
  PROVE  StagesInv'
<1>1. ASSUME NEW s \in Requests PROVE StageOK(s)'
  <2>1. CASE s = r
    BY <2>1
  <2>2. CASE s # r
    BY <2>2, Others
  <2> QED BY <2>1, <2>2
<1> QED BY <1>1 DEF StagesInv

LEMMA RowsUnchanged ==
  ASSUME UNCHANGED rows PROVE RowsStay
  BY DEF rows, RowsStay

(* A step that only moves request r on, leaving the rows alone.            *)
LEMMA Moved ==
  ASSUME StagesInv, NEW r \in Requests, NEW v \in Request,
         req' = [req EXCEPT ![r] = v], StageOK(r)',
         UNCHANGED <<clock, registry, rows>>,
         origin' \in [Tokens -> Codes \cup {None}],
         answers' \in [Codes \cup Tokens -> Nat]
  PROVE  StagesInv'
<1>1. /\ req' \in [Requests -> Request]
      /\ \A s \in Requests \ {r} : req'[s] = req[s]
  BY DEF StagesInv, TypeOK
<1>2. TypeOK'
  BY <1>1 DEF StagesInv, TypeOK, registry, rows
<1>3. RowsStay
  BY RowsUnchanged
<1> QED BY <1>1, <1>2, <1>3, StepOfOne

LEMMA ClientScopesType ==
  ASSUME TypeOK, NEW p \in ScopeParameters, NEW k \in Keys
  PROVE  ClientScopes(p, k.client) \in SUBSET Scopes
  BY ScopesAssumption, GrantScopesType DEF Keys, ClientScopes, TypeOK

LEMMA AuthorizeClientStages ==
  ASSUME StagesInv, NEW r \in Requests, AuthorizeClient(r)
  PROVE  StagesInv'
<1>1. PICK k \in Keys, b \in Bindings, p \in ScopeParameters :
        req' = [req EXCEPT ![r] = [Idle EXCEPT !.at = "authGrant", !.key = k,
                  !.binding = b, !.scopes = ClientScopes(p, k.client)]]
  BY DEF AuthorizeClient
<1> DEFINE v == [Idle EXCEPT !.at = "authGrant", !.key = k, !.binding = b,
                             !.scopes = ClientScopes(p, k.client)]
<1>2. ClientScopes(p, k.client) \in SUBSET Scopes
  BY ClientScopesType DEF StagesInv
<1>3. v \in Request
  BY <1>2 DEF Idle, Request, Stages
<1>4. StageOK(r)'
  BY <1>1 DEF StageOK, Idle, StagesInv, TypeOK
<1> QED BY <1>1, <1>3, <1>4, Moved DEF AuthorizeClient, StagesInv, TypeOK, history

(* A request that returns, the rows staying as they are.                   *)
LEMMA Returned ==
  ASSUME StagesInv, NEW r \in Requests, Finish(r),
         UNCHANGED <<clock, registry, rows>>,
         origin' \in [Tokens -> Codes \cup {None}],
         answers' \in [Codes \cup Tokens -> Nat]
  PROVE  StagesInv'
<1>1. StageOK(r)'
  BY Finished DEF StagesInv
<1> QED BY <1>1, IdleIsRequest, Moved DEF Finish

LEMMA AuthorizeGrantStages ==
  ASSUME StagesInv, NEW r \in Requests, AuthorizeGrant(r)
  PROVE  StagesInv'
<1> DEFINE v == [req[r] EXCEPT !.at = "saveCode", !.now = clock]
<1>1. CASE req' = [req EXCEPT ![r].at = "saveCode", ![r].now = clock]
           /\ ActiveGrant(req[r].key)
  <2>1. req[r] \in Request /\ StageOK(r) /\ clock \in Nat
    BY DEF StagesInv, TypeOK
  <2>2. v \in Request /\ req' = [req EXCEPT ![r] = v]
    BY <1>1, <2>1 DEF Request, Stages, StagesInv, TypeOK
  <2>3. StageOK(r)'
    BY <1>1, <2>1, <2>2 DEF StageOK, AuthorizeGrant, ActiveGrant, rows, Request, StagesInv, TypeOK
  <2> QED BY <2>2, <2>3, Moved DEF AuthorizeGrant, StagesInv, TypeOK, history
<1>2. CASE Finish(r)
  BY <1>2, Returned DEF AuthorizeGrant, StagesInv, TypeOK, history
<1> QED BY <1>1, <1>2 DEF AuthorizeGrant

LEMMA ConsentClientStages ==
  ASSUME StagesInv, NEW r \in Requests, ConsentClient(r)
  PROVE  StagesInv'
<1>1. PICK k \in Keys, p \in ScopeParameters :
        req' = [req EXCEPT ![r] = [Idle EXCEPT !.at = "upsert", !.key = k,
                                     !.scopes = ClientScopes(p, k.client)]]
  BY DEF ConsentClient
<1> DEFINE v == [Idle EXCEPT !.at = "upsert", !.key = k,
                             !.scopes = ClientScopes(p, k.client)]
<1>2. v \in Request
  BY ClientScopesType DEF Idle, Request, Stages, StagesInv
<1>3. StageOK(r)'
  BY <1>1 DEF StageOK, Idle, StagesInv, TypeOK
<1> QED BY <1>1, <1>2, <1>3, Moved DEF ConsentClient, StagesInv, TypeOK, history

LEMMA ExchangeClientStages ==
  ASSUME StagesInv, NEW r \in Requests, ExchangeClient(r)
  PROVE  StagesInv'
<1>1. PICK c \in Clients \ blocked, b \in Bindings, x \in Codes :
        /\ codes[x] # None
        /\ req' = [req EXCEPT ![r] = [Idle EXCEPT !.at = "codeRead", !.code = x,
                                        !.client = c, !.binding = b]]
  BY DEF ExchangeClient
<1> DEFINE v == [Idle EXCEPT !.at = "codeRead", !.code = x, !.client = c,
                             !.binding = b]
<1>2. v \in Request
  BY DEF Idle, Request, Stages
<1>3. StageOK(r)'
  BY <1>1 DEF StageOK, Idle, StagesInv, TypeOK, ExchangeClient, rows
<1> QED BY <1>1, <1>2, <1>3, Moved DEF ExchangeClient, StagesInv, TypeOK, history

LEMMA ReadCodeStages ==
  ASSUME StagesInv, NEW r \in Requests, ReadCode(r)
  PROVE  StagesInv'
<1> DEFINE row == codes[req[r].code]
           v == [req[r] EXCEPT !.at = "markCode", !.key = row.key, !.now = clock]
<1>1. CASE req' = [req EXCEPT ![r].at = "markCode", ![r].key = row.key,
                              ![r].now = clock]
  <2>1. req[r] \in Request /\ StageOK(r) /\ clock \in Nat /\ req[r].at = "codeRead"
    BY DEF StagesInv, TypeOK, ReadCode
  <2>2. row \in CodeRow
    BY <2>1 DEF StageOK, StagesInv, TypeOK
  <2>3. v \in Request /\ req' = [req EXCEPT ![r] = v]
    BY <1>1, <2>1, <2>2 DEF Request, Stages, StagesInv, TypeOK, CodeRow
  <2>4. StageOK(r)'
    BY <1>1, <2>1, <2>3 DEF StageOK, ReadCode, rows, Request, StagesInv, TypeOK
  <2> QED BY <2>3, <2>4, Moved DEF ReadCode, StagesInv, TypeOK, history
<1>2. CASE Finish(r)
  BY <1>2, Returned DEF ReadCode, StagesInv, TypeOK, history
<1> QED BY <1>1, <1>2 DEF ReadCode

LEMMA ReadRefreshTokenStages ==
  ASSUME StagesInv, NEW r \in Requests, ReadRefreshToken(r)
  PROVE  StagesInv'
<1>1. PICK t \in Tokens :
        /\ tokens[t] # None
        /\ \/ req' = [req EXCEPT ![r] = [Idle EXCEPT !.at = "revoke", !.tok = t,
                                           !.gid = tokens[t].gid]]
           \/ req' = [req EXCEPT ![r] = [Idle EXCEPT !.at = "clientRead",
                         !.tok = t, !.key = tokens[t].key, !.now = clock]]
  BY DEF ReadRefreshToken
<1>2. tokens[t] \in TokenRow /\ clock \in Nat
  BY <1>1 DEF StagesInv, TypeOK
<1> DEFINE v == [Idle EXCEPT !.at = "revoke", !.tok = t, !.gid = tokens[t].gid]
           w == [Idle EXCEPT !.at = "clientRead", !.tok = t,
                             !.key = tokens[t].key, !.now = clock]
<1>3. v \in Request /\ w \in Request
  BY <1>2 DEF Idle, Request, Stages, TokenRow
<1>4. CASE req' = [req EXCEPT ![r] = v]
  <2>1. StageOK(r)'
    BY <1>4 DEF StageOK, Idle, StagesInv, TypeOK
  <2> QED BY <1>3, <1>4, <2>1, Moved DEF ReadRefreshToken, StagesInv, TypeOK, history
<1>5. CASE req' = [req EXCEPT ![r] = w]
  <2>1. StageOK(r)'
    BY <1>1, <1>5 DEF StageOK, Idle, StagesInv, TypeOK, ReadRefreshToken, rows
  <2> QED BY <1>3, <1>5, <2>1, Moved DEF ReadRefreshToken, StagesInv, TypeOK, history
<1> QED BY <1>1, <1>4, <1>5

LEMMA SaveAuthorizationCodeStages ==
  ASSUME StagesInv, NEW r \in Requests, SaveAuthorizationCode(r)
  PROVE  StagesInv' /\ RowsStay
<1>1. PICK x \in Codes :
        /\ codes[x] = None
        /\ codes' = [codes EXCEPT ![x] =
                       [key |-> req[r].key, binding |-> req[r].binding,
                        exp |-> req[r].now + CodeTTL, used |-> FALSE]]
  BY DEF SaveAuthorizationCode
<1>2. /\ req[r].key \in Keys /\ req[r].binding \in Bindings
      /\ req[r].now + CodeTTL \in Nat
  BY TTLAssumption DEF SaveAuthorizationCode, StagesInv, StageOK, TypeOK, Request
<1>3. codes' \in [Codes -> CodeRow \cup {None}]
  BY <1>1, <1>2 DEF CodeRow, StagesInv, TypeOK
<1>4. TypeOK' /\ StageOK(r)' /\ \A s \in Requests \ {r} : req'[s] = req[s]
  BY <1>3, Finished
     DEF SaveAuthorizationCode, StagesInv, TypeOK, registry, history
<1>5. RowsStay
  BY <1>1 DEF SaveAuthorizationCode, RowsStay, StagesInv, TypeOK
<1> QED BY <1>4, <1>5, StepOfOne

LEMMA UpsertGrantStages ==
  ASSUME StagesInv, NEW r \in Requests, UpsertGrant(r)
  PROVE  StagesInv' /\ RowsStay
<1> DEFINE k == req[r].key
<1>1. k \in Keys /\ req[r].scopes \in SUBSET Scopes
  BY DEF UpsertGrant, StagesInv, StageOK, TypeOK, Request
<1>2. ASSUME grants' \in [Keys -> GrantRow \cup {None}], RowsStay
      PROVE  StagesInv'
  <2>1. TypeOK' /\ StageOK(r)' /\ \A s \in Requests \ {r} : req'[s] = req[s]
    BY <1>2, Finished DEF UpsertGrant, StagesInv, TypeOK, registry, history
  <2> QED BY <1>2, <2>1, StepOfOne
<1>3. CASE /\ grants[k] # None
           /\ grants' = [grants EXCEPT ![k].scopes = req[r].scopes,
                                       ![k].active = TRUE]
  <2> DEFINE row == [grants[k] EXCEPT !.scopes = req[r].scopes, !.active = TRUE]
  <2>1. grants[k] \in GrantRow
    BY <1>1, <1>3 DEF StagesInv, TypeOK
  <2>2. row \in GrantRow /\ row.id = grants[k].id
    BY <1>1, <2>1 DEF GrantRow
  <2>3. grants' = [grants EXCEPT ![k] = row]
    BY <1>1, <1>3, <2>1 DEF StagesInv, TypeOK, GrantRow
  <2> HIDE DEF row
  <2>4. grants' \in [Keys -> GrantRow \cup {None}]
    BY <1>1, <2>2, <2>3 DEF StagesInv, TypeOK
  <2>5. RowsStay
    BY <1>1, <2>2, <2>3 DEF UpsertGrant, RowsStay, StagesInv, TypeOK
  <2> QED BY <1>2, <2>4, <2>5
<1>4. CASE grants[k] = None
  <2>1. PICK id \in GrantIds : grants' = [grants EXCEPT ![k] =
          [id |-> id, scopes |-> req[r].scopes, active |-> TRUE]]
    BY <1>4 DEF UpsertGrant
  <2>2. grants' \in [Keys -> GrantRow \cup {None}]
    BY <1>1, <2>1 DEF GrantRow, StagesInv, TypeOK
  <2>3. RowsStay
    BY <1>1, <1>4, <2>1 DEF UpsertGrant, RowsStay, StagesInv, TypeOK
  <2> QED BY <1>2, <2>2, <2>3
<1> QED BY <1>2, <1>3, <1>4 DEF UpsertGrant

LEMMA MarkAuthorizationCodeUsedStages ==
  ASSUME StagesInv, NEW r \in Requests, MarkAuthorizationCodeUsed(r)
  PROVE  StagesInv' /\ RowsStay
<1> DEFINE x == req[r].code
<1>1. /\ x \in Codes /\ codes[x] \in CodeRow /\ req[r] \in Request
      /\ req[r].key = codes[x].key /\ req[r].next = None
  BY DEF MarkAuthorizationCodeUsed, StagesInv, StageOK, TypeOK
<1>2. CASE /\ codes' = [codes EXCEPT ![x].used = TRUE]
           /\ req' = [req EXCEPT ![r].at = "exchGrant"]
  <2>1. codes' \in [Codes -> CodeRow \cup {None}]
    BY <1>1, <1>2 DEF CodeRow, StagesInv, TypeOK
  <2>2. req' \in [Requests -> Request]
    BY <1>1, <1>2 DEF Request, Stages, StagesInv, TypeOK
  <2>3. TypeOK' /\ \A s \in Requests \ {r} : req'[s] = req[s]
    BY <1>2, <2>1, <2>2
       DEF MarkAuthorizationCodeUsed, StagesInv, TypeOK, registry, history
  <2>4. codes'[x] \in CodeRow /\ codes'[x].key = codes[x].key
    BY <1>1, <1>2 DEF CodeRow, StagesInv, TypeOK
  <2>5. StageOK(r)'
    <3>1. /\ req'[r].at = "exchGrant" /\ req'[r].code = x
          /\ req'[r].key = req[r].key /\ req'[r].next = None
      BY <1>1, <1>2 DEF Request, StagesInv, TypeOK
    <3> QED BY <1>1, <2>4, <3>1 DEF StageOK
  <2>6. RowsStay
    BY <1>1, <1>2, <2>4 DEF MarkAuthorizationCodeUsed, RowsStay, StagesInv, TypeOK
  <2> QED BY <2>3, <2>5, <2>6, StepOfOne
<1>3. CASE Finish(r) /\ UNCHANGED codes
  BY <1>3, Returned, RowsUnchanged DEF MarkAuthorizationCodeUsed, StagesInv, TypeOK, history, rows
<1> QED BY <1>2, <1>3 DEF MarkAuthorizationCodeUsed

LEMMA WithGrant ==
  ASSUME NEW q \in Request, NEW at \in Stages, NEW gid \in GrantIds,
         NEW scopes \in SUBSET Scopes
  PROVE  [q EXCEPT !.at = at, !.gid = gid, !.scopes = scopes] \in Request
  BY DEF Request

LEMMA ExchangeGrantStages ==
  ASSUME StagesInv, NEW r \in Requests, ExchangeGrant(r)
  PROVE  StagesInv'
<1> DEFINE k == req[r].key
           v == [req[r] EXCEPT !.at = "saveToken", !.gid = grants[k].id,
                               !.scopes = grants[k].scopes]
<1>1. /\ req[r] \in Request /\ StageOK(r) /\ req[r].at = "exchGrant"
      /\ req[r].code \in Codes /\ codes[req[r].code] \in CodeRow
      /\ k = codes[req[r].code].key
  BY DEF ExchangeGrant, StagesInv, StageOK, TypeOK
<1>2. k \in Keys
  BY <1>1 DEF CodeRow
<1>3. CASE Finish(r)
  <2>1. answers' \in [Codes \cup Tokens -> Nat]
    BY <1>1 DEF ExchangeGrant, StagesInv, TypeOK
  <2> QED BY <1>3, <2>1, Returned DEF ExchangeGrant, StagesInv, TypeOK
<1>4. CASE /\ ActiveGrant(k)
           /\ req' = [req EXCEPT ![r].at = "saveToken", ![r].gid = grants[k].id,
                                 ![r].scopes = grants[k].scopes]
           /\ UNCHANGED answers
  <2>1. grants[k] \in GrantRow
    BY <1>2, <1>4 DEF ActiveGrant, StagesInv, TypeOK
  <2>2. v \in Request /\ req' = [req EXCEPT ![r] = v]
    BY <1>1, <1>4, <2>1 DEF Request, Stages, StagesInv, TypeOK, GrantRow
  <2>3. /\ req'[r].at = "saveToken" /\ req'[r].code = req[r].code
        /\ req'[r].key = k /\ req'[r].gid = grants[k].id
        /\ req'[r].next = req[r].next
    BY <1>1, <2>2 DEF Request, StagesInv, TypeOK
  <2>4. UNCHANGED <<grants, codes>> /\ req[r].next = None
    BY <1>1 DEF ExchangeGrant, rows, StageOK
  <2>5. StageOK(r)'
    BY <1>1, <1>4, <2>3, <2>4 DEF StageOK, ActiveGrant
  <2> QED BY <1>4, <2>2, <2>5, Moved DEF ExchangeGrant, StagesInv, TypeOK
<1> QED BY <1>3, <1>4 DEF ExchangeGrant

LEMMA TokenRowType ==
  ASSUME NEW gid \in GrantIds, NEW key \in Keys, NEW scopes \in SUBSET Scopes,
         NEW now \in Nat
  PROVE  RefreshTokenRow(gid, key, scopes, now) \in TokenRow
<1>1. now + RefreshTTL \in Nat
  BY TTLAssumption
<1> QED BY <1>1 DEF RefreshTokenRow, TokenRow

(* The requests that are about to insert a token know its grant.           *)
LEMMA GrantKnown ==
  ASSUME StagesInv, NEW r \in Requests,
         req[r].at \in {"saveToken", "rotate", "commit"}
  PROVE  /\ req[r].key \in Keys /\ req[r].gid \in GrantIds
         /\ RefreshTokenRow(req[r].gid, req[r].key, req[r].scopes, req[r].now)
              \in TokenRow
<1>1. req[r] \in Request /\ StageOK(r)
  BY DEF StagesInv, TypeOK
<1>2. req[r].key \in Keys
  BY <1>1 DEF StageOK, StagesInv, TypeOK, CodeRow, TokenRow
<1>3. grants[req[r].key] \in GrantRow /\ req[r].gid = grants[req[r].key].id
  BY <1>1, <1>2 DEF StageOK, StagesInv, TypeOK
<1> QED BY <1>1, <1>2, <1>3, TokenRowType DEF GrantRow, Request

LEMMA SaveRefreshTokenStages ==
  ASSUME StagesInv, NEW r \in Requests, SaveRefreshToken(r)
  PROVE  StagesInv' /\ RowsStay
<1>1. PICK t \in Tokens :
        /\ tokens[t] = None
        /\ tokens' = [tokens EXCEPT ![t] =
             RefreshTokenRow(req[r].gid, req[r].key, req[r].scopes, req[r].now)]
        /\ origin' = [origin EXCEPT ![t] = req[r].code]
  BY DEF SaveRefreshToken, Unborn
<1>2. req[r].code \in Codes
  BY DEF SaveRefreshToken, StagesInv, StageOK
<1>3. /\ tokens' \in [Tokens -> TokenRow \cup {None}]
      /\ origin' \in [Tokens -> Codes \cup {None}]
      /\ answers' \in [Codes \cup Tokens -> Nat]
  BY <1>1, <1>2, GrantKnown DEF SaveRefreshToken, StagesInv, TypeOK
<1>4. TypeOK' /\ StageOK(r)' /\ \A s \in Requests \ {r} : req'[s] = req[s]
  BY <1>3, Finished DEF SaveRefreshToken, StagesInv, TypeOK, registry
<1>5. RowsStay
  BY <1>1 DEF SaveRefreshToken, RowsStay, StagesInv, TypeOK
<1> QED BY <1>4, <1>5, StepOfOne

LEMMA RefreshClientStages ==
  ASSUME StagesInv, NEW r \in Requests, RefreshClient(r)
  PROVE  StagesInv'
<1> DEFINE v == [req[r] EXCEPT !.at = "refreshGrant"]
<1>1. CASE req' = [req EXCEPT ![r].at = "refreshGrant"]
  <2>1. req[r] \in Request /\ StageOK(r) /\ req[r].at = "clientRead"
    BY DEF StagesInv, TypeOK, RefreshClient
  <2>2. v \in Request /\ req' = [req EXCEPT ![r] = v]
    BY <1>1, <2>1 DEF Request, Stages, StagesInv, TypeOK
  <2>3. StageOK(r)'
    BY <1>1, <2>1, <2>2 DEF StageOK, RefreshClient, rows, Request, StagesInv, TypeOK
  <2> QED BY <2>2, <2>3, Moved DEF RefreshClient, StagesInv, TypeOK, history
<1>2. CASE Finish(r)
  BY <1>2, Returned DEF RefreshClient, StagesInv, TypeOK, history
<1> QED BY <1>1, <1>2 DEF RefreshClient

LEMMA RefreshGrantStages ==
  ASSUME StagesInv, NEW r \in Requests, RefreshGrant(r)
  PROVE  StagesInv'
<1> DEFINE k == req[r].key
           v == [req[r] EXCEPT !.at = "rotate", !.gid = grants[k].id,
                               !.scopes = grants[k].scopes]
<1>1. CASE /\ ActiveGrant(k)
           /\ req' = [req EXCEPT ![r].at = "rotate", ![r].gid = grants[k].id,
                                 ![r].scopes = grants[k].scopes]
  <2>1. /\ req[r] \in Request /\ StageOK(r) /\ req[r].at = "refreshGrant"
        /\ tokens[req[r].tok] \in TokenRow /\ k = tokens[req[r].tok].key
        /\ req[r].next = None /\ req[r].tok \in Tokens
    BY DEF StagesInv, TypeOK, RefreshGrant, StageOK
  <2>2. grants[k].id \in GrantIds /\ grants[k].scopes \in SUBSET Scopes
    <3>1. k \in Keys
      BY <2>1 DEF TokenRow
    <3>2. grants[k] \in GrantRow
      BY <1>1, <3>1 DEF ActiveGrant, StagesInv, TypeOK
    <3> QED BY <3>2 DEF GrantRow
  <2>3. v \in Request /\ req' = [req EXCEPT ![r] = v]
    <3>1. v \in Request
      BY <2>1, <2>2, WithGrant DEF Stages
    <3>2. req' = [req EXCEPT ![r] = v]
      BY <1>1 DEF StagesInv, TypeOK
    <3> QED BY <3>1, <3>2
  <2>4. /\ req'[r].at = "rotate" /\ req'[r].tok = req[r].tok
        /\ req'[r].key = k /\ req'[r].gid = grants[k].id
        /\ req'[r].next = None
    BY <2>1, <2>3 DEF Request, StagesInv, TypeOK
  <2>5. UNCHANGED <<grants, tokens>>
    BY DEF RefreshGrant, rows
  <2>6. StageOK(r)'
    BY <1>1, <2>1, <2>4, <2>5 DEF StageOK, ActiveGrant
  <2> QED BY <2>3, <2>6, Moved DEF RefreshGrant, StagesInv, TypeOK, history
<1>2. CASE Finish(r)
  BY <1>2, Returned DEF RefreshGrant, StagesInv, TypeOK, history
<1> QED BY <1>1, <1>2 DEF RefreshGrant

LEMMA RotateRefreshTokenStages ==
  ASSUME StagesInv, NEW r \in Requests, RotateRefreshToken(r)
  PROVE  StagesInv'
<1>1. CASE Finish(r)
  BY <1>1, Returned DEF RotateRefreshToken, StagesInv, TypeOK, history
<1>2. ASSUME NEW n \in Tokens,
             req' = [req EXCEPT ![r].at = "commit", ![r].next = n]
      PROVE  StagesInv'
  <2> DEFINE v == [req[r] EXCEPT !.at = "commit", !.next = n]
  <2>1. req[r] \in Request /\ StageOK(r) /\ req[r].at = "rotate"
    BY DEF StagesInv, TypeOK, RotateRefreshToken
  <2>2. v \in Request /\ req' = [req EXCEPT ![r] = v]
    BY <1>2, <2>1 DEF Request, Stages, StagesInv, TypeOK
  <2>3. /\ req'[r].at = "commit" /\ req'[r].next = n
        /\ req'[r].tok = req[r].tok /\ req'[r].key = req[r].key
        /\ req'[r].gid = req[r].gid
        /\ UNCHANGED <<grants, tokens>>
    BY <2>1, <2>2 DEF Request, StagesInv, TypeOK, RotateRefreshToken, rows
  <2>4. StageOK(r)'
    BY <2>1, <2>3 DEF StageOK
  <2> QED BY <2>2, <2>4, Moved DEF RotateRefreshToken, StagesInv, TypeOK, history
<1> QED BY <1>1, <1>2 DEF RotateRefreshToken

LEMMA CommitRotationStages ==
  ASSUME StagesInv, NEW r \in Requests, CommitRotation(r), CommitOK(r)
  PROVE  StagesInv' /\ RowsStay
<1> DEFINE t == req[r].tok
           n == req[r].next
           old == Replaced(tokens[t], n)
           new == RefreshTokenRow(req[r].gid, req[r].key, req[r].scopes, req[r].now)
<1>1. /\ t \in Tokens /\ tokens[t] \in TokenRow /\ n \in Tokens
      /\ tokens[n] = None /\ t # n
  BY DEF CommitRotation, CommitOK, StagesInv, StageOK, TypeOK
<1>2. old \in TokenRow /\ old.key = tokens[t].key
  BY <1>1 DEF Replaced, TokenRow
<1>3. new \in TokenRow
  BY GrantKnown DEF CommitRotation
<1>4. tokens' = [tokens EXCEPT ![t] = old, ![n] = new]
  BY DEF CommitRotation
<1> HIDE DEF old, new
<1>5. /\ tokens' \in [Tokens -> TokenRow \cup {None}]
      /\ origin' \in [Tokens -> Codes \cup {None}]
      /\ answers' \in [Codes \cup Tokens -> Nat]
  BY <1>1, <1>2, <1>3, <1>4 DEF CommitRotation, StagesInv, TypeOK
<1>6. TypeOK' /\ StageOK(r)' /\ \A s \in Requests \ {r} : req'[s] = req[s]
  BY <1>5, Finished DEF CommitRotation, StagesInv, TypeOK, registry
<1>7. RowsStay
  BY <1>1, <1>2, <1>4 DEF CommitRotation, RowsStay, StagesInv, TypeOK
<1> QED BY <1>6, <1>7, StepOfOne

LEMMA RevokeRowsStages ==
  ASSUME StagesInv, NEW r \in Requests, NEW family \in SUBSET Tokens,
         \A t \in family : tokens[t] # None, RevokeRows(r, family)
  PROVE  StagesInv' /\ RowsStay
<1>1. ASSUME NEW t \in family
      PROVE  /\ [tokens[t] EXCEPT !.revoked = TRUE] \in TokenRow
             /\ [tokens[t] EXCEPT !.revoked = TRUE].key = tokens[t].key
  <2>1. tokens[t] \in TokenRow
    BY <1>1 DEF StagesInv, TypeOK
  <2> QED BY <2>1 DEF TokenRow
<1>2. tokens' \in [Tokens -> TokenRow \cup {None}]
  BY <1>1 DEF RevokeRows, StagesInv, TypeOK
<1>3. TypeOK' /\ StageOK(r)' /\ \A s \in Requests \ {r} : req'[s] = req[s]
  BY <1>2, Finished DEF RevokeRows, StagesInv, TypeOK, registry, history
<1>4. RowsStay
  BY <1>1 DEF RevokeRows, RowsStay, StagesInv, TypeOK
<1> QED BY <1>3, <1>4, StepOfOne

LEMMA RevokeSnapshotStages ==
  ASSUME StagesInv, NEW r \in Requests, RevokeSnapshot(r)
  PROVE  StagesInv'
<1> DEFINE v == [req[r] EXCEPT !.at = "revoking", !.family = Family(req[r].gid)]
<1>1. req[r] \in Request /\ StageOK(r) /\ req[r].at = "revoke"
  BY DEF StagesInv, TypeOK, RevokeSnapshot
<1>2. Family(req[r].gid) \in SUBSET Tokens
  BY DEF Family
<1>3. v \in Request /\ req' = [req EXCEPT ![r] = v]
  BY <1>1, <1>2 DEF Request, Stages, StagesInv, TypeOK, RevokeSnapshot
<1>4. /\ req'[r].at = "revoking" /\ req'[r].next = None
      /\ req'[r].family = Family(req[r].gid) /\ UNCHANGED tokens
  BY <1>1, <1>3 DEF Request, StagesInv, TypeOK, StageOK, RevokeSnapshot, rows
<1>5. StageOK(r)'
  BY <1>4 DEF StageOK, Family
<1> QED BY <1>3, <1>5, Moved DEF RevokeSnapshot, StagesInv, TypeOK, history

LEMMA RevokeStages ==
  ASSUME StagesInv, NEW r \in Requests, RevokeSnapshotRows(r) \/ RevokeAlone(r)
  PROVE  StagesInv' /\ RowsStay
<1>1. CASE RevokeSnapshotRows(r)
  BY <1>1, RevokeRowsStages DEF RevokeSnapshotRows, StagesInv, StageOK, TypeOK, Request
<1>2. CASE RevokeAlone(r)
  BY <1>2, RevokeRowsStages DEF RevokeAlone, Family
<1> QED BY <1>1, <1>2

-----------------------------------------------------------------------------
(* The credentials: one lemma per kind of step.                            *)

LEMMA InitIInv == ASSUME Init PROVE IInv
<1>1. TypeOK
  BY IdleIsRequest, ClockAssumption, ScopesAssumption DEF Init, TypeOK
<1>2. \A r \in Requests : StageOK(r) /\ CommitOK(r) /\ RedeemOK(r)
  BY DEF Init, Idle, StageOK, CommitOK, RedeemOK, Redeeming
<1>3. CommitsApart /\ RedeemsApart
  BY DEF Init, Idle, CommitsApart, RedeemsApart, Redeeming
<1>4. \A x \in Codes : CodeOK(x)
  BY DEF Init, CodeOK
<1>5. (\A t \in Tokens : TokenOK(t)) /\ OneUnusedPerLineage
  BY DEF Init, TokenOK, OneUnusedPerLineage
<1> QED BY <1>1, <1>2, <1>3, <1>4, <1>5 DEF IInv, StagesInv, CredentialsInv

(* A step that spends no credential: it starts, moves on or ends requests  *)
(* short of marking and rotating, adds an unused code, or writes a grant.  *)
LEMMA NothingSpent ==
  ASSUME IInv, RowsStay, UNCHANGED <<tokens, origin, answers>>,
         \A s \in Requests : \/ req'[s] = req[s]
                             \/ req'[s].at \notin {"commit", "exchGrant", "saveToken"},
         \A x \in Codes :
           \/ codes'[x] = codes[x]
           \/ /\ codes[x] = None /\ codes'[x] # None /\ ~codes'[x].used
              /\ codes'[x].key \in Keys /\ grants'[codes'[x].key] # None
  PROVE  CredentialsInv'
<1>1. \A r \in Requests : CommitOK(r)'
  BY DEF IInv, CredentialsInv, CommitOK
<1>2. CommitsApart'
  BY DEF IInv, CredentialsInv, CommitsApart
<1>3. RedeemsApart'
  BY DEF IInv, CredentialsInv, RedeemsApart, Redeeming
<1>4. ASSUME NEW r \in Requests PROVE RedeemOK(r)'
  <2> SUFFICES ASSUME Redeeming(r)' PROVE RedeemOK(r)'
    BY DEF RedeemOK
  <2>1. req'[r] = req[r] /\ Redeeming(r) /\ RedeemOK(r) /\ StageOK(r)
    BY DEF Redeeming, IInv, CredentialsInv, StagesInv
  <2>2. req[r].code \in Codes /\ codes'[req[r].code] = codes[req[r].code]
    BY <2>1 DEF Redeeming, StageOK
  <2> QED BY <2>1, <2>2 DEF RedeemOK, Redeeming
<1>5. ASSUME NEW x \in Codes PROVE CodeOK(x)'
  <2>1. CodeOK(x) /\ (codes[x] # None => codes[x].key \in Keys)
    BY DEF IInv, CredentialsInv, StagesInv, TypeOK, CodeRow
  <2> QED BY <2>1 DEF CodeOK, RowsStay
<1>6. ASSUME NEW t \in Tokens PROVE TokenOK(t)'
  <2>1. TokenOK(t) /\ (tokens[t] # None => tokens[t].key \in Keys)
    BY DEF IInv, CredentialsInv, StagesInv, TypeOK, TokenRow
  <2> QED BY <2>1 DEF TokenOK, RowsStay
<1>7. OneUnusedPerLineage'
  BY DEF IInv, CredentialsInv, OneUnusedPerLineage
<1> QED BY <1>1, <1>2, <1>3, <1>4, <1>5, <1>6, <1>7 DEF CredentialsInv

(* Marking spends the code for this request alone: until now nobody had    *)
(* redeemed it, and from now on the mark keeps every other request out.    *)
LEMMA MarkCredentials ==
  ASSUME IInv, RowsStay, NEW r \in Requests, MarkAuthorizationCodeUsed(r)
  PROVE  CredentialsInv'
<1> DEFINE x == req[r].code
<1>1. /\ x \in Codes /\ codes[x] \in CodeRow /\ req[r] \in Request
      /\ UNCHANGED <<grants, tokens, origin, answers>>
  BY DEF MarkAuthorizationCodeUsed, IInv, StagesInv, StageOK, TypeOK, history
<1>2. CASE /\ ~codes[x].used
           /\ codes' = [codes EXCEPT ![x].used = TRUE]
           /\ req' = [req EXCEPT ![r].at = "exchGrant"]
  <2>1. /\ req'[r].at = "exchGrant" /\ req'[r].code = x
        /\ \A s \in Requests \ {r} : req'[s] = req[s]
    BY <1>1, <1>2 DEF Request, IInv, StagesInv, TypeOK
  <2>2. /\ codes'[x].used /\ codes'[x] # None /\ codes'[x].key = codes[x].key
        /\ \A y \in Codes \ {x} : codes'[y] = codes[y]
    BY <1>1, <1>2 DEF CodeRow, IInv, StagesInv, TypeOK
  <2>3. ASSUME NEW s \in Requests, s # r, Redeeming(s) PROVE req[s].code # x
    BY <1>2, <2>3 DEF IInv, CredentialsInv, RedeemOK
  <2>4. CodeOK(x) /\ answers[x] = 0 /\ \A t \in Tokens : origin[t] # x
    BY <1>1, <1>2 DEF IInv, CredentialsInv, CodeOK
  <2>5. \A s \in Requests : CommitOK(s)'
    BY <1>1, <2>1 DEF IInv, CredentialsInv, CommitOK
  <2>6. CommitsApart'
    BY <2>1 DEF IInv, CredentialsInv, CommitsApart
  <2>7. RedeemsApart'
    BY <2>1, <2>3 DEF IInv, CredentialsInv, RedeemsApart, Redeeming
  <2>8. ASSUME NEW s \in Requests PROVE RedeemOK(s)'
    <3>1. CASE s = r
      BY <1>1, <2>1, <2>2, <2>4, <3>1 DEF RedeemOK
    <3>2. CASE s # r
      <4>1. RedeemOK(s) /\ (Redeeming(s) => req[s].code \in Codes)
        BY DEF IInv, CredentialsInv, StagesInv, StageOK, Redeeming
      <4> QED BY <1>1, <2>1, <2>2, <2>3, <3>2, <4>1 DEF RedeemOK, Redeeming
    <3> QED BY <3>1, <3>2
  <2>9. ASSUME NEW y \in Codes PROVE CodeOK(y)'
    BY <1>1, <2>2, <2>4 DEF IInv, CredentialsInv, CodeOK
  <2>10. ASSUME NEW t \in Tokens PROVE TokenOK(t)'
    BY <1>1, <2>2 DEF IInv, CredentialsInv, TokenOK
  <2>11. OneUnusedPerLineage'
    BY <1>1 DEF IInv, CredentialsInv, OneUnusedPerLineage
  <2> QED BY <2>5, <2>6, <2>7, <2>8, <2>9, <2>10, <2>11 DEF CredentialsInv
<1>3. CASE Finish(r) /\ UNCHANGED codes
  BY <1>1, <1>3, NothingSpent, Finished DEF IInv, StagesInv, Idle
<1> QED BY <1>2, <1>3 DEF MarkAuthorizationCodeUsed, MarkCondition

(* The answer without a refresh token, and the way on to the insert.       *)
LEMMA ExchangeGrantCredentials ==
  ASSUME IInv, NEW r \in Requests, ExchangeGrant(r)
  PROVE  CredentialsInv'
<1> DEFINE x == req[r].code
<1>1. /\ x \in Codes /\ codes[x] # None /\ req[r] \in Request
      /\ Redeeming(r) /\ RedeemOK(r)
      /\ UNCHANGED <<grants, codes, tokens, origin>>
  BY DEF ExchangeGrant, IInv, StagesInv, CredentialsInv, StageOK, TypeOK, rows, Redeeming
<1>2. RowsStay
  BY RowsUnchanged DEF ExchangeGrant
<1>3. CASE Finish(r) /\ UNCHANGED answers
  BY <1>1, <1>2, <1>3, NothingSpent, Finished DEF IInv, StagesInv, Idle
<1>4. CASE Finish(r) /\ answers' = [answers EXCEPT ![x] = @ + 1]
  <2>1. /\ req'[r].at = "idle"
        /\ \A s \in Requests \ {r} : req'[s] = req[s]
    BY <1>4, Finished DEF IInv, StagesInv, Idle
  <2>2. /\ answers'[x] = 1
        /\ \A y \in (Codes \cup Tokens) \ {x} : answers'[y] = answers[y]
    BY <1>1, <1>4 DEF RedeemOK, IInv, StagesInv, TypeOK
  <2>3. ASSUME NEW s \in Requests, s # r, Redeeming(s) PROVE req[s].code # x
    BY <1>1, <2>3 DEF IInv, CredentialsInv, RedeemsApart
  <2>4. \A s \in Requests : CommitOK(s)'
    BY <1>1, <2>1 DEF IInv, CredentialsInv, CommitOK
  <2>5. CommitsApart' /\ RedeemsApart'
    BY <2>1 DEF IInv, CredentialsInv, CommitsApart, RedeemsApart, Redeeming
  <2>6. ASSUME NEW s \in Requests PROVE RedeemOK(s)'
    <3>1. RedeemOK(s) /\ (Redeeming(s) => req[s].code \in Codes)
      BY DEF IInv, CredentialsInv, StagesInv, StageOK, Redeeming
    <3> QED BY <1>1, <2>1, <2>2, <2>3, <3>1 DEF RedeemOK, Redeeming
  <2>7. ASSUME NEW y \in Codes PROVE CodeOK(y)'
    <3>1. codes[x].used
      BY <1>1 DEF RedeemOK
    <3> QED BY <1>1, <2>2, <3>1 DEF IInv, CredentialsInv, CodeOK
  <2>8. ASSUME NEW t \in Tokens PROVE TokenOK(t)'
    <3>1. answers'[t] = answers[t]
      BY <1>1, <2>2, CredentialsAssumption
    <3> QED BY <1>1, <3>1 DEF IInv, CredentialsInv, TokenOK
  <2>9. OneUnusedPerLineage'
    BY <1>1 DEF IInv, CredentialsInv, OneUnusedPerLineage
  <2> QED BY <2>4, <2>5, <2>6, <2>7, <2>8, <2>9 DEF CredentialsInv
<1>5. CASE /\ req' = [req EXCEPT ![r].at = "saveToken", ![r].gid = grants[req[r].key].id,
                                 ![r].scopes = grants[req[r].key].scopes]
           /\ UNCHANGED answers
  <2>1. /\ req'[r].at = "saveToken" /\ req'[r].code = x
        /\ \A s \in Requests \ {r} : req'[s] = req[s]
    BY <1>1, <1>5 DEF Request, IInv, StagesInv, TypeOK
  <2>2. ASSUME NEW s \in Requests PROVE CommitOK(s)' /\ RedeemOK(s)'
    <3>1. CommitOK(s) /\ RedeemOK(s)
      BY DEF IInv, CredentialsInv
    <3>2. CASE s = r
      BY <1>1, <1>5, <2>1, <3>2 DEF CommitOK, RedeemOK, Redeeming
    <3>3. CASE s # r
      BY <1>1, <1>5, <2>1, <3>1, <3>3 DEF CommitOK, RedeemOK, Redeeming
    <3> QED BY <3>2, <3>3
  <2>3. CommitsApart' /\ RedeemsApart'
    BY <1>1, <2>1 DEF IInv, CredentialsInv, CommitsApart, RedeemsApart, Redeeming
  <2>4. /\ \A y \in Codes : CodeOK(y)'
        /\ \A t \in Tokens : TokenOK(t)'
        /\ OneUnusedPerLineage'
    BY <1>1, <1>5 DEF IInv, CredentialsInv, CodeOK, TokenOK, OneUnusedPerLineage
  <2> QED BY <2>2, <2>3, <2>4 DEF CredentialsInv
<1> QED BY <1>3, <1>4, <1>5 DEF ExchangeGrant

(* The first token of a lineage: no other request redeems its code, and no *)
(* open rotation has picked the same fresh token.                          *)
LEMMA SaveRefreshTokenCredentials ==
  ASSUME IInv, RowsStay, NEW r \in Requests, SaveRefreshToken(r)
  PROVE  CredentialsInv'
<1> DEFINE x == req[r].code
           new == RefreshTokenRow(req[r].gid, req[r].key, req[r].scopes, req[r].now)
<1>1. PICK t \in Tokens :
        /\ Unborn(t)
        /\ tokens' = [tokens EXCEPT ![t] = new]
        /\ origin' = [origin EXCEPT ![t] = x]
  BY DEF SaveRefreshToken
<1>2. /\ x \in Codes /\ codes[x] # None /\ Redeeming(r) /\ RedeemOK(r)
      /\ req[r].key = codes[x].key /\ grants[req[r].key] # None
      /\ req[r].gid = grants[req[r].key].id
      /\ UNCHANGED <<grants, codes>>
  BY DEF SaveRefreshToken, IInv, StagesInv, CredentialsInv, StageOK, Redeeming
<1>3. new \in TokenRow
  BY GrantKnown DEF SaveRefreshToken, IInv
<1>4. new # None /\ ~new.used /\ new.key = req[r].key /\ new.gid = req[r].gid
  BY <1>3 DEF RefreshTokenRow
<1> HIDE DEF new
<1>5. /\ tokens[t] = None /\ tokens'[t] = new /\ origin'[t] = x
      /\ \A u \in Tokens \ {t} : tokens'[u] = tokens[u] /\ origin'[u] = origin[u]
  BY <1>1 DEF Unborn, IInv, StagesInv, TypeOK
<1>6. /\ req'[r].at = "idle"
      /\ \A s \in Requests \ {r} : req'[s] = req[s]
  BY Finished DEF SaveRefreshToken, IInv, StagesInv, Idle
<1>7. /\ answers'[x] = 1
      /\ \A y \in (Codes \cup Tokens) \ {x} : answers'[y] = answers[y]
  BY <1>2 DEF SaveRefreshToken, RedeemOK, IInv, StagesInv, TypeOK
<1>8. ASSUME NEW s \in Requests, s # r, Redeeming(s) PROVE req[s].code # x
  BY <1>2, <1>8 DEF IInv, CredentialsInv, RedeemsApart
<1>9. ASSUME NEW s \in Requests PROVE CommitOK(s)'
  <2>1. CommitOK(s) /\ req[s].next # t
    BY <1>1 DEF IInv, CredentialsInv, Unborn
  <2>2. req[s].at = "commit" =>
          /\ req[s].next \in Tokens /\ req[s].tok \in Tokens
          /\ tokens[req[s].tok] # None
    BY DEF IInv, StagesInv, StageOK
  <2> QED BY <1>5, <1>6, <2>1, <2>2 DEF CommitOK
<1>10. CommitsApart' /\ RedeemsApart'
  BY <1>6 DEF IInv, CredentialsInv, CommitsApart, RedeemsApart, Redeeming
<1>11. ASSUME NEW s \in Requests PROVE RedeemOK(s)'
  <2>1. RedeemOK(s) /\ (Redeeming(s) => req[s].code \in Codes)
    BY DEF IInv, CredentialsInv, StagesInv, StageOK, Redeeming
  <2> QED BY <1>2, <1>5, <1>6, <1>7, <1>8, <2>1 DEF RedeemOK, Redeeming
<1>12. ASSUME NEW y \in Codes PROVE CodeOK(y)'
  <2>1. codes[x].used
    BY <1>2 DEF RedeemOK
  <2> QED BY <1>2, <1>5, <1>7, <2>1 DEF IInv, CredentialsInv, CodeOK
<1>13. ASSUME NEW u \in Tokens PROVE TokenOK(u)'
  <2>1. answers'[u] = answers[u] /\ TokenOK(u)
    BY <1>2, <1>7, CredentialsAssumption DEF IInv, CredentialsInv
  <2>2. CASE u = t
    BY <1>2, <1>4, <1>5, <2>1, <2>2 DEF TokenOK
  <2>3. CASE u # t
    BY <1>2, <1>5, <2>1, <2>3 DEF TokenOK
  <2> QED BY <2>2, <2>3
<1>14. OneUnusedPerLineage'
  <2>1. \A u \in Tokens : origin[u] # x
    BY <1>2 DEF RedeemOK
  <2> QED BY <1>5, <2>1 DEF IInv, CredentialsInv, OneUnusedPerLineage
<1> QED BY <1>9, <1>10, <1>11, <1>12, <1>13, <1>14 DEF CredentialsInv

(* Up to its commit a rotation locks the row it has found unused.          *)
LEMMA RotateCredentials ==
  ASSUME IInv, NEW r \in Requests, RotateRefreshToken(r)
  PROVE  CredentialsInv'
<1> DEFINE t == req[r].tok
<1>1. UNCHANGED <<grants, codes, tokens, origin, answers>> /\ RowsStay
  BY RowsUnchanged DEF RotateRefreshToken, rows, history
<1>2. CASE Finish(r)
  BY <1>1, <1>2, NothingSpent, Finished DEF IInv, StagesInv, Idle
<1>3. ASSUME NEW n \in Tokens, Unborn(n), RotateCondition(t),
             req' = [req EXCEPT ![r].at = "commit", ![r].next = n]
      PROVE  CredentialsInv'
  <2>1. /\ req'[r].at = "commit" /\ req'[r].next = n /\ req'[r].tok = t
        /\ \A s \in Requests \ {r} : req'[s] = req[s]
    BY <1>3 DEF Request, IInv, StagesInv, TypeOK
  <2>2. ASSUME NEW s \in Requests, s # r, req[s].at = "commit"
        PROVE  req[s].tok # t /\ req[s].next # n
    BY <1>3, <2>2 DEF RotateRefreshToken, RowLocked, InTransaction, Unborn
  <2>3. ASSUME NEW s \in Requests PROVE CommitOK(s)'
    <3>1. CASE s = r
      BY <1>1, <1>3, <2>1, <3>1 DEF CommitOK, Unborn, RotateCondition
    <3>2. CASE s # r
      BY <1>1, <2>1, <3>2 DEF CommitOK, IInv, CredentialsInv
    <3> QED BY <3>1, <3>2
  <2>4. CommitsApart'
    BY <2>1, <2>2 DEF IInv, CredentialsInv, CommitsApart
  <2>5. RedeemsApart' /\ \A s \in Requests : RedeemOK(s)'
    BY <1>1, <2>1 DEF IInv, CredentialsInv, RedeemsApart, RedeemOK, Redeeming
  <2>6. /\ \A y \in Codes : CodeOK(y)'
        /\ \A u \in Tokens : TokenOK(u)'
        /\ OneUnusedPerLineage'
    BY <1>1 DEF IInv, CredentialsInv, CodeOK, TokenOK, OneUnusedPerLineage
  <2> QED BY <2>3, <2>4, <2>5, <2>6 DEF CredentialsInv
<1> QED BY <1>2, <1>3 DEF RotateRefreshToken

(* The commit hands the lineage from the old token to its successor.       *)
LEMMA CommitRow ==
  ASSUME IInv, NEW r \in Requests, CommitRotation(r)
  PROVE  LET t == req[r].tok
             n == req[r].next
         IN /\ t \in Tokens /\ n \in Tokens /\ t # n
            /\ tokens[t] \in TokenRow /\ ~tokens[t].used /\ ~tokens[t].revoked
            /\ tokens[n] = None
            /\ tokens'[t] \in TokenRow /\ tokens'[t].used /\ ~tokens'[t].revoked
            /\ tokens'[t].key = tokens[t].key /\ tokens'[t].gid = tokens[t].gid
            /\ tokens'[t].next = n /\ tokens'[t].exp = tokens[t].exp
            /\ tokens'[n] \in TokenRow /\ ~tokens'[n].used /\ ~tokens'[n].revoked
            /\ tokens'[n].key = req[r].key /\ tokens'[n].gid = req[r].gid
            /\ tokens'[n].next = None
            /\ tokens'[n].exp = req[r].now + RefreshTTL
            /\ \A u \in Tokens \ {t, n} : tokens'[u] = tokens[u]
            /\ origin'[n] = origin[t]
            /\ \A u \in Tokens \ {n} : origin'[u] = origin[u]
            /\ answers'[t] = answers[t] + 1
            /\ \A y \in (Codes \cup Tokens) \ {t} : answers'[y] = answers[y]
            /\ req'[r].at = "idle"
            /\ \A s \in Requests \ {r} : req'[s] = req[s]
            /\ UNCHANGED <<grants, codes>>
<1> DEFINE t == req[r].tok
           n == req[r].next
           old == Replaced(tokens[t], n)
           new == RefreshTokenRow(req[r].gid, req[r].key, req[r].scopes, req[r].now)
<1>1. /\ t \in Tokens /\ tokens[t] \in TokenRow /\ n \in Tokens
      /\ tokens[n] = None /\ t # n
      /\ ~tokens[t].used /\ ~tokens[t].revoked
  BY DEF CommitRotation, CommitOK, IInv, CredentialsInv, StagesInv, StageOK, TypeOK
<1>2. /\ old \in TokenRow /\ old.key = tokens[t].key /\ old.gid = tokens[t].gid
      /\ old.used /\ old.revoked = tokens[t].revoked
      /\ old.next = n /\ old.exp = tokens[t].exp
  BY <1>1 DEF Replaced, TokenRow
<1>3. new \in TokenRow
  BY GrantKnown DEF CommitRotation, IInv
<1>4. /\ ~new.used /\ ~new.revoked /\ new.next = None
      /\ new.key = req[r].key /\ new.gid = req[r].gid
      /\ new.exp = req[r].now + RefreshTTL
  BY DEF RefreshTokenRow
<1>5. tokens' = [tokens EXCEPT ![t] = old, ![n] = new]
  BY DEF CommitRotation
<1> HIDE DEF old, new
<1>6. /\ tokens'[t] = old /\ tokens'[n] = new
      /\ \A u \in Tokens \ {t, n} : tokens'[u] = tokens[u]
  BY <1>1, <1>5 DEF IInv, StagesInv, TypeOK
<1>7. /\ origin'[n] = origin[t]
      /\ \A u \in Tokens \ {n} : origin'[u] = origin[u]
      /\ answers'[t] = answers[t] + 1
      /\ \A y \in (Codes \cup Tokens) \ {t} : answers'[y] = answers[y]
  BY <1>1 DEF CommitRotation, IInv, StagesInv, TypeOK
<1>8. /\ req'[r].at = "idle"
      /\ \A s \in Requests \ {r} : req'[s] = req[s]
      /\ UNCHANGED <<grants, codes>>
  BY Finished DEF CommitRotation, IInv, StagesInv, Idle
<1> QED BY <1>1, <1>2, <1>3, <1>4, <1>6, <1>7, <1>8

LEMMA CommitCredentials ==
  ASSUME IInv, RowsStay, NEW r \in Requests, CommitRotation(r)
  PROVE  CredentialsInv'
<1> DEFINE t == req[r].tok
           n == req[r].next
<1>1. /\ t \in Tokens /\ n \in Tokens /\ t # n
      /\ tokens[t] # None /\ ~tokens[t].used /\ tokens[n] = None
      /\ tokens'[t] # None /\ tokens'[t].used
      /\ tokens'[t].key = tokens[t].key /\ tokens'[t].gid = tokens[t].gid
      /\ tokens'[n] # None /\ ~tokens'[n].used
      /\ tokens'[n].key = req[r].key /\ tokens'[n].gid = req[r].gid
      /\ \A u \in Tokens \ {t, n} : tokens'[u] = tokens[u]
      /\ origin'[n] = origin[t]
      /\ \A u \in Tokens \ {n} : origin'[u] = origin[u]
      /\ answers'[t] = answers[t] + 1
      /\ \A y \in (Codes \cup Tokens) \ {t} : answers'[y] = answers[y]
      /\ req'[r].at = "idle"
      /\ \A s \in Requests \ {r} : req'[s] = req[s]
      /\ UNCHANGED <<grants, codes>>
  BY CommitRow
<1>2. /\ req[r].key = tokens[t].key /\ grants[req[r].key] # None
      /\ req[r].gid = grants[req[r].key].id
  BY DEF CommitRotation, IInv, StagesInv, StageOK
<1>3. TokenOK(t) /\ TokenOK(n) /\ answers[t] = 0 /\ origin[t] \in Codes
  BY <1>1 DEF IInv, CredentialsInv, TokenOK
<1>4. codes[origin[t]] # None /\ codes[origin[t]].used
  BY <1>1, <1>3 DEF TokenOK, IInv, CredentialsInv, CodeOK
<1>5. ASSUME NEW s \in Requests PROVE CommitOK(s)'
  <2>1. CASE s = r
    BY <1>1, <2>1 DEF CommitOK
  <2>2. CASE s # r /\ req[s].at = "commit"
    <3>1. req[s].tok # t /\ req[s].next # n
      BY <2>2 DEF CommitRotation, IInv, CredentialsInv, CommitsApart
    <3>2. /\ CommitOK(s) /\ req[s].tok \in Tokens /\ req[s].next \in Tokens
          /\ tokens[req[s].tok] # None
      BY <2>2 DEF IInv, CredentialsInv, StagesInv, StageOK
    <3>3. req[s].next # t /\ req[s].tok # n
      BY <1>1, <2>2, <3>2 DEF CommitOK
    <3> QED BY <1>1, <2>2, <3>1, <3>2, <3>3 DEF CommitOK
  <2>3. CASE s # r /\ req[s].at # "commit"
    BY <1>1, <2>3 DEF CommitOK
  <2> QED BY <2>1, <2>2, <2>3
<1>6. CommitsApart' /\ RedeemsApart'
  BY <1>1 DEF IInv, CredentialsInv, CommitsApart, RedeemsApart, Redeeming
<1>7. ASSUME NEW s \in Requests PROVE RedeemOK(s)'
  <2>1. RedeemOK(s) /\ (Redeeming(s) => req[s].code \in Codes)
    BY DEF IInv, CredentialsInv, StagesInv, StageOK, Redeeming
  <2> QED BY <1>1, <2>1, CredentialsAssumption DEF RedeemOK, Redeeming
<1>8. ASSUME NEW y \in Codes PROVE CodeOK(y)'
  <2>1. CodeOK(y) /\ answers'[y] = answers[y]
    BY <1>1, CredentialsAssumption DEF IInv, CredentialsInv
  <2>2. CASE y = origin[t]
    BY <1>1, <1>4, <2>1, <2>2 DEF CodeOK
  <2>3. CASE y # origin[t]
    BY <1>1, <2>1, <2>3 DEF CodeOK
  <2> QED BY <2>2, <2>3
<1>9. ASSUME NEW u \in Tokens PROVE TokenOK(u)'
  <2>1. TokenOK(u)
    BY DEF IInv, CredentialsInv
  <2>2. CASE u = t
    BY <1>1, <1>3, <2>2 DEF TokenOK
  <2>3. CASE u = n
    BY <1>1, <1>2, <1>3, <2>3 DEF TokenOK
  <2>4. CASE u # t /\ u # n
    BY <1>1, <2>1, <2>4 DEF TokenOK
  <2> QED BY <2>2, <2>3, <2>4
<1>10. OneUnusedPerLineage'
  <2>1. \A u \in Tokens :
          tokens[u] # None /\ ~tokens[u].used /\ origin[u] = origin[t] => u = t
    BY <1>1 DEF IInv, CredentialsInv, OneUnusedPerLineage
  <2> QED BY <1>1, <2>1 DEF IInv, CredentialsInv, OneUnusedPerLineage
<1> QED BY <1>5, <1>6, <1>7, <1>8, <1>9, <1>10 DEF CredentialsInv

(* A revocation finds none of its rows locked, so no open rotation owns    *)
(* one of them: a revoked token never gets a successor.                    *)
LEMMA RevokedRow ==
  ASSUME IInv, NEW r \in Requests, NEW family \in SUBSET Tokens,
         \A t \in family : tokens[t] # None, RevokeRows(r, family),
         NEW t \in Tokens
  PROVE  /\ tokens[t] = None => tokens'[t] = None
         /\ tokens[t] # None =>
              /\ tokens'[t] \in TokenRow
              /\ tokens'[t].gid = tokens[t].gid /\ tokens'[t].key = tokens[t].key
              /\ tokens'[t].used = tokens[t].used
              /\ tokens'[t].next = tokens[t].next /\ tokens'[t].exp = tokens[t].exp
              /\ tokens[t].revoked => tokens'[t] = tokens[t]
              /\ t \in family => tokens'[t].revoked
              /\ t \notin family => tokens'[t] = tokens[t]
<1>1. tokens[t] # None => tokens[t] \in TokenRow
  BY DEF IInv, StagesInv, TypeOK
<1>2. tokens'[t] = IF t \in family THEN [tokens[t] EXCEPT !.revoked = TRUE]
                                   ELSE tokens[t]
  BY DEF RevokeRows
<1>3. ASSUME tokens[t] \in TokenRow
      PROVE  LET row == [tokens[t] EXCEPT !.revoked = TRUE] IN
             /\ row \in TokenRow /\ row.gid = tokens[t].gid
             /\ row.key = tokens[t].key /\ row.used = tokens[t].used
             /\ row.next = tokens[t].next /\ row.exp = tokens[t].exp
             /\ row.revoked
             /\ tokens[t].revoked => row = tokens[t]
  BY <1>3 DEF TokenRow
<1> QED BY <1>1, <1>2, <1>3

LEMMA RevokeRowsCredentials ==
  ASSUME IInv, RowsStay, NEW r \in Requests, NEW family \in SUBSET Tokens,
         \A t \in family : tokens[t] # None /\ ~RowLocked(t), RevokeRows(r, family)
  PROVE  CredentialsInv'
<1>1. ASSUME NEW t \in Tokens
      PROVE  /\ tokens[t] = None <=> tokens'[t] = None
             /\ tokens[t] # None =>
                  /\ tokens'[t].gid = tokens[t].gid
                  /\ tokens'[t].key = tokens[t].key
                  /\ tokens'[t].used = tokens[t].used
                  /\ t \notin family => tokens'[t] = tokens[t]
  BY RevokedRow
<1>2. /\ req'[r].at = "idle"
      /\ \A s \in Requests \ {r} : req'[s] = req[s]
      /\ UNCHANGED <<grants, codes, origin, answers>>
  BY Finished DEF RevokeRows, IInv, StagesInv, Idle, history
<1>3. ASSUME NEW s \in Requests PROVE CommitOK(s)'
  <2>1. CASE req[s].at = "commit" /\ s # r
    <3>1. /\ CommitOK(s) /\ req[s].tok \in Tokens /\ req[s].next \in Tokens
          /\ tokens[req[s].tok] # None
      BY <2>1 DEF IInv, CredentialsInv, StagesInv, StageOK
    <3>2. req[s].tok \notin family
      BY <2>1 DEF RowLocked, InTransaction
    <3> QED BY <1>1, <1>2, <2>1, <3>1, <3>2 DEF CommitOK
  <2>2. CASE req[s].at # "commit" \/ s = r
    BY <1>2, <2>2 DEF CommitOK
  <2> QED BY <2>1, <2>2
<1>4. CommitsApart' /\ RedeemsApart'
  BY <1>2 DEF IInv, CredentialsInv, CommitsApart, RedeemsApart, Redeeming
<1>5. \A s \in Requests : RedeemOK(s)'
  BY <1>2 DEF IInv, CredentialsInv, RedeemOK, Redeeming
<1>6. \A y \in Codes : CodeOK(y)'
  BY <1>2 DEF IInv, CredentialsInv, CodeOK
<1>7. ASSUME NEW t \in Tokens PROVE TokenOK(t)'
  BY <1>1, <1>2 DEF IInv, CredentialsInv, TokenOK
<1>8. OneUnusedPerLineage'
  BY <1>1, <1>2 DEF IInv, CredentialsInv, OneUnusedPerLineage
<1> QED BY <1>3, <1>4, <1>5, <1>6, <1>7, <1>8 DEF CredentialsInv

-----------------------------------------------------------------------------
(* Every step preserves the invariant.                                     *)

(* The clock, the operator and a failing call only ever return requests or *)
(* touch what no request relies on.                                        *)
LEMMA AbortInv ==
  ASSUME IInv, NEW r \in Requests, Abort(r)
  PROVE  IInv'
<1>1. StagesInv'
  BY Returned DEF Abort, IInv, StagesInv, TypeOK, history
<1>2. RowsStay /\ UNCHANGED <<grants, codes, tokens, origin, answers>>
  BY RowsUnchanged DEF Abort, rows, history
<1>3. req'[r].at = "idle" /\ \A s \in Requests \ {r} : req'[s] = req[s]
  BY Finished DEF Abort, IInv, StagesInv, Idle
<1>4. CredentialsInv'
  BY <1>2, <1>3, NothingSpent
<1> QED BY <1>1, <1>4 DEF IInv

LEMMA RequestsStay ==
  ASSUME IInv, RowsStay, TypeOK', UNCHANGED <<codes, tokens, req, history>>
  PROVE  IInv'
<1>1. UNCHANGED <<origin, answers>>
  BY DEF history
<1>2. CredentialsInv'
  BY <1>1, NothingSpent
<1>3. ASSUME NEW s \in Requests PROVE StageOK(s)'
  <2> DEFINE q == req[s]
  <2>1. StageOK(s) /\ req' = req
    BY DEF IInv, StagesInv
  <2>2. q.at \in {"markCode", "exchGrant", "saveToken"} => q.key \in Keys
    BY <2>1 DEF StageOK, IInv, StagesInv, TypeOK, CodeRow
  <2>3. q.at \in {"clientRead", "refreshGrant", "rotate", "commit"} => q.key \in Keys
    BY <2>1 DEF StageOK, IInv, StagesInv, TypeOK, TokenRow
  <2> HIDE DEF q
  <2> QED BY <2>1, <2>2, <2>3 DEF StageOK, RowsStay, q
<1> QED BY <1>2, <1>3 DEF IInv, StagesInv

LEMMA EnvironmentInv ==
  ASSUME IInv,
         Tick \/ (\E c \in Clients : SetBlocked(c) \/ ReplaceClient(c))
              \/ (\E k \in Keys : RevokeGrant(k)) \/ UNCHANGED vars
  PROVE  IInv'
<1>1. CASE Tick
  <2>1. TypeOK'
    BY <1>1, ClockAssumption
       DEF Tick, registry, rows, history, IInv, StagesInv, TypeOK
  <2> QED BY <1>1, <2>1, RequestsStay, RowsUnchanged DEF Tick, rows
<1>2. ASSUME NEW c \in Clients, SetBlocked(c) PROVE IInv'
  <2>1. TypeOK'
    BY <1>2 DEF SetBlocked, rows, history, IInv, StagesInv, TypeOK
  <2> QED BY <1>2, <2>1, RequestsStay, RowsUnchanged DEF SetBlocked, rows
<1>3. ASSUME NEW k \in Keys, RevokeGrant(k) PROVE IInv'
  <2>1. grants[k] \in GrantRow /\ grants[k] # None
    BY <1>3 DEF RevokeGrant, ActiveGrant, IInv, StagesInv, TypeOK
  <2> DEFINE row == [grants[k] EXCEPT !.active = FALSE]
  <2>2. row \in GrantRow /\ row.id = grants[k].id
    BY <2>1 DEF GrantRow
  <2>3. grants' = [grants EXCEPT ![k] = row]
    BY <1>3 DEF RevokeGrant
  <2> HIDE DEF row
  <2>4. TypeOK'
    <3>1. grants' \in [Keys -> GrantRow \cup {None}]
      BY <2>2, <2>3 DEF IInv, StagesInv, TypeOK
    <3>2. UNCHANGED <<clock, registry, codes, tokens, req, origin, answers>>
      BY <1>3 DEF RevokeGrant, history
    <3> QED BY <3>1, <3>2 DEF registry, IInv, StagesInv, TypeOK
  <2>5. RowsStay
    BY <1>3, <2>2, <2>3 DEF RevokeGrant, RowsStay, IInv, StagesInv, TypeOK
  <2> QED BY <1>3, <2>4, <2>5, RequestsStay DEF RevokeGrant
<1>4. CASE UNCHANGED vars
  <2>1. TypeOK'
    BY <1>4 DEF vars, rows, history, IInv, StagesInv, TypeOK, registry
  <2> QED BY <1>4, <2>1, RequestsStay, RowsUnchanged DEF vars, rows
<1>5. ASSUME NEW c \in Clients, ReplaceClient(c) PROVE IInv'
  <2>1. TypeOK'
    <3>1. PICK list \in SUBSET Scopes :
            /\ registered' = [registered EXCEPT ![c] = list]
            /\ lists' = [lists EXCEPT ![c] = lists[c] \cup {list}]
      BY <1>5 DEF ReplaceClient
    <3>2. /\ registered' \in [Clients -> SUBSET Scopes]
          /\ lists' \in [Clients -> SUBSET SUBSET Scopes]
      BY <3>1 DEF IInv, StagesInv, TypeOK
    <3>3. /\ blocked' \subseteq Clients
          /\ UNCHANGED <<clock, grants, codes, tokens, req, origin, answers>>
      BY <1>5 DEF ReplaceClient, rows, history, IInv, StagesInv, TypeOK
    <3> QED BY <3>2, <3>3 DEF IInv, StagesInv, TypeOK
  <2> QED BY <1>5, <2>1, RequestsStay, RowsUnchanged DEF ReplaceClient, rows
<1> QED BY <1>1, <1>2, <1>3, <1>4, <1>5

(* On SQLite a revocation starts only when no rotation is open.            *)
LEMMA RevokeAloneCredentials ==
  ASSUME IInv, NEW r \in Requests, RevokeAlone(r)
  PROVE  CredentialsInv'
<1> DEFINE family == Family(req[r].gid)
<1>1. /\ family \in SUBSET Tokens
      /\ \A t \in family : tokens[t] # None
  BY DEF Family
<1>2. \A t \in family : ~RowLocked(t)
  BY DriverAssumption DEF RevokeAlone, CanWrite, RowLocked
<1>3. RowsStay
  BY RevokeStages DEF IInv
<1>4. RevokeRows(r, family)
  BY DEF RevokeAlone
<1> HIDE DEF family
<1> QED BY <1>1, <1>2, <1>3, <1>4, RevokeRowsCredentials

(* A call that starts a request, moves it on before it has redeemed        *)
(* anything, or ends it.                                                   *)
LEMMA QuietMove ==
  ASSUME IInv, NEW r \in Requests, UNCHANGED <<rows, history>>,
         req'[r].at \notin {"commit", "exchGrant", "saveToken"},
         \A s \in Requests \ {r} : req'[s] = req[s]
  PROVE  CredentialsInv'
<1>1. RowsStay /\ UNCHANGED <<grants, codes, tokens, origin, answers>>
  BY RowsUnchanged DEF rows, history
<1> QED BY <1>1, NothingSpent

LEMMA BeginInv ==
  ASSUME IInv, NEW r \in Requests, Begin(r)
  PROVE  IInv'
<1>1. req \in [Requests -> Request]
  BY DEF IInv, StagesInv, TypeOK
<1>2. CASE AuthorizeClient(r)
  <2>1. StagesInv'
    BY <1>2, AuthorizeClientStages DEF IInv
  <2>2. req'[r].at = "authGrant" /\ \A s \in Requests \ {r} : req'[s] = req[s]
    BY <1>1, <1>2 DEF AuthorizeClient, Idle
  <2> QED BY <1>2, <2>1, <2>2, QuietMove DEF AuthorizeClient, IInv
<1>3. CASE ConsentClient(r)
  <2>1. StagesInv'
    BY <1>3, ConsentClientStages DEF IInv
  <2>2. req'[r].at = "upsert" /\ \A s \in Requests \ {r} : req'[s] = req[s]
    BY <1>1, <1>3 DEF ConsentClient, Idle
  <2> QED BY <1>3, <2>1, <2>2, QuietMove DEF ConsentClient, IInv
<1>4. CASE ExchangeClient(r)
  <2>1. StagesInv'
    BY <1>4, ExchangeClientStages DEF IInv
  <2>2. req'[r].at = "codeRead" /\ \A s \in Requests \ {r} : req'[s] = req[s]
    BY <1>1, <1>4 DEF ExchangeClient, Idle
  <2> QED BY <1>4, <2>1, <2>2, QuietMove DEF ExchangeClient, IInv
<1>5. CASE ReadRefreshToken(r)
  <2>1. StagesInv'
    BY <1>5, ReadRefreshTokenStages DEF IInv
  <2>2. /\ req'[r].at \in {"revoke", "clientRead"}
        /\ \A s \in Requests \ {r} : req'[s] = req[s]
    BY <1>1, <1>5 DEF ReadRefreshToken, Idle
  <2> QED BY <1>5, <2>1, <2>2, QuietMove DEF ReadRefreshToken, IInv
<1> QED BY <1>2, <1>3, <1>4, <1>5 DEF Begin

(* The calls that only read, and the two writes that spend nothing.        *)
LEMMA ReadsInv ==
  ASSUME IInv, NEW r \in Requests,
         \/ AuthorizeGrant(r) \/ ReadCode(r) \/ RefreshClient(r)
         \/ RefreshGrant(r) \/ RevokeSnapshot(r)
  PROVE  IInv'
<1>1. /\ req \in [Requests -> Request]
      /\ Finish(r) => req'[r].at = "idle" /\ \A s \in Requests \ {r} : req'[s] = req[s]
  BY Finished DEF IInv, StagesInv, TypeOK, Idle
<1>2. /\ req'[r].at \notin {"commit", "exchGrant", "saveToken"}
      /\ \A s \in Requests \ {r} : req'[s] = req[s]
  <2>1. req[r] \in Request
    BY <1>1
  <2> QED BY <1>1, <2>1 DEF Request, AuthorizeGrant, ReadCode, RefreshClient,
                            RefreshGrant, RevokeSnapshot
<1>3. UNCHANGED <<rows, history>>
  BY DEF AuthorizeGrant, ReadCode, RefreshClient, RefreshGrant, RevokeSnapshot
<1>4. StagesInv'
  BY AuthorizeGrantStages, ReadCodeStages, RefreshClientStages,
     RefreshGrantStages, RevokeSnapshotStages DEF IInv
<1> QED BY <1>2, <1>3, <1>4, QuietMove DEF IInv

LEMMA SaveAuthorizationCodeInv ==
  ASSUME IInv, NEW r \in Requests, SaveAuthorizationCode(r)
  PROVE  IInv'
<1>1. StagesInv' /\ RowsStay
  BY SaveAuthorizationCodeStages DEF IInv
<1>2. PICK x \in Codes :
        /\ codes[x] = None
        /\ codes' = [codes EXCEPT ![x] =
                       [key |-> req[r].key, binding |-> req[r].binding,
                        exp |-> req[r].now + CodeTTL, used |-> FALSE]]
  BY DEF SaveAuthorizationCode
<1>3. req[r].key \in Keys /\ grants[req[r].key] # None
  BY DEF SaveAuthorizationCode, IInv, StagesInv, StageOK
<1>4. /\ codes'[x].key = req[r].key /\ ~codes'[x].used /\ codes'[x] # None
      /\ \A y \in Codes \ {x} : codes'[y] = codes[y]
  <2> DEFINE row == [key |-> req[r].key, binding |-> req[r].binding,
                     exp |-> req[r].now + CodeTTL, used |-> FALSE]
  <2>1. req[r].binding \in Bindings /\ req[r].now + CodeTTL \in Nat
    BY TTLAssumption DEF SaveAuthorizationCode, IInv, StagesInv, StageOK, TypeOK, Request
  <2>2. row \in CodeRow /\ row.key = req[r].key /\ ~row.used
    BY <1>3, <2>1 DEF CodeRow
  <2>3. codes'[x] = row /\ \A y \in Codes \ {x} : codes'[y] = codes[y]
    BY <1>2 DEF IInv, StagesInv, TypeOK
  <2> HIDE DEF row
  <2> QED BY <2>2, <2>3
<1>5. UNCHANGED <<grants, tokens, origin, answers>>
  BY DEF SaveAuthorizationCode, history
<1>6. req'[r].at = "idle" /\ \A s \in Requests \ {r} : req'[s] = req[s]
  BY Finished DEF SaveAuthorizationCode, IInv, StagesInv, Idle
<1>7. CredentialsInv'
  BY <1>1, <1>2, <1>3, <1>4, <1>5, <1>6, NothingSpent
<1> QED BY <1>1, <1>7 DEF IInv

LEMMA UpsertGrantInv ==
  ASSUME IInv, NEW r \in Requests, UpsertGrant(r)
  PROVE  IInv'
<1>1. StagesInv' /\ RowsStay
  BY UpsertGrantStages DEF IInv
<1>2. UNCHANGED <<codes, tokens, origin, answers>>
  BY DEF UpsertGrant, history
<1>3. req'[r].at = "idle" /\ \A s \in Requests \ {r} : req'[s] = req[s]
  BY Finished DEF UpsertGrant, IInv, StagesInv, Idle
<1>4. CredentialsInv'
  BY <1>1, <1>2, <1>3, NothingSpent
<1> QED BY <1>1, <1>4 DEF IInv

LEMMA ContinueInv ==
  ASSUME IInv, NEW r \in Requests, Continue(r)
  PROVE  IInv'
<1>1. CASE MarkAuthorizationCodeUsed(r)
  BY <1>1, MarkAuthorizationCodeUsedStages, MarkCredentials DEF IInv
<1>2. CASE ExchangeGrant(r)
  BY <1>2, ExchangeGrantStages, ExchangeGrantCredentials DEF IInv
<1>3. CASE SaveRefreshToken(r)
  BY <1>3, SaveRefreshTokenStages, SaveRefreshTokenCredentials DEF IInv
<1>4. CASE RotateRefreshToken(r)
  BY <1>4, RotateRefreshTokenStages, RotateCredentials DEF IInv
<1>5. CASE CommitRotation(r)
  <2>1. CommitOK(r)
    BY DEF IInv, CredentialsInv
  <2> QED BY <1>5, <2>1, CommitRotationStages, CommitCredentials DEF IInv
<1>6. CASE RevokeSnapshotRows(r)
  <2>1. /\ req[r].family \in SUBSET Tokens
        /\ \A t \in req[r].family : tokens[t] # None /\ ~RowLocked(t)
    BY <1>6 DEF RevokeSnapshotRows, IInv, StagesInv, StageOK, TypeOK, Request
  <2> QED BY <1>6, <2>1, RevokeStages, RevokeRowsCredentials
             DEF RevokeSnapshotRows, IInv
<1>7. CASE RevokeAlone(r)
  BY <1>7, RevokeAloneCredentials, RevokeStages DEF IInv
<1> QED BY <1>1, <1>2, <1>3, <1>4, <1>5, <1>6, <1>7, ReadsInv,
           SaveAuthorizationCodeInv, UpsertGrantInv DEF Continue

LEMMA StepIInv ==
  ASSUME IInv, [Next]_vars
  PROVE  IInv'
<1>1. ASSUME NEW r \in Requests, Begin(r) \/ Continue(r) \/ Abort(r)
      PROVE  IInv'
  BY <1>1, BeginInv, ContinueInv, AbortInv
<1> QED BY <1>1, EnvironmentInv DEF Next
=============================================================================
