--------------------------- MODULE TokenTheorems ---------------------------
(* What TokenEndpoint guarantees for every value of its constants. *)
EXTENDS TokenProofs

USE NoneAssumption

(* The inductive invariant: at every stage a request may rely on what it   *)
(* read in an earlier call, and no two requests own the same credential.   *)
THEOREM Invariance == Spec => []IInv
<1>1. Init => IInv
  BY InitIInv
<1>2. IInv /\ [Next]_vars => IInv'
  BY StepIInv
<1> QED BY <1>1, <1>2, PTL DEF Spec

(* Rows and requests stay of their types.                                  *)
THEOREM TypeCorrect == Spec => []TypeOK
<1>1. IInv => TypeOK
  BY DEF IInv, StagesInv
<1> QED BY <1>1, Invariance, PTL

(* A code or refresh token earns at most one successful response.          *)
THEOREM SingleUse == Spec => []AnsweredOnce
<1>1. IInv => AnsweredOnce
  BY DEF IInv, CredentialsInv, CodeOK, TokenOK, AnsweredOnce
<1> QED BY <1>1, Invariance, PTL

(* The refresh tokens of one code never fork.                              *)
THEOREM NoFork == Spec => []OneUnusedPerLineage
<1>1. IInv => OneUnusedPerLineage
  BY DEF IInv, CredentialsInv
<1> QED BY <1>1, Invariance, PTL

(* Revoking by grant id reaches every token of the user, client and        *)
(* resource.                                                               *)
THEOREM GrantsKept == Spec => []CredentialsHaveTheirGrant
<1>1. IInv => CredentialsHaveTheirGrant
  BY DEF IInv, CredentialsInv, CodeOK, TokenOK, CredentialsHaveTheirGrant
<1> QED BY <1>1, Invariance, PTL

-----------------------------------------------------------------------------
(* How a step treats the rows of the tokens: it leaves them alone, inserts *)
(* the first of a lineage, rotates, or revokes a family nobody has locked. *)
Inserts(r) ==
  /\ req[r].at = "saveToken"
  /\ \E t \in Tokens :
       /\ tokens[t] = None
       /\ tokens' = [tokens EXCEPT ![t] =
            RefreshTokenRow(req[r].gid, req[r].key, req[r].scopes, req[r].now)]
       /\ origin' = [origin EXCEPT ![t] = req[r].code]
       /\ \A s \in Requests : req[s].next # t

Revokes(r, family) ==
  /\ \/ req[r].at = "revoking" /\ family = req[r].family
     \/ family = Family(req[r].gid)
  /\ \A t \in family : tokens[t] # None /\ ~RowLocked(t)
  /\ RevokeRows(r, family)

LEMMA TokenSteps ==
  ASSUME IInv, [Next]_vars
  PROVE  \/ UNCHANGED <<tokens, origin>>
         \/ \E r \in Requests : Inserts(r)
         \/ \E r \in Requests : CommitRotation(r)
         \/ \E r \in Requests, family \in SUBSET Tokens : Revokes(r, family)
<1>1. ASSUME NEW r \in Requests, SaveRefreshToken(r) PROVE Inserts(r)
  BY <1>1 DEF SaveRefreshToken, Inserts, Unborn
<1>2. ASSUME NEW r \in Requests, RevokeSnapshotRows(r)
      PROVE  req[r].family \in SUBSET Tokens /\ Revokes(r, req[r].family)
  BY <1>2 DEF RevokeSnapshotRows, Revokes, IInv, StagesInv, StageOK, TypeOK, Request
<1>3. ASSUME NEW r \in Requests, RevokeAlone(r)
      PROVE  Family(req[r].gid) \in SUBSET Tokens /\ Revokes(r, Family(req[r].gid))
  BY <1>3, DriverAssumption
     DEF RevokeAlone, CanWrite, RowLocked, Family, Revokes
<1>4. ASSUME NEW r \in Requests, Begin(r) \/ Abort(r) PROVE UNCHANGED <<tokens, origin>>
  BY <1>4 DEF Begin, AuthorizeClient, ConsentClient, ExchangeClient,
              ReadRefreshToken, Abort, rows, history
<1>5. ASSUME NEW r \in Requests, Continue(r),
             ~SaveRefreshToken(r), ~CommitRotation(r),
             ~RevokeSnapshotRows(r), ~RevokeAlone(r)
      PROVE  UNCHANGED <<tokens, origin>>
  BY <1>5 DEF Continue, AuthorizeGrant, SaveAuthorizationCode, UpsertGrant,
              ReadCode, MarkAuthorizationCodeUsed, ExchangeGrant, RefreshClient,
              RefreshGrant, RotateRefreshToken, RevokeSnapshot, rows,
              history
<1>6. CASE \/ Tick \/ (\E c \in Clients : SetBlocked(c) \/ ReplaceClient(c))
           \/ (\E k \in Keys : RevokeGrant(k)) \/ UNCHANGED vars
  BY <1>6 DEF Tick, SetBlocked, ReplaceClient, RevokeGrant, vars, rows, history
<1> QED BY <1>1, <1>2, <1>3, <1>4, <1>5, <1>6 DEF Next

(* A revoked token is final: no request that read it before the revocation *)
(* rotates or rewrites it.                                                 *)
THEOREM RevocationFinal == Spec => RevokedIsFinal
<1> DEFINE Final == \A t \in Tokens :
             tokens[t] # None /\ tokens[t].revoked => tokens'[t] = tokens[t]
<1>1. ASSUME IInv, [Next]_vars PROVE Final
  <2> SUFFICES ASSUME NEW t \in Tokens, tokens[t] # None, tokens[t].revoked
               PROVE  tokens'[t] = tokens[t]
    OBVIOUS
  <2>1. ASSUME NEW r \in Requests, Inserts(r) PROVE tokens'[t] = tokens[t]
    BY <2>1 DEF Inserts
  <2>2. ASSUME NEW r \in Requests, CommitRotation(r)
        PROVE  tokens'[t] = tokens[t]
    BY <1>1, <2>2, CommitRow
  <2>3. ASSUME NEW r \in Requests, NEW family \in SUBSET Tokens,
               Revokes(r, family)
        PROVE  tokens'[t] = tokens[t]
    BY <1>1, <2>3, RevokedRow DEF Revokes
  <2> QED BY <1>1, <2>1, <2>2, <2>3, TokenSteps
<1>2. IInv /\ [Next]_vars => [Final]_vars
  BY <1>1
<1> QED BY <1>2, Invariance, PTL DEF Spec, RevokedIsFinal

-----------------------------------------------------------------------------
(* The chain a lineage forms.                                              *)

(* What a rotation or a revocation never rewrites.                         *)
LEMMA TokenRowsStay ==
  ASSUME IInv, [Next]_vars, NEW t \in Tokens, tokens[t] # None
  PROVE  /\ tokens'[t] # None /\ tokens'[t].exp = tokens[t].exp
         /\ tokens'[t].gid = tokens[t].gid /\ tokens'[t].key = tokens[t].key
<1>1. ASSUME NEW r \in Requests, Inserts(r) PROVE tokens'[t] = tokens[t]
  BY <1>1 DEF Inserts
<1>2. ASSUME NEW r \in Requests, CommitRotation(r)
      PROVE  /\ tokens'[t] # None /\ tokens'[t].exp = tokens[t].exp
             /\ tokens'[t].gid = tokens[t].gid /\ tokens'[t].key = tokens[t].key
  BY <1>2, CommitRow
<1>3. ASSUME NEW r \in Requests, NEW family \in SUBSET Tokens, Revokes(r, family)
      PROVE  /\ tokens'[t] # None /\ tokens'[t].exp = tokens[t].exp
             /\ tokens'[t].gid = tokens[t].gid /\ tokens'[t].key = tokens[t].key
  BY <1>3, RevokedRow DEF Revokes
<1> QED BY <1>1, <1>2, <1>3, TokenSteps

(* How the time and the token a request remembers change: they stay, they  *)
(* are forgotten, or a refresh starts and reads them together.             *)
Remembers(r) ==
  \/ /\ req'[r].now = req[r].now /\ req'[r].tok = req[r].tok
     /\ Refreshing(req'[r]) => Refreshing(req[r])
  \/ req'[r].now \in {0, clock} /\ ~Refreshing(req'[r])
  \/ /\ req'[r].now = clock
     /\ req'[r].tok \in Tokens /\ tokens[req'[r].tok] # None

LEMMA RequestSteps ==
  ASSUME IInv, [Next]_vars, NEW r \in Requests
  PROVE  Remembers(r)
<1>1. req \in [Requests -> Request] /\ req[r] \in Request
  BY DEF IInv, StagesInv, TypeOK
<1>2. ASSUME req'[r] = req[r] \/ req'[r] = Idle PROVE Remembers(r)
  BY <1>2 DEF Remembers, Refreshing, Idle
<1>3. ASSUME NEW s \in Requests, Finish(s) PROVE Remembers(r)
  BY <1>1, <1>2, <1>3 DEF Finish
<1>4. ASSUME NEW s \in Requests, Begin(s) PROVE Remembers(r)
  <2>1. CASE s # r
    BY <1>1, <1>2, <1>4, <2>1
       DEF Begin, AuthorizeClient, ConsentClient, ExchangeClient, ReadRefreshToken
  <2>2. CASE s = r /\ ~ReadRefreshToken(s)
    <3>1. CASE AuthorizeClient(r)
      <4>1. req'[r].now = 0 /\ req'[r].at = "authGrant"
        BY <1>1, <3>1 DEF AuthorizeClient, Idle
      <4> QED BY <4>1 DEF Remembers, Refreshing
    <3>2. CASE ConsentClient(r)
      <4>1. req'[r].now = 0 /\ req'[r].at = "upsert"
        BY <1>1, <3>2 DEF ConsentClient, Idle
      <4> QED BY <4>1 DEF Remembers, Refreshing
    <3>3. CASE ExchangeClient(r)
      <4>1. req'[r].now = 0 /\ req'[r].at = "codeRead"
        BY <1>1, <3>3 DEF ExchangeClient, Idle
      <4> QED BY <4>1 DEF Remembers, Refreshing
    <3> QED BY <1>4, <2>2, <3>1, <3>2, <3>3 DEF Begin
  <2>3. CASE s = r /\ ReadRefreshToken(s)
    <3>1. PICK t \in Tokens :
            /\ tokens[t] # None
            /\ \/ req' = [req EXCEPT ![r] = [Idle EXCEPT !.at = "revoke",
                            !.tok = t, !.gid = tokens[t].gid]]
               \/ req' = [req EXCEPT ![r] = [Idle EXCEPT !.at = "clientRead",
                            !.tok = t, !.key = tokens[t].key, !.now = clock]]
      BY <2>3 DEF ReadRefreshToken
    <3>2. \/ req'[r].now = 0 /\ req'[r].at = "revoke"
          \/ req'[r].now = clock /\ req'[r].tok = t
      BY <1>1, <3>1 DEF Idle
    <3> QED BY <3>1, <3>2 DEF Remembers, Refreshing
  <2> QED BY <2>1, <2>2, <2>3
<1>5. ASSUME NEW s \in Requests,
             AuthorizeGrant(s) \/ ReadCode(s) \/ MarkAuthorizationCodeUsed(s)
               \/ ExchangeGrant(s)
      PROVE  Remembers(r)
  BY <1>1, <1>2, <1>3, <1>5
     DEF AuthorizeGrant, ReadCode, MarkAuthorizationCodeUsed, ExchangeGrant,
         Remembers, Refreshing, Request
<1>6. ASSUME NEW s \in Requests,
             RefreshClient(s) \/ RefreshGrant(s) \/ RotateRefreshToken(s)
               \/ RevokeSnapshot(s)
      PROVE  Remembers(r)
  BY <1>1, <1>2, <1>3, <1>6
     DEF RefreshClient, RefreshGrant, RotateRefreshToken, RevokeSnapshot,
         Remembers, Refreshing, Request
<1>7. ASSUME NEW s \in Requests,
             \/ SaveAuthorizationCode(s) \/ UpsertGrant(s) \/ SaveRefreshToken(s)
             \/ CommitRotation(s) \/ RevokeSnapshotRows(s) \/ RevokeAlone(s)
             \/ Abort(s)
      PROVE  Remembers(r)
  BY <1>3, <1>7
     DEF SaveAuthorizationCode, UpsertGrant, SaveRefreshToken, CommitRotation,
         RevokeSnapshotRows, RevokeAlone, RevokeRows, Abort
<1>8. CASE \/ Tick \/ (\E c \in Clients : SetBlocked(c) \/ ReplaceClient(c))
           \/ (\E k \in Keys : RevokeGrant(k)) \/ UNCHANGED vars
  BY <1>2, <1>8 DEF Tick, SetBlocked, ReplaceClient, RevokeGrant, vars
<1> QED BY <1>4, <1>5, <1>6, <1>7, <1>8 DEF Next, Continue

LEMMA AgesStep ==
  ASSUME IInv, AgesInv, [Next]_vars
  PROVE  AgesInv'
<1>1. /\ clock \in Nat /\ clock' \in Nat /\ clock <= clock'
      /\ RefreshTTL \in Nat
  <2>1. IInv'
    BY StepIInv
  <2>2. clock \in Nat /\ clock' \in Nat
    BY <2>1 DEF IInv, StagesInv, TypeOK
  <2>3. clock' = clock \/ clock' = clock + 1
    BY DEF Next, Begin, AuthorizeClient, ConsentClient, ExchangeClient,
           ReadRefreshToken, Continue, AuthorizeGrant, SaveAuthorizationCode,
           UpsertGrant, ReadCode, MarkAuthorizationCodeUsed, ExchangeGrant,
           SaveRefreshToken, RefreshClient, RefreshGrant, RotateRefreshToken,
           CommitRotation, RevokeSnapshot, RevokeSnapshotRows, RevokeAlone,
           RevokeRows, Abort, Tick, SetBlocked, ReplaceClient, RevokeGrant, vars
  <2> QED BY <2>2, <2>3, TTLAssumption
<1>2. ASSUME NEW r \in Requests PROVE req[r].now \in Nat /\ req[r].now <= clock
  BY DEF IInv, StagesInv, TypeOK, Request, AgesInv
<1>3. ASSUME NEW t \in Tokens, tokens'[t] # None
      PROVE  tokens'[t].exp <= clock' + RefreshTTL
  <2>1. CASE tokens[t] # None
    <3>1. tokens'[t].exp = tokens[t].exp /\ tokens[t].exp \in Nat
      BY <2>1, TokenRowsStay DEF IInv, StagesInv, TypeOK, TokenRow
    <3> QED BY <1>1, <2>1, <3>1 DEF AgesInv
  <2>2. CASE tokens[t] = None
    <3>1. ASSUME NEW r \in Requests, Inserts(r)
          PROVE  tokens'[t].exp = req[r].now + RefreshTTL
      <4>1. tokens'[t] = RefreshTokenRow(req[r].gid, req[r].key, req[r].scopes,
                                         req[r].now)
        BY <1>3, <2>2, <3>1 DEF Inserts, IInv, StagesInv, TypeOK
      <4> QED BY <4>1 DEF RefreshTokenRow
    <3>2. ASSUME NEW r \in Requests, CommitRotation(r)
          PROVE  tokens'[t].exp = req[r].now + RefreshTTL
      BY <1>3, <2>2, <3>2, CommitRow
    <3>3. ~ \E r \in Requests, family \in SUBSET Tokens : Revokes(r, family)
      BY <1>3, <2>2, RevokedRow DEF Revokes
    <3>4. PICK r \in Requests : tokens'[t].exp = req[r].now + RefreshTTL
      BY <1>3, <2>2, <3>1, <3>2, <3>3, TokenSteps
    <3> QED BY <1>1, <1>2, <3>4
  <2> QED BY <2>1, <2>2
<1>4. ASSUME NEW r \in Requests
      PROVE  /\ req'[r].now <= clock'
             /\ Refreshing(req'[r]) =>
                  tokens'[req'[r].tok].exp <= req'[r].now + RefreshTTL
  <2>1. CASE /\ req'[r].now = req[r].now /\ req'[r].tok = req[r].tok
             /\ Refreshing(req'[r]) => Refreshing(req[r])
    <3>1. Refreshing(req[r]) =>
            req[r].tok \in Tokens /\ tokens[req[r].tok] # None
      BY DEF Refreshing, IInv, StagesInv, StageOK
    <3>2. Refreshing(req[r]) => tokens'[req[r].tok].exp = tokens[req[r].tok].exp
      BY <3>1, TokenRowsStay
    <3> QED BY <1>1, <1>2, <2>1, <3>2 DEF AgesInv
  <2>2. CASE req'[r].now \in {0, clock} /\ ~Refreshing(req'[r])
    BY <1>1, <2>2
  <2>3. CASE /\ req'[r].now = clock
             /\ req'[r].tok \in Tokens /\ tokens[req'[r].tok] # None
    BY <1>1, <2>3, TokenRowsStay DEF AgesInv
  <2> QED BY <2>1, <2>2, <2>3, RequestSteps DEF Remembers
<1> QED BY <1>3, <1>4 DEF AgesInv

LEMMA ChainStep ==
  ASSUME IInv, ChainInv, [Next]_vars
  PROVE  RotationChain'
<1>1. ASSUME NEW t \in Tokens, tokens[t] # None
      PROVE  tokens[t] \in TokenRow
  BY <1>1 DEF IInv, StagesInv, TypeOK
<1>2. ASSUME NEW t \in Tokens, tokens[t] # None, tokens[t].next # None
      PROVE  /\ tokens[t].next \in Tokens /\ tokens[tokens[t].next] # None
             /\ tokens'[tokens[t].next] # None
             /\ tokens'[tokens[t].next].gid = tokens[t].gid
             /\ tokens'[tokens[t].next].key = tokens[t].key
             /\ tokens'[tokens[t].next].exp >= tokens[t].exp
  <2>1. tokens[t].next \in Tokens
    BY <1>1, <1>2 DEF TokenRow
  <2>2. tokens[tokens[t].next] # None
    BY <1>2 DEF ChainInv, RotationChain
  <2> QED BY <1>2, <2>1, <2>2, TokenRowsStay DEF ChainInv, RotationChain
<1>3. CASE UNCHANGED tokens
  BY <1>3 DEF ChainInv, RotationChain
<1>4. ASSUME NEW r \in Requests, Inserts(r) PROVE RotationChain'
  <2> DEFINE new == RefreshTokenRow(req[r].gid, req[r].key, req[r].scopes, req[r].now)
  <2>1. PICK n \in Tokens : tokens[n] = None /\ tokens' = [tokens EXCEPT ![n] = new]
    BY <1>4 DEF Inserts
  <2>2. new.next = None /\ ~new.used
    BY DEF RefreshTokenRow
  <2> HIDE DEF new
  <2>3. tokens'[n] = new /\ \A u \in Tokens \ {n} : tokens'[u] = tokens[u]
    BY <2>1 DEF IInv, StagesInv, TypeOK
  <2> QED BY <1>2, <2>1, <2>2, <2>3 DEF ChainInv, RotationChain
<1>5. ASSUME NEW r \in Requests, CommitRotation(r) PROVE RotationChain'
  <2> DEFINE t == req[r].tok
             n == req[r].next
  <2>1. /\ t \in Tokens /\ n \in Tokens /\ t # n
        /\ tokens[t] # None /\ ~tokens[t].used
        /\ tokens[n] = None
        /\ tokens'[t] # None /\ tokens'[t].used
        /\ tokens'[t].key = tokens[t].key /\ tokens'[t].gid = tokens[t].gid
        /\ tokens'[t].next = n /\ tokens'[t].exp = tokens[t].exp
        /\ tokens'[n] # None /\ ~tokens'[n].used
        /\ tokens'[n].key = req[r].key /\ tokens'[n].gid = req[r].gid
        /\ tokens'[n].next = None
        /\ tokens'[n].exp = req[r].now + RefreshTTL
        /\ \A u \in Tokens \ {t, n} : tokens'[u] = tokens[u]
    BY <1>5, CommitRow
  <2>2. req[r].key = tokens[t].key /\ req[r].gid = tokens[t].gid
    <3>1. req[r].key = tokens[t].key /\ req[r].gid = grants[req[r].key].id
      BY <1>5 DEF CommitRotation, IInv, StagesInv, StageOK
    <3>2. grants[tokens[t].key].id = tokens[t].gid
      BY <2>1 DEF IInv, CredentialsInv, TokenOK
    <3> QED BY <3>1, <3>2
  <2>3. req[r].now + RefreshTTL >= tokens[t].exp
    <3>1. tokens[t].exp <= req[r].now + RefreshTTL
      BY <1>5 DEF CommitRotation, ChainInv, AgesInv, Refreshing
    <3>2. tokens[t].exp \in Nat /\ req[r].now \in Nat /\ RefreshTTL \in Nat
      BY <1>1, <2>1, TTLAssumption DEF TokenRow, IInv, StagesInv, TypeOK, Request
    <3> QED BY <3>1, <3>2
  <2>4. ASSUME NEW u \in Tokens, tokens[u] # None PROVE tokens[u].next # n
    BY <1>2, <2>1, <2>4
  <2>5. ASSUME NEW u \in Tokens \ {t, n}, tokens'[u] # None
        PROVE  LET m == tokens'[u].next IN
               /\ tokens'[u].used <=> m # None
               /\ m # None =>
                    /\ tokens'[m] # None
                    /\ tokens'[m].gid = tokens'[u].gid
                    /\ tokens'[m].key = tokens'[u].key
                    /\ tokens'[m].exp >= tokens'[u].exp
                    /\ \A v \in Tokens \ {u} : tokens'[v] # None => tokens'[v].next # m
    <3>1. tokens'[u] = tokens[u] /\ tokens[u] # None
      BY <2>1, <2>5
    <3>2. \A v \in Tokens \ {u} : tokens[u].next # None /\ tokens'[v] # None
            => tokens'[v].next # tokens[u].next
      BY <1>2, <2>1, <2>4, <3>1 DEF ChainInv, RotationChain
    <3> QED BY <1>2, <3>1, <3>2 DEF ChainInv, RotationChain
  <2>6. \A v \in Tokens \ {t} : tokens'[v] # None => tokens'[v].next # n
    BY <2>1, <2>4
  <2> QED BY <2>1, <2>2, <2>3, <2>5, <2>6 DEF RotationChain
<1>6. ASSUME NEW r \in Requests, NEW family \in SUBSET Tokens, Revokes(r, family)
      PROVE  RotationChain'
  <2>1. ASSUME NEW t \in Tokens, tokens'[t] # None
        PROVE  /\ tokens[t] # None
               /\ tokens'[t].used = tokens[t].used
               /\ tokens'[t].next = tokens[t].next
               /\ tokens'[t].exp = tokens[t].exp
               /\ tokens'[t].gid = tokens[t].gid
               /\ tokens'[t].key = tokens[t].key
    BY <1>6, <2>1, RevokedRow DEF Revokes
  <2> QED BY <1>2, <2>1 DEF ChainInv, RotationChain
<1> QED BY <1>3, <1>4, <1>5, <1>6, TokenSteps

(* The used tokens of a lineage form a chain of the same grant, user,      *)
(* client and resource, and a rotation never shortens what is left.        *)
THEOREM Chains == Spec => []RotationChain
<1>1. Init => ChainInv
  <2> SUFFICES ASSUME Init PROVE ChainInv
    OBVIOUS
  <2>1. AgesInv
    BY DEF Init, AgesInv, Refreshing, Idle
  <2>2. RotationChain
    BY DEF Init, RotationChain
  <2> QED BY <2>1, <2>2 DEF ChainInv
<1>2. IInv /\ ChainInv /\ [Next]_vars => ChainInv'
  BY AgesStep, ChainStep DEF ChainInv
<1>3. ChainInv => RotationChain
  BY DEF ChainInv
<1> QED BY <1>1, <1>2, <1>3, Invariance, PTL DEF Spec

-----------------------------------------------------------------------------
(* On SQLite a revocation takes the whole family at once, successor        *)
(* included, and no rotation of the family is open at that moment.         *)
ReachInv == RevocationReachesSuccessor /\ \A r \in Requests : req[r].at # "revoking"

LEMMA NoSnapshot ==
  ASSUME IInv, [Next]_vars, Driver = "sqlite", NEW r \in Requests,
         req[r].at # "revoking"
  PROVE  req'[r].at # "revoking"
<1>1. req \in [Requests -> Request] /\ req[r] \in Request
  BY DEF IInv, StagesInv, TypeOK
<1>2. ASSUME NEW s \in Requests, Finish(s) PROVE req'[r].at # "revoking"
  BY <1>1, <1>2 DEF Finish, Idle
<1>3. ASSUME NEW s \in Requests, Begin(s) PROVE req'[r].at # "revoking"
  <2>1. CASE s # r
    BY <1>1, <1>3, <2>1
       DEF Begin, AuthorizeClient, ConsentClient, ExchangeClient, ReadRefreshToken
  <2>2. CASE AuthorizeClient(r) \/ ConsentClient(r) \/ ExchangeClient(r)
    BY <1>1, <2>2 DEF AuthorizeClient, ConsentClient, ExchangeClient, Idle
  <2>3. CASE ReadRefreshToken(r)
    <3>1. PICK t \in Tokens :
            \/ req' = [req EXCEPT ![r] = [Idle EXCEPT !.at = "revoke",
                         !.tok = t, !.gid = tokens[t].gid]]
            \/ req' = [req EXCEPT ![r] = [Idle EXCEPT !.at = "clientRead",
                         !.tok = t, !.key = tokens[t].key, !.now = clock]]
      BY <2>3 DEF ReadRefreshToken
    <3> QED BY <1>1, <3>1 DEF Idle
  <2> QED BY <1>3, <2>1, <2>2, <2>3 DEF Begin
<1>4. ASSUME NEW s \in Requests, Continue(s) \/ Abort(s)
      PROVE  req'[r].at # "revoking"
  BY <1>1, <1>2, <1>4
     DEF Continue, AuthorizeGrant, SaveAuthorizationCode, UpsertGrant, ReadCode,
         MarkAuthorizationCodeUsed, ExchangeGrant, SaveRefreshToken,
         RefreshClient, RefreshGrant, RotateRefreshToken, CommitRotation,
         RevokeSnapshot, RevokeSnapshotRows, RevokeAlone, RevokeRows, Abort,
         Request
<1>5. CASE \/ Tick \/ (\E c \in Clients : SetBlocked(c) \/ ReplaceClient(c))
           \/ (\E k \in Keys : RevokeGrant(k)) \/ UNCHANGED vars
  BY <1>5 DEF Tick, SetBlocked, ReplaceClient, RevokeGrant, vars
<1> QED BY <1>3, <1>4, <1>5 DEF Next

LEMMA ReachStep ==
  ASSUME IInv, ChainInv, ReachInv, [Next]_vars, Driver = "sqlite"
  PROVE  RevocationReachesSuccessor'
<1>1. ASSUME NEW t \in Tokens, tokens[t] # None, tokens[t].next # None
      PROVE  /\ tokens[t].next \in Tokens /\ tokens[tokens[t].next] # None
             /\ tokens[tokens[t].next].gid = tokens[t].gid
  BY <1>1 DEF IInv, StagesInv, TypeOK, TokenRow, ChainInv, RotationChain
<1>2. CASE UNCHANGED tokens
  BY <1>2 DEF ReachInv, RevocationReachesSuccessor
<1>3. ASSUME NEW r \in Requests, Inserts(r) PROVE RevocationReachesSuccessor'
  <2> DEFINE new == RefreshTokenRow(req[r].gid, req[r].key, req[r].scopes, req[r].now)
  <2>1. PICK n \in Tokens : tokens[n] = None /\ tokens' = [tokens EXCEPT ![n] = new]
    BY <1>3 DEF Inserts
  <2>2. new.next = None /\ ~new.revoked
    BY DEF RefreshTokenRow
  <2> HIDE DEF new
  <2>3. tokens'[n] = new /\ \A u \in Tokens \ {n} : tokens'[u] = tokens[u]
    BY <2>1 DEF IInv, StagesInv, TypeOK
  <2> QED BY <1>1, <2>1, <2>2, <2>3 DEF ReachInv, RevocationReachesSuccessor
<1>4. ASSUME NEW r \in Requests, CommitRotation(r)
      PROVE  RevocationReachesSuccessor'
  <2> DEFINE t == req[r].tok
             n == req[r].next
  <2>1. /\ t \in Tokens /\ n \in Tokens /\ t # n
        /\ tokens[t] # None /\ ~tokens[t].revoked
        /\ tokens[n] = None
        /\ ~tokens'[t].revoked /\ ~tokens'[n].revoked
        /\ \A u \in Tokens \ {t, n} : tokens'[u] = tokens[u]
    BY <1>4, CommitRow
  <2> QED BY <1>1, <2>1 DEF ReachInv, RevocationReachesSuccessor
<1>5. ASSUME NEW r \in Requests, NEW family \in SUBSET Tokens, Revokes(r, family)
      PROVE  RevocationReachesSuccessor'
  <2>1. family = Family(req[r].gid)
    BY <1>5 DEF Revokes, ReachInv
  <2>2. ASSUME NEW t \in Tokens
        PROVE  /\ tokens[t] = None => tokens'[t] = None
               /\ tokens[t] # None =>
                    /\ tokens'[t].next = tokens[t].next
                    /\ tokens[t].revoked => tokens'[t].revoked
                    /\ t \in family => tokens'[t].revoked
                    /\ t \notin family => tokens'[t] = tokens[t]
    BY <1>5, RevokedRow DEF Revokes
  <2> SUFFICES ASSUME NEW t \in Tokens, tokens'[t] # None, tokens'[t].revoked,
                      tokens'[t].next # None
               PROVE  tokens'[tokens'[t].next].revoked
    BY DEF RevocationReachesSuccessor
  <2> DEFINE n == tokens[t].next
  <2>3. /\ tokens[t] # None /\ tokens'[t].next = n /\ n \in Tokens
        /\ tokens[n] # None /\ tokens[n].gid = tokens[t].gid
    BY <1>1, <2>2
  <2>4. CASE t \in family
    <3>1. n \in family \/ tokens[n].revoked
      BY <2>1, <2>3, <2>4 DEF Family
    <3> QED BY <2>2, <2>3, <3>1
  <2>5. CASE t \notin family
    <3>1. tokens[n].revoked
      BY <2>2, <2>3, <2>5 DEF ReachInv, RevocationReachesSuccessor
    <3> QED BY <2>2, <2>3, <3>1
  <2> QED BY <2>4, <2>5
<1> QED BY <1>2, <1>3, <1>4, <1>5, TokenSteps

(* With one writer, when a replay has revoked a token its successor is     *)
(* revoked too.  With PostgreSQL's row locks it need not be.               *)
THEOREM SqliteRevokesChain ==
  ASSUME Driver = "sqlite" PROVE Spec => []RevocationReachesSuccessor
<1>1. Init => ChainInv /\ ReachInv
  BY DEF Init, ChainInv, AgesInv, RotationChain, Refreshing, Idle, ReachInv,
         RevocationReachesSuccessor
<1>2. IInv /\ ChainInv /\ ReachInv /\ [Next]_vars => ChainInv' /\ ReachInv'
  <2> SUFFICES ASSUME IInv, ChainInv, ReachInv, [Next]_vars
               PROVE  ChainInv' /\ ReachInv'
    OBVIOUS
  <2>1. ChainInv'
    BY AgesStep, ChainStep DEF ChainInv
  <2>2. RevocationReachesSuccessor'
    BY ReachStep
  <2>3. \A r \in Requests : req'[r].at # "revoking"
    BY NoSnapshot DEF ReachInv
  <2> QED BY <2>1, <2>2, <2>3 DEF ReachInv
<1>3. ReachInv => RevocationReachesSuccessor
  BY DEF ReachInv
<1> QED BY <1>1, <1>2, <1>3, Invariance, PTL DEF Spec

-----------------------------------------------------------------------------
(* What comes of a whole lineage.                                          *)

LEMMA ChainKept == ASSUME IInv, ChainInv, [Next]_vars PROVE ChainInv'
  BY AgesStep, ChainStep DEF ChainInv

LEMMA ChainInvInit == ASSUME Init PROVE ChainInv
  BY DEF Init, ChainInv, AgesInv, RotationChain, Refreshing, Idle

LEMMA ChainAlways == Spec => [](IInv /\ ChainInv)
<1>1. IInv /\ ChainInv /\ [Next]_vars => ChainInv'
  BY ChainKept
<1> QED BY <1>1, ChainInvInit, Invariance, PTL DEF Spec

(* A step that leaves every successor as it was and sets at most that of t *)
(* leaves the tokens that t does not come before where they lead.          *)
LEMMA LeadsKept ==
  ASSUME NEW t \in Tokens, NEW u \in Tokens, Leads(t, u),
         \A v \in Tokens : tokens[v] # None /\ tokens[v].next # None =>
           tokens'[v] # None /\ tokens'[v].next = tokens[v].next
  PROVE  Leads(t, u)'
  BY DEF Leads

LEMMA LeadsOn ==
  ASSUME NEW t \in Tokens, NEW u \in Tokens, NEW n \in Tokens, Leads(t, u),
         tokens[u] # None, tokens[u].next = n, n # None
  PROVE  Leads(t, n)
  BY DEF Leads

(* The unused token of a lineage that all others lead to.                  *)
Last(t, u) == Unused(u) /\ origin[u] = origin[t] /\ Leads(t, u)

LeadingInv == \A t \in Tokens : tokens[t] # None => \E u \in Tokens : Last(t, u)

LEMMA LeadingStep ==
  ASSUME IInv, ChainInv, LeadingInv, [Next]_vars PROVE LeadingInv'
<1>0. ASSUME NEW t \in Tokens, tokens[t] # None PROVE tokens[t] \in TokenRow
  BY <1>0 DEF IInv, StagesInv, TypeOK
<1>1. CASE UNCHANGED <<tokens, origin>>
  BY <1>1 DEF LeadingInv, Last, Unused, Leads
<1>2. ASSUME NEW r \in Requests, Inserts(r) PROVE LeadingInv'
  <2> DEFINE new == RefreshTokenRow(req[r].gid, req[r].key, req[r].scopes, req[r].now)
  <2>1. PICK n \in Tokens :
          /\ tokens[n] = None /\ tokens' = [tokens EXCEPT ![n] = new]
          /\ origin' = [origin EXCEPT ![n] = req[r].code]
    BY <1>2 DEF Inserts
  <2>2. ~new.used /\ new # None
    <3>1. new \in TokenRow
      BY <1>2, GrantKnown DEF Inserts, IInv
    <3> QED BY <3>1 DEF RefreshTokenRow
  <2> HIDE DEF new
  <2>3. /\ tokens'[n] = new
        /\ \A u \in Tokens \ {n} : tokens'[u] = tokens[u] /\ origin'[u] = origin[u]
    BY <2>1 DEF IInv, StagesInv, TypeOK
  <2>4. ASSUME NEW t \in Tokens, tokens'[t] # None
        PROVE  \E u \in Tokens : Last(t, u)'
    <3>1. CASE t = n
      <4>1. Leads(n, n)'
        BY DEF Leads
      <4> QED BY <2>2, <2>3, <3>1, <4>1 DEF Last, Unused
    <3>2. CASE t # n
      <4>1. PICK u \in Tokens : Last(t, u)
        BY <2>3, <2>4, <3>2 DEF LeadingInv
      <4>2. u # n
        BY <2>1, <4>1 DEF Last, Unused
      <4>3. Leads(t, u)'
        BY <2>1, <2>3, <4>1, LeadsKept DEF Last
      <4> QED BY <2>3, <3>2, <4>1, <4>2, <4>3 DEF Last, Unused
    <3> QED BY <3>1, <3>2
  <2> QED BY <2>4 DEF LeadingInv
<1>3. ASSUME NEW r \in Requests, CommitRotation(r) PROVE LeadingInv'
  <2> PICK o \in Tokens, n \in Tokens : o = req[r].tok /\ n = req[r].next
    BY <1>3, CommitRow
  <2>1. /\ o \in Tokens /\ n \in Tokens /\ o # n
        /\ tokens[o] \in TokenRow /\ ~tokens[o].used
        /\ tokens[n] = None
        /\ tokens'[o] \in TokenRow /\ tokens'[o].next = n
        /\ tokens'[n] \in TokenRow /\ ~tokens'[n].used
        /\ \A u \in Tokens \ {o, n} : tokens'[u] = tokens[u]
        /\ origin'[n] = origin[o]
        /\ \A u \in Tokens \ {n} : origin'[u] = origin[u]
    BY <1>3, CommitRow
  <2>2. tokens[o].next = None
    BY <2>1 DEF ChainInv, RotationChain
  <2>3. \A v \in Tokens : tokens[v] # None /\ tokens[v].next # None =>
          tokens'[v] # None /\ tokens'[v].next = tokens[v].next
    BY <2>1, <2>2
  <2>4. ASSUME NEW t \in Tokens, tokens'[t] # None
        PROVE  \E u \in Tokens : Last(t, u)'
    <3>1. CASE t = n
      <4>1. Leads(n, n)'
        BY DEF Leads
      <4> QED BY <2>1, <3>1, <4>1 DEF Last, Unused
    <3>2. CASE t # n
      <4>1. tokens[t] # None
        BY <2>1, <2>4, <3>2
      <4>2. PICK u \in Tokens : Last(t, u)
        BY <4>1 DEF LeadingInv
      <4>3. Leads(t, u)' /\ u # n
        BY <2>1, <2>3, <4>2, LeadsKept DEF Last, Unused
      <4>4. CASE u = o
        <5>1. Leads(t, n)'
          BY <2>1, <4>3, <4>4 DEF Leads
        <5> QED BY <2>1, <3>2, <4>2, <4>4, <5>1 DEF Last, Unused
      <4>5. CASE u # o
        BY <2>1, <3>2, <4>2, <4>3, <4>5 DEF Last, Unused
      <4> QED BY <4>4, <4>5
    <3> QED BY <3>1, <3>2
  <2> QED BY <2>4 DEF LeadingInv
<1>4. ASSUME NEW r \in Requests, NEW family \in SUBSET Tokens, Revokes(r, family)
      PROVE  LeadingInv'
  <2>1. ASSUME NEW t \in Tokens
        PROVE  /\ tokens'[t] # None <=> tokens[t] # None
               /\ tokens[t] # None =>
                    /\ tokens'[t].used = tokens[t].used
                    /\ tokens'[t].next = tokens[t].next
               /\ origin'[t] = origin[t]
    <3>1. tokens[t] # None => tokens'[t] \in TokenRow
      BY <1>4, RevokedRow DEF Revokes
    <3> QED BY <1>4, <3>1, RevokedRow DEF Revokes, RevokeRows, history
  <2>2. ASSUME NEW t \in Tokens, NEW u \in Tokens, Last(t, u) PROVE Last(t, u)'
    <3>1. Leads(t, u)'
      BY <2>1, <2>2, LeadsKept DEF Last
    <3> QED BY <2>1, <2>2, <3>1 DEF Last, Unused
  <2> QED BY <2>1, <2>2 DEF LeadingInv
<1> QED BY <1>1, <1>2, <1>3, <1>4, TokenSteps

LEMMA LeadingAlways == Spec => [](IInv /\ ChainInv /\ LeadingInv)
<1>1. Init => LeadingInv
  BY DEF Init, LeadingInv
<1>2. IInv /\ ChainInv /\ LeadingInv /\ [Next]_vars => LeadingInv'
  BY LeadingStep
<1> QED BY <1>1, <1>2, ChainAlways, PTL DEF Spec

(* Every refresh token leads to the one unused token of its lineage.       *)
THEOREM OneChain == Spec => []LineageIsOneChain
<1>1. ASSUME IInv, LeadingInv PROVE LineageIsOneChain
  <2> SUFFICES ASSUME NEW t \in Tokens, tokens[t] # None
               PROVE  \E u \in Tokens :
                        /\ Unused(u) /\ origin[u] = origin[t]
                        /\ Leads(t, u)
                        /\ \A v \in Tokens \ {u} : Unused(v) => origin[v] # origin[t]
    BY DEF LineageIsOneChain
  <2>1. PICK u \in Tokens : Last(t, u)
    BY <1>1 DEF LeadingInv
  <2>2. \A v \in Tokens \ {u} : Unused(v) => origin[v] # origin[t]
    BY <1>1, <2>1 DEF Last, Unused, IInv, CredentialsInv, OneUnusedPerLineage
  <2> QED BY <2>1, <2>2 DEF Last
<1> QED BY <1>1, LeadingAlways, PTL

(* Who revokes what: a snapshot is taken whole, and stays while it waits.  *)
LEMMA SnapshotSteps ==
  ASSUME IInv, [Next]_vars, NEW r \in Requests, req'[r].at = "revoking"
  PROVE  \/ req[r].at = "revoking" /\ req'[r].family = req[r].family
         \/ /\ req'[r].family = Family(req[r].gid)
            /\ UNCHANGED tokens
<1>1. req \in [Requests -> Request] /\ req[r] \in Request
  BY DEF IInv, StagesInv, TypeOK
<1>2. CASE req'[r] = req[r]
  BY <1>2
<1>3. ASSUME NEW s \in Requests, Finish(s) PROVE req'[r] = req[r]
  BY <1>1, <1>3 DEF Finish, Idle
<1>4. ASSUME NEW s \in Requests, Begin(s) PROVE req'[r] = req[r]
  <2>1. CASE s # r
    BY <1>1, <1>4, <2>1
       DEF Begin, AuthorizeClient, ConsentClient, ExchangeClient, ReadRefreshToken
  <2>2. CASE AuthorizeClient(r) \/ ConsentClient(r) \/ ExchangeClient(r)
    BY <1>1, <2>2 DEF AuthorizeClient, ConsentClient, ExchangeClient, Idle
  <2>3. CASE ReadRefreshToken(r)
    <3>1. PICK t \in Tokens :
            \/ req' = [req EXCEPT ![r] = [Idle EXCEPT !.at = "revoke",
                         !.tok = t, !.gid = tokens[t].gid]]
            \/ req' = [req EXCEPT ![r] = [Idle EXCEPT !.at = "clientRead",
                         !.tok = t, !.key = tokens[t].key, !.now = clock]]
      BY <2>3 DEF ReadRefreshToken
    <3> QED BY <1>1, <3>1 DEF Idle
  <2> QED BY <1>4, <2>1, <2>2, <2>3 DEF Begin
<1>5. ASSUME NEW s \in Requests, RevokeSnapshot(s)
      PROVE  \/ req'[r] = req[r]
             \/ req'[r].family = Family(req[r].gid) /\ UNCHANGED tokens
  BY <1>1, <1>5 DEF RevokeSnapshot, rows, Request
<1>6. ASSUME NEW s \in Requests, Continue(s) \/ Abort(s), ~RevokeSnapshot(s)
      PROVE  req'[r] = req[r]
  BY <1>1, <1>3, <1>6
     DEF Continue, AuthorizeGrant, SaveAuthorizationCode, UpsertGrant, ReadCode,
         MarkAuthorizationCodeUsed, ExchangeGrant, SaveRefreshToken,
         RefreshClient, RefreshGrant, RotateRefreshToken, CommitRotation,
         RevokeSnapshotRows, RevokeAlone, RevokeRows, Abort, Request
<1>7. CASE \/ Tick \/ (\E c \in Clients : SetBlocked(c) \/ ReplaceClient(c))
           \/ (\E k \in Keys : RevokeGrant(k)) \/ UNCHANGED vars
  BY <1>7 DEF Tick, SetBlocked, ReplaceClient, RevokeGrant, vars
<1> QED BY <1>2, <1>4, <1>5, <1>6, <1>7 DEF Next

LEMMA PrefixStep ==
  ASSUME IInv, ChainInv, PrefixInv, [Next]_vars PROVE PrefixInv'
<1>1. ASSUME NEW t \in Tokens, tokens[t] # None
      PROVE  /\ tokens[t] \in TokenRow
             /\ tokens[t].next # None =>
                  /\ tokens[t].next \in Tokens /\ tokens[tokens[t].next] # None
                  /\ tokens[tokens[t].next].gid = tokens[t].gid
  BY <1>1 DEF IInv, StagesInv, TypeOK, TokenRow, ChainInv, RotationChain
<1>2. ASSUME NEW r \in Requests, req[r].at = "revoking"
      PROVE  /\ req[r].family \subseteq Tokens
             /\ \A t \in req[r].family : tokens[t] # None
  BY <1>2 DEF IInv, StagesInv, StageOK, TypeOK, Request
(* A token that has a successor afterwards had it before, or the successor *)
(* is new and neither revoked nor in any snapshot; revocation is for good. *)
<1>3. ASSUME NEW t \in Tokens, tokens'[t] # None, tokens'[t].next # None,
             tokens'[t].next = tokens[t].next => tokens[t] = None
      PROVE  /\ tokens'[t].next \in Tokens
             /\ tokens[tokens'[t].next] = None
             /\ ~tokens'[tokens'[t].next].revoked
  <2>1. CASE UNCHANGED <<tokens, origin>>
    BY <1>3, <2>1
  <2>2. ASSUME NEW r \in Requests, Inserts(r) PROVE FALSE
    <3> DEFINE new == RefreshTokenRow(req[r].gid, req[r].key, req[r].scopes,
                                      req[r].now)
    <3>1. PICK n \in Tokens : tokens' = [tokens EXCEPT ![n] = new]
      BY <2>2 DEF Inserts
    <3>2. new.next = None
      BY DEF RefreshTokenRow
    <3> HIDE DEF new
    <3> QED BY <1>3, <3>1, <3>2 DEF IInv, StagesInv, TypeOK
  <2>3. ASSUME NEW r \in Requests, CommitRotation(r)
        PROVE  /\ tokens'[t].next \in Tokens
               /\ tokens[tokens'[t].next] = None
               /\ ~tokens'[tokens'[t].next].revoked
    BY <1>3, <2>3, CommitRow
  <2>4. ASSUME NEW r \in Requests, NEW family \in SUBSET Tokens, Revokes(r, family)
        PROVE  FALSE
    BY <1>3, <2>4, RevokedRow DEF Revokes
  <2> QED BY <2>1, <2>2, <2>3, <2>4, TokenSteps
<1>4. ASSUME NEW t \in Tokens, tokens[t] # None, tokens[t].revoked
      PROVE  tokens'[t].revoked
  <2>1. ASSUME NEW r \in Requests, Inserts(r) PROVE tokens'[t] = tokens[t]
    BY <1>4, <2>1 DEF Inserts
  <2>2. ASSUME NEW r \in Requests, CommitRotation(r) PROVE tokens'[t] = tokens[t]
    BY <1>4, <2>2, CommitRow
  <2>3. ASSUME NEW r \in Requests, NEW family \in SUBSET Tokens, Revokes(r, family)
        PROVE  tokens'[t] = tokens[t]
    BY <1>4, <2>3, RevokedRow DEF Revokes
  <2> QED BY <1>4, <2>1, <2>2, <2>3, TokenSteps
(* A token is revoked by a family that has those before it.                *)
<1>5. ASSUME NEW t \in Tokens, tokens[t] # None, tokens[t].next # None,
             ~tokens[tokens[t].next].revoked, tokens'[tokens[t].next].revoked
      PROVE  tokens'[t].revoked
  <2> DEFINE n == tokens[t].next
  <2>1. n \in Tokens /\ tokens[n] # None /\ tokens[n].gid = tokens[t].gid
    BY <1>1, <1>5
  <2>2. ASSUME NEW r \in Requests, Inserts(r) PROVE FALSE
    <3>1. tokens'[n] = tokens[n]
      BY <2>1, <2>2 DEF Inserts
    <3> QED BY <1>5, <3>1
  <2>3. ASSUME NEW r \in Requests, CommitRotation(r) PROVE FALSE
    BY <1>5, <2>1, <2>3, CommitRow
  <2>4. ASSUME NEW r \in Requests, NEW family \in SUBSET Tokens, Revokes(r, family)
        PROVE  tokens'[t].revoked
    <3>1. n \in family
      BY <1>5, <2>1, <2>4, RevokedRow DEF Revokes
    <3>2. t \in family \/ tokens[t].revoked
      <4>1. CASE family = Family(req[r].gid)
        BY <1>5, <2>1, <3>1, <4>1 DEF Family
      <4>2. CASE req[r].at = "revoking" /\ family = req[r].family
        BY <1>5, <3>1, <4>2 DEF PrefixInv
      <4> QED BY <2>4, <4>1, <4>2 DEF Revokes
    <3> QED BY <1>4, <1>5, <2>4, <3>2, RevokedRow DEF Revokes
  <2>5. CASE UNCHANGED <<tokens, origin>>
    BY <1>5, <2>5
  <2> QED BY <2>2, <2>3, <2>4, <2>5, TokenSteps
<1>6. RevokedFromTheStart'
  <2> SUFFICES ASSUME NEW t \in Tokens, tokens'[t] # None, tokens'[t].next # None,
                      tokens'[tokens'[t].next].revoked
               PROVE  tokens'[t].revoked
    BY DEF RevokedFromTheStart
  <2>1. tokens[t] # None /\ tokens'[t].next = tokens[t].next
    BY <1>3
  <2>2. CASE tokens[tokens[t].next].revoked
    BY <1>4, <2>1, <2>2 DEF PrefixInv, RevokedFromTheStart
  <2>3. CASE ~tokens[tokens[t].next].revoked
    BY <1>5, <2>1, <2>3
  <2> QED BY <2>2, <2>3
<1>7. ASSUME NEW r \in Requests, NEW t \in Tokens, req'[r].at = "revoking",
             tokens'[t] # None, tokens'[t].next \in req'[r].family
      PROVE  t \in req'[r].family \/ tokens'[t].revoked
  <2>1. CASE req[r].at = "revoking" /\ req'[r].family = req[r].family
    <3>1. tokens[t] # None /\ tokens'[t].next = tokens[t].next
      BY <1>2, <1>3, <1>7, <2>1
    <3> QED BY <1>4, <1>7, <2>1, <3>1 DEF PrefixInv
  <2>2. CASE req'[r].family = Family(req[r].gid) /\ UNCHANGED tokens
    BY <1>1, <1>7, <2>2 DEF Family
  <2> QED BY <1>7, <2>1, <2>2, SnapshotSteps
<1> QED BY <1>6, <1>7 DEF PrefixInv

LEMMA PrefixAlways == Spec => [](IInv /\ ChainInv /\ LeadingInv /\ PrefixInv)
<1>1. Init => PrefixInv
  BY DEF Init, PrefixInv, RevokedFromTheStart, Idle
<1>2. IInv /\ ChainInv /\ PrefixInv /\ [Next]_vars => PrefixInv'
  BY PrefixStep
<1> QED BY <1>1, <1>2, LeadingAlways, PTL DEF Spec

(* On either database, what a revocation misses of a lineage comes after   *)
(* all that it reaches.                                                    *)
THEOREM RevokedPrefix == Spec => []RevokedFromTheStart
<1>1. PrefixInv => RevokedFromTheStart
  BY DEF PrefixInv
<1> QED BY <1>1, PrefixAlways, PTL

(* The tokens that are not revoked are closed under replacement.           *)
LEMMA RevokedBackwards ==
  ASSUME IInv, ChainInv, RevokedFromTheStart,
         NEW t \in Tokens, NEW u \in Tokens, Leads(t, u),
         tokens[t] # None, tokens[u].revoked
  PROVE  tokens[t].revoked
<1> SUFFICES ASSUME ~tokens[t].revoked PROVE FALSE
  OBVIOUS
<1> DEFINE S == {v \in Tokens : tokens[v] # None /\ ~tokens[v].revoked}
<1>1. ASSUME NEW v \in S, tokens[v].next # None PROVE tokens[v].next \in S
  <2>1. tokens[v].next \in Tokens /\ tokens[tokens[v].next] # None
    BY <1>1 DEF IInv, StagesInv, TypeOK, TokenRow, ChainInv, RotationChain
  <2> QED BY <1>1, <2>1 DEF RevokedFromTheStart
<1>2. t \in S /\ S \in SUBSET Tokens
  OBVIOUS
<1>3. u \in S
  BY <1>1, <1>2 DEF Leads
<1> QED BY <1>3

(* So a lineage whose unused token is revoked is revoked as a whole.       *)
THEOREM RevokedWhole == Spec => []RevokedToTheStart
<1>1. ASSUME IInv, ChainInv, LeadingInv, PrefixInv PROVE RevokedToTheStart
  <2> SUFFICES ASSUME NEW t \in Tokens, NEW u \in Tokens,
                      tokens[t] # None, tokens[u] # None, origin[t] = origin[u],
                      ~tokens[u].used, tokens[u].revoked
               PROVE  tokens[t].revoked
    BY DEF RevokedToTheStart
  <2>1. PICK v \in Tokens : Last(t, v)
    BY <1>1 DEF LeadingInv
  <2>2. v = u
    BY <1>1, <2>1
       DEF Last, Unused, IInv, CredentialsInv, OneUnusedPerLineage
  <2> QED BY <1>1, <2>1, <2>2, RevokedBackwards DEF Last, PrefixInv
<1> QED BY <1>1, PrefixAlways, PTL

(* README 449: with one writer, the replay of any token of a lineage makes *)
(* every token of it invalid.                                              *)
THEOREM SqliteRevokesLineage ==
  ASSUME Driver = "sqlite" PROVE Spec => []RevocationTakesLineage
<1>1. ASSUME IInv, ChainInv, LeadingInv, PrefixInv, RevocationReachesSuccessor
      PROVE  RevocationTakesLineage
  <2> SUFFICES ASSUME NEW t \in Tokens, NEW u \in Tokens,
                      tokens[t] # None, tokens[u] # None, origin[t] = origin[u],
                      tokens[t].revoked
               PROVE  tokens[u].revoked
    BY DEF RevocationTakesLineage
  <2>1. PICK v \in Tokens : Last(t, v)
    BY <1>1 DEF LeadingInv
  <2>2. Last(u, v)
    <3>1. PICK w \in Tokens : Last(u, w)
      BY <1>1 DEF LeadingInv
    <3> QED BY <1>1, <2>1, <3>1
            DEF Last, Unused, IInv, CredentialsInv, OneUnusedPerLineage
  <2>3. tokens[v].revoked
    <3> DEFINE S == {w \in Tokens : tokens[w] # None /\ tokens[w].revoked}
    <3>1. ASSUME NEW w \in S, tokens[w].next # None PROVE tokens[w].next \in S
      <4>1. tokens[w].next \in Tokens /\ tokens[tokens[w].next] # None
        BY <1>1, <3>1 DEF IInv, StagesInv, TypeOK, TokenRow, ChainInv, RotationChain
      <4> QED BY <1>1, <3>1, <4>1 DEF RevocationReachesSuccessor
    <3>2. t \in S /\ S \in SUBSET Tokens
      OBVIOUS
    <3>3. v \in S
      BY <2>1, <3>1, <3>2 DEF Last, Leads
    <3> QED BY <3>3
  <2> QED BY <1>1, <2>2, <2>3, RevokedBackwards DEF Last, PrefixInv
<1> QED BY <1>1, PrefixAlways, SqliteRevokesChain, PTL

(* A code keeps its time.                                                  *)
LEMMA CodesStay ==
  ASSUME IInv, [Next]_vars, NEW x \in Codes, codes[x] # None
  PROVE  codes'[x] # None /\ codes'[x].exp = codes[x].exp
<1>1. codes \in [Codes -> CodeRow \cup {None}] /\ codes[x] \in CodeRow
  BY DEF IInv, StagesInv, TypeOK
<1>2. ASSUME NEW r \in Requests, SaveAuthorizationCode(r)
      PROVE  codes'[x] = codes[x]
  BY <1>1, <1>2 DEF SaveAuthorizationCode
<1>3. ASSUME NEW r \in Requests, MarkAuthorizationCodeUsed(r)
      PROVE  codes'[x] # None /\ codes'[x].exp = codes[x].exp
  <2>1. CASE UNCHANGED codes
    BY <2>1
  <2>2. CASE codes' = [codes EXCEPT ![req[r].code].used = TRUE]
    <3>1. \/ codes'[x] = codes[x]
          \/ codes'[x] = [codes[x] EXCEPT !.used = TRUE]
      BY <1>1, <2>2
    <3>2. [codes[x] EXCEPT !.used = TRUE] \in CodeRow
      BY <1>1 DEF CodeRow
    <3> QED BY <1>1, <3>1, <3>2 DEF CodeRow
  <2> QED BY <1>3, <2>1, <2>2 DEF MarkAuthorizationCodeUsed
<1>4. ASSUME NEW r \in Requests, Begin(r) \/ Abort(r) PROVE UNCHANGED codes
  BY <1>4 DEF Begin, AuthorizeClient, ConsentClient, ExchangeClient,
              ReadRefreshToken, Abort, rows
<1>5. ASSUME NEW r \in Requests, Continue(r), ~SaveAuthorizationCode(r),
             ~MarkAuthorizationCodeUsed(r)
      PROVE  UNCHANGED codes
  BY <1>5 DEF Continue, AuthorizeGrant, UpsertGrant, ReadCode, ExchangeGrant,
              SaveRefreshToken, RefreshClient, RefreshGrant, RotateRefreshToken,
              CommitRotation, RevokeSnapshot, RevokeSnapshotRows, RevokeAlone,
              RevokeRows, rows
<1>6. CASE \/ Tick \/ (\E c \in Clients : SetBlocked(c) \/ ReplaceClient(c))
           \/ (\E k \in Keys : RevokeGrant(k)) \/ UNCHANGED vars
  BY <1>6 DEF Tick, SetBlocked, ReplaceClient, RevokeGrant, vars, rows
<1> QED BY <1>2, <1>3, <1>4, <1>5, <1>6 DEF Next

(* The time a request counts lifetimes from is one at which what it        *)
(* presents was good.                                                      *)
Redeems(q) == q.at \in {"markCode", "exchGrant", "saveToken"}

LEMMA FreshSteps ==
  ASSUME IInv, [Next]_vars, NEW r \in Requests
  PROVE  /\ Refreshing(req'[r]) =>
              \/ /\ Refreshing(req[r]) /\ req'[r].tok = req[r].tok
                 /\ req'[r].now = req[r].now
              \/ /\ req'[r].tok \in Tokens /\ tokens[req'[r].tok] # None
                 /\ req'[r].now <= tokens[req'[r].tok].exp
         /\ Redeems(req'[r]) =>
              \/ /\ Redeems(req[r]) /\ req'[r].code = req[r].code
                 /\ req'[r].now = req[r].now
              \/ /\ req'[r].code = req[r].code /\ req[r].at = "codeRead"
                 /\ req'[r].now <= codes[req[r].code].exp
<1>1. req \in [Requests -> Request] /\ req[r] \in Request
  BY DEF IInv, StagesInv, TypeOK
<1> USE DEF Refreshing, Redeems
<1>2. CASE req'[r] = req[r] \/ req'[r] = Idle
  BY <1>2 DEF Idle
<1>3. ASSUME NEW s \in Requests, Finish(s) PROVE req'[r] = req[r] \/ req'[r] = Idle
  BY <1>1, <1>3 DEF Finish
<1>4. CASE ReadRefreshToken(r)
  <2>1. PICK t \in Tokens :
          /\ tokens[t] # None
          /\ \/ req' = [req EXCEPT ![r] = [Idle EXCEPT !.at = "revoke",
                          !.tok = t, !.gid = tokens[t].gid]]
             \/ /\ clock <= tokens[t].exp
                /\ req' = [req EXCEPT ![r] = [Idle EXCEPT !.at = "clientRead",
                          !.tok = t, !.key = tokens[t].key, !.now = clock]]
    BY <1>4 DEF ReadRefreshToken
  <2>2. \/ req'[r].at = "revoke"
        \/ /\ req'[r].at = "clientRead" /\ req'[r].tok = t
           /\ req'[r].now = clock /\ clock <= tokens[t].exp
    BY <1>1, <2>1 DEF Idle
  <2> QED BY <2>1, <2>2
<1>5. CASE ReadCode(r)
  <2>1. CASE Finish(r)
    BY <1>2, <1>3, <2>1
  <2>2. CASE ~Finish(r)
    <3>1. /\ clock <= codes[req[r].code].exp
          /\ req' = [req EXCEPT ![r].at = "markCode",
                       ![r].key = codes[req[r].code].key, ![r].now = clock]
      BY <1>5, <2>2 DEF ReadCode
    <3>2. /\ req'[r].at = "markCode" /\ req'[r].code = req[r].code
          /\ req'[r].now = clock
      BY <1>1, <3>1 DEF Request
    <3> QED BY <1>5, <3>1, <3>2 DEF ReadCode
  <2> QED BY <2>1, <2>2
<1>6. CASE AuthorizeClient(r) \/ ConsentClient(r) \/ ExchangeClient(r)
  <2>1. req'[r].at \in {"authGrant", "upsert", "codeRead"}
    BY <1>1, <1>6 DEF AuthorizeClient, ConsentClient, ExchangeClient, Idle
  <2> QED BY <2>1
<1>7. CASE \/ AuthorizeGrant(r) \/ MarkAuthorizationCodeUsed(r) \/ ExchangeGrant(r)
           \/ RevokeSnapshot(r)
  <2>1. CASE Finish(r)
    BY <1>2, <1>3, <2>1
  <2>2. CASE ~Finish(r)
    BY <1>1, <1>7, <2>2
       DEF AuthorizeGrant, MarkAuthorizationCodeUsed, ExchangeGrant,
           RevokeSnapshot, Request
  <2> QED BY <2>1, <2>2
<1>8. CASE RefreshClient(r) \/ RefreshGrant(r) \/ RotateRefreshToken(r)
  <2>1. CASE Finish(r)
    BY <1>2, <1>3, <2>1
  <2>2. CASE ~Finish(r)
    BY <1>1, <1>8, <2>2
       DEF RefreshClient, RefreshGrant, RotateRefreshToken, Request
  <2> QED BY <2>1, <2>2
<1>9. ASSUME NEW s \in Requests, Begin(s) \/ Continue(s) \/ Abort(s), s # r
      PROVE  req'[r] = req[r]
  BY <1>1, <1>9
     DEF Begin, AuthorizeClient, ConsentClient, ExchangeClient, ReadRefreshToken,
         Continue, AuthorizeGrant, SaveAuthorizationCode, UpsertGrant, ReadCode,
         MarkAuthorizationCodeUsed, ExchangeGrant, SaveRefreshToken,
         RefreshClient, RefreshGrant, RotateRefreshToken, CommitRotation,
         RevokeSnapshot, RevokeSnapshotRows, RevokeAlone, RevokeRows, Abort,
         Finish
<1>10. CASE \/ SaveAuthorizationCode(r) \/ UpsertGrant(r) \/ SaveRefreshToken(r)
            \/ CommitRotation(r) \/ RevokeSnapshotRows(r) \/ RevokeAlone(r)
            \/ Abort(r)
  <2>1. Finish(r)
    BY <1>10
       DEF SaveAuthorizationCode, UpsertGrant, SaveRefreshToken, CommitRotation,
           RevokeSnapshotRows, RevokeAlone, RevokeRows, Abort
  <2> QED BY <1>2, <1>3, <2>1
<1>11. CASE \/ Tick \/ (\E c \in Clients : SetBlocked(c) \/ ReplaceClient(c))
            \/ (\E k \in Keys : RevokeGrant(k)) \/ UNCHANGED vars
  BY <1>2, <1>11 DEF Tick, SetBlocked, ReplaceClient, RevokeGrant, vars
<1>12. ASSUME NEW s \in Requests, s = r, Begin(s) \/ Continue(s) \/ Abort(s)
       PROVE  \/ ReadRefreshToken(r) \/ ReadCode(r)
              \/ AuthorizeClient(r) \/ ConsentClient(r) \/ ExchangeClient(r)
              \/ AuthorizeGrant(r) \/ MarkAuthorizationCodeUsed(r)
              \/ ExchangeGrant(r) \/ RevokeSnapshot(r)
              \/ RefreshClient(r) \/ RefreshGrant(r) \/ RotateRefreshToken(r)
              \/ SaveAuthorizationCode(r) \/ UpsertGrant(r)
              \/ SaveRefreshToken(r) \/ CommitRotation(r)
              \/ RevokeSnapshotRows(r) \/ RevokeAlone(r) \/ Abort(r)
  BY <1>12 DEF Begin, Continue
<1> QED BY <1>2, <1>4, <1>5, <1>6, <1>7, <1>8, <1>9, <1>10, <1>11, <1>12 DEF Next

LEMMA LapseStep ==
  ASSUME IInv, ChainInv, LapseInv, [Next]_vars PROVE LapseInv'
<1>1. /\ \A t \in Tokens : tokens[t] # None => tokens[t] \in TokenRow
      /\ \A x \in Codes : codes[x] # None => codes[x] \in CodeRow
      /\ \A r \in Requests : req[r] \in Request /\ StageOK(r)
      /\ RefreshTTL \in Nat
  BY TTLAssumption DEF IInv, StagesInv, TypeOK
<1>2. ASSUME NEW t \in Tokens, tokens[t] # None
      PROVE  /\ origin[t] \in Codes /\ codes[origin[t]] # None
             /\ codes'[origin[t]].exp = codes[origin[t]].exp
             /\ tokens'[t].exp = tokens[t].exp
  <2>1. origin[t] \in Codes /\ codes[origin[t]] # None
    BY <1>2 DEF IInv, CredentialsInv, TokenOK
  <2> QED BY <1>2, <2>1, CodesStay, TokenRowsStay
<1>3. ASSUME NEW r \in Requests
      PROVE  /\ Refreshing(req'[r]) => req'[r].now <= tokens'[req'[r].tok].exp
             /\ Redeems(req'[r]) => req'[r].now <= codes'[req'[r].code].exp
  <2>1. /\ Refreshing(req[r]) =>
             /\ req[r].tok \in Tokens /\ tokens[req[r].tok] # None
             /\ req[r].now <= tokens[req[r].tok].exp
        /\ Redeems(req[r]) \/ req[r].at = "codeRead" =>
             req[r].code \in Codes /\ codes[req[r].code] # None
        /\ Redeems(req[r]) => req[r].now <= codes[req[r].code].exp
    BY <1>1 DEF Refreshing, Redeems, StageOK, LapseInv
  <2>2. ASSUME Refreshing(req'[r]) PROVE req'[r].now <= tokens'[req'[r].tok].exp
    BY <1>2, <2>1, <2>2, FreshSteps
  <2>3. ASSUME Redeems(req'[r]) PROVE req'[r].now <= codes'[req'[r].code].exp
    BY <2>1, <2>3, FreshSteps, CodesStay
  <2> QED BY <2>2, <2>3
<1>4. ASSUME NEW t \in Tokens, NEW u \in Tokens, tokens[u] # None,
             tokens[u].next = t
      PROVE  tokens[t] # None
  BY <1>4 DEF ChainInv, RotationChain
(* A token keeps its time and what comes before it.                        *)
<1>5. ASSUME NEW t \in Tokens, tokens[t] # None,
             origin'[t] = origin[t],
             \A u \in Tokens : tokens'[u] # None /\ tokens'[u].next = t
                             <=> tokens[u] # None /\ tokens[u].next = t
      PROVE  LET before == {u \in Tokens : tokens'[u] # None /\ tokens'[u].next = t} IN
             /\ before = {} => tokens'[t].exp <= codes'[origin'[t]].exp + RefreshTTL
             /\ \A u \in before : tokens'[t].exp <= tokens'[u].exp + RefreshTTL
  <2> DEFINE before == {u \in Tokens : tokens[u] # None /\ tokens[u].next = t}
             after == {u \in Tokens : tokens'[u] # None /\ tokens'[u].next = t}
  <2>1. after = before
    BY <1>5
  <2>2. /\ before = {} => tokens[t].exp <= codes[origin[t]].exp + RefreshTTL
        /\ \A u \in before : tokens[t].exp <= tokens[u].exp + RefreshTTL
    BY <1>5 DEF LapseInv, LineageNeverLapses
  <2>3. \A u \in before : tokens'[u].exp = tokens[u].exp
    BY <1>2
  <2> QED BY <1>2, <1>5, <2>1, <2>2, <2>3
<1>6. CASE UNCHANGED <<tokens, origin>>
  <2>1. LineageNeverLapses'
    BY <1>5, <1>6 DEF LineageNeverLapses
  <2> QED BY <1>3, <2>1 DEF LapseInv, Redeems
<1>7. ASSUME NEW r \in Requests, Inserts(r) PROVE LineageNeverLapses'
  <2> DEFINE new == RefreshTokenRow(req[r].gid, req[r].key, req[r].scopes, req[r].now)
  <2>1. PICK n \in Tokens :
          /\ tokens[n] = None /\ tokens' = [tokens EXCEPT ![n] = new]
          /\ origin' = [origin EXCEPT ![n] = req[r].code]
    BY <1>7 DEF Inserts
  <2>2. new.exp = req[r].now + RefreshTTL /\ new.next = None
    BY DEF RefreshTokenRow
  <2> HIDE DEF new
  <2>3. /\ tokens'[n] = new /\ origin'[n] = req[r].code
        /\ \A u \in Tokens \ {n} : tokens'[u] = tokens[u] /\ origin'[u] = origin[u]
    BY <2>1 DEF IInv, StagesInv, TypeOK
  <2>4. \A u \in Tokens, v \in Tokens :
          tokens'[u] # None /\ tokens'[u].next = v <=>
            tokens[u] # None /\ tokens[u].next = v
    BY <2>1, <2>2, <2>3
  <2>5. tokens'[n].exp <= codes'[origin'[n]].exp + RefreshTTL
    <3>1. /\ req[r].code \in Codes /\ codes[req[r].code] \in CodeRow
          /\ req[r].now <= codes[req[r].code].exp
      BY <1>1, <1>7 DEF Inserts, StageOK, LapseInv
    <3>2. codes'[req[r].code].exp = codes[req[r].code].exp
      BY <1>1, <1>7, <3>1, CodesStay DEF Inserts, StageOK
    <3>3. codes[req[r].code].exp \in Nat /\ req[r].now \in Nat
      BY <1>1, <3>1 DEF CodeRow, Request
    <3> QED BY <1>1, <2>2, <2>3, <3>1, <3>2, <3>3
  <2>6. ~ \E u \in Tokens : tokens'[u] # None /\ tokens'[u].next = n
    BY <1>4, <2>1, <2>4
  <2>7. ASSUME NEW t \in Tokens, tokens'[t] # None
        PROVE  LET before == {u \in Tokens : tokens'[u] # None /\ tokens'[u].next = t} IN
               /\ before = {} => tokens'[t].exp <= codes'[origin'[t]].exp + RefreshTTL
               /\ \A u \in before : tokens'[t].exp <= tokens'[u].exp + RefreshTTL
    <3>1. CASE t = n
      BY <2>5, <2>6, <3>1
    <3>2. CASE t # n
      BY <1>5, <2>3, <2>4, <2>7, <3>2
    <3> QED BY <3>1, <3>2
  <2> QED BY <2>7 DEF LineageNeverLapses
<1>8. ASSUME NEW r \in Requests, CommitRotation(r) PROVE LineageNeverLapses'
  <2> PICK o \in Tokens, n \in Tokens : o = req[r].tok /\ n = req[r].next
    BY <1>8, CommitRow
  <2>1. /\ o # n /\ tokens[o] \in TokenRow /\ ~tokens[o].used /\ tokens[n] = None
        /\ tokens'[o] \in TokenRow /\ tokens'[o].next = n
        /\ tokens'[n] \in TokenRow /\ tokens'[n].next = None
        /\ tokens'[n].exp = req[r].now + RefreshTTL
        /\ tokens'[o].exp = tokens[o].exp
        /\ \A u \in Tokens \ {o, n} : tokens'[u] = tokens[u]
        /\ \A u \in Tokens \ {n} : origin'[u] = origin[u]
    BY <1>8, CommitRow
  <2>2. tokens[o].next = None
    BY <2>1 DEF ChainInv, RotationChain
  <2>3. \A u \in Tokens, v \in Tokens \ {n} :
          tokens'[u] # None /\ tokens'[u].next = v <=>
            tokens[u] # None /\ tokens[u].next = v
    BY <2>1, <2>2
  <2>4. \A u \in Tokens : tokens'[u] # None /\ tokens'[u].next = n <=> u = o
    BY <1>4, <2>1
  <2>5. tokens'[n].exp <= tokens'[o].exp + RefreshTTL
    <3>1. req[r].now <= tokens[o].exp /\ req[r].now \in Nat
      BY <1>1, <1>8 DEF CommitRotation, LapseInv, Refreshing, Request
    <3>2. tokens[o].exp \in Nat
      BY <2>1 DEF TokenRow
    <3> QED BY <1>1, <2>1, <3>1, <3>2
  <2>6. ASSUME NEW t \in Tokens, tokens'[t] # None
        PROVE  LET before == {u \in Tokens : tokens'[u] # None /\ tokens'[u].next = t} IN
               /\ before = {} => tokens'[t].exp <= codes'[origin'[t]].exp + RefreshTTL
               /\ \A u \in before : tokens'[t].exp <= tokens'[u].exp + RefreshTTL
    <3>1. CASE t = n
      BY <2>4, <2>5, <3>1
    <3>2. CASE t # n
      BY <1>5, <2>1, <2>3, <2>6, <3>2
    <3> QED BY <3>1, <3>2
  <2> QED BY <2>6 DEF LineageNeverLapses
<1>9. ASSUME NEW r \in Requests, NEW family \in SUBSET Tokens, Revokes(r, family)
      PROVE  LineageNeverLapses'
  <2>1. ASSUME NEW t \in Tokens
        PROVE  /\ tokens'[t] # None <=> tokens[t] # None
               /\ tokens[t] # None => tokens'[t].next = tokens[t].next
               /\ origin'[t] = origin[t]
    <3>1. tokens[t] # None => tokens'[t] \in TokenRow
      BY <1>9, RevokedRow DEF Revokes
    <3> QED BY <1>9, <3>1, RevokedRow DEF Revokes, RevokeRows, history
  <2> QED BY <1>5, <2>1 DEF LineageNeverLapses
<1> QED BY <1>3, <1>6, <1>7, <1>8, <1>9, TokenSteps DEF LapseInv, Redeems

(* A lineage has no gap: each token's lifetime counts from a time at which *)
(* what it was issued for, the code or the token before it, was good.      *)
THEOREM NoLapse == Spec => []LineageNeverLapses
<1>1. Init => LapseInv
  BY DEF Init, LapseInv, LineageNeverLapses, Refreshing, Idle
<1>2. IInv /\ ChainInv /\ LapseInv /\ [Next]_vars => LapseInv'
  BY LapseStep
<1>3. LapseInv => LineageNeverLapses
  BY DEF LapseInv
<1> QED BY <1>1, <1>2, <1>3, ChainAlways, PTL DEF Spec

-----------------------------------------------------------------------------
(* Where the scopes come from that a request holds.                        *)
HoldsScopes(q) ==
  q.at \in {"authGrant", "saveCode", "upsert", "saveToken", "rotate", "commit"}

WritesScopes(q) == q.at \in {"upsert", "saveToken", "rotate", "commit"}

(* A step of a request: it holds none afterwards, keeps those it had,      *)
(* settles on them with the client it has just read, or takes those of the *)
(* active grant it has just read.                                          *)
ScopesFrom(r) ==
  \/ ~HoldsScopes(req'[r])
  \/ /\ HoldsScopes(req[r])
     /\ req'[r].key = req[r].key /\ req'[r].scopes = req[r].scopes
     /\ WritesScopes(req'[r]) => WritesScopes(req[r])
  \/ /\ req'[r].at \in {"authGrant", "upsert"} /\ req'[r].key \in Keys
     /\ req'[r].scopes # {}
     /\ \E p \in ScopeParameters :
          req'[r].scopes = ClientScopes(p, req'[r].key.client)
  \/ /\ req'[r].at \in {"saveToken", "rotate"}
     /\ req'[r].key \in Keys /\ ActiveGrant(req'[r].key)
     /\ req'[r].scopes = grants[req'[r].key].scopes

LEMMA ScopeSteps ==
  ASSUME IInv, [Next]_vars, NEW r \in Requests
  PROVE  ScopesFrom(r)
<1>1. req \in [Requests -> Request] /\ req[r] \in Request /\ StageOK(r)
  BY DEF IInv, StagesInv, TypeOK
<1>2. ASSUME req'[r] = req[r] \/ req'[r] = Idle PROVE ScopesFrom(r)
  BY <1>2 DEF ScopesFrom, HoldsScopes, Idle
<1>3. ASSUME NEW s \in Requests, Finish(s) PROVE ScopesFrom(r)
  BY <1>1, <1>2, <1>3 DEF Finish
<1>4. ASSUME NEW s \in Requests, Begin(s) PROVE ScopesFrom(r)
  <2>1. CASE s # r
    BY <1>1, <1>2, <1>4, <2>1
       DEF Begin, AuthorizeClient, ConsentClient, ExchangeClient, ReadRefreshToken
  <2>2. CASE AuthorizeClient(r)
    <3>1. PICK k \in Keys, b \in Bindings, p \in ScopeParameters :
            /\ ClientScopes(p, k.client) # {}
            /\ req' = [req EXCEPT ![r] = [Idle EXCEPT !.at = "authGrant",
                 !.key = k, !.binding = b, !.scopes = ClientScopes(p, k.client)]]
      BY <2>2 DEF AuthorizeClient
    <3>2. /\ req'[r].at = "authGrant" /\ req'[r].key = k
          /\ req'[r].scopes = ClientScopes(p, k.client)
      BY <1>1, <3>1 DEF Idle
    <3> QED BY <3>1, <3>2 DEF ScopesFrom
  <2>3. CASE ConsentClient(r)
    <3>1. PICK k \in Keys, p \in ScopeParameters :
            /\ ClientScopes(p, k.client) # {}
            /\ req' = [req EXCEPT ![r] = [Idle EXCEPT !.at = "upsert", !.key = k,
                                            !.scopes = ClientScopes(p, k.client)]]
      BY <2>3 DEF ConsentClient
    <3>2. /\ req'[r].at = "upsert" /\ req'[r].key = k
          /\ req'[r].scopes = ClientScopes(p, k.client)
      BY <1>1, <3>1 DEF Idle
    <3> QED BY <3>1, <3>2 DEF ScopesFrom
  <2>4. CASE ExchangeClient(r)
    <3>1. req'[r].at = "codeRead"
      BY <1>1, <2>4 DEF ExchangeClient, Idle
    <3> QED BY <3>1 DEF ScopesFrom, HoldsScopes
  <2>5. CASE ReadRefreshToken(r)
    <3>1. PICK t \in Tokens :
            \/ req' = [req EXCEPT ![r] = [Idle EXCEPT !.at = "revoke",
                         !.tok = t, !.gid = tokens[t].gid]]
            \/ req' = [req EXCEPT ![r] = [Idle EXCEPT !.at = "clientRead",
                         !.tok = t, !.key = tokens[t].key, !.now = clock]]
      BY <2>5 DEF ReadRefreshToken
    <3>2. req'[r].at \in {"revoke", "clientRead"}
      BY <1>1, <3>1 DEF Idle
    <3> QED BY <3>2 DEF ScopesFrom, HoldsScopes
  <2> QED BY <1>4, <2>1, <2>2, <2>3, <2>4, <2>5 DEF Begin
<1>5. ASSUME NEW s \in Requests,
             \/ AuthorizeGrant(s) \/ ReadCode(s) \/ MarkAuthorizationCodeUsed(s)
             \/ RefreshClient(s) \/ RotateRefreshToken(s) \/ RevokeSnapshot(s)
      PROVE  ScopesFrom(r)
  BY <1>1, <1>2, <1>3, <1>5
     DEF AuthorizeGrant, ReadCode, MarkAuthorizationCodeUsed, RefreshClient,
         RotateRefreshToken, RevokeSnapshot, ScopesFrom, HoldsScopes,
         WritesScopes, Request
<1>6. ASSUME NEW s \in Requests, ExchangeGrant(s) \/ RefreshGrant(s)
      PROVE  ScopesFrom(r)
  <2>1. CASE s # r
    BY <1>1, <1>2, <1>6, <2>1 DEF ExchangeGrant, RefreshGrant, Finish
  <2>2. CASE s = r /\ ~ActiveGrant(req[r].key)
    BY <1>3, <1>6, <2>2 DEF ExchangeGrant, RefreshGrant
  <2>3. CASE s = r /\ ActiveGrant(req[r].key)
    <3>1. req[r].key \in Keys
      BY <1>1, <1>6, <2>3
         DEF ExchangeGrant, RefreshGrant, StageOK, IInv, StagesInv, TypeOK,
             CodeRow, TokenRow
    <3>2. \/ Finish(r)
          \/ /\ req'[r].at \in {"saveToken", "rotate"}
             /\ req'[r].key = req[r].key
             /\ req'[r].scopes = grants[req[r].key].scopes
      BY <1>1, <1>6, <2>3 DEF ExchangeGrant, RefreshGrant, Request
    <3> QED BY <1>3, <2>3, <3>1, <3>2 DEF ScopesFrom
  <2> QED BY <2>1, <2>2, <2>3
<1>7. ASSUME NEW s \in Requests,
             \/ SaveAuthorizationCode(s) \/ UpsertGrant(s) \/ SaveRefreshToken(s)
             \/ CommitRotation(s) \/ RevokeSnapshotRows(s) \/ RevokeAlone(s)
             \/ Abort(s)
      PROVE  ScopesFrom(r)
  BY <1>3, <1>7
     DEF SaveAuthorizationCode, UpsertGrant, SaveRefreshToken, CommitRotation,
         RevokeSnapshotRows, RevokeAlone, RevokeRows, Abort
<1>8. CASE \/ Tick \/ (\E c \in Clients : SetBlocked(c) \/ ReplaceClient(c))
           \/ (\E k \in Keys : RevokeGrant(k)) \/ UNCHANGED vars
  BY <1>2, <1>8 DEF Tick, SetBlocked, ReplaceClient, RevokeGrant, vars
<1> QED BY <1>4, <1>5, <1>6, <1>7, <1>8 DEF Next, Continue

(* A grant row changes by a consent that was writing it, or is revoked.    *)
GrantFrom(k) ==
  \/ grants'[k] = grants[k]
  \/ /\ grants[k] # None /\ grants'[k] # None
     /\ grants'[k].scopes = grants[k].scopes /\ ~grants'[k].active
  \/ \E r \in Requests :
       /\ req[r].at = "upsert" /\ req[r].key = k
       /\ grants'[k] # None /\ grants'[k].scopes = req[r].scopes

LEMMA GrantSteps ==
  ASSUME IInv, [Next]_vars, NEW k \in Keys
  PROVE  GrantFrom(k)
<1>1. grants \in [Keys -> GrantRow \cup {None}]
  BY DEF IInv, StagesInv, TypeOK
<1>2. ASSUME UNCHANGED grants PROVE GrantFrom(k)
  BY <1>2 DEF GrantFrom
<1>3. ASSUME NEW r \in Requests, UpsertGrant(r) PROVE GrantFrom(k)
  <2>1. /\ req[r].at = "upsert" /\ req[r].key \in Keys
        /\ req[r].scopes \in SUBSET Scopes
    BY <1>3 DEF UpsertGrant, IInv, StagesInv, StageOK, TypeOK, Request
  <2>2. CASE req[r].key # k
    BY <1>1, <1>3, <2>1, <2>2 DEF UpsertGrant, GrantFrom
  <2>3. CASE req[r].key = k /\ grants[k] # None
    <3>1. grants[k] \in GrantRow
      BY <1>1, <2>3
    <3>2. grants'[k] = [[grants[k] EXCEPT !.scopes = req[r].scopes]
                          EXCEPT !.active = TRUE]
      BY <1>1, <1>3, <2>3 DEF UpsertGrant
    <3>3. grants'[k] \in GrantRow /\ grants'[k].scopes = req[r].scopes
      BY <2>1, <3>1, <3>2 DEF GrantRow
    <3> QED BY <2>1, <2>3, <3>3 DEF GrantFrom
  <2>4. CASE req[r].key = k /\ grants[k] = None
    <3>1. PICK id \in GrantIds :
            grants'[k] = [id |-> id, scopes |-> req[r].scopes, active |-> TRUE]
      BY <1>1, <1>3, <2>4 DEF UpsertGrant
    <3>2. grants'[k] \in GrantRow /\ grants'[k].scopes = req[r].scopes
      BY <2>1, <3>1 DEF GrantRow
    <3> QED BY <2>1, <2>4, <3>2 DEF GrantFrom
  <2> QED BY <2>2, <2>3, <2>4
<1>4. ASSUME NEW j \in Keys, RevokeGrant(j) PROVE GrantFrom(k)
  <2>1. CASE j # k
    BY <1>1, <1>4, <2>1 DEF RevokeGrant, GrantFrom
  <2>2. CASE j = k
    <3>1. grants[k] \in GrantRow
      BY <1>1, <1>4, <2>2 DEF RevokeGrant, ActiveGrant
    <3>2. grants'[k] = [grants[k] EXCEPT !.active = FALSE]
      BY <1>1, <1>4, <2>2 DEF RevokeGrant
    <3>3. /\ grants'[k] \in GrantRow /\ ~grants'[k].active
          /\ grants'[k].scopes = grants[k].scopes
      BY <3>1, <3>2 DEF GrantRow
    <3> QED BY <3>1, <3>3 DEF GrantFrom
  <2> QED BY <2>1, <2>2
<1>5. ASSUME NEW r \in Requests, Begin(r) \/ Abort(r) PROVE UNCHANGED grants
  BY <1>5 DEF Begin, AuthorizeClient, ConsentClient, ExchangeClient,
              ReadRefreshToken, Abort, rows
<1>6. ASSUME NEW r \in Requests, Continue(r), ~UpsertGrant(r)
      PROVE  UNCHANGED grants
  BY <1>6 DEF Continue, AuthorizeGrant, SaveAuthorizationCode, ReadCode,
              MarkAuthorizationCodeUsed, ExchangeGrant, SaveRefreshToken,
              RefreshClient, RefreshGrant, RotateRefreshToken, CommitRotation,
              RevokeSnapshot, RevokeSnapshotRows, RevokeAlone, RevokeRows, rows
<1>7. CASE Tick \/ (\E c \in Clients : SetBlocked(c) \/ ReplaceClient(c)) \/ UNCHANGED vars
  BY <1>2, <1>7 DEF Tick, SetBlocked, ReplaceClient, vars, rows
<1> QED BY <1>2, <1>3, <1>4, <1>5, <1>6, <1>7 DEF Next

(* A token keeps its scopes, and gets those of the request that inserts it. *)
LEMMA TokenScopeSteps ==
  ASSUME IInv, [Next]_vars, NEW t \in Tokens, tokens'[t] # None
  PROVE  \/ tokens[t] # None /\ tokens'[t].scopes = tokens[t].scopes
         \/ /\ tokens[t] = None
            /\ \E r \in Requests :
                 /\ req[r].at \in {"saveToken", "commit"}
                 /\ tokens'[t].key = req[r].key
                 /\ tokens'[t].scopes = req[r].scopes
<1>1. tokens \in [Tokens -> TokenRow \cup {None}]
  BY DEF IInv, StagesInv, TypeOK
<1>2. ASSUME NEW r \in Requests, NEW u \in Tokens, tokens[u] = None,
             req[r].at \in {"saveToken", "commit"},
             tokens'[u] = RefreshTokenRow(req[r].gid, req[r].key, req[r].scopes,
                                          req[r].now)
      PROVE  tokens'[u].key = req[r].key /\ tokens'[u].scopes = req[r].scopes
  BY <1>2 DEF RefreshTokenRow
<1>3. CASE UNCHANGED tokens
  BY <1>3
<1>4. ASSUME NEW r \in Requests, Inserts(r)
      PROVE  \/ tokens'[t] = tokens[t]
             \/ /\ tokens[t] = None /\ req[r].at = "saveToken"
                /\ tokens'[t].key = req[r].key
                /\ tokens'[t].scopes = req[r].scopes
  BY <1>1, <1>2, <1>4 DEF Inserts
<1>5. ASSUME NEW r \in Requests, CommitRotation(r)
      PROVE  \/ tokens[t] # None /\ tokens'[t].scopes = tokens[t].scopes
             \/ tokens'[t] = tokens[t]
             \/ /\ tokens[t] = None /\ req[r].at = "commit"
                /\ tokens'[t].key = req[r].key
                /\ tokens'[t].scopes = req[r].scopes
  <2> DEFINE o == req[r].tok
             n == req[r].next
  <2>1. /\ o \in Tokens /\ n \in Tokens /\ o # n /\ tokens[o] # None
        /\ tokens[n] = None
        /\ \A u \in Tokens \ {o, n} : tokens'[u] = tokens[u]
    BY <1>5, CommitRow
  <2>2. CASE t = o
    <3>1. tokens'[t] = Replaced(tokens[t], n) /\ tokens[t] \in TokenRow
      BY <1>1, <1>5, <2>1, <2>2 DEF CommitRotation
    <3>2. tokens'[t].scopes = tokens[t].scopes
      BY <3>1 DEF Replaced, TokenRow
    <3> QED BY <2>1, <2>2, <3>2
  <2>3. CASE t = n
    <3>1. tokens'[t] = RefreshTokenRow(req[r].gid, req[r].key, req[r].scopes,
                                       req[r].now)
      BY <1>1, <1>5, <2>1, <2>3 DEF CommitRotation
    <3>2. req[r].at = "commit"
      BY <1>5 DEF CommitRotation
    <3> QED BY <1>2, <2>1, <2>3, <3>1, <3>2
  <2> QED BY <2>1, <2>2, <2>3
<1>6. ASSUME NEW r \in Requests, NEW family \in SUBSET Tokens, Revokes(r, family)
      PROVE  tokens[t] # None /\ tokens'[t].scopes = tokens[t].scopes
  <2>1. CASE t \in family
    <3>1. tokens[t] \in TokenRow /\ tokens'[t] = [tokens[t] EXCEPT !.revoked = TRUE]
      BY <1>1, <1>6, <2>1 DEF Revokes, RevokeRows
    <3> QED BY <3>1 DEF TokenRow
  <2>2. CASE t \notin family
    BY <1>6, <2>2 DEF Revokes, RevokeRows
  <2> QED BY <2>1, <2>2
<1> QED BY <1>3, <1>4, <1>5, <1>6, TokenSteps

-----------------------------------------------------------------------------
(* The scopes of grants, of tokens and of what requests are about to write *)
(* stay within one list the client was registered with.                    *)
WithinOne(scopes, known) ==
  /\ scopes # {}
  /\ \E list \in known :
       NormalizeScopes(list) = {} \/ scopes \subseteq NormalizeScopes(list)

ScopesInv ==
  /\ \A c \in Clients : registered[c] \in lists[c]
  /\ \A k \in Keys : grants[k] # None =>
       WithinOne(grants[k].scopes, lists[k.client])
  /\ \A t \in Tokens : tokens[t] # None =>
       WithinOne(tokens[t].scopes, lists[tokens[t].key.client])
  /\ \A r \in Requests : HoldsScopes(req[r]) =>
       WithinOne(req[r].scopes, lists[req[r].key.client])

(* Only a registration replaces the list of a client, and the history      *)
(* keeps the old one.                                                      *)
LEMMA ListsStay ==
  ASSUME IInv, [Next]_vars, NEW c \in Clients
  PROVE  /\ lists[c] \subseteq lists'[c]
         /\ registered[c] \in lists[c] => registered'[c] \in lists'[c]
<1>1. ASSUME NEW d \in Clients, ReplaceClient(d)
      PROVE  /\ lists[c] \subseteq lists'[c]
             /\ registered[c] \in lists[c] => registered'[c] \in lists'[c]
  BY <1>1 DEF ReplaceClient, IInv, StagesInv, TypeOK
<1>2. ASSUME NEW r \in Requests, Begin(r) \/ Abort(r) PROVE UNCHANGED registry
  BY <1>2 DEF Begin, AuthorizeClient, ConsentClient, ExchangeClient,
              ReadRefreshToken, Abort
<1>3. ASSUME NEW r \in Requests, Continue(r) PROVE UNCHANGED registry
  BY <1>3 DEF Continue, AuthorizeGrant, SaveAuthorizationCode, UpsertGrant,
              ReadCode, MarkAuthorizationCodeUsed, ExchangeGrant,
              SaveRefreshToken, RefreshClient, RefreshGrant, RotateRefreshToken,
              CommitRotation, RevokeSnapshot, RevokeSnapshotRows, RevokeAlone,
              RevokeRows
<1>4. CASE \/ Tick \/ (\E d \in Clients : SetBlocked(d))
           \/ (\E k \in Keys : RevokeGrant(k)) \/ UNCHANGED vars
  BY <1>4 DEF Tick, SetBlocked, RevokeGrant, vars, registry
<1> QED BY <1>1, <1>2, <1>3, <1>4 DEF Next, registry

LEMMA HoldersKey ==
  ASSUME IInv, NEW r \in Requests, HoldsScopes(req[r])
  PROVE  req[r].key \in Keys
<1>1. StageOK(r) /\ codes \in [Codes -> CodeRow \cup {None}]
      /\ tokens \in [Tokens -> TokenRow \cup {None}]
  BY DEF IInv, StagesInv, TypeOK
<1>2. CASE req[r].at = "saveToken"
  BY <1>1, <1>2 DEF StageOK, CodeRow
<1>3. CASE req[r].at \in {"rotate", "commit"}
  BY <1>1, <1>3 DEF StageOK, TokenRow
<1>4. CASE req[r].at \in {"authGrant", "saveCode", "upsert"}
  BY <1>1, <1>4 DEF StageOK
<1> QED BY <1>2, <1>3, <1>4 DEF HoldsScopes

(* What a user grants and a token carries is never empty and stays within  *)
(* one list of scopes its client was registered with, although             *)
(* registrations replace the list at any time and a refresh does not look  *)
(* at it.                                                                  *)
THEOREM ScopesRegistered == Spec => []ScopesStayRegistered
<1>1. Init => ScopesInv
  BY ScopesAssumption DEF Init, ScopesInv, HoldsScopes, Idle
<1>2. IInv /\ ScopesInv /\ [Next]_vars => ScopesInv'
  <2> SUFFICES ASSUME IInv, ScopesInv, [Next]_vars PROVE ScopesInv'
    OBVIOUS
  <2>1. ASSUME NEW k \in Keys, NEW scopes, WithinOne(scopes, lists[k.client])
        PROVE  WithinOne(scopes, lists'[k.client])
    <3>1. k.client \in Clients
      BY DEF Keys
    <3> QED BY <2>1, <3>1, ListsStay DEF WithinOne
  <2>2. ASSUME NEW k \in Keys, grants'[k] # None
        PROVE  WithinOne(grants'[k].scopes, lists'[k.client])
    <3>1. WithinOne(grants'[k].scopes, lists[k.client])
      BY <2>2, GrantSteps DEF GrantFrom, ScopesInv, HoldsScopes
    <3> QED BY <2>1, <3>1
  <2>3. ASSUME NEW t \in Tokens, tokens'[t] # None
        PROVE  WithinOne(tokens'[t].scopes, lists'[tokens'[t].key.client])
    <3>1. CASE tokens[t] # None /\ tokens'[t].scopes = tokens[t].scopes
      <4>1. tokens[t].key \in Keys /\ tokens'[t].key = tokens[t].key
        BY <3>1, TokenRowsStay DEF IInv, StagesInv, TypeOK, TokenRow
      <4> QED BY <2>1, <3>1, <4>1 DEF ScopesInv
    <3>2. ASSUME NEW r \in Requests, req[r].at \in {"saveToken", "commit"},
                 tokens'[t].key = req[r].key, tokens'[t].scopes = req[r].scopes
          PROVE  WithinOne(tokens'[t].scopes, lists'[tokens'[t].key.client])
      <4>1. HoldsScopes(req[r])
        BY <3>2 DEF HoldsScopes
      <4> QED BY <2>1, <3>2, <4>1, HoldersKey DEF ScopesInv
    <3> QED BY <2>3, <3>1, <3>2, TokenScopeSteps
  <2>4. ASSUME NEW r \in Requests, HoldsScopes(req'[r])
        PROVE  WithinOne(req'[r].scopes, lists'[req'[r].key.client])
    <3>1. ASSUME NEW p, NEW c \in Clients, ClientScopes(p, c) # {}
          PROVE  WithinOne(ClientScopes(p, c), lists[c])
      BY <3>1, GrantScopesBounded DEF ClientScopes, WithinOne, ScopesInv
    <3>2. ASSUME NEW k \in Keys, ActiveGrant(k)
          PROVE  WithinOne(grants[k].scopes, lists[k.client])
      BY <3>2 DEF ActiveGrant, ScopesInv
    <3>3. /\ req'[r].key \in Keys
          /\ WithinOne(req'[r].scopes, lists[req'[r].key.client])
      <4>1. CASE HoldsScopes(req[r]) /\ req'[r].key = req[r].key
                   /\ req'[r].scopes = req[r].scopes
        BY <4>1, HoldersKey DEF ScopesInv
      <4>2. ASSUME req'[r].key \in Keys, req'[r].scopes # {},
                   NEW p \in ScopeParameters,
                   req'[r].scopes = ClientScopes(p, req'[r].key.client)
            PROVE  WithinOne(req'[r].scopes, lists[req'[r].key.client])
        BY <3>1, <4>2 DEF Keys
      <4> QED BY <2>4, <3>2, <4>1, <4>2, ScopeSteps DEF ScopesFrom
    <3> QED BY <2>1, <3>3
  <2>5. \A c \in Clients : registered'[c] \in lists'[c]
    BY ListsStay DEF ScopesInv
  <2> QED BY <2>2, <2>3, <2>4, <2>5 DEF ScopesInv
<1>3. ScopesInv => ScopesStayRegistered
  BY DEF ScopesInv, ScopesStayRegistered, WithinOne
<1> QED BY <1>1, <1>2, <1>3, Invariance, PTL DEF Spec

(* A scope that was withdrawn reaches no new token until the user consents *)
(* to it again.                                                            *)
THEOREM ScopesWithdrawn == Spec => WithdrawnScopeStaysOut
<1> DEFINE Gone(k, s) == Withdrawn(k, s) /\ \A r \in Requests : ~Carries(r, k, s)
           StaysOut ==
             \A k \in Keys, s \in Scopes : Gone(k, s) =>
               /\ Withdrawn(k, s)'
               /\ \A r \in Requests : Carries(r, k, s)' => req'[r].at = "upsert"
               /\ \A t \in Tokens :
                    tokens[t] = None /\ tokens'[t] # None /\ tokens'[t].key = k
                      => s \notin tokens'[t].scopes
<1>1. ASSUME IInv, [Next]_vars PROVE StaysOut
  <2> SUFFICES ASSUME NEW k \in Keys, NEW s \in Scopes, Withdrawn(k, s),
                      \A r \in Requests : ~Carries(r, k, s)
               PROVE  /\ Withdrawn(k, s)'
                      /\ \A r \in Requests :
                           Carries(r, k, s)' => req'[r].at = "upsert"
                      /\ \A t \in Tokens :
                           tokens[t] = None /\ tokens'[t] # None
                             /\ tokens'[t].key = k => s \notin tokens'[t].scopes
    OBVIOUS
  <2>1. Withdrawn(k, s)'
    BY <1>1, GrantSteps DEF GrantFrom, Withdrawn, Carries
  <2>2. ASSUME NEW r \in Requests, Carries(r, k, s)' PROVE req'[r].at = "upsert"
    BY <1>1, <2>2, ScopeSteps
       DEF ScopesFrom, HoldsScopes, WritesScopes, Carries, Withdrawn, ActiveGrant
  <2>3. ASSUME NEW t \in Tokens, tokens[t] = None, tokens'[t] # None,
               tokens'[t].key = k
        PROVE  s \notin tokens'[t].scopes
    BY <1>1, <2>3, TokenScopeSteps DEF Carries
  <2> QED BY <2>1, <2>2, <2>3
<1>2. IInv /\ [Next]_vars => [StaysOut]_vars
  BY <1>1
<1> QED BY <1>2, Invariance, PTL DEF Spec, WithdrawnScopeStaysOut

-----------------------------------------------------------------------------
(* A blocked client.                                                       *)

(* No request comes to concern a client that stays blocked: a flow starts  *)
(* by reading that its client is allowed, and an exchange that has read    *)
(* that of one client does not take up another's code.                     *)
LEMMA ConcernSteps ==
  ASSUME IInv, [Next]_vars, NEW c \in blocked, NEW r \in Requests, ~Concerns(r, c)
  PROVE  ~Concerns(r, c)'
<1>1. req \in [Requests -> Request] /\ req[r] \in Request /\ StageOK(r)
  BY DEF IInv, StagesInv, TypeOK
<1>2. ASSUME req'[r] = req[r] \/ req'[r] = Idle PROVE ~Concerns(r, c)'
  BY <1>2 DEF Concerns, Idle
<1>3. ASSUME NEW s \in Requests, Finish(s) PROVE ~Concerns(r, c)'
  BY <1>1, <1>2, <1>3 DEF Finish
<1>4. ASSUME NEW s \in Requests, Begin(s) PROVE ~Concerns(r, c)'
  <2>1. CASE s # r
    BY <1>1, <1>2, <1>4, <2>1
       DEF Begin, AuthorizeClient, ConsentClient, ExchangeClient, ReadRefreshToken
  <2>2. CASE AuthorizeClient(r)
    <3>1. PICK k \in Keys :
            k.client \notin blocked /\ req'[r].at = "authGrant" /\ req'[r].key = k
      BY <1>1, <2>2 DEF AuthorizeClient, Idle
    <3> QED BY <3>1 DEF Concerns
  <2>3. CASE ConsentClient(r)
    <3>1. PICK k \in Keys :
            k.client \notin blocked /\ req'[r].at = "upsert" /\ req'[r].key = k
      BY <1>1, <2>3 DEF ConsentClient, Idle
    <3> QED BY <3>1 DEF Concerns
  <2>4. CASE ExchangeClient(r)
    <3>1. req'[r].client \notin blocked /\ req'[r].key = None
      BY <1>1, <2>4 DEF ExchangeClient, Idle
    <3> QED BY <3>1 DEF Concerns
  <2>5. CASE ReadRefreshToken(r)
    <3>1. PICK t \in Tokens :
            \/ req' = [req EXCEPT ![r] = [Idle EXCEPT !.at = "revoke",
                         !.tok = t, !.gid = tokens[t].gid]]
            \/ req' = [req EXCEPT ![r] = [Idle EXCEPT !.at = "clientRead",
                         !.tok = t, !.key = tokens[t].key, !.now = clock]]
      BY <2>5 DEF ReadRefreshToken
    <3>2. req'[r].at \in {"revoke", "clientRead"}
      BY <1>1, <3>1 DEF Idle
    <3> QED BY <3>2 DEF Concerns
  <2> QED BY <1>4, <2>1, <2>2, <2>3, <2>4, <2>5 DEF Begin
<1>5. ASSUME NEW s \in Requests, ReadCode(s) \/ RefreshClient(s)
      PROVE  ~Concerns(r, c)'
  <2>1. CASE s # r
    BY <1>1, <1>2, <1>5, <2>1 DEF ReadCode, RefreshClient, Finish
  <2>2. CASE s = r /\ ReadCode(s)
    <3>1. \/ Finish(r)
          \/ /\ req[r].at = "codeRead" /\ req'[r].at = "markCode"
             /\ req'[r].key.client = req[r].client
      BY <1>1, <2>2 DEF ReadCode, SameRequest, Request
    <3> QED BY <1>3, <3>1 DEF Concerns
  <2>3. CASE s = r /\ RefreshClient(s)
    <3>1. \/ Finish(r)
          \/ /\ req[r].key.client \notin blocked
             /\ req'[r].at = "refreshGrant" /\ req'[r].key = req[r].key
      BY <1>1, <2>3 DEF RefreshClient, Request
    <3> QED BY <1>3, <3>1 DEF Concerns
  <2> QED BY <1>5, <2>1, <2>2, <2>3
<1>6. ASSUME NEW s \in Requests,
             \/ AuthorizeGrant(s) \/ MarkAuthorizationCodeUsed(s) \/ ExchangeGrant(s)
             \/ RefreshGrant(s) \/ RotateRefreshToken(s) \/ RevokeSnapshot(s)
      PROVE  ~Concerns(r, c)'
  <2>1. CASE s # r
    BY <1>1, <1>2, <1>6, <2>1
       DEF AuthorizeGrant, MarkAuthorizationCodeUsed, ExchangeGrant, RefreshGrant,
           RotateRefreshToken, RevokeSnapshot, Finish
  <2>2. CASE s = r
    <3>1. \/ Finish(r)
          \/ /\ req[r].at \notin {"codeRead", "clientRead", "revoke", "revoking"}
             /\ req'[r].at # "codeRead" /\ req'[r].key = req[r].key
          \/ req'[r].at = "revoking"
      BY <1>1, <1>6, <2>2
         DEF AuthorizeGrant, MarkAuthorizationCodeUsed, ExchangeGrant, RefreshGrant,
             RotateRefreshToken, RevokeSnapshot, Request
    <3> QED BY <1>3, <3>1 DEF Concerns
  <2> QED BY <2>1, <2>2
<1>7. ASSUME NEW s \in Requests,
             \/ SaveAuthorizationCode(s) \/ UpsertGrant(s) \/ SaveRefreshToken(s)
             \/ CommitRotation(s) \/ RevokeSnapshotRows(s) \/ RevokeAlone(s)
             \/ Abort(s)
      PROVE  ~Concerns(r, c)'
  BY <1>3, <1>7
     DEF SaveAuthorizationCode, UpsertGrant, SaveRefreshToken, CommitRotation,
         RevokeSnapshotRows, RevokeAlone, RevokeRows, Abort
<1>8. CASE \/ Tick \/ (\E d \in Clients : SetBlocked(d) \/ ReplaceClient(d))
           \/ (\E k \in Keys : RevokeGrant(k)) \/ UNCHANGED vars
  BY <1>2, <1>8 DEF Tick, SetBlocked, ReplaceClient, RevokeGrant, vars
<1> QED BY <1>4, <1>5, <1>6, <1>7, <1>8 DEF Next, Continue

(* A code row is written by a request that concerns its client.            *)
LEMMA CodeSteps ==
  ASSUME IInv, [Next]_vars, NEW x \in Codes, codes'[x] # codes[x], codes'[x] # None
  PROVE  \E r \in Requests : Concerns(r, codes'[x].key.client)
<1>1. codes \in [Codes -> CodeRow \cup {None}] /\ \A r \in Requests : StageOK(r)
  BY DEF IInv, StagesInv, TypeOK
<1>2. ASSUME NEW r \in Requests, SaveAuthorizationCode(r)
      PROVE  Concerns(r, codes'[x].key.client)
  <2>1. req[r].at = "saveCode" /\ req[r].key \in Keys /\ req[r].key # None
    BY <1>1, <1>2, NoneAssumption DEF SaveAuthorizationCode, StageOK
  <2>2. codes'[x].key = req[r].key
    BY <1>1, <1>2 DEF SaveAuthorizationCode
  <2> QED BY <2>1, <2>2 DEF Concerns
<1>3. ASSUME NEW r \in Requests, MarkAuthorizationCodeUsed(r)
      PROVE  Concerns(r, codes'[x].key.client)
  <2>1. /\ req[r].at = "markCode" /\ req[r].code \in Codes
        /\ codes[req[r].code] # None /\ req[r].key = codes[req[r].code].key
    BY <1>1, <1>3 DEF MarkAuthorizationCodeUsed, StageOK
  <2>2. codes' = [codes EXCEPT ![req[r].code].used = TRUE]
    BY <1>3 DEF MarkAuthorizationCodeUsed, Finish
  <2>3. /\ req[r].code = x /\ codes[x] \in CodeRow
        /\ codes'[x] = [codes[x] EXCEPT !.used = TRUE]
    BY <1>1, <2>1, <2>2
  <2>4. codes'[x].key = req[r].key /\ req[r].key \in Keys /\ req[r].key # None
    BY <2>1, <2>3, NoneAssumption DEF CodeRow
  <2> QED BY <2>1, <2>4 DEF Concerns
<1>4. ASSUME NEW r \in Requests, Begin(r) \/ Abort(r) PROVE UNCHANGED codes
  BY <1>4 DEF Begin, AuthorizeClient, ConsentClient, ExchangeClient,
              ReadRefreshToken, Abort, rows
<1>5. ASSUME NEW r \in Requests, Continue(r), ~SaveAuthorizationCode(r),
             ~MarkAuthorizationCodeUsed(r)
      PROVE  UNCHANGED codes
  BY <1>5 DEF Continue, AuthorizeGrant, UpsertGrant, ReadCode, ExchangeGrant,
              SaveRefreshToken, RefreshClient, RefreshGrant, RotateRefreshToken,
              CommitRotation, RevokeSnapshot, RevokeSnapshotRows, RevokeAlone,
              RevokeRows, rows
<1>6. CASE \/ Tick \/ (\E c \in Clients : SetBlocked(c) \/ ReplaceClient(c))
           \/ (\E k \in Keys : RevokeGrant(k)) \/ UNCHANGED vars
  BY <1>6 DEF Tick, SetBlocked, ReplaceClient, RevokeGrant, vars, rows
<1> QED BY <1>2, <1>3, <1>4, <1>5, <1>6 DEF Next

(* No flow starts for a client, and none of its grants, codes and tokens   *)
(* is inserted, while it stays blocked and the requests that had read it   *)
(* as allowed are over.                                                    *)
THEOREM BlockedIsQuiet == Spec => BlockedStaysQuiet
<1> DEFINE Nothing ==
             \A c \in blocked \cap blocked' : Quiet(c) =>
               /\ Quiet(c)'
               /\ \A k \in Keys :
                    k.client = c /\ grants[k] = None => grants'[k] = None
               /\ \A x \in Codes :
                    codes'[x] # None /\ codes'[x].key.client = c
                      => codes'[x] = codes[x]
               /\ \A t \in Tokens :
                    tokens[t] = None /\ tokens'[t] # None
                      => tokens'[t].key.client # c
<1>1. ASSUME IInv, [Next]_vars PROVE Nothing
  <2> SUFFICES ASSUME NEW c \in blocked, Quiet(c)
               PROVE  /\ Quiet(c)'
                      /\ \A k \in Keys :
                           k.client = c /\ grants[k] = None => grants'[k] = None
                      /\ \A x \in Codes :
                           codes'[x] # None /\ codes'[x].key.client = c
                             => codes'[x] = codes[x]
                      /\ \A t \in Tokens :
                           tokens[t] = None /\ tokens'[t] # None
                             => tokens'[t].key.client # c
    OBVIOUS
  <2>1. Quiet(c)'
    BY <1>1, ConcernSteps DEF Quiet
  <2>2. ASSUME NEW k \in Keys, k.client = c, grants[k] = None, grants'[k] # None
        PROVE  FALSE
    <3>1. PICK r \in Requests : req[r].at = "upsert" /\ req[r].key = k
      BY <1>1, <2>2, GrantSteps DEF GrantFrom
    <3> QED BY <2>2, <3>1, NoneAssumption DEF Quiet, Concerns
  <2>3. ASSUME NEW x \in Codes, codes'[x] # None, codes'[x].key.client = c
        PROVE  codes'[x] = codes[x]
    BY <1>1, <2>3, CodeSteps DEF Quiet
  <2>4. ASSUME NEW t \in Tokens, tokens[t] = None, tokens'[t] # None
        PROVE  tokens'[t].key.client # c
    <3>1. PICK r \in Requests :
            req[r].at \in {"saveToken", "commit"} /\ tokens'[t].key = req[r].key
      BY <1>1, <2>4, TokenScopeSteps
    <3>2. req[r].key \in Keys /\ req[r].key # None
      BY <1>1, <3>1, NoneAssumption
         DEF IInv, StagesInv, TypeOK, StageOK, CodeRow, TokenRow
    <3> QED BY <3>1, <3>2 DEF Quiet, Concerns
  <2> QED BY <2>1, <2>2, <2>3, <2>4
<1>2. IInv /\ [Next]_vars => [Nothing]_vars
  BY <1>1
<1> QED BY <1>2, Invariance, PTL DEF Spec, BlockedStaysQuiet

-----------------------------------------------------------------------------
(* The token endpoint implements the credential ledger, step by step.      *)

USE NoneAssumption

(* The life of one code and of one token, row by row.                      *)
LEMMA Lives ==
  /\ \A x \in Codes :
       CodeLife[x] = IF codes[x] = None THEN "free"
                     ELSE IF codes[x].used THEN "spent" ELSE "issued"
  /\ \A t \in Tokens :
       TokenLife[t] = IF tokens[t] = None THEN "free"
                      ELSE IF tokens[t].revoked THEN "revoked"
                      ELSE IF tokens[t].used THEN "rotated" ELSE "live"
  /\ \A x \in Codes :
       CodeLife'[x] = IF codes'[x] = None THEN "free"
                      ELSE IF codes'[x].used THEN "spent" ELSE "issued"
  /\ \A t \in Tokens :
       TokenLife'[t] = IF tokens'[t] = None THEN "free"
                       ELSE IF tokens'[t].revoked THEN "revoked"
                       ELSE IF tokens'[t].used THEN "rotated" ELSE "live"
  BY DEF CodeLife, TokenLife

LEMMA LivesAreFunctions ==
  /\ CodeLife = [x \in Codes |-> CodeLife[x]]
  /\ TokenLife = [t \in Tokens |-> TokenLife[t]]
  /\ CodeLife' = [x \in Codes |-> CodeLife'[x]]
  /\ TokenLife' = [t \in Tokens |-> TokenLife'[t]]
  BY DEF CodeLife, TokenLife

LEMMA SameRows ==
  /\ UNCHANGED codes => UNCHANGED CodeLife
  /\ UNCHANGED tokens => UNCHANGED TokenLife
  BY DEF CodeLife, TokenLife

LEMMA InitLedger == ASSUME Init PROVE Ledger!LedgerInit
  BY DEF Init, Ledger!LedgerInit, CodeLife, TokenLife

LEMMA IssueStep ==
  ASSUME IInv, NEW r \in Requests, SaveAuthorizationCode(r)
  PROVE  \E x \in Codes : Ledger!Issue(x)
<1>1. PICK x \in Codes :
        /\ codes[x] = None
        /\ codes' = [codes EXCEPT ![x] =
                       [key |-> req[r].key, binding |-> req[r].binding,
                        exp |-> req[r].now + CodeTTL, used |-> FALSE]]
  BY DEF SaveAuthorizationCode
<1> DEFINE row == [key |-> req[r].key, binding |-> req[r].binding,
                   exp |-> req[r].now + CodeTTL, used |-> FALSE]
<1>2. row \in CodeRow /\ ~row.used
  <2>1. /\ req[r].key \in Keys /\ req[r].binding \in Bindings
        /\ req[r].now + CodeTTL \in Nat
    BY TTLAssumption DEF SaveAuthorizationCode, IInv, StagesInv, StageOK, TypeOK, Request
  <2> QED BY <2>1 DEF CodeRow
<1>3. codes'[x] = row /\ \A y \in Codes \ {x} : codes'[y] = codes[y]
  BY <1>1 DEF IInv, StagesInv, TypeOK
<1> HIDE DEF row
<1>4. /\ CodeLife[x] = "free" /\ CodeLife'[x] = "issued"
      /\ \A y \in Codes \ {x} : CodeLife'[y] = CodeLife[y]
  <2>1. CodeLife[x] = "free"
    BY <1>1, Lives
  <2>2. CodeLife'[x] = "issued"
    <3>1. codes'[x] # None /\ ~codes'[x].used
      BY <1>2, <1>3
    <3> QED BY <3>1, Lives
  <2>3. ASSUME NEW y \in Codes \ {x} PROVE CodeLife'[y] = CodeLife[y]
    BY <1>3, Lives
  <2> QED BY <2>1, <2>2, <2>3
<1>5. CodeLife' = [CodeLife EXCEPT ![x] = "issued"]
  BY <1>4, LivesAreFunctions
<1>6. UNCHANGED <<TokenLife, origin>>
  BY SameRows DEF SaveAuthorizationCode, history
<1> QED BY <1>4, <1>5, <1>6 DEF Ledger!Issue

(* Marking spends a code that was not spent, or rejects and changes nothing. *)
LEMMA SpendStep ==
  ASSUME IInv, NEW r \in Requests, MarkAuthorizationCodeUsed(r)
  PROVE  (\E x \in Codes : Ledger!Spend(x)) \/ UNCHANGED Ledger!ledger
<1> DEFINE x == req[r].code
<1>1. x \in Codes /\ codes[x] \in CodeRow
  BY DEF MarkAuthorizationCodeUsed, IInv, StagesInv, StageOK, TypeOK
<1>2. UNCHANGED <<TokenLife, origin>>
  BY SameRows DEF MarkAuthorizationCodeUsed, history
<1>3. CASE ~codes[x].used /\ codes' = [codes EXCEPT ![x].used = TRUE]
  <2>1. /\ codes'[x] # None /\ codes'[x].used
        /\ \A y \in Codes \ {x} : codes'[y] = codes[y]
    BY <1>1, <1>3 DEF CodeRow, IInv, StagesInv, TypeOK
  <2>2. CodeLife[x] = "issued" /\ CodeLife'[x] = "spent"
    BY <1>1, <1>3, <2>1, Lives
  <2>3. \A y \in Codes \ {x} : CodeLife'[y] = CodeLife[y]
    BY <2>1, Lives
  <2>4. CodeLife' = [CodeLife EXCEPT ![x] = "spent"]
    BY <2>2, <2>3, LivesAreFunctions
  <2> QED BY <1>1, <1>2, <2>2, <2>4 DEF Ledger!Spend
<1>4. CASE UNCHANGED codes
  BY <1>2, <1>4, SameRows DEF Ledger!ledger
<1> QED BY <1>3, <1>4 DEF MarkAuthorizationCodeUsed, MarkCondition

(* The first token of a code opens its lineage: the code is spent and has  *)
(* none, because only the request that marked it gets this far.            *)
LEMMA OpenStep ==
  ASSUME IInv, NEW r \in Requests, SaveRefreshToken(r)
  PROVE  \E x \in Codes, t \in Tokens : Ledger!Open(x, t)
<1> DEFINE x == req[r].code
           new == RefreshTokenRow(req[r].gid, req[r].key, req[r].scopes, req[r].now)
<1>1. PICK t \in Tokens :
        /\ tokens[t] = None
        /\ tokens' = [tokens EXCEPT ![t] = new]
        /\ origin' = [origin EXCEPT ![t] = x]
  BY DEF SaveRefreshToken, Unborn
<1>2. /\ x \in Codes /\ codes[x] # None /\ codes[x].used
      /\ \A u \in Tokens : origin[u] # x
  BY DEF SaveRefreshToken, IInv, StagesInv, CredentialsInv, StageOK, RedeemOK,
         Redeeming
<1>3. new \in TokenRow
  BY GrantKnown DEF SaveRefreshToken, IInv
<1>4. ~new.used /\ ~new.revoked
  BY DEF RefreshTokenRow
<1> HIDE DEF new
<1>5. tokens'[t] = new /\ \A u \in Tokens \ {t} : tokens'[u] = tokens[u]
  BY <1>1 DEF IInv, StagesInv, TypeOK
<1>6. TokenLife[t] = "free"
  BY <1>1, Lives
<1>7. TokenLife'[t] = "live"
  BY <1>3, <1>4, <1>5, Lives
<1>8. \A u \in Tokens \ {t} : TokenLife'[u] = TokenLife[u]
  BY <1>5, Lives
<1>9. TokenLife' = [TokenLife EXCEPT ![t] = "live"]
  BY <1>7, <1>8, LivesAreFunctions
<1>10. CodeLife[x] = "spent"
  BY <1>2, Lives
<1>11. UNCHANGED CodeLife
  BY SameRows DEF SaveRefreshToken
<1> QED BY <1>1, <1>2, <1>6, <1>9, <1>10, <1>11 DEF Ledger!Open

(* A commit rotates the token its request still holds locked.              *)
LEMMA RotateStep ==
  ASSUME IInv, NEW r \in Requests, CommitRotation(r)
  PROVE  \E t, n \in Tokens : Ledger!Rotate(t, n)
<1> DEFINE t == req[r].tok
           n == req[r].next
<1>1. /\ t \in Tokens /\ n \in Tokens /\ t # n
      /\ tokens[t] # None /\ ~tokens[t].used /\ ~tokens[t].revoked
      /\ tokens[n] = None
      /\ tokens'[t] # None /\ tokens'[t].used /\ ~tokens'[t].revoked
      /\ tokens'[n] # None /\ ~tokens'[n].used /\ ~tokens'[n].revoked
      /\ \A u \in Tokens \ {t, n} : tokens'[u] = tokens[u]
      /\ UNCHANGED codes
  BY CommitRow
<1>2. TokenLife[t] = "live" /\ TokenLife[n] = "free"
  BY <1>1, Lives
<1>3. TokenLife'[t] = "rotated" /\ TokenLife'[n] = "live"
  BY <1>1, Lives
<1>4. \A u \in Tokens \ {t, n} : TokenLife'[u] = TokenLife[u]
  BY <1>1, Lives
<1>5. TokenLife' = [TokenLife EXCEPT ![t] = "rotated", ![n] = "live"]
  BY <1>1, <1>3, <1>4, LivesAreFunctions
<1>6. UNCHANGED CodeLife
  BY <1>1, SameRows
<1>7. origin' = [origin EXCEPT ![n] = origin[t]]
  BY DEF CommitRotation
<1> QED BY <1>1, <1>2, <1>5, <1>6, <1>7 DEF Ledger!Rotate

(* A revocation takes exactly the tokens its snapshot showed.              *)
LEMMA RevokeStep ==
  ASSUME IInv, NEW r \in Requests, NEW family \in SUBSET Tokens,
         Revokes(r, family)
  PROVE  \E S \in SUBSET Tokens : Ledger!Revoke(S)
<1>1. ASSUME NEW t \in Tokens
      PROVE  /\ tokens[t] = None => tokens'[t] = None
             /\ t \in family =>
                  tokens[t] # None /\ tokens'[t] # None /\ tokens'[t].revoked
             /\ t \notin family /\ tokens[t] # None => tokens'[t] = tokens[t]
  BY RevokedRow DEF Revokes
<1>2. \A t \in family : TokenLife[t] # "free" /\ TokenLife'[t] = "revoked"
  BY <1>1, Lives
<1>3. \A t \in Tokens \ family : TokenLife'[t] = TokenLife[t]
  BY <1>1, Lives
<1>4. TokenLife' =
        [t \in Tokens |-> IF t \in family THEN "revoked" ELSE TokenLife[t]]
  BY <1>2, <1>3, LivesAreFunctions
<1>5. UNCHANGED <<CodeLife, origin>>
  BY SameRows DEF Revokes, RevokeRows, history
<1> QED BY <1>2, <1>4, <1>5 DEF Ledger!Revoke

LEMMA LedgerStep ==
  ASSUME IInv, [Next]_vars
  PROVE  [Ledger!LedgerNext]_(Ledger!ledger)
<1>1. ASSUME UNCHANGED <<codes, tokens, origin>> PROVE UNCHANGED Ledger!ledger
  BY <1>1, SameRows DEF Ledger!ledger
<1>2. ASSUME NEW r \in Requests, Begin(r) \/ Abort(r)
      PROVE  UNCHANGED <<codes, tokens, origin>>
  BY <1>2 DEF Begin, AuthorizeClient, ConsentClient, ExchangeClient,
              ReadRefreshToken, Abort, rows, history
<1>3. ASSUME NEW r \in Requests,
             \/ AuthorizeGrant(r) \/ UpsertGrant(r) \/ ReadCode(r)
             \/ ExchangeGrant(r) \/ RefreshClient(r) \/ RefreshGrant(r)
             \/ RotateRefreshToken(r) \/ RevokeSnapshot(r)
      PROVE  UNCHANGED <<codes, tokens, origin>>
  BY <1>3 DEF AuthorizeGrant, UpsertGrant, ReadCode, ExchangeGrant, RefreshClient,
              RefreshGrant, RotateRefreshToken, RevokeSnapshot, rows, history
<1>4. ASSUME NEW r \in Requests, RevokeSnapshotRows(r) \/ RevokeAlone(r)
      PROVE  \E S \in SUBSET Tokens : Ledger!Revoke(S)
  <2>1. CASE RevokeSnapshotRows(r)
    BY <2>1, RevokeStep
       DEF RevokeSnapshotRows, Revokes, IInv, StagesInv, StageOK, TypeOK, Request
  <2>2. CASE RevokeAlone(r)
    BY <2>2, RevokeStep, DriverAssumption
       DEF RevokeAlone, CanWrite, RowLocked, Family, Revokes
  <2> QED BY <1>4, <2>1, <2>2
<1>5. ASSUME NEW r \in Requests, Continue(r)
      PROVE  [Ledger!LedgerNext]_(Ledger!ledger)
  BY <1>1, <1>3, <1>4, <1>5, IssueStep, SpendStep, OpenStep, RotateStep
     DEF Continue, Ledger!LedgerNext
<1>6. CASE \/ Tick \/ (\E c \in Clients : SetBlocked(c) \/ ReplaceClient(c))
           \/ (\E k \in Keys : RevokeGrant(k)) \/ UNCHANGED vars
  BY <1>1, <1>6 DEF Tick, SetBlocked, ReplaceClient, RevokeGrant, vars, rows, history
<1> QED BY <1>1, <1>2, <1>5, <1>6 DEF Next

(* Every behaviour of the token endpoint is a behaviour of the ledger.     *)
THEOREM Refinement == Spec => ImplementsLedger
<1>1. Init => Ledger!LedgerInit
  BY InitLedger
<1>2. IInv /\ [Next]_vars => [Ledger!LedgerNext]_(Ledger!ledger)
  BY LedgerStep
<1> QED BY <1>1, <1>2, Invariance, PTL
           DEF Spec, ImplementsLedger, Ledger!LedgerSpec
-----------------------------------------------------------------------------
(* What the ledger alone guarantees.                                       *)

LedgerInv ==
  /\ Ledger!LedgerTypeOK
  /\ \A t \in Tokens : TokenLife[t] = "free" <=> origin[t] = None
  /\ Ledger!OneLivePerLineage

LEMMA LedgerInvStep ==
  ASSUME LedgerInv, [Ledger!LedgerNext]_(Ledger!ledger) PROVE LedgerInv'
<1> USE DEF LedgerInv, Ledger!LedgerTypeOK, Ledger!OneLivePerLineage
<1>1. ASSUME NEW x \in Codes, Ledger!Issue(x) \/ Ledger!Spend(x) PROVE LedgerInv'
  BY <1>1 DEF Ledger!Issue, Ledger!Spend
<1>2. ASSUME NEW x \in Codes, NEW t \in Tokens, Ledger!Open(x, t) PROVE LedgerInv'
  BY <1>2 DEF Ledger!Open
<1>3. ASSUME NEW t \in Tokens, NEW n \in Tokens, Ledger!Rotate(t, n)
      PROVE  LedgerInv'
  BY <1>3 DEF Ledger!Rotate
<1>4. ASSUME NEW S \in SUBSET Tokens, Ledger!Revoke(S) PROVE LedgerInv'
  BY <1>4 DEF Ledger!Revoke
<1>5. CASE UNCHANGED Ledger!ledger
  BY <1>5 DEF Ledger!ledger
<1> QED BY <1>1, <1>2, <1>3, <1>4, <1>5 DEF Ledger!LedgerNext

(* A lineage of refresh tokens has at most one that can be refreshed, and  *)
(* only a spent code has a lineage.                                        *)
THEOREM LedgerLineages == Spec => []Ledger!OneLivePerLineage
<1>1. Ledger!LedgerInit => LedgerInv
  BY DEF Ledger!LedgerInit, LedgerInv, Ledger!LedgerTypeOK, Ledger!OneLivePerLineage
<1>2. LedgerInv /\ [Ledger!LedgerNext]_(Ledger!ledger) => LedgerInv'
  BY LedgerInvStep
<1>3. LedgerInv => Ledger!OneLivePerLineage
  BY DEF LedgerInv
<1> QED BY <1>1, <1>2, <1>3, Refinement, PTL
           DEF ImplementsLedger, Ledger!LedgerSpec
=============================================================================
