-------------------------- MODULE InvitationProofs --------------------------
(* What roles and the invitations to them guarantee for every value of the *)
(* constants.                                                              *)
EXTENDS Invitations, ScopeProofs

USE NoneAssumption

-----------------------------------------------------------------------------
(* Roles.  A transaction of a role has taken, or has still to take, every  *)
(* scope the role has, except those committed to it in the meantime.       *)

Transaction(q) == q.at \in {"counted", "deleting", "insert"}

RoleRequestOK(q) ==
  /\ q.at \in {"counted", "deleting", "insert", "seedBinding", "seedScopes"}
       => q.role \in RoleNames
  /\ q.at = "seedBinding" => SeedClient \in Subjects
  /\ q.at \in {"counted", "deleting"} => q.gone = {}
  /\ q.at = "insert" => q.old = {}
  /\ q.at \in {"deleting", "insert"} =>
       roleScopes[q.role] \ (q.old \cup q.gone) \subseteq q.over
  /\ q.drop => Transaction(q)

RolesInv ==
  /\ RolesTypeOK
  /\ RoleIsRecentUpserts
  /\ \A r \in Requests : RoleRequestOK(req[r])

(* The steps of a role's requests: one goes on and leaves the scopes of    *)
(* the roles alone, or it writes them; a transaction begins only when the  *)
(* driver lets it write.                                                   *)
Moves(r, next) ==
  /\ req' = [req EXCEPT ![r] = next]
  /\ UNCHANGED <<roleScopes, asked>>
  /\ RoleRequestOK(next)
  /\ \/ bindings' = bindings
     \/ CanWrite /\ bindings' \subseteq Subjects \X RoleNames
  /\ Transaction(next) =>
       \/ /\ Transaction(req[r]) /\ next.over = req[r].over
          /\ next.drop = req[r].drop /\ next.role = req[r].role
          /\ bindings' = bindings
       \/ /\ CanWrite /\ next.over = {} /\ bindings' = bindings
          /\ next.drop => ~Bound(next.role)

Commits(r) ==
  LET n == req[r].role
      given == req[r].scopes IN
  /\ req[r].at = "insert"
  /\ roleScopes' =
       [roleScopes EXCEPT ![n] = (roleScopes[n] \ req[r].gone) \cup given]
  /\ asked' = [asked EXCEPT ![n] = given \cup req[r].over]
  /\ req' = Overlapped(r, Idle, req[r].gone, given)
  /\ bindings' = bindings

Binds ==
  /\ CanWrite
  /\ bindings' \subseteq Subjects \X RoleNames
  /\ UNCHANGED <<roleScopes, req, asked>>

LEMMA IdleIsRoleRequest == Idle \in RoleRequest /\ RoleRequestOK(Idle)
  BY DEF Idle, RoleRequest, Stages, RoleRequestOK, Transaction

LEMMA RoleReturns ==
  ASSUME NEW r \in Requests, Finish(r), UNCHANGED <<roleScopes, bindings, asked>>
  PROVE  \E next \in RoleRequest : Moves(r, next)
<1>1. Moves(r, Idle)
  <2>1. ~Transaction(Idle)
    BY DEF Idle, Transaction
  <2> QED BY <2>1, IdleIsRoleRequest DEF Finish, Moves
<1> QED BY <1>1, IdleIsRoleRequest

LEMMA RoleSteps ==
  ASSUME RolesInv, [RolesNext]_roleVars
  PROVE  \/ \E r \in Requests, next \in RoleRequest : Moves(r, next)
         \/ \E r \in Requests : Commits(r)
         \/ \E r \in Requests : SeedScope(r)
         \/ Binds
         \/ UNCHANGED roleVars
<1> USE RolesAssumption
<1> DEFINE Moving(r) == \E next \in RoleRequest : Moves(r, next)
<1>0. ASSUME NEW r \in Requests
      PROVE  req[r] \in RoleRequest /\ RoleRequestOK(req[r])
  BY DEF RolesInv, RolesTypeOK
<1>1. ASSUME NEW r \in Requests, UpsertRoleScopes(r) PROVE Moving(r)
  <2>1. PICK n \in RoleNames, scopes \in ScopeLists :
          req' = [req EXCEPT ![r] = [Idle EXCEPT !.at = "deleting",
                    !.role = n, !.scopes = scopes, !.old = RowsOf(n)]]
    BY <1>1 DEF UpsertRoleScopes
  <2> DEFINE next == [Idle EXCEPT !.at = "deleting", !.role = n,
                                  !.scopes = scopes, !.old = RowsOf(n)]
  <2>2. /\ next \in RoleRequest /\ next.at = "deleting" /\ next.role = n
        /\ next.old = roleScopes[n] /\ next.gone = {} /\ next.over = {}
        /\ ~next.drop
    BY IdleIsRoleRequest
       DEF RolesInv, RolesTypeOK, RoleRequest, Stages, RowsOf, Idle
  <2> HIDE DEF next
  <2>3. Moves(r, next)
    BY <1>1, <2>1, <2>2
       DEF next, UpsertRoleScopes, Moves, RoleRequestOK, Transaction
  <2> QED BY <2>2, <2>3
<1>2. ASSUME NEW r \in Requests, CountBindings(r) PROVE Moving(r)
  <2>1. PICK n \in RoleNames :
          /\ ~Bound(n)
          /\ req' = [req EXCEPT ![r] = [Idle EXCEPT !.at = "counted",
                                          !.role = n, !.drop = TRUE]]
    BY <1>2 DEF CountBindings
  <2> DEFINE next == [Idle EXCEPT !.at = "counted", !.role = n, !.drop = TRUE]
  <2>2. /\ next \in RoleRequest /\ next.at = "counted" /\ next.role = n
        /\ next.over = {} /\ next.gone = {}
    BY IdleIsRoleRequest DEF RoleRequest, Stages, Idle
  <2>3. req' = [req EXCEPT ![r] = next]
    BY <2>1
  <2> HIDE DEF next
  <2>4. Moves(r, next)
    BY <1>2, <2>1, <2>2, <2>3
       DEF CountBindings, Moves, RoleRequestOK, Transaction
  <2> QED BY <2>2, <2>4
<1>3. ASSUME NEW r \in Requests, DeleteRole(r) PROVE Moving(r)
  <2> DEFINE next == [req[r] EXCEPT !.at = "deleting",
                                    !.old = roleScopes[req[r].role]]
  <2>1. req[r].at = "counted" /\ req[r].role \in RoleNames
    BY <1>0, <1>3 DEF DeleteRole, RoleRequestOK
  <2>2. /\ next \in RoleRequest /\ next.at = "deleting"
        /\ next.role = req[r].role /\ next.old = roleScopes[req[r].role]
        /\ next.over = req[r].over /\ next.drop = req[r].drop
        /\ next.gone = req[r].gone
    <3>1. roleScopes[req[r].role] \in SUBSET Scopes
      BY <2>1 DEF RolesInv, RolesTypeOK
    <3>2. PICK g \in SUBSET Scopes : g = roleScopes[req[r].role]
      BY <3>1
    <3>3. next = [req[r] EXCEPT !.at = "deleting", !.old = g]
      BY <3>2
    <3> HIDE DEF next
    <3>4. req[r] \in RoleRequest
      BY <1>0
    <3>5. next \in RoleRequest
      BY <3>3, <3>4 DEF RoleRequest, Stages
    <3>6. next.at = "deleting" /\ next.role = req[r].role /\ next.old = g
      BY <3>3, <3>4 DEF RoleRequest
    <3>7. next.over = req[r].over /\ next.gone = req[r].gone
      BY <3>3, <3>4 DEF RoleRequest
    <3>8. next.drop = req[r].drop
      BY <3>3, <3>4 DEF RoleRequest
    <3> QED BY <3>2, <3>5, <3>6, <3>7, <3>8
  <2>3. req' = [req EXCEPT ![r] = next]
    BY <1>3 DEF DeleteRole, RowsOf
  <2> HIDE DEF next
  <2>4. RoleRequestOK(next) /\ Transaction(req[r])
    <3>1. req[r].gone = {}
      BY <1>0, <2>1 DEF RoleRequestOK
    <3> QED BY <2>1, <2>2, <3>1 DEF RoleRequestOK, Transaction
  <2>5. Moves(r, next)
    BY <1>3, <2>2, <2>3, <2>4 DEF DeleteRole, Moves
  <2> QED BY <2>2, <2>5
<1>4. ASSUME NEW r \in Requests, DeleteRows(r) PROVE Moving(r)
  <2> DEFINE next == [req[r] EXCEPT !.at = "insert", !.gone = req[r].old,
                                    !.old = {}]
  <2>1. req[r].at = "deleting"
    BY <1>4 DEF DeleteRows
  <2>2. /\ next \in RoleRequest /\ next.at = "insert"
        /\ next.role = req[r].role /\ next.gone = req[r].old /\ next.old = {}
        /\ next.over = req[r].over /\ next.drop = req[r].drop
    BY <1>0 DEF RoleRequest, Stages
  <2>3. req' = [req EXCEPT ![r] = next]
    BY <1>4 DEF DeleteRows
  <2> HIDE DEF next
  <2>4. Moves(r, next)
    BY <1>0, <1>4, <2>1, <2>2, <2>3
       DEF DeleteRows, Moves, RoleRequestOK, Transaction
  <2> QED BY <2>2, <2>4
<1>5. ASSUME NEW r \in Requests, Commit(r) PROVE Moving(r) \/ Commits(r)
  <2>1. CASE Finish(r) /\ UNCHANGED <<roleScopes, asked>>
    BY <1>5, <2>1, RoleReturns DEF Commit
  <2>2. CASE ~(Finish(r) /\ UNCHANGED <<roleScopes, asked>>)
    BY <1>5, <2>2 DEF Commit, Commits
  <2> QED BY <2>1, <2>2
<1>6. ASSUME NEW r \in Requests,
             StartSeeds(r) \/ SeedBinding(r) \/ ClientCredentials(r)
               \/ ListForSubject(r)
      PROVE  Moving(r)
  <2>1. ASSUME NEW next \in RoleRequest, req' = [req EXCEPT ![r] = next],
               next.at \in {"seedBinding", "seedScopes"} => next.role \in RoleNames,
               next.at = "seedBinding" => SeedClient \in Subjects,
               ~Transaction(next), ~next.drop
        PROVE  Moving(r)
    <3>1. UNCHANGED <<roleScopes, asked>>
      BY <1>6 DEF StartSeeds, SeedBinding, ClientCredentials, ListForSubject
    <3>2. \/ bindings' = bindings
          \/ CanWrite /\ bindings' \subseteq Subjects \X RoleNames
      <4>1. CASE SeedBinding(r)
        <5>1. <<SeedClient, req[r].role>> \in Subjects \X RoleNames
          BY <1>0, <4>1 DEF SeedBinding, RoleRequestOK
        <5> QED BY <4>1, <5>1 DEF SeedBinding, RolesInv, RolesTypeOK
      <4> QED BY <1>6, <4>1 DEF StartSeeds, ClientCredentials, ListForSubject
    <3>3. RoleRequestOK(next)
      BY <2>1 DEF RoleRequestOK, Transaction
    <3> QED BY <2>1, <3>1, <3>2, <3>3 DEF Moves
  <2>2. CASE StartSeeds(r)
    <3> DEFINE next == [Idle EXCEPT !.at = "seedBinding", !.role = SeedRole,
                                    !.scopes = SeedScopes]
    <3>1. /\ next \in RoleRequest /\ next.at = "seedBinding"
          /\ next.role \in RoleNames /\ ~next.drop /\ SeedClient \in Subjects
      BY <2>2, IdleIsRoleRequest DEF StartSeeds, RoleRequest, Stages, Idle
    <3>2. req' = [req EXCEPT ![r] = next]
      BY <2>2 DEF StartSeeds
    <3> HIDE DEF next
    <3> QED BY <2>1, <3>1, <3>2 DEF Transaction
  <2>3. CASE SeedBinding(r)
    <3> DEFINE next == [req[r] EXCEPT !.at = "seedScopes"]
    <3>1. /\ next \in RoleRequest /\ next.at = "seedScopes"
          /\ next.role = req[r].role /\ next.drop = req[r].drop
          /\ req[r].at = "seedBinding"
      BY <1>0, <2>3 DEF SeedBinding, RoleRequest, Stages
    <3>2. req' = [req EXCEPT ![r] = next]
      BY <2>3 DEF SeedBinding
    <3> HIDE DEF next
    <3> QED BY <1>0, <2>1, <3>1, <3>2 DEF Transaction, RoleRequestOK
  <2>4. CASE ClientCredentials(r)
    <3>1. PICK c \in Clients, p \in ScopeParameters :
            req' = [req EXCEPT ![r] = [Idle EXCEPT !.at = "listRoles",
                                         !.client = c, !.scopes = p]]
      BY <2>4 DEF ClientCredentials
    <3> DEFINE next == [Idle EXCEPT !.at = "listRoles", !.client = c, !.scopes = p]
    <3>2. next \in RoleRequest /\ next.at = "listRoles" /\ ~next.drop
      BY IdleIsRoleRequest DEF RoleRequest, Stages, Idle
    <3>3. req' = [req EXCEPT ![r] = next]
      BY <3>1
    <3> HIDE DEF next
    <3> QED BY <2>1, <3>2, <3>3 DEF Transaction
  <2>5. CASE ListForSubject(r)
    <3> DEFINE granted == GrantScopes(req[r].scopes, AllowedScopes(req[r].client))
               next == [req[r] EXCEPT !.at = "sign", !.scopes = granted]
    <3>1. CASE Finish(r)
      BY <2>5, <3>1, RoleReturns DEF ListForSubject
    <3>2. CASE req' = [req EXCEPT ![r].at = "sign", ![r].scopes = granted]
      <4>1. granted \in SUBSET Scopes
        <5>1. AllowedScopes(req[r].client) \in SUBSET Scopes
          <6>1. roleScopes \in [RoleNames -> SUBSET Scopes]
            BY DEF RolesInv, RolesTypeOK
          <6>2. \A m \in RoleNames : roleScopes[m] \subseteq Scopes
            BY <6>1
          <6>3. ASSUME NEW x \in AllowedScopes(req[r].client)
                PROVE  \E m \in RoleNames : x \in roleScopes[m]
            BY <6>3 DEF AllowedScopes
          <6> QED BY <6>2, <6>3
        <5>2. req[r].scopes \in SUBSET Scopes
          BY <1>0 DEF RoleRequest
        <5>3. \A x \in Scopes : CanonicalScope(x) \in Scopes
          OBVIOUS
        <5> QED BY <5>1, <5>2, <5>3, GrantScopesType
      <4>2. /\ next \in RoleRequest /\ next.at = "sign"
            /\ next.drop = req[r].drop /\ req[r].at = "listRoles"
        <5>1. req[r].at = "listRoles"
          BY <2>5 DEF ListForSubject
        <5>2. ASSUME NEW g \in SUBSET Scopes, NEW q \in RoleRequest
              PROVE  LET m == [q EXCEPT !.at = "sign", !.scopes = g] IN
                     m \in RoleRequest /\ m.at = "sign" /\ m.drop = q.drop
          BY DEF RoleRequest, Stages
        <5> HIDE DEF granted
        <5> QED BY <1>0, <4>1, <5>1, <5>2
      <4>3. req' = [req EXCEPT ![r] = next]
        BY <1>0, <3>2, <4>1 DEF RolesInv, RolesTypeOK, RoleRequest
      <4> HIDE DEF next
      <4> QED BY <1>0, <2>1, <4>2, <4>3 DEF Transaction, RoleRequestOK
    <3> QED BY <2>5, <3>1, <3>2 DEF ListForSubject
  <2> QED BY <1>6, <2>2, <2>3, <2>4, <2>5
<1>7. ASSUME NEW r \in Requests,
             SeedsDone(r) \/ SignAccessToken(r) \/ RolesAbort(r)
      PROVE  Moving(r)
  BY <1>7, RoleReturns DEF SeedsDone, SignAccessToken, RolesAbort
<1>8. ASSUME NEW s \in Subjects, NEW n \in RoleNames,
             BindRoleToSubject(s, n) \/ UnbindRoleFromSubject(s, n)
      PROVE  Binds
  BY <1>8 DEF BindRoleToSubject, UnbindRoleFromSubject, Binds, RolesInv, RolesTypeOK
<1> QED BY <1>1, <1>2, <1>3, <1>4, <1>5, <1>6, <1>7, <1>8 DEF RolesNext

(* What a write of request r leaves of the others.                         *)
LEMMA OthersOverlapped ==
  ASSUME RolesInv, NEW r \in Requests, NEW next \in RoleRequest,
         RoleRequestOK(next), next.at \notin {"deleting", "insert"},
         req[r].role \in RoleNames,
         NEW taken \in SUBSET Scopes, NEW given \in SUBSET Scopes,
         req' = Overlapped(r, next, taken, given),
         roleScopes' = [roleScopes EXCEPT
           ![req[r].role] = (roleScopes[req[r].role] \ taken) \cup given]
  PROVE  /\ req' \in [Requests -> RoleRequest]
         /\ \A q \in Requests : RoleRequestOK(req[q])'
         /\ roleScopes' \in [RoleNames -> SUBSET Scopes]
<1>1. ASSUME NEW q \in Requests PROVE req[q] \in RoleRequest /\ RoleRequestOK(req[q])
  BY DEF RolesInv, RolesTypeOK
<1>2. roleScopes \in [RoleNames -> SUBSET Scopes]
  BY DEF RolesInv, RolesTypeOK
<1>3. roleScopes' \in [RoleNames -> SUBSET Scopes]
  BY <1>2
<1>4. ASSUME NEW q \in Requests
      PROVE  req'[q] \in RoleRequest /\ RoleRequestOK(req[q])'
  <2>1. CASE q = r
    <3>1. req'[q] = next
      BY <2>1 DEF Overlapped
    <3> QED BY <3>1 DEF RoleRequestOK, Transaction
  <2>2. CASE q # r /\ Transaction(req[q]) /\ req[q].role = req[r].role
    <3> DEFINE m == [req[q] EXCEPT !.old = req[q].old \ taken,
                                   !.over = req[q].over \cup given]
    <3>1. req'[q] = m
      BY <2>2 DEF Overlapped, InTransaction, Transaction
    <3>2. /\ m \in RoleRequest /\ m.at = req[q].at /\ m.role = req[q].role
          /\ m.old = req[q].old \ taken /\ m.over = req[q].over \cup given
      BY <1>1 DEF RoleRequest
    <3>3. m.gone = req[q].gone /\ m.drop = req[q].drop
      BY <1>1 DEF RoleRequest
    <3> HIDE DEF m
    <3>4. roleScopes'[m.role] = (roleScopes[m.role] \ taken) \cup given
      BY <1>2, <2>2, <3>2
    <3>5. m.at \in {"deleting", "insert"} =>
            roleScopes'[m.role] \ (m.old \cup m.gone) \subseteq m.over
      BY <1>1, <3>2, <3>3, <3>4 DEF RoleRequestOK
    <3>6. Transaction(m)
      BY <2>2, <3>2 DEF Transaction
    <3> QED BY <1>1, <3>1, <3>2, <3>3, <3>5, <3>6 DEF RoleRequestOK, Transaction
  <2>3. CASE q # r /\ ~(Transaction(req[q]) /\ req[q].role = req[r].role)
    <3>1. req'[q] = req[q]
      BY <2>3 DEF Overlapped, InTransaction, Transaction
    <3>2. Transaction(req[q]) => roleScopes'[req[q].role] = roleScopes[req[q].role]
      BY <1>1, <1>2, <2>3 DEF Transaction, RoleRequestOK
    <3> QED BY <1>1, <3>1, <3>2 DEF RoleRequestOK, Transaction
  <2> QED BY <2>1, <2>2, <2>3
<1>5. req' \in [Requests -> RoleRequest]
  BY <1>4 DEF Overlapped
<1> QED BY <1>3, <1>4, <1>5

LEMMA RolesInvStep ==
  ASSUME RolesInv, [RolesNext]_roleVars
  PROVE  RolesInv'
<1> USE RolesAssumption
<1>0. /\ RolesTypeOK /\ RoleIsRecentUpserts
      /\ \A r \in Requests : req[r] \in RoleRequest /\ RoleRequestOK(req[r])
  BY DEF RolesInv, RolesTypeOK
<1>1. ASSUME NEW r \in Requests, NEW next \in RoleRequest, Moves(r, next)
      PROVE  RolesInv'
  <2>1. req' \in [Requests -> RoleRequest]
    BY <1>0, <1>1 DEF Moves, RolesTypeOK
  <2>2. RolesTypeOK' /\ RoleIsRecentUpserts'
    BY <1>0, <1>1, <2>1 DEF Moves, RolesTypeOK, RoleIsRecentUpserts
  <2>3. ASSUME NEW q \in Requests PROVE RoleRequestOK(req[q])'
    <3>1. req'[q] = IF q = r THEN next ELSE req[q]
      BY <1>0, <1>1 DEF Moves, RolesTypeOK
    <3> QED BY <1>0, <1>1, <3>1 DEF Moves, RoleRequestOK
  <2> QED BY <2>2, <2>3 DEF RolesInv
<1>2. ASSUME NEW r \in Requests, Commits(r) PROVE RolesInv'
  <2> DEFINE n == req[r].role
             given == req[r].scopes
             taken == req[r].gone
             over == req[r].over
  <2>1. /\ n \in RoleNames /\ given \in SUBSET Scopes /\ taken \in SUBSET Scopes
        /\ over \in SUBSET Scopes
    BY <1>0, <1>2 DEF Commits, RoleRequestOK, RoleRequest
  <2>2. roleScopes[n] \ taken \subseteq over
    BY <1>0, <1>2 DEF Commits, RoleRequestOK
  <2>3. /\ req' \in [Requests -> RoleRequest]
        /\ \A q \in Requests : RoleRequestOK(req[q])'
        /\ roleScopes' \in [RoleNames -> SUBSET Scopes]
    <3>1. Idle.at \notin {"deleting", "insert"}
      BY DEF Idle
    <3>2. /\ req' = Overlapped(r, Idle, taken, given)
          /\ roleScopes' = [roleScopes EXCEPT
               ![req[r].role] = (roleScopes[req[r].role] \ taken) \cup given]
      BY <1>2 DEF Commits
    <3>3. req[r].role \in RoleNames
      BY <2>1
    <3>4. taken \in SUBSET Scopes /\ given \in SUBSET Scopes
      BY <2>1
    <3> HIDE DEF taken, given, n
    <3> QED BY <3>1, <3>2, <3>3, <3>4, IdleIsRoleRequest, OthersOverlapped, Zenon
  <2>4. RolesTypeOK'
    BY <1>0, <1>2, <2>1, <2>3 DEF Commits, RolesTypeOK
  <2>5. RoleIsRecentUpserts'
    BY <1>0, <1>2, <2>1, <2>2 DEF Commits, RolesTypeOK, RoleIsRecentUpserts
  <2> QED BY <2>3, <2>4, <2>5 DEF RolesInv
<1>3. ASSUME NEW r \in Requests, SeedScope(r) PROVE RolesInv'
  <2>1. PICK s \in req[r].scopes :
          /\ roleScopes' = [roleScopes EXCEPT ![req[r].role] = @ \cup {s}]
          /\ asked' = [asked EXCEPT ![req[r].role] = @ \cup {s}]
          /\ req' = Overlapped(r, [req[r] EXCEPT !.scopes = @ \ {s}], {}, {s})
    BY <1>3 DEF SeedScope
  <2> DEFINE n == req[r].role
             next == [req[r] EXCEPT !.scopes = req[r].scopes \ {s}]
  <2>2. n \in RoleNames /\ s \in Scopes /\ req[r].at = "seedScopes"
    BY <1>0, <1>3, <2>1 DEF SeedScope, RoleRequestOK, RoleRequest
  <2>3. /\ next \in RoleRequest /\ next.at = "seedScopes"
        /\ next.role = n /\ next.drop = req[r].drop
    BY <1>0, <2>2 DEF RoleRequest
  <2>4. req' = Overlapped(r, next, {}, {s})
    BY <2>1
  <2> HIDE DEF next
  <2>5. RoleRequestOK(next)
    BY <1>0, <2>2, <2>3 DEF RoleRequestOK, Transaction
  <2>6. roleScopes' = [roleScopes EXCEPT ![n] = (roleScopes[n] \ {}) \cup {s}]
    BY <2>1
  <2>7. /\ req' \in [Requests -> RoleRequest]
        /\ \A q \in Requests : RoleRequestOK(req[q])'
        /\ roleScopes' \in [RoleNames -> SUBSET Scopes]
    <3>1. next.at \notin {"deleting", "insert"}
      BY <2>3
    <3>2. {} \in SUBSET Scopes /\ {s} \in SUBSET Scopes
      BY <2>2
    <3> QED BY <2>2, <2>3, <2>4, <2>5, <2>6, <3>1, <3>2, OthersOverlapped, Zenon
  <2>8. bindings' = bindings
    BY <1>3 DEF SeedScope
  <2>9. RolesTypeOK'
    BY <1>0, <2>1, <2>2, <2>7, <2>8 DEF RolesTypeOK
  <2>10. RoleIsRecentUpserts'
    BY <1>0, <2>1, <2>2 DEF RolesTypeOK, RoleIsRecentUpserts
  <2> QED BY <2>7, <2>9, <2>10 DEF RolesInv
<1>4. CASE Binds
  <2>1. RolesTypeOK' /\ RoleIsRecentUpserts'
    BY <1>0, <1>4 DEF Binds, RolesTypeOK, RoleIsRecentUpserts
  <2>2. ASSUME NEW q \in Requests PROVE RoleRequestOK(req[q])'
    BY <1>0, <1>4 DEF Binds, RoleRequestOK
  <2> QED BY <2>1, <2>2 DEF RolesInv
<1>5. CASE UNCHANGED roleVars
  <2>1. RolesTypeOK' /\ RoleIsRecentUpserts'
    BY <1>0, <1>5 DEF roleVars, RolesTypeOK, RoleIsRecentUpserts
  <2>2. ASSUME NEW q \in Requests PROVE RoleRequestOK(req[q])'
    BY <1>0, <1>5 DEF roleVars, RoleRequestOK
  <2> QED BY <2>1, <2>2 DEF RolesInv
<1> QED BY <1>1, <1>2, <1>3, <1>4, <1>5, RoleSteps

LEMMA RolesInvInit == ASSUME RolesInit PROVE RolesInv
<1>1. RolesTypeOK /\ RoleIsRecentUpserts
  BY IdleIsRoleRequest DEF RolesInit, RolesTypeOK, RoleIsRecentUpserts
<1>2. \A r \in Requests : RoleRequestOK(req[r])
  BY IdleIsRoleRequest DEF RolesInit
<1> QED BY <1>1, <1>2 DEF RolesInv

LEMMA RolesAlways == RolesSpec => []RolesInv
  BY RolesInvInit, RolesInvStep, PTL DEF RolesSpec

(* A role has no scope but those of its last upsert and of the upserts and *)
(* seeds that committed while that one was open or since.                  *)
THEOREM RecentUpserts == RolesSpec => []RoleIsRecentUpserts
<1>1. RolesInv => RoleIsRecentUpserts
  BY DEF RolesInv
<1> QED BY <1>1, RolesAlways, PTL

(* A client credentials token never has a scope beyond its client's roles, *)
(* and a client without roles gets none.                                   *)
THEOREM WithinRoles == RolesSpec => TokensWithinRoles
<1> DEFINE Within ==
      \A r \in Requests :
        req[r].at # "sign" /\ req'[r].at = "sign" =>
          /\ req'[r].scopes # {}
          /\ req'[r].scopes \subseteq NormalizeScopes(AllowedScopes(req[r].client))
<1>1. ASSUME RolesInv, [RolesNext]_roleVars PROVE Within
  <2> SUFFICES ASSUME NEW r \in Requests, req[r].at # "sign", req'[r].at = "sign"
               PROVE  /\ req'[r].scopes # {}
                      /\ req'[r].scopes \subseteq
                           NormalizeScopes(AllowedScopes(req[r].client))
    OBVIOUS
  <2>0. ASSUME NEW q \in Requests PROVE req[q] \in RoleRequest
    BY <1>1 DEF RolesInv, RolesTypeOK
  <2>1. roleScopes \in [RoleNames -> SUBSET Scopes] /\ r \in DOMAIN req
    BY <1>1 DEF RolesInv, RolesTypeOK
  <2>2. ASSUME NEW q \in Requests, Finish(q) PROVE FALSE
    BY <2>1, <2>2 DEF Finish, Idle
  <2>3. ASSUME NEW q \in Requests, Commits(q) PROVE FALSE
    <3>1. CASE q = r
      BY <2>3, <3>1 DEF Commits, Overlapped, Idle
    <3>2. CASE q # r
      BY <2>0, <2>3, <3>2 DEF Commits, Overlapped, RoleRequest
    <3> QED BY <3>1, <3>2
  <2>4. ASSUME NEW q \in Requests, SeedScope(q) PROVE FALSE
    BY <2>0, <2>4 DEF SeedScope, Overlapped, RoleRequest
  <2>5. ASSUME NEW q \in Requests,
               UpsertRoleScopes(q) \/ CountBindings(q) \/ StartSeeds(q)
                 \/ ClientCredentials(q)
        PROVE  FALSE
    BY <2>1, <2>5
       DEF UpsertRoleScopes, CountBindings, StartSeeds, ClientCredentials, Idle
  <2>6. ASSUME NEW q \in Requests,
               DeleteRole(q) \/ DeleteRows(q) \/ SeedBinding(q)
        PROVE  FALSE
    BY <2>0, <2>1, <2>6 DEF DeleteRole, DeleteRows, SeedBinding, RoleRequest
  <2>7. ASSUME NEW q \in Requests, ListForSubject(q)
        PROVE  /\ req'[r].scopes # {}
               /\ req'[r].scopes \subseteq
                    NormalizeScopes(AllowedScopes(req[r].client))
    <3> DEFINE allowed == AllowedScopes(req[q].client)
               granted == GrantScopes(req[q].scopes, allowed)
    <3>1. /\ req' = [req EXCEPT ![q].at = "sign", ![q].scopes = granted]
          /\ HasRoles(req[q].client) /\ granted # {}
      BY <2>2, <2>7 DEF ListForSubject
    <3>2. q = r
      BY <2>1, <3>1
    <3>3. req'[r].scopes = granted
      BY <2>0, <2>1, <3>1, <3>2 DEF RoleRequest
    <3>4. NormalizeScopes(allowed) # {}
      <4>1. PICK x : x \in allowed
        BY <3>1 DEF HasRoles
      <4>2. x \in Scopes
        BY <2>1, <4>1 DEF AllowedScopes
      <4>3. CanonicalScope(x) # ""
        BY <4>2, BlankAssumption DEF CanonicalScope
      <4> QED BY <4>1, <4>3 DEF NormalizeScopes
    <3>5. granted \subseteq NormalizeScopes(allowed)
      BY <3>4, GrantScopesBounded
    <3> QED BY <3>1, <3>2, <3>3, <3>5
  <2>8. ASSUME NEW q \in Requests, Commit(q) PROVE FALSE
    BY <2>2, <2>3, <2>8 DEF Commit, Commits
  <2>9. ASSUME NEW q \in Requests,
               SeedsDone(q) \/ SignAccessToken(q) \/ RolesAbort(q)
        PROVE  FALSE
    BY <2>2, <2>9 DEF SeedsDone, SignAccessToken, RolesAbort
  <2>10. ASSUME NEW s \in Subjects, NEW n \in RoleNames,
                BindRoleToSubject(s, n) \/ UnbindRoleFromSubject(s, n)
         PROVE  FALSE
    BY <2>10 DEF BindRoleToSubject, UnbindRoleFromSubject
  <2> QED BY <1>1, <2>4, <2>5, <2>6, <2>7, <2>8, <2>9, <2>10
          DEF RolesNext, roleVars
<1>2. RolesInv /\ [RolesNext]_roleVars => [Within]_roleVars
  BY <1>1
<1> QED BY <1>2, RolesAlways, PTL DEF RolesSpec, TokensWithinRoles

-----------------------------------------------------------------------------
(* SQLite: one transaction at a time, which nothing overtakes.             *)

OneWriter ==
  \A r, q \in Requests : Transaction(req[r]) /\ Transaction(req[q]) => r = q

SqliteInv ==
  /\ OneWriter
  /\ \A r \in Requests : Transaction(req[r]) => req[r].over = {}
  /\ RoleIsOneUpsert
  /\ DeletedWhenUnbound

LEMMA SqliteStep ==
  ASSUME Driver = "sqlite", RolesInv, SqliteInv, [RolesNext]_roleVars
  PROVE  SqliteInv'
<1>0. /\ \A r \in Requests : req[r] \in RoleRequest /\ RoleRequestOK(req[r])
      /\ req \in [Requests -> RoleRequest]
      /\ roleScopes \in [RoleNames -> SUBSET Scopes]
      /\ asked \in [RoleNames -> SUBSET Scopes]
  BY DEF RolesInv, RolesTypeOK
<1>1. CanWrite => \A r \in Requests : ~Transaction(req[r]) /\ ~req[r].drop
  BY <1>0 DEF CanWrite, InTransaction, Transaction, RoleRequestOK
<1>2. ASSUME NEW r \in Requests, NEW next \in RoleRequest, Moves(r, next)
      PROVE  SqliteInv'
  <2>1. \A q \in Requests : req'[q] = IF q = r THEN next ELSE req[q]
    BY <1>0, <1>2 DEF Moves
  <2>2. OneWriter' /\ \A q \in Requests : Transaction(req'[q]) => req'[q].over = {}
    BY <1>1, <1>2, <2>1 DEF Moves, SqliteInv, OneWriter
  <2>3. RoleIsOneUpsert'
    BY <1>2 DEF Moves, SqliteInv, RoleIsOneUpsert
  <2>4. DeletedWhenUnbound'
    <3> SUFFICES ASSUME NEW q \in Requests, req'[q].drop
                 PROVE  ~Bound(req[q].role)'
      BY DEF DeletedWhenUnbound
    <3>1. bindings' = bindings => (\A n : Bound(n)' <=> Bound(n))
      BY DEF Bound
    <3>2. CASE q # r
      BY <1>1, <1>2, <2>1, <3>1, <3>2 DEF Moves, SqliteInv, DeletedWhenUnbound
    <3>3. CASE q = r
      <4>1. Transaction(next) /\ req'[q] = next
        BY <1>2, <2>1, <3>3 DEF Moves, RoleRequestOK
      <4> QED BY <1>2, <3>1, <3>3, <4>1 DEF Moves, SqliteInv, DeletedWhenUnbound
    <3> QED BY <3>2, <3>3
  <2> QED BY <2>2, <2>3, <2>4 DEF SqliteInv
<1>3. ASSUME NEW r \in Requests, Commits(r) PROVE SqliteInv'
  <2>1. /\ Transaction(req[r]) /\ req[r].over = {} /\ req[r].role \in RoleNames
        /\ req[r].scopes \in SUBSET Scopes
    BY <1>0, <1>3
       DEF Commits, Transaction, SqliteInv, RoleRequestOK, RoleRequest
  <2>2. \A q \in Requests : req'[q] = IF q = r THEN Idle ELSE req[q]
    BY <1>3, <2>1
       DEF Commits, Overlapped, InTransaction, Transaction, SqliteInv, OneWriter
  <2>3. ~Transaction(Idle) /\ ~Idle.drop
    BY DEF Transaction, Idle
  <2>4. OneWriter' /\ \A q \in Requests : Transaction(req'[q]) => req'[q].over = {}
    BY <2>2, <2>3 DEF SqliteInv, OneWriter
  <2>5. RoleIsOneUpsert'
    <3>1. roleScopes[req[r].role] \ req[r].gone = {}
      BY <1>0, <1>3, <2>1 DEF Commits, RoleRequestOK
    <3> QED BY <1>0, <1>3, <2>1, <3>1 DEF Commits, SqliteInv, RoleIsOneUpsert
  <2>6. DeletedWhenUnbound'
    BY <1>3, <2>2, <2>3 DEF Commits, SqliteInv, DeletedWhenUnbound, Bound
  <2> QED BY <2>4, <2>5, <2>6 DEF SqliteInv
<1>4. ASSUME NEW r \in Requests, SeedScope(r) PROVE SqliteInv'
  <2>1. CanWrite /\ bindings' = bindings
    BY <1>4 DEF SeedScope
  <2>2. PICK s \in req[r].scopes :
          /\ roleScopes' = [roleScopes EXCEPT ![req[r].role] = @ \cup {s}]
          /\ asked' = [asked EXCEPT ![req[r].role] = @ \cup {s}]
          /\ req' = Overlapped(r, [req[r] EXCEPT !.scopes = @ \ {s}], {}, {s})
    BY <1>4 DEF SeedScope
  <2>3. ASSUME NEW q \in Requests
        PROVE  ~Transaction(req'[q]) /\ ~req'[q].drop
    <3>1. CASE q = r
      <4>1. req'[q] = [req[r] EXCEPT !.scopes = @ \ {s}]
        BY <2>2, <3>1 DEF Overlapped
      <4>2. req'[q].at = req[r].at /\ req'[q].drop = req[r].drop
        BY <1>0, <4>1 DEF RoleRequest
      <4> QED BY <1>1, <2>1, <4>2 DEF Transaction
    <3>2. CASE q # r
      <4>1. req'[q] = req[q]
        BY <1>1, <2>1, <2>2, <3>2 DEF Overlapped, InTransaction, Transaction
      <4> QED BY <1>1, <2>1, <4>1
    <3> QED BY <3>1, <3>2
  <2>4. RoleIsOneUpsert'
    BY <1>0, <2>2 DEF SqliteInv, RoleIsOneUpsert
  <2> QED BY <2>3, <2>4 DEF SqliteInv, OneWriter, DeletedWhenUnbound
<1>5. CASE Binds
  <2>1. \A r \in Requests : ~Transaction(req'[r]) /\ ~req'[r].drop
    BY <1>1, <1>5 DEF Binds
  <2>2. RoleIsOneUpsert'
    BY <1>5 DEF Binds, SqliteInv, RoleIsOneUpsert
  <2> QED BY <2>1, <2>2 DEF SqliteInv, OneWriter, DeletedWhenUnbound
<1>6. CASE UNCHANGED roleVars
  BY <1>6 DEF roleVars, SqliteInv, OneWriter, RoleIsOneUpsert,
              DeletedWhenUnbound, Bound
<1> QED BY <1>2, <1>3, <1>4, <1>5, <1>6, RoleSteps

LEMMA SqliteInit == ASSUME RolesInit PROVE SqliteInv
  BY DEF RolesInit, SqliteInv, OneWriter, RoleIsOneUpsert, DeletedWhenUnbound,
         Transaction, Idle

-----------------------------------------------------------------------------
(* Invitations.  An acceptance in flight has an invitation that exists,    *)
(* and has bound its subject before it marks; only a used invitation has   *)
(* been answered.                                                          *)

AcceptanceOK(a) ==
  /\ a.at = "idle" => a.code = None
  /\ a.at # "idle" =>
       /\ a.code \in InviteCodes /\ invites[a.code] # None
       /\ a.subject \in Subjects /\ a.role \in RoleNames
  /\ a.at = "mark" => a.subject \in boundBy[a.code]

InvitesTypeOK ==
  /\ clock \in 0..MaxClock
  /\ invites \in [InviteCodes -> InviteRow \cup {None}]
  /\ acc \in [Acceptances -> Acceptance]
  /\ boundBy \in [InviteCodes -> SUBSET Subjects]
  /\ answered \in [InviteCodes -> Nat]

(* An invitation is never used up without its role having been bound.      *)
UsedInvitationBound ==
  \A i \in InviteCodes :
    invites[i] # None /\ invites[i].used => boundBy[i] # {}

InvitesInv ==
  /\ InvitesTypeOK
  /\ \A q \in Acceptances : AcceptanceOK(acc[q])
  /\ \A i \in InviteCodes :
       /\ answered[i] <= 1
       /\ invites[i] = None \/ ~invites[i].used => answered[i] = 0
  /\ UsedInvitationBound

(* What an acceptance step does to the roles is a step of the roles.       *)
LEMMA StepsOfRoles ==
  ASSUME InvitesInv, [InvitationsNext]_allVars PROVE [RolesNext]_roleVars
<1>1. ASSUME NEW q \in Acceptances, BindInvited(q) PROVE RolesNext
  BY <1>1 DEF BindInvited, InvitesInv, AcceptanceOK, RolesNext
<1>2. ASSUME NEW q \in Acceptances,
             AcceptInvitation(q) \/ MarkUsed(q) \/ AcceptanceAbort(q)
      PROVE  UNCHANGED roleVars
  BY <1>2 DEF AcceptInvitation, MarkUsed, AcceptanceAbort
<1>3. ASSUME NEW i \in InviteCodes, NEW n \in RoleNames,
             CreateInvitation(i, n) \/ RevokeInvitation(i)
      PROVE  UNCHANGED roleVars
  BY <1>3 DEF CreateInvitation, RevokeInvitation
<1>4. ASSUME NEW i \in InviteCodes, RevokeInvitation(i) PROVE UNCHANGED roleVars
  BY <1>4 DEF RevokeInvitation
<1>5. CASE Tick \/ UNCHANGED allVars
  BY <1>5 DEF Tick, allVars
<1> QED BY <1>1, <1>2, <1>3, <1>4, <1>5 DEF InvitationsNext, Advance

(* A step that touches acceptance q alone.                                 *)
LEMMA Accepted ==
  ASSUME InvitesInv, NEW q \in Acceptances, NEW a \in Acceptance,
         acc' = [acc EXCEPT ![q] = a], AcceptanceOK(a),
         UNCHANGED <<clock, invites, boundBy, answered>>
  PROVE  InvitesInv'
<1>1. InvitesTypeOK' /\ UsedInvitationBound'
  BY DEF InvitesInv, InvitesTypeOK, UsedInvitationBound
<1>2. ASSUME NEW p \in Acceptances PROVE AcceptanceOK(acc[p])'
  <2>1. acc'[p] = IF p = q THEN a ELSE acc[p]
    BY DEF InvitesInv, InvitesTypeOK
  <2> QED BY <2>1 DEF InvitesInv, AcceptanceOK
<1> QED BY <1>1, <1>2 DEF InvitesInv

LEMMA AtRestOK == AtRest \in Acceptance /\ AcceptanceOK(AtRest)
  BY DEF AtRest, Acceptance, AcceptanceOK

LEMMA InvitesStep ==
  ASSUME InvitesInv, [InvitationsNext]_allVars
  PROVE  InvitesInv'
<1>0. /\ InvitesTypeOK /\ UsedInvitationBound
      /\ \A q \in Acceptances : acc[q] \in Acceptance /\ AcceptanceOK(acc[q])
      /\ clock \in Nat
  BY InvitationsAssumption DEF InvitesInv, InvitesTypeOK
<1>1. ASSUME NEW i \in InviteCodes, NEW n \in RoleNames, CreateInvitation(i, n)
      PROVE  InvitesInv'
  <2> DEFINE row == [role |-> n, exp |-> clock + InviteTTL, used |-> FALSE,
                     revoked |-> FALSE]
  <2>1. row \in InviteRow /\ ~row.used
    BY <1>0, InvitationsAssumption DEF InviteRow
  <2>2. invites' = [invites EXCEPT ![i] = row] /\ invites[i] = None
        /\ UNCHANGED <<clock, acc, boundBy, answered>>
    BY <1>1 DEF CreateInvitation
  <2> HIDE DEF row
  <2>3. InvitesTypeOK' /\ UsedInvitationBound'
    BY <1>0, <2>1, <2>2 DEF InvitesTypeOK, UsedInvitationBound
  <2>4. ASSUME NEW q \in Acceptances PROVE AcceptanceOK(acc[q])'
    BY <1>0, <2>1, <2>2 DEF AcceptanceOK, InvitesTypeOK
  <2>5. ASSUME NEW j \in InviteCodes
        PROVE  /\ answered'[j] <= 1
               /\ invites'[j] = None \/ ~invites'[j].used => answered'[j] = 0
    BY <1>0, <2>1, <2>2 DEF InvitesInv, InvitesTypeOK
  <2> QED BY <2>3, <2>4, <2>5 DEF InvitesInv
<1>2. ASSUME NEW q \in Acceptances, AcceptInvitation(q) PROVE InvitesInv'
  <2>1. PICK i \in InviteCodes, s \in Subjects :
          /\ invites[i] # None
          /\ acc' = [acc EXCEPT ![q] = [at |-> "bind", code |-> i, subject |-> s,
                                        role |-> invites[i].role]]
    BY <1>2 DEF AcceptInvitation
  <2> DEFINE a == [at |-> "bind", code |-> i, subject |-> s,
                   role |-> invites[i].role]
  <2>2. invites[i].role \in RoleNames
    BY <1>0, <2>1 DEF InvitesTypeOK, InviteRow
  <2>3. a \in Acceptance /\ AcceptanceOK(a)
    BY <2>1, <2>2 DEF Acceptance, AcceptanceOK
  <2> QED BY <1>2, <2>1, <2>3, Accepted DEF AcceptInvitation
<1>3. ASSUME NEW q \in Acceptances, AcceptanceAbort(q) PROVE InvitesInv'
  BY <1>3, AtRestOK, Accepted DEF AcceptanceAbort, Return
<1>4. ASSUME NEW q \in Acceptances, BindInvited(q) PROVE InvitesInv'
  <2> DEFINE a == [acc[q] EXCEPT !.at = "mark"]
             c == acc[q].code
             s == acc[q].subject
  <2>1. /\ a \in Acceptance /\ a.at = "mark" /\ a.code = c /\ a.subject = s
        /\ a.role = acc[q].role
    BY <1>0 DEF Acceptance
  <2>2. c \in InviteCodes /\ s \in Subjects /\ invites[c] # None
        /\ acc[q].role \in RoleNames
    BY <1>0, <1>4 DEF BindInvited, AcceptanceOK
  <2>3. /\ acc' = [acc EXCEPT ![q] = a]
        /\ boundBy' = [boundBy EXCEPT ![c] = boundBy[c] \cup {s}]
        /\ UNCHANGED <<clock, invites, answered>>
    BY <1>4 DEF BindInvited
  <2> HIDE DEF a
  <2>4. \A j \in InviteCodes :
          boundBy[j] \subseteq boundBy'[j] /\ (j = c => s \in boundBy'[j])
    BY <1>0, <2>3 DEF InvitesTypeOK
  <2>5. InvitesTypeOK' /\ UsedInvitationBound'
    BY <1>0, <2>1, <2>2, <2>3, <2>4 DEF InvitesTypeOK, UsedInvitationBound
  <2>6. ASSUME NEW p \in Acceptances PROVE AcceptanceOK(acc[p])'
    <3>1. acc'[p] = IF p = q THEN a ELSE acc[p]
      BY <1>0, <2>3 DEF InvitesTypeOK
    <3> QED BY <1>0, <2>1, <2>2, <2>3, <2>4, <3>1 DEF AcceptanceOK
  <2> QED BY <2>3, <2>5, <2>6 DEF InvitesInv
<1>5. ASSUME NEW q \in Acceptances, MarkUsed(q) PROVE InvitesInv'
  <2> DEFINE i == acc[q].code
  <2>1. /\ i \in InviteCodes /\ invites[i] # None /\ boundBy[i] # {}
        /\ invites[i] \in InviteRow
    BY <1>0, <1>5 DEF MarkUsed, AcceptanceOK, InvitesTypeOK
  <2>2. CASE UNCHANGED <<invites, answered>>
    BY <1>5, <2>2, AtRestOK, Accepted DEF MarkUsed, Return
  <2>3. CASE /\ ~invites[i].used
             /\ invites' = [invites EXCEPT ![i].used = TRUE]
             /\ answered' = [answered EXCEPT ![i] = @ + 1]
    <3> DEFINE row == [invites[i] EXCEPT !.used = TRUE]
    <3>1. row \in InviteRow /\ row.used
      BY <2>1 DEF InviteRow
    <3>2. invites' = [invites EXCEPT ![i] = row] /\ answered[i] = 0
      BY <2>1, <2>3 DEF InvitesInv
    <3>3. UNCHANGED <<clock, boundBy>> /\ acc' = [acc EXCEPT ![q] = AtRest]
      BY <1>5 DEF MarkUsed, Return
    <3> HIDE DEF row
    <3>4. InvitesTypeOK' /\ UsedInvitationBound'
      BY <1>0, <2>1, <2>3, <3>1, <3>2, <3>3, AtRestOK
         DEF InvitesTypeOK, UsedInvitationBound
    <3>5. ASSUME NEW p \in Acceptances PROVE AcceptanceOK(acc[p])'
      <4>1. acc'[p] = IF p = q THEN AtRest ELSE acc[p]
        BY <1>0, <3>3 DEF InvitesTypeOK
      <4> QED BY <1>0, <2>1, <3>1, <3>2, <3>3, <4>1, AtRestOK
              DEF AcceptanceOK, InvitesTypeOK
    <3>6. ASSUME NEW j \in InviteCodes
          PROVE  /\ answered'[j] <= 1
                 /\ invites'[j] = None \/ ~invites'[j].used => answered'[j] = 0
      <4>1. CASE j = i
        <5>1. answered'[j] = 1 /\ invites'[j] = row
          BY <1>0, <2>1, <2>3, <3>2, <4>1 DEF InvitesTypeOK
        <5>2. row # None
          BY <3>1
        <5> QED BY <3>1, <5>1, <5>2
      <4>2. CASE j # i
        <5>1. answered'[j] = answered[j] /\ invites'[j] = invites[j]
          BY <1>0, <2>3, <3>2, <4>2 DEF InvitesTypeOK
        <5> QED BY <5>1 DEF InvitesInv
      <4> QED BY <4>1, <4>2
    <3> QED BY <3>4, <3>5, <3>6 DEF InvitesInv
  <2> QED BY <1>5, <2>2, <2>3 DEF MarkUsed, StillUnused
<1>6. ASSUME NEW i \in InviteCodes, RevokeInvitation(i) PROVE InvitesInv'
  <2> DEFINE row == [invites[i] EXCEPT !.revoked = TRUE]
  <2>1. invites[i] \in InviteRow
    BY <1>0, <1>6 DEF RevokeInvitation, InvitesTypeOK
  <2>2. row \in InviteRow /\ row.used = invites[i].used
    BY <2>1 DEF InviteRow
  <2>3. invites' = [invites EXCEPT ![i] = row] /\ invites[i] # None
        /\ UNCHANGED <<clock, acc, boundBy, answered>>
    BY <1>6 DEF RevokeInvitation
  <2> HIDE DEF row
  <2>4. InvitesTypeOK' /\ UsedInvitationBound'
    BY <1>0, <2>2, <2>3 DEF InvitesTypeOK, UsedInvitationBound
  <2>5. ASSUME NEW q \in Acceptances PROVE AcceptanceOK(acc[q])'
    BY <1>0, <2>2, <2>3 DEF AcceptanceOK, InvitesTypeOK
  <2>6. ASSUME NEW j \in InviteCodes
        PROVE  /\ answered'[j] <= 1
               /\ invites'[j] = None \/ ~invites'[j].used => answered'[j] = 0
    BY <1>0, <2>2, <2>3 DEF InvitesInv, InvitesTypeOK
  <2> QED BY <2>4, <2>5, <2>6 DEF InvitesInv
<1>7. ASSUME clock' \in 0..MaxClock, UNCHANGED <<invites, acc, boundBy, answered>>
      PROVE  InvitesInv'
  BY <1>0, <1>7
     DEF InvitesInv, InvitesTypeOK, AcceptanceOK, UsedInvitationBound
<1>8. CASE Tick
  <2>1. clock' \in 0..MaxClock
    BY <1>0, <1>8, InvitationsAssumption DEF Tick, InvitesTypeOK
  <2> QED BY <1>7, <1>8, <2>1 DEF Tick
<1>9. CASE UNCHANGED inviteVars
  <2>1. clock' \in 0..MaxClock
    BY <1>0, <1>9 DEF inviteVars, InvitesTypeOK
  <2> QED BY <1>7, <1>9, <2>1 DEF inviteVars
<1> QED BY <1>1, <1>2, <1>3, <1>4, <1>5, <1>6, <1>8, <1>9
        DEF InvitationsNext, Advance, allVars

LEMMA InvitesInit == ASSUME InvitationsInit PROVE InvitesInv /\ RolesInv
<1>1. InvitesTypeOK /\ UsedInvitationBound
  BY InvitationsAssumption, AtRestOK
     DEF InvitationsInit, InvitesTypeOK, UsedInvitationBound
<1>2. \A q \in Acceptances : AcceptanceOK(acc[q])
  BY AtRestOK DEF InvitationsInit
<1> QED BY <1>1, <1>2, RolesInvInit DEF InvitationsInit, InvitesInv

LEMMA InvitationsAlways == InvitationsSpec => [](InvitesInv /\ RolesInv)
<1>1. InvitationsInit => InvitesInv /\ RolesInv
  BY InvitesInit
<1>2. InvitesInv /\ RolesInv /\ [InvitationsNext]_allVars
        => InvitesInv' /\ RolesInv'
  BY InvitesStep, StepsOfRoles, RolesInvStep
<1> QED BY <1>1, <1>2, PTL DEF InvitationsSpec

(* Whatever handing out roles by invitation does to the roles, their own   *)
(* requests could have done (BindRoleToSubject).                           *)
THEOREM InvitationsAreRoles == InvitationsSpec => RolesSpec
<1>1. InvitationsInit => RolesInit
  BY DEF InvitationsInit
<1> QED BY <1>1, StepsOfRoles, InvitationsAlways, PTL
           DEF InvitationsSpec, RolesSpec

(* So a role has only scopes of recent upserts, and tokens stay within the *)
(* roles of their client, with invitations accepted in between.            *)
THEOREM RolesWithInvitations ==
  InvitationsSpec => []RoleIsRecentUpserts /\ TokensWithinRoles
  BY InvitationsAreRoles, RecentUpserts, WithinRoles, PTL

(* Rows, acceptances and roles stay of their types.                        *)
THEOREM InvitationTypes == InvitationsSpec => []InvitationsTypeOK
<1>1. InvitesInv /\ RolesInv => InvitationsTypeOK
  BY DEF InvitesInv, RolesInv, InvitesTypeOK, InvitationsTypeOK
<1> QED BY <1>1, InvitationsAlways, PTL

(* An invitation earns one successful answer.                              *)
THEOREM OneAnswer == InvitationsSpec => []InvitationAnsweredOnce
<1>1. InvitesInv => InvitationAnsweredOnce
  BY DEF InvitesInv, InvitationAnsweredOnce
<1> QED BY <1>1, InvitationsAlways, PTL

(* An invitation is never used up without its role having been bound.      *)
THEOREM BoundBeforeUsed == InvitationsSpec => []UsedInvitationBound
<1>1. InvitesInv => UsedInvitationBound
  BY DEF InvitesInv
<1> QED BY <1>1, InvitationsAlways, PTL

(* A used, revoked or expired invitation binds nobody beyond the           *)
(* acceptances that had already seen it usable.                            *)
THEOREM SpentIsQuiet == InvitationsSpec => SpentInvitationQuiet
<1> DEFINE Quiet ==
      \A i \in InviteCodes :
        /\ invites[i] # None
        /\ invites[i].used \/ invites[i].revoked \/ clock > invites[i].exp
        /\ ~Accepting(i)
        => ~Accepting(i)' /\ boundBy'[i] = boundBy[i]
<1>1. ASSUME InvitesInv, [InvitationsNext]_allVars PROVE Quiet
  <2> SUFFICES ASSUME NEW i \in InviteCodes, invites[i] # None,
                      invites[i].used \/ invites[i].revoked
                        \/ clock > invites[i].exp,
                      \A q \in Acceptances : acc[q].code # i
               PROVE  /\ \A q \in Acceptances : acc'[q].code # i
                      /\ boundBy'[i] = boundBy[i]
    BY DEF Accepting
  <2>0. acc \in [Acceptances -> Acceptance] /\ AtRest.code # i
        /\ boundBy \in [InviteCodes -> SUBSET Subjects]
    BY <1>1 DEF InvitesInv, InvitesTypeOK, AtRest
  <2>1. ASSUME NEW q \in Acceptances, AcceptInvitation(q)
        PROVE  /\ \A p \in Acceptances : acc'[p].code # i
               /\ boundBy'[i] = boundBy[i]
    <3>1. PICK j \in InviteCodes, s \in Subjects :
            /\ Usable(invites[j])
            /\ acc' = [acc EXCEPT ![q] = [at |-> "bind", code |-> j,
                                    subject |-> s, role |-> invites[j].role]]
      BY <2>1 DEF AcceptInvitation
    <3>2. j # i
      <4>1. invites[i] \in InviteRow /\ clock \in Nat
        BY <1>1, InvitationsAssumption DEF InvitesInv, InvitesTypeOK
      <4>2. invites[i].exp \in Nat
        BY <4>1 DEF InviteRow
      <4> QED BY <3>1, <4>1, <4>2 DEF Usable
    <3> QED BY <2>0, <2>1, <3>1, <3>2 DEF AcceptInvitation
  <2>2. ASSUME NEW q \in Acceptances, MarkUsed(q) \/ AcceptanceAbort(q)
        PROVE  /\ \A p \in Acceptances : acc'[p].code # i
               /\ boundBy'[i] = boundBy[i]
    BY <2>0, <2>2 DEF MarkUsed, AcceptanceAbort, Return
  <2>3. ASSUME NEW q \in Acceptances, BindInvited(q)
        PROVE  /\ \A p \in Acceptances : acc'[p].code # i
               /\ boundBy'[i] = boundBy[i]
    BY <2>0, <2>3 DEF BindInvited, Acceptance
  <2>4. ASSUME NEW j \in InviteCodes, NEW n \in RoleNames,
               CreateInvitation(j, n)
        PROVE  UNCHANGED <<acc, boundBy>>
    BY <2>4 DEF CreateInvitation
  <2>5. ASSUME NEW j \in InviteCodes, RevokeInvitation(j)
        PROVE  UNCHANGED <<acc, boundBy>>
    BY <2>5 DEF RevokeInvitation
  <2>6. CASE Tick \/ UNCHANGED inviteVars
    BY <2>6 DEF Tick, inviteVars
  <2> QED BY <1>1, <2>1, <2>2, <2>3, <2>4, <2>5, <2>6
          DEF InvitationsNext, Advance, allVars
<1>2. InvitesInv /\ [InvitationsNext]_allVars => [Quiet]_allVars
  BY <1>1
<1> QED BY <1>2, InvitationsAlways, PTL DEF InvitationsSpec, SpentInvitationQuiet

LEMMA SqliteAlways ==
  ASSUME Driver = "sqlite" PROVE InvitationsSpec => []SqliteInv
<1>1. InvitationsInit => SqliteInv
  BY SqliteInit DEF InvitationsInit
<1>2. SqliteInv /\ InvitesInv /\ RolesInv /\ [InvitationsNext]_allVars => SqliteInv'
  BY StepsOfRoles, SqliteStep
<1> QED BY <1>1, <1>2, InvitationsAlways, PTL DEF InvitationsSpec

(* With one writer, a role has exactly the scopes its last upsert or       *)
(* deletion, and the seeds since, left it with.                            *)
THEOREM OneUpsert == ASSUME Driver = "sqlite"
                     PROVE  InvitationsSpec => []RoleIsOneUpsert
<1>1. SqliteInv => RoleIsOneUpsert
  BY DEF SqliteInv
<1> QED BY <1>1, SqliteAlways, PTL

(* With one writer, nobody is bound to a role while it is being deleted.   *)
THEOREM UnboundDeletion == ASSUME Driver = "sqlite"
                           PROVE  InvitationsSpec => []DeletedWhenUnbound
<1>1. SqliteInv => DeletedWhenUnbound
  BY DEF SqliteInv
<1> QED BY <1>1, SqliteAlways, PTL

-----------------------------------------------------------------------------
(* The invitation book.                                                    *)

LEMMA LifeFunction ==
  /\ Life = [i \in InviteCodes |-> Life[i]]
  /\ Life' = [i \in InviteCodes |-> Life'[i]]
  /\ \A i \in InviteCodes :
       Life[i] = LifeOf(invites[i]) /\ Life'[i] = LifeOf(invites[i])'
  BY DEF Life, LifeOf

LEMMA AdmittedFunction ==
  /\ Admitted = [i \in InviteCodes |-> Admitted[i]]
  /\ Admitted' = [i \in InviteCodes |-> Admitted'[i]]
  /\ \A i \in InviteCodes : \A s :
       /\ s \in Admitted[i] <=>
            \E q \in Acceptances : acc[q].code = i /\ acc[q].subject = s
       /\ s \in Admitted'[i] <=>
            \E q \in Acceptances : acc'[q].code = i /\ acc'[q].subject = s
  BY DEF Admitted

LEMMA SameLife ==
  UNCHANGED <<clock, invites>> => UNCHANGED Life
  BY DEF Life, LifeOf

LEMMA SameAdmitted ==
  UNCHANGED acc => UNCHANGED Admitted
  BY DEF Admitted

(* One row of an invitation changes, and the clock stands still.           *)
LEMMA OneLife ==
  ASSUME NEW i \in InviteCodes, UNCHANGED clock,
         \A j \in InviteCodes \ {i} : invites'[j] = invites[j]
  PROVE  Life' = [Life EXCEPT ![i] = LifeOf(invites[i])']
<1>1. \A j \in InviteCodes \ {i} : Life'[j] = Life[j]
  BY LifeFunction DEF LifeOf
<1> QED BY <1>1, LifeFunction

(* Of one acceptance, the invitation, and with it the subject, changes.    *)
LEMMA OneReturns ==
  ASSUME acc \in [Acceptances -> Acceptance], NEW q \in Acceptances, Return(q),
         NEW i \in InviteCodes, acc[q].code = i
  PROVE  \E left \in SUBSET {acc[q].subject} :
           Admitted' = [Admitted EXCEPT ![i] = @ \ left]
<1> DEFINE s == acc[q].subject
<1>1. \A p \in Acceptances : acc'[p] = IF p = q THEN AtRest ELSE acc[p]
  BY DEF Return
<1>2. AtRest.code \notin InviteCodes
  BY DEF AtRest
<1>3. \A j \in InviteCodes : \A x :
        x \in Admitted'[j] <=>
          \E p \in Acceptances \ {q} : acc[p].code = j /\ acc[p].subject = x
  BY <1>1, <1>2, AdmittedFunction
<1>4. \A j \in InviteCodes \ {i} : \A x : x \in Admitted'[j] <=> x \in Admitted[j]
  BY <1>3, AdmittedFunction
<1>5. \A x : x # s => (x \in Admitted'[i] <=> x \in Admitted[i])
  BY <1>3, AdmittedFunction
<1>6. \A j \in InviteCodes \ {i} : Admitted'[j] = Admitted[j]
  BY <1>4
<1>7. ASSUME NEW left, Admitted'[i] = Admitted[i] \ left
      PROVE  Admitted' = [Admitted EXCEPT ![i] = @ \ left]
  <2> DEFINE A == Admitted
             B == Admitted'
  <2>1. A = [j \in InviteCodes |-> A[j]] /\ B = [j \in InviteCodes |-> B[j]]
    BY AdmittedFunction
  <2>2. \A j \in InviteCodes : B[j] = IF j = i THEN A[i] \ left ELSE A[j]
    BY <1>6, <1>7
  <2> HIDE DEF A, B
  <2>3. B = [A EXCEPT ![i] = A[i] \ left]
    BY <2>1, <2>2
  <2> QED BY <2>3 DEF A, B
<1>8. CASE s \in Admitted'[i]
  <2>1. s \in Admitted[i]
    BY <1>8, <1>3, AdmittedFunction
  <2>2. Admitted'[i] = Admitted[i] \ {}
    BY <1>5, <1>8, <2>1
  <2> QED BY <1>7, <2>2
<1>9. CASE s \notin Admitted'[i]
  <2>1. Admitted'[i] = Admitted[i] \ {s}
    BY <1>5, <1>9
  <2> QED BY <1>7, <2>1
<1> QED BY <1>8, <1>9

LEMMA OfferStep ==
  ASSUME InvitesInv, NEW i \in InviteCodes, NEW n \in RoleNames,
         CreateInvitation(i, n)
  PROVE  Book!Offer(i)
<1> DEFINE row == [role |-> n, exp |-> clock + InviteTTL, used |-> FALSE,
                   revoked |-> FALSE]
<1>1. /\ invites \in [InviteCodes -> InviteRow \cup {None}]
      /\ invites[i] = None /\ invites' = [invites EXCEPT ![i] = row]
      /\ UNCHANGED <<clock, acc, boundBy, answered>>
  BY DEF CreateInvitation, InvitesInv, InvitesTypeOK
<1>2. clock \in Nat
  BY InvitationsAssumption DEF InvitesInv, InvitesTypeOK
<1>3. row \in InviteRow /\ ~row.used /\ ~row.revoked /\ ~(clock > row.exp)
  BY <1>2, InvitationsAssumption DEF InviteRow
<1> HIDE DEF row
<1>4. invites'[i] = row /\ row # None
  BY <1>1, <1>3
<1>5. LifeOf(invites[i])' = "open" /\ LifeOf(invites[i]) = "none"
  BY <1>1, <1>3, <1>4 DEF LifeOf
<1>6. Life' = [Life EXCEPT ![i] = LifeOf(invites[i])']
  BY <1>1, OneLife
<1> QED BY <1>1, <1>5, <1>6, LifeFunction, SameAdmitted DEF Book!Offer

LEMMA AdmitStep ==
  ASSUME InvitesInv, NEW q \in Acceptances, AcceptInvitation(q)
  PROVE  \E i \in InviteCodes, s \in Subjects : Book!Admit(i, s)
<1>1. PICK i \in InviteCodes, s \in Subjects :
        /\ invites[i] # None
        /\ Usable(invites[i])
        /\ acc' = [acc EXCEPT ![q] = [at |-> "bind", code |-> i, subject |-> s,
                                      role |-> invites[i].role]]
  BY DEF AcceptInvitation
<1>2. /\ acc \in [Acceptances -> Acceptance] /\ acc[q].code = None
      /\ clock \in Nat /\ invites[i] \in InviteRow
  BY <1>1, InvitationsAssumption
     DEF AcceptInvitation, InvitesInv, InvitesTypeOK, AcceptanceOK
<1>3. UNCHANGED Life /\ Life[i] = "open"
  <2>1. invites[i].exp \in Nat
    BY <1>2 DEF InviteRow
  <2>2. LifeOf(invites[i]) = "open"
    BY <1>1, <1>2, <2>1 DEF Usable, LifeOf
  <2> QED BY <2>2, SameLife, LifeFunction DEF AcceptInvitation
<1>4. \A j \in InviteCodes : \A x :
        x \in Admitted'[j] <=> x \in Admitted[j] \/ (j = i /\ x = s)
  <2>1. \A p \in Acceptances \ {q} : acc'[p] = acc[p]
    BY <1>1, <1>2
  <2>2. acc'[q].code = i /\ acc'[q].subject = s
    BY <1>1, <1>2
  <2> QED BY <1>2, <2>1, <2>2, AdmittedFunction
<1>5. Admitted' = [Admitted EXCEPT ![i] = @ \cup {s}]
  <2> DEFINE A == Admitted
             B == Admitted'
  <2>1. A = [j \in InviteCodes |-> A[j]] /\ B = [j \in InviteCodes |-> B[j]]
    BY AdmittedFunction
  <2>2. ASSUME NEW j \in InviteCodes
        PROVE  B[j] = IF j = i THEN A[i] \cup {s} ELSE A[j]
    <3>1. \A x : x \in B[j] <=> x \in A[j] \/ (j = i /\ x = s)
      BY <1>4
    <3> HIDE DEF A, B
    <3> QED BY <3>1
  <2> HIDE DEF A, B
  <2>3. B = [A EXCEPT ![i] = A[i] \cup {s}]
    BY <2>1, <2>2
  <2> QED BY <2>3 DEF A, B
<1>6. Book!Admit(i, s)
  BY <1>3, <1>5 DEF Book!Admit, AcceptInvitation
<1> QED BY <1>6

(* An acceptance that binds or marks has its subject among the admitted.   *)
LEMMA BindStep ==
  ASSUME InvitesInv, NEW q \in Acceptances, BindInvited(q)
  PROVE  \E i \in InviteCodes, s \in Subjects : Book!Bind(i, s)
<1> PICK i \in InviteCodes, s \in Subjects : i = acc[q].code /\ s = acc[q].subject
  BY DEF InvitesInv, AcceptanceOK, BindInvited
<1>1. s \in Admitted[i]
  BY AdmittedFunction
<1>2. \A p \in Acceptances :
        acc'[p].code = acc[p].code /\ acc'[p].subject = acc[p].subject
  BY DEF BindInvited, InvitesInv, InvitesTypeOK, Acceptance
<1>3. UNCHANGED Admitted
  <2> DEFINE A == Admitted
             B == Admitted'
  <2>1. A = [j \in InviteCodes |-> A[j]] /\ B = [j \in InviteCodes |-> B[j]]
    BY AdmittedFunction
  <2>2. \A j \in InviteCodes : \A x : x \in B[j] <=> x \in A[j]
    BY <1>2, AdmittedFunction
  <2> HIDE DEF A, B
  <2>3. \A j \in InviteCodes : B[j] = A[j]
    BY <2>2
  <2> QED BY <2>1, <2>3 DEF A, B
<1>4. Book!Bind(i, s)
  BY <1>1, <1>3, SameLife DEF Book!Bind, BindInvited
<1> QED BY <1>4

LEMMA LeaveStep ==
  ASSUME InvitesInv, NEW q \in Acceptances, Return(q), acc[q].at # "idle",
         UNCHANGED <<clock, invites, boundBy, answered>>
  PROVE  (\E i \in InviteCodes, s \in Subjects : Book!Leave(i, s))
           \/ UNCHANGED Book!book
<1> PICK i \in InviteCodes, s \in Subjects : i = acc[q].code /\ s = acc[q].subject
  BY DEF InvitesInv, AcceptanceOK
<1>1. PICK left \in SUBSET {s} : Admitted' = [Admitted EXCEPT ![i] = @ \ left]
  BY OneReturns DEF InvitesInv, InvitesTypeOK
<1>2. UNCHANGED Life
  BY SameLife
<1>3. CASE left = {}
  <2> DEFINE A == Admitted
  <2>1. A = [j \in InviteCodes |-> A[j]]
    BY AdmittedFunction
  <2>2. A' = [A EXCEPT ![i] = A[i] \ {}]
    BY <1>1, <1>3
  <2> HIDE DEF A
  <2>3. A' = A
    BY <2>1, <2>2
  <2> QED BY <1>2, <2>3 DEF A, Book!book
<1>4. CASE left = {s}
  BY <1>1, <1>2, <1>4 DEF Book!Leave
<1> QED BY <1>1, <1>3, <1>4

LEMMA UseUpStep ==
  ASSUME InvitesInv, NEW q \in Acceptances, MarkUsed(q)
  PROVE  \/ \E i \in InviteCodes, s \in Subjects :
              \/ \E left \in SUBSET {s} : Book!UseUp(i, s, left)
              \/ Book!Leave(i, s)
         \/ UNCHANGED Book!book
<1> PICK i \in InviteCodes, s \in Subjects : i = acc[q].code /\ s = acc[q].subject
  BY DEF InvitesInv, AcceptanceOK, MarkUsed
<1>1. CASE UNCHANGED <<invites, answered>>
  BY <1>1, LeaveStep DEF MarkUsed
<1>2. CASE /\ StillUnused(i)
           /\ invites' = [invites EXCEPT ![i].used = TRUE]
           /\ answered' = [answered EXCEPT ![i] = @ + 1]
  <2>1. /\ invites[i] \in InviteRow /\ s \in boundBy[i]
        /\ invites \in [InviteCodes -> InviteRow \cup {None}]
    BY DEF InvitesInv, InvitesTypeOK, AcceptanceOK, MarkUsed
  <2>2. s \in Admitted[i] \cap boundBy[i]
    BY <2>1, AdmittedFunction
  <2>3. /\ invites'[i].used /\ invites'[i] \in InviteRow
        /\ \A j \in InviteCodes \ {i} : invites'[j] = invites[j]
    BY <1>2, <2>1 DEF InviteRow
  <2>4. UNCHANGED <<clock, boundBy>> /\ Return(q)
        /\ acc \in [Acceptances -> Acceptance]
    BY DEF MarkUsed, InvitesInv, InvitesTypeOK
  <2>5. LifeOf(invites[i])' = "used"
    BY <2>3 DEF LifeOf
  <2>6. Life' = [Life EXCEPT ![i] = "used"]
    BY <2>3, <2>4, <2>5, OneLife
  <2>7. Life[i] \in {"open", "lapsed"}
    BY <1>2, <2>1, LifeFunction DEF LifeOf, StillUnused
  <2>8. PICK left \in SUBSET {s} : Admitted' = [Admitted EXCEPT ![i] = @ \ left]
    BY <2>4, OneReturns
  <2>9. Book!UseUp(i, s, left)
    BY <1>2, <2>2, <2>4, <2>6, <2>7, <2>8 DEF Book!UseUp
  <2> QED BY <2>9
<1> QED BY <1>1, <1>2 DEF MarkUsed

LEMMA RevokeStep ==
  ASSUME InvitesInv, NEW i \in InviteCodes, RevokeInvitation(i)
  PROVE  \E ended \in SUBSET InviteCodes : Book!Lapse(ended)
<1>1. /\ invites[i] \in InviteRow
      /\ invites \in [InviteCodes -> InviteRow \cup {None}]
      /\ invites' = [invites EXCEPT ![i].revoked = TRUE]
      /\ UNCHANGED <<clock, acc, boundBy, answered>>
  BY DEF RevokeInvitation, InvitesInv, InvitesTypeOK
<1>2. /\ invites'[i].revoked /\ invites'[i].used = invites[i].used
      /\ invites'[i].exp = invites[i].exp /\ invites'[i] \in InviteRow
      /\ \A j \in InviteCodes \ {i} : invites'[j] = invites[j]
  BY <1>1 DEF InviteRow
<1>3. LifeOf(invites[i])' =
        IF LifeOf(invites[i]) = "open" THEN "lapsed" ELSE LifeOf(invites[i])
  BY <1>1, <1>2 DEF LifeOf, InviteRow
<1>4. Life' = [Life EXCEPT ![i] = LifeOf(invites[i])']
  BY <1>1, <1>2, OneLife
<1> DEFINE ended == IF Life[i] = "open" THEN {i} ELSE {}
<1>5. Life' = [j \in InviteCodes |-> IF j \in ended THEN "lapsed" ELSE Life[j]]
  BY <1>3, <1>4, LifeFunction
<1>6. Book!Lapse(ended)
  BY <1>1, <1>5, SameAdmitted DEF Book!Lapse
<1> QED BY <1>6

LEMMA TickStep ==
  ASSUME InvitesInv, Tick
  PROVE  \E ended \in SUBSET InviteCodes : Book!Lapse(ended)
<1>1. clock \in Nat /\ clock' = clock + 1
  BY InvitationsAssumption DEF Tick, InvitesInv, InvitesTypeOK
<1> DEFINE ended == {j \in InviteCodes : Life[j] = "open" /\ Life'[j] # "open"}
<1>2. ASSUME NEW j \in InviteCodes
      PROVE  Life'[j] = IF j \in ended THEN "lapsed" ELSE Life[j]
  <2>1. invites'[j] = invites[j]
    BY DEF Tick
  <2>2. CASE invites[j] = None
    BY <2>1, <2>2, LifeFunction DEF LifeOf
  <2>3. CASE invites[j] # None
    <3>1. invites[j] \in InviteRow
      BY <2>3 DEF InvitesInv, InvitesTypeOK
    <3>2. invites[j].exp \in Nat
      BY <3>1 DEF InviteRow
    <3> QED BY <1>1, <2>1, <2>3, <3>2, LifeFunction DEF LifeOf
  <2> QED BY <2>2, <2>3
<1>3. Life' = [j \in InviteCodes |-> IF j \in ended THEN "lapsed" ELSE Life[j]]
  BY <1>2, LifeFunction
<1>4. Book!Lapse(ended)
  BY <1>3, SameAdmitted DEF Book!Lapse, Tick
<1> QED BY <1>4

LEMMA BookInits == InvitationsInit => Book!BookInit
<1> SUFFICES ASSUME InvitationsInit PROVE Book!BookInit
  OBVIOUS
<1>1. Life = [i \in InviteCodes |-> "none"]
  BY DEF InvitationsInit, Life, LifeOf
<1>2. \A i \in InviteCodes : \A x : x \notin Admitted[i]
  BY AdmittedFunction DEF InvitationsInit, AtRest
<1>3. Admitted = [i \in InviteCodes |-> {}]
  BY <1>2, AdmittedFunction
<1> QED BY <1>1, <1>3 DEF InvitationsInit, Book!BookInit

LEMMA BookStep ==
  ASSUME InvitesInv, [InvitationsNext]_allVars
  PROVE  [Book!BookNext]_(Book!book)
<1>1. CASE UNCHANGED inviteVars
  BY <1>1, SameLife, SameAdmitted DEF inviteVars, Book!book
<1>2. ASSUME NEW q \in Acceptances, AcceptanceAbort(q)
      PROVE  [Book!BookNext]_(Book!book)
  BY <1>2, LeaveStep DEF AcceptanceAbort, Book!BookNext
<1>3. ASSUME NEW q \in Acceptances, MarkUsed(q)
      PROVE  [Book!BookNext]_(Book!book)
  BY <1>3, UseUpStep DEF Book!BookNext
<1> QED BY <1>1, <1>2, <1>3, OfferStep, AdmitStep, BindStep, RevokeStep, TickStep
        DEF InvitationsNext, Advance, allVars, Book!BookNext

(* Every behaviour of the invitations is a behaviour of the invitation     *)
(* book.                                                                   *)
THEOREM InvitationRefinement == InvitationsSpec => ImplementsInvitationBook
<1>1. InvitesInv /\ [InvitationsNext]_allVars => [Book!BookNext]_(Book!book)
  BY BookStep
<1> QED BY <1>1, BookInits, InvitationsAlways, PTL
           DEF InvitationsSpec, ImplementsInvitationBook, Book!BookSpec

-----------------------------------------------------------------------------
(* What the invitation book is worth.                                      *)

BookInv == Book!BookTypeOK /\ Book!UsedOnceAndBound

LEMMA BookInvInit == Book!BookInit => BookInv
  BY DEF Book!BookInit, BookInv, Book!BookTypeOK, Book!UsedOnceAndBound

LEMMA BookInvKept ==
  ASSUME BookInv, [Book!BookNext]_(Book!book)
  PROVE  /\ BookInv'
         /\ \A i \in InviteCodes :
              /\ Life[i] \in {"lapsed", "used"} => Life'[i] \in {Life[i], "used"}
              /\ Admitted'[i] \subseteq Admitted[i] \/ Life[i] = "open"
              /\ boundBy'[i] \subseteq boundBy[i] \cup Admitted[i]
<1> USE DEF BookInv, Book!BookTypeOK, Book!UsedOnceAndBound
<1> DEFINE Kept ==
      \A i \in InviteCodes :
        /\ Life[i] \in {"lapsed", "used"} => Life'[i] \in {Life[i], "used"}
        /\ Admitted'[i] \subseteq Admitted[i] \/ Life[i] = "open"
        /\ boundBy'[i] \subseteq boundBy[i] \cup Admitted[i]
<1>1. ASSUME NEW i \in InviteCodes, Book!Offer(i) PROVE BookInv' /\ Kept
  BY <1>1 DEF Book!Offer
<1>2. ASSUME NEW ended \in SUBSET InviteCodes, Book!Lapse(ended)
      PROVE  BookInv' /\ Kept
  BY <1>2 DEF Book!Lapse
<1>3. ASSUME NEW i \in InviteCodes, NEW s \in Subjects,
             Book!Admit(i, s) \/ Book!Leave(i, s)
      PROVE  BookInv' /\ Kept
  BY <1>3 DEF Book!Admit, Book!Leave
<1>4. ASSUME NEW i \in InviteCodes, NEW s \in Subjects, Book!Bind(i, s)
      PROVE  BookInv' /\ Kept
  BY <1>4 DEF Book!Bind
<1>5. ASSUME NEW i \in InviteCodes, NEW s \in Subjects,
             NEW left \in SUBSET {s}, Book!UseUp(i, s, left)
      PROVE  BookInv' /\ Kept
  BY <1>5 DEF Book!UseUp
<1>6. CASE UNCHANGED Book!book
  BY <1>6 DEF Book!book
<1> QED BY <1>1, <1>2, <1>3, <1>4, <1>5, <1>6 DEF Book!BookNext

(* An invitation is answered with success exactly when it is used up, and  *)
(* then somebody has been bound; nobody comes in through one that is used, *)
(* revoked or expired, it stays so for good, and nobody is bound who has   *)
(* not come in.                                                            *)
THEOREM InvitationsAreSafe ==
  InvitationsSpec => []Book!UsedOnceAndBound /\ Book!NeverReopened
<1>1. BookInv /\ [Book!BookNext]_(Book!book) => BookInv'
  BY BookInvKept
<1>2. BookInv /\ [Book!BookNext]_(Book!book)
        => [\A i \in InviteCodes :
              /\ Life[i] \in {"lapsed", "used"} => Life'[i] \in {Life[i], "used"}
              /\ Admitted'[i] \subseteq Admitted[i] \/ Life[i] = "open"
              /\ boundBy'[i] \subseteq boundBy[i] \cup Admitted[i]]_(Book!book)
  BY BookInvKept
<1>3. BookInv => Book!UsedOnceAndBound
  BY DEF BookInv
<1> QED BY <1>1, <1>2, <1>3, BookInvInit, InvitationRefinement, PTL
           DEF ImplementsInvitationBook, Book!BookSpec, Book!NeverReopened
=============================================================================
