------------------------------- MODULE Roles -------------------------------
(***************************************************************************)
(* Roles, their scopes and the subjects bound to them, with the client     *)
(* credentials grant that lives off them: internal/application/rbac, the   *)
(* role tables of internal/infrastructure/sqlite/repositories.go, the      *)
(* seeds every start of an instance puts into them, and                    *)
(* IssueClientCredentials of internal/application/auth/service.go.         *)
(*                                                                         *)
(* UpsertRoleScopes and DeleteRole are transactions of several statements. *)
(* SQLite runs one writing transaction at a time; one that was overtaken   *)
(* between its first read and its first write fails and changes nothing.   *)
(* PostgreSQL runs them READ COMMITTED: every statement sees what is       *)
(* committed when it starts, waits for rows another transaction holds, and *)
(* then skips those that are gone.                                         *)
(***************************************************************************)
EXTENDS ScopeSets

CONSTANTS
  Subjects,         \* user and client ids that can be bound to a role
  Clients,          \* the subjects validateClientCredentials accepts
  RoleNames,
  Scopes,
  ScopeLists,       \* the scope sets an upsert of a role may carry
  ScopeParameters,  \* the scope parameters of the token endpoint
  Requests,         \* transactions, token requests and starting instances
                    \* in flight together
  SeedClient,       \* local-dev-client
  SeedRole,         \* local-dev-operator; None if the roles are all others
  SeedScopes,       \* the scopes it is seeded with
  Driver,           \* config storage.driver
  Faults,           \* a database call may fail or its context be cancelled
  None

ASSUME RolesAssumption ==
  /\ Clients \subseteq Subjects
  /\ SeedRole \in RoleNames \cup {None}
  /\ SeedRole # None => SeedClient \in Subjects
  /\ SeedScopes \subseteq Scopes
  /\ ScopeLists \subseteq SUBSET Scopes
  /\ ScopeParameters \subseteq SUBSET Scopes
  /\ \A s \in Scopes : CanonicalScope(s) \in Scopes
  /\ Driver \in {"postgres", "sqlite"}
ASSUME BlankAssumption == "" \notin Scopes  \* blank entries are left out

VARIABLES
  roleScopes,  \* role_scopes: the committed scopes of each role
  bindings,    \* subject_roles
  req,         \* the transactions and token requests in flight
  asked        \* history: the scopes the last committed transaction wanted
               \* of a role, and those that were committed to it while that
               \* one was open or since

roleVars == <<roleScopes, bindings, req, asked>>

Stages == {"idle", "counted", "deleting", "insert", "listRoles", "sign",
           "seedBinding", "seedScopes"}

(* old: the rows a DELETE has still to take, gone: those it has taken,     *)
(* drop: the transaction is DeleteRole's, over (history): the scopes that  *)
(* were committed to the role while the transaction was open.              *)
RoleRequest ==
  [at : Stages, role : RoleNames \cup {None}, client : Clients \cup {None},
   drop : BOOLEAN, scopes : SUBSET Scopes, old : SUBSET Scopes,
   gone : SUBSET Scopes, over : SUBSET Scopes]

Idle ==
  [at |-> "idle", role |-> None, client |-> None, drop |-> FALSE,
   scopes |-> {}, old |-> {}, gone |-> {}, over |-> {}]

RolesTypeOK ==
  /\ roleScopes \in [RoleNames -> SUBSET Scopes]
  /\ bindings \subseteq Subjects \X RoleNames
  /\ req \in [Requests -> RoleRequest]
  /\ asked \in [RoleNames -> SUBSET Scopes]

RolesInit ==
  /\ roleScopes = [n \in RoleNames |-> {}]
  /\ bindings = {}
  /\ req = [r \in Requests |-> Idle]
  /\ asked = [n \in RoleNames |-> {}]

Finish(r) == req' = [req EXCEPT ![r] = Idle]

Bound(n) == \E s \in Subjects : <<s, n>> \in bindings

(* The transactions that keep SQLite's other writers out; the mutant       *)
(* counts the bindings before it begins.                                   *)
HoldsDeletes(r) == req[r].at \in {"deleting", "insert"}
InTransaction(r) == req[r].at \in {"counted", "deleting", "insert"}

CanWrite == Driver = "postgres" \/ \A r \in Requests : ~InTransaction(r)

Others(r) ==
  {q \in Requests \ {r} : req[q].at = "insert" /\ req[q].role = req[r].role}

-----------------------------------------------------------------------------
(* The statements of UpsertRoleScopes and DeleteRole.                      *)

(* r goes on with next; what it has taken from the role and given to it    *)
(* shows in the transactions still open on that role.                      *)
Overlapped(r, next, taken, given) ==
  [q \in Requests |->
    CASE q = r -> next
      [] q # r /\ InTransaction(q) /\ req[q].role = req[r].role ->
           [req[q] EXCEPT !.old = @ \ taken, !.over = @ \cup given]
      [] OTHER -> req[q]]

(* Mutant: the rows the role had before are left in place.                 *)
NoRows(n) == {}
RowsOf(n) == roleScopes[n]

UpsertRoleScopes(r) ==
  /\ req[r].at = "idle"
  /\ CanWrite
  /\ \E n \in RoleNames, scopes \in ScopeLists :
       req' = [req EXCEPT ![r] = [Idle EXCEPT !.at = "deleting", !.role = n,
                                    !.scopes = scopes, !.old = RowsOf(n)]]
  /\ UNCHANGED <<roleScopes, bindings, asked>>

CountBindings(r) ==
  /\ req[r].at = "idle"
  /\ CanWrite
  /\ \E n \in RoleNames :
       /\ ~Bound(n)
       /\ req' = [req EXCEPT ![r] = [Idle EXCEPT !.at = "counted", !.role = n,
                                              !.drop = TRUE]]
  /\ UNCHANGED <<roleScopes, bindings, asked>>

DeleteRole(r) ==
  /\ req[r].at = "counted"
  /\ req' = [req EXCEPT ![r].at = "deleting", ![r].old = RowsOf(req[r].role)]
  /\ UNCHANGED <<roleScopes, bindings, asked>>

(* The DELETE has its rows once no other transaction holds one of them.    *)
DeleteRows(r) ==
  /\ req[r].at = "deleting"
  /\ \A q \in Others(r) : req[q].gone \cap req[r].old = {}
  /\ req' = [req EXCEPT ![r].at = "insert", ![r].gone = req[r].old,
                        ![r].old = {}]
  /\ UNCHANGED <<roleScopes, bindings, asked>>

(* The INSERTs and the commit.  An INSERT waits for a transaction that has *)
(* deleted the same row, and finds it taken if it is committed.  Uncommit- *)
(* ted inserts of others are not kept: the first to commit takes the row.  *)
Commit(r) ==
  /\ req[r].at = "insert"
  /\ LET n == req[r].role
         left == roleScopes[n] \ req[r].gone IN
     /\ \A q \in Others(r) : req[q].gone \cap req[r].scopes = {}
     /\ \/ /\ left \cap req[r].scopes # {}
           /\ Finish(r)
           /\ UNCHANGED <<roleScopes, asked>>
        \/ /\ left \cap req[r].scopes = {}
           /\ roleScopes' = [roleScopes EXCEPT ![n] = left \cup req[r].scopes]
           /\ asked' = [asked EXCEPT ![n] = req[r].scopes \cup req[r].over]
           /\ req' = Overlapped(r, Idle, req[r].gone, req[r].scopes)
  /\ UNCHANGED bindings

(* Single statements.                                                      *)
BindRoleToSubject(s, n) ==
  /\ CanWrite
  /\ bindings' = bindings \cup {<<s, n>>}
  /\ UNCHANGED <<roleScopes, req, asked>>

UnbindRoleFromSubject(s, n) ==
  /\ CanWrite
  /\ bindings' = bindings \ {<<s, n>>}
  /\ UNCHANGED <<roleScopes, req, asked>>

-----------------------------------------------------------------------------
(* seedLocalDevData, at every start of an instance: the binding and then   *)
(* the scopes one by one, each INSERT leaving a row alone that is there.   *)

StartSeeds(r) ==
  /\ SeedRole # None
  /\ req[r].at = "idle"
  /\ req' = [req EXCEPT ![r] = [Idle EXCEPT !.at = "seedBinding",
                                  !.role = SeedRole, !.scopes = SeedScopes]]
  /\ UNCHANGED <<roleScopes, bindings, asked>>

SeedBinding(r) ==
  /\ req[r].at = "seedBinding"
  /\ CanWrite
  /\ bindings' = bindings \cup {<<SeedClient, req[r].role>>}
  /\ req' = [req EXCEPT ![r].at = "seedScopes"]
  /\ UNCHANGED <<roleScopes, asked>>

(* The INSERT waits for a transaction that has deleted the row.            *)
SeedScope(r) ==
  /\ req[r].at = "seedScopes"
  /\ CanWrite
  /\ LET n == req[r].role IN
     \E s \in req[r].scopes :
       /\ \A q \in Others(r) : s \notin req[q].gone
       /\ roleScopes' = [roleScopes EXCEPT ![n] = @ \cup {s}]
       /\ asked' = [asked EXCEPT ![n] = @ \cup {s}]
       /\ req' = Overlapped(r, [req[r] EXCEPT !.scopes = @ \ {s}], {}, {s})
  /\ UNCHANGED bindings

SeedsDone(r) ==
  /\ req[r].at = "seedScopes"
  /\ req[r].scopes = {}
  /\ Finish(r)
  /\ UNCHANGED <<roleScopes, bindings, asked>>

-----------------------------------------------------------------------------
(* grant_type=client_credentials: client, roles of the subject, token.     *)

ClientCredentials(r) ==
  /\ req[r].at = "idle"
  /\ \E c \in Clients, p \in ScopeParameters :
       req' = [req EXCEPT ![r] = [Idle EXCEPT !.at = "listRoles",
                                              !.client = c, !.scopes = p]]
  /\ UNCHANGED <<roleScopes, bindings, asked>>

AllowedScopes(s) == UNION {roleScopes[n] : n \in {m \in RoleNames : <<s, m>> \in bindings}}

(* Mutant: no check that the roles allow anything, before grantScopes      *)
(* reads "nothing allowed" as "nothing restricted".                        *)
AnyRoles(c) == TRUE
HasRoles(c) == AllowedScopes(c) # {}

ListForSubject(r) ==
  /\ req[r].at = "listRoles"
  /\ LET c == req[r].client
         granted == GrantScopes(req[r].scopes, AllowedScopes(c)) IN
     IF HasRoles(c) /\ granted # {}
     THEN req' = [req EXCEPT ![r].at = "sign", ![r].scopes = granted]
     ELSE Finish(r)
  /\ UNCHANGED <<roleScopes, bindings, asked>>

SignAccessToken(r) ==
  /\ req[r].at = "sign"
  /\ Finish(r)
  /\ UNCHANGED <<roleScopes, bindings, asked>>

-----------------------------------------------------------------------------
(* A database error, a cancelled request context or a crash: an open       *)
(* transaction is rolled back.                                             *)
RolesAbort(r) ==
  /\ Faults
  /\ req[r].at # "idle"
  /\ Finish(r)
  /\ UNCHANGED <<roleScopes, bindings, asked>>

RolesNext ==
  \/ \E r \in Requests :
       \/ UpsertRoleScopes(r)
       \/ CountBindings(r)
       \/ DeleteRole(r)
       \/ DeleteRows(r)
       \/ Commit(r)
       \/ StartSeeds(r)
       \/ SeedBinding(r)
       \/ SeedScope(r)
       \/ SeedsDone(r)
       \/ ClientCredentials(r)
       \/ ListForSubject(r)
       \/ SignAccessToken(r)
       \/ RolesAbort(r)
  \/ \E s \in Subjects, n \in RoleNames :
       BindRoleToSubject(s, n) \/ UnbindRoleFromSubject(s, n)

RolesSpec == RolesInit /\ [][RolesNext]_roleVars

-----------------------------------------------------------------------------
(* Properties.                                                             *)

(* SQLite: a role has exactly the scopes of the last upsert that committed *)
(* and what was seeded since, none left over from an earlier one, and none *)
(* after its deletion (UpsertRoleScopes deletes and inserts in one         *)
(* transaction).                                                           *)
RoleIsOneUpsert == \A n \in RoleNames : roleScopes[n] = asked[n]

(* PostgreSQL, where two concurrent upserts can leave the union of both: a *)
(* role still has no scope but those of its last upsert, of upserts that   *)
(* committed while that one was open, and of seeds during or after it.     *)
RoleIsRecentUpserts == \A n \in RoleNames : roleScopes[n] \subseteq asked[n]

(* A token request is answered only with scopes its client holds through   *)
(* its roles at the time they are read, and never for a client without     *)
(* roles, whatever it asks for (IssueClientCredentials).                   *)
TokensWithinRoles ==
  [][\A r \in Requests :
       req[r].at # "sign" /\ req'[r].at = "sign" =>
         /\ req'[r].scopes # {}
         /\ req'[r].scopes \subseteq NormalizeScopes(AllowedScopes(req[r].client))]_roleVars

(* SQLite: no subject is bound to a role while a transaction that deletes  *)
(* it is open, so a deletion never takes the scopes of a bound role        *)
(* (DeleteRole counts and deletes in one transaction).  On PostgreSQL a    *)
(* binding can commit in between.                                          *)
DeletedWhenUnbound == \A r \in Requests : req[r].drop => ~Bound(req[r].role)
=============================================================================
