--------------------------- MODULE ClientRegistry ---------------------------
(***************************************************************************)
(* Dynamic client registration (internal/application/dcr) and the requests *)
(* that read what it wrote: Authorize and validateClientCredentials of      *)
(* internal/application/auth/service.go.  Save is an upsert on the client  *)
(* id, which a caller may choose, so registrations race for a row and      *)
(* replace it under the requests that have read it.                        *)
(*                                                                         *)
(* Users, grants and roles are those of TokenEndpoint, Sessions and Roles: *)
(* here a user has logged in and consented to what is asked.  A request    *)
(* that is refused changes no row and is not started.                      *)
(***************************************************************************)
EXTENDS ScopeSets, RedirectUris

CONSTANTS
  ChosenIds,         \* client ids callers register under
  FreshIds,          \* client ids idgen can return
  SeedClient,        \* the client seedLocalDevData inserts
  SeedScopes,
  Asks,              \* the registrations callers send
  Uris,              \* the redirect_uri parameters of Authorize
  Scopes,
  ScopeParameters,   \* the scope parameters of Authorize
  SupportedScopes,   \* config dcr.unknown_client_allowed_scopes
  Mode,              \* config dcr.mode
  IATRequired,       \* config dcr.iat_required
  Requests,
  MaxRegistrations,  \* bound: registrations that get as far as a secret
  Faults,            \* a database call may fail or its context be cancelled
  None

ClientIds == ChosenIds \cup FreshIds \cup {SeedClient}
GrantTypes == {"authorization_code", "refresh_token", "client_credentials"}
AuthMethods == {"none", "client_secret_post"}

(* disabled, and trust_level as far as it is looked at.                    *)
Statuses == {"active", "blocked", "disabled"}

ASSUME RegistryAssumption ==
  /\ Mode \in {"open", "guarded", "iat_required", "disabled"}
  /\ IATRequired \in BOOLEAN
  /\ MaxRegistrations \in Nat
  /\ SupportedScopes \subseteq Scopes

ASSUME CallersAssumption ==
  /\ SeedScopes \subseteq Scopes \ {""}
  /\ ScopeParameters \subseteq SUBSET Scopes
  /\ \A s \in Scopes : CanonicalScope(s) \in Scopes
  /\ \A ask \in Asks :
       /\ ask.id \in ChosenIds \cup {SeedClient, None}
       /\ ask.scopes \subseteq Scopes
       /\ ask.uris \subseteq URI

VARIABLES
  clients,  \* oauth_clients
  minted,   \* registrations that drew their secret
  codes,    \* the codes Authorize saved
  req,      \* the requests in flight
  answers,  \* history: what registrations were answered
  saved     \* history: every row a registration saved, and the redirect
            \* URIs the registration had validated and answers

registryVars == <<clients, minted, codes, req, answers, saved>>

(* A row.  secret 0 is the empty secret_sha256 of a public client; serial  *)
(* tells the registration that saved the row (history).                    *)
ClientRow(secret, serial, grants, responses, uris, scopes) ==
  [secret |-> secret, serial |-> serial, grants |-> grants,
   responses |-> responses, uris |-> uris, scopes |-> scopes,
   status |-> "active"]

SeedRow ==
  ClientRow(MaxRegistrations + 1, MaxRegistrations + 1,
            {"client_credentials"}, {}, {}, SeedScopes)

Stages == {"idle", "save", "answer", "code"}

Idle ==
  [at |-> "idle", id |-> None, row |-> None, uri |-> None, scopes |-> {}]

Serials == 0..(MaxRegistrations + 1)

RowOK(row) ==
  /\ row.secret \in Serials /\ row.serial \in Serials
  /\ row.grants \subseteq GrantTypes
  /\ row.responses \subseteq {"code"}
  /\ row.scopes \subseteq Scopes \ {""}
  /\ row.status \in Statuses

RegistryTypeOK ==
  /\ DOMAIN clients = ClientIds
  /\ \A c \in ClientIds : clients[c] = None \/ RowOK(clients[c])
  /\ minted \in 0..MaxRegistrations
  /\ \A code \in codes : code.id \in ClientIds /\ code.scopes \subseteq Scopes
  /\ DOMAIN req = Requests
  /\ \A r \in Requests :
       req[r].at \in Stages /\ req[r].id \in ClientIds \cup {None}
  /\ \A a \in answers : a.id \in ClientIds /\ RowOK(a.row)

RegistryInit ==
  /\ clients = [c \in ClientIds |-> IF c = SeedClient THEN SeedRow ELSE None]
  /\ minted = 0
  /\ codes = {}
  /\ req = [r \in Requests |-> Idle]
  /\ answers = {}
  /\ saved = {[id |-> SeedClient, row |-> SeedRow, answered |-> {}]}

-----------------------------------------------------------------------------
(* RegisterClient.                                                         *)

RequiresIAT == IATRequired \/ Mode = "iat_required"
Admitted(iat) == Mode # "disabled" /\ (RequiresIAT => iat)

NormalizeGrantTypes(grants) ==
  IF grants \ {""} = {} THEN {"client_credentials"} ELSE grants \ {""}

NormalizeResponseTypes(responses, grants) ==
  IF responses = {} /\ "authorization_code" \in grants THEN {"code"}
  ELSE responses \ {""}

ValidRedirects(uris) == {Validate(u) : u \in uris}

NormalizeScopesAgainst(in) ==
  IF in = {} THEN SupportedScopes \ {""}
  ELSE IF SupportedScopes \ {""} = {} THEN in \ {""}
  ELSE in \cap (SupportedScopes \ {""})

(* Mutant: grant types are not checked.                                    *)
AnyGrants(ask) ==
  LET grants == NormalizeGrantTypes(ask.grants) IN
  /\ NormalizeResponseTypes(ask.responses, grants) \subseteq {"code"}
  /\ ask.method \in AuthMethods \cup {""}
  /\ Invalid \notin ValidRedirects(ask.uris)
  /\ "authorization_code" \in grants => ask.uris # {}
ValidMetadata(ask) ==
  LET grants == NormalizeGrantTypes(ask.grants) IN
  /\ grants \subseteq GrantTypes
  /\ NormalizeResponseTypes(ask.responses, grants) \subseteq {"code"}
  /\ ask.method \in AuthMethods \cup {""}
  /\ Invalid \notin ValidRedirects(ask.uris)
  /\ "authorization_code" \in grants => ask.uris # {}

NewClientId(ask) ==
  IF ask.id # None THEN {ask.id}
  ELSE {c \in FreshIds : /\ clients[c] = None
                         /\ \A r \in Requests : req[r].id # c}

RegisterClient(r) ==
  /\ req[r].at = "idle"
  /\ minted < MaxRegistrations
  /\ minted' = minted + 1
  /\ \E ask \in Asks : \E id \in NewClientId(ask) :
       /\ Admitted(ask.iat)
       /\ ValidMetadata(ask)
       /\ LET grants == NormalizeGrantTypes(ask.grants)
              row == ClientRow(IF ask.method = "none" THEN 0 ELSE minted',
                       minted', grants,
                       NormalizeResponseTypes(ask.responses, grants),
                       ValidRedirects(ask.uris),
                       NormalizeScopesAgainst(ask.scopes)) IN
          req' = [req EXCEPT ![r] = [Idle EXCEPT !.at = "save", !.id = id,
                                              !.row = row]]
  /\ UNCHANGED <<clients, codes, answers, saved>>

(* Mutant: a conflict keeps the redirect URIs the row had.                 *)
KeepUris(old, row) ==
  IF old = None THEN row ELSE [row EXCEPT !.uris = old.uris]
(* ON CONFLICT(id) DO UPDATE SET every column.                             *)
Upsert(old, row) == row

Stored(row) == [row EXCEPT !.uris = ReadBack(row.uris)]

Save(r) ==
  /\ req[r].at = "save"
  /\ LET id == req[r].id
         row == Stored(Upsert(clients[id], req[r].row)) IN
     /\ clients' = [clients EXCEPT ![id] = row]
     /\ saved' = saved \cup
          {[id |-> id, row |-> row, answered |-> req[r].row.uris]}
  /\ req' = [req EXCEPT ![r].at = "answer"]
  /\ UNCHANGED <<minted, codes, answers>>

Answer(r) ==
  /\ req[r].at = "answer"
  /\ answers' = answers \cup {[id |-> req[r].id, row |-> req[r].row]}
  /\ req' = [req EXCEPT ![r] = Idle]
  /\ UNCHANGED <<clients, minted, codes, saved>>
-----------------------------------------------------------------------------
(* Requests that read a client.                                            *)

Usable(c) == clients[c] # None /\ clients[c].status = "active"

(* Authorize: the client's row decides the redirect URI and the scopes,    *)
(* the code is saved later.                                                *)
AuthorizeClient(r) ==
  /\ req[r].at = "idle"
  /\ \E c \in ClientIds, uri \in Uris, scopes \in ScopeParameters :
       /\ Usable(c)
       /\ "authorization_code" \in clients[c].grants
       /\ "code" \in clients[c].responses
       /\ uri \in clients[c].uris
       /\ GrantScopes(scopes, clients[c].scopes) # {}
       /\ req' = [req EXCEPT ![r] =
                    [Idle EXCEPT !.at = "code", !.id = c, !.uri = uri,
                       !.scopes = GrantScopes(scopes, clients[c].scopes)]]
  /\ UNCHANGED <<clients, minted, codes, answers, saved>>

(* Mutant: the row is read again for the scopes of the code.               *)
RereadClient(r) ==
  /\ req[r].at = "code"
  /\ codes' = codes \cup
       {[id |-> req[r].id, uri |-> req[r].uri,
         scopes |-> GrantScopes({}, clients[req[r].id].scopes)]}
  /\ req' = [req EXCEPT ![r] = Idle]
  /\ UNCHANGED <<clients, minted, answers, saved>>
SaveAuthorizationCode(r) ==
  /\ req[r].at = "code"
  /\ codes' = codes \cup {[id |-> req[r].id, uri |-> req[r].uri,
                           scopes |-> req[r].scopes]}
  /\ req' = [req EXCEPT ![r] = Idle]
  /\ UNCHANGED <<clients, minted, answers, saved>>

(* The secrets of a client that pass: 0 is a missing one, whose hash no    *)
(* row holds.  A blocked trust level is not looked at.                     *)
Enabled(c) == clients[c] # None /\ clients[c].status # "disabled"
ValidateClientCredentials(c, secret) ==
  Enabled(c) /\ secret # 0 /\ secret = clients[c].secret

-----------------------------------------------------------------------------
(* The environment.                                                        *)

(* An operator edits disabled or trust_level in the database.              *)
SetStatus(c, status) ==
  /\ clients[c] # None
  /\ clients' = [clients EXCEPT ![c].status = status]
  /\ UNCHANGED <<minted, codes, req, answers, saved>>

(* A database error, a cancelled request context or a crash.  The restart  *)
(* seeds with an insert that skips existing rows: nothing changes.         *)
Abort(r) ==
  /\ Faults
  /\ req[r].at # "idle"
  /\ req' = [req EXCEPT ![r] = Idle]
  /\ UNCHANGED <<clients, minted, codes, answers, saved>>

RegistryNext ==
  \/ \E r \in Requests :
       \/ RegisterClient(r)
       \/ Save(r)
       \/ Answer(r)
       \/ AuthorizeClient(r)
       \/ SaveAuthorizationCode(r)
       \/ Abort(r)
  \/ \E c \in ClientIds, status \in Statuses : SetStatus(c, status)

RegistrySpec == RegistryInit /\ [][RegistryNext]_registryVars

-----------------------------------------------------------------------------
(* Properties.                                                             *)

(* The row a registration was answered for, while no other registration    *)
(* has replaced it.                                                        *)
Current(a) == clients[a.id] # None /\ clients[a.id].serial = a.row.serial

(* What a registration was answered stays what the server goes by until    *)
(* another one takes its id, whatever races, fails or replaced a row       *)
(* before: grant types, scopes, redirect URIs, and the secret: it alone    *)
(* authenticates the client, unless an operator has disabled it, and none  *)
(* does if the client is public.  A list with a comma in a URI's query is  *)
(* read back as more entries than were answered: RedirectsAreNormal says   *)
(* which.                                                                  *)
AnsweredIsStored ==
  \A a \in answers :
    Current(a) =>
      /\ Enabled(a.id) =>
           {s \in Serials : ValidateClientCredentials(a.id, s)}
             = {a.row.secret} \ {0}
      /\ clients[a.id].grants = a.row.grants
      /\ clients[a.id].responses = a.row.responses
      /\ clients[a.id].scopes = a.row.scopes
      /\ (\A u \in a.row.uris : Len(u.query) <= 1)
           => clients[a.id].uris = a.row.uris

(* A redirect URI that registering it again would not change.              *)
Normal(u) == Allowed(u) /\ CleanPath(u.path) = u.path

(* u comes from a registration of client c: from one of the URIs it was    *)
(* answered, all normal, whole or cut at the commas of its query.          *)
Registered(c, u) ==
  \E s \in saved :
    /\ s.id = c
    /\ \E v \in s.answered : u \in Pieces(v)
    /\ \A v \in s.answered : Normal(v)

(* The server goes by no redirect URI, in a row or in a code, but those    *)
(* some registration of the same client answered, in their normal form, so *)
(* a client that repeats what it was answered passes Authorize's           *)
(* comparison.  What a comma cuts off is the one exception, see            *)
(* CodesGoWhereAllowed.                                                    *)
RedirectsAreNormal ==
  /\ \A c \in ClientIds : clients[c] # None =>
       \A u \in clients[c].uris : Registered(c, u)
  /\ \A code \in codes : Registered(code.id, code.uri)

(* src/README.md:211 and 216-220: registration validates redirect_uris as  *)
(* loopback, custom scheme or hosted HTTPS, so no code is bound to any     *)
(* other.  Not so in the code: the query of a loopback URI is not looked   *)
(* at, and what stands behind its comma is read back as an entry of its    *)
(* own that nobody validated.                                              *)
CodesGoWhereAllowed == \A code \in codes : Allowed(code.uri)

(* A code's redirect URI and scopes come from one and the same             *)
(* registration of its client, although registrations replace the row      *)
(* while requests are in flight.                                           *)
CodeFitsOneRegistration ==
  \A code \in codes : \E s \in saved :
    /\ s.id = code.id
    /\ "authorization_code" \in s.row.grants
    /\ code.uri \in s.row.uris
    /\ s.row.scopes # {} => code.scopes \subseteq NormalizeScopes(s.row.scopes)
=============================================================================
