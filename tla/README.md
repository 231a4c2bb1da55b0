# Specifications of lumen-oauth

TLA+ modules for the concurrent core of lumen-oauth, the TLC configurations that
check them, and theorems about most of it checked by TLAPS. Source references are
relative to the repository; `service.go` without a directory is
`internal/application/auth/service.go`, `repositories.go` is
`internal/infrastructure/sqlite/repositories.go`.

lumen-oauth is an OAuth 2.1 authorization server. All state is rows in one SQL
database (PostgreSQL or SQLite); every HTTP handler is a goroutine that makes a
handful of database calls, nearly all of them single statements outside any
transaction. There are no in-memory locks. So what can go wrong lies *between*
two calls: another handler of the same or another instance runs there, the clock
moves, an operator edits a row, the request's context is cancelled, the process
dies. Every module below cuts its handlers at exactly those calls.

## 1. Inventory

| Component (source) | State | Operations | Hard part | What makes it correct |
|---|---|---|---|---|
| Token endpoint, `service.go` Exchange/Refresh, `handlers/oauth.go` | `oauth_authorization_codes`, `oauth_refresh_tokens`, `oauth_grants` | exchange a code, rotate a refresh token, revoke a family on replay | read, decide, conditional UPDATE, later calls; rotation transaction against revocation statement; failures half-way | single use; lineages never fork; revocation is final; tokens stay under their grant and get no scope it has lost |
| Authorization and consent, `service.go` Authorize/Consent | grants, codes | check the grant, save a code, upsert the grant | grant changes between check and use; consents overwrite each other | scopes within one registration of the client; grant id stable |
| Scope algebra, `service.go` 732-785 | none | normalize, canonicalize, intersect | empty means "all"; lengths compared instead of sets | comparison is inclusion |
| Sessions, `service.go` Login/Me/ValidateCSRF/RevokeSession | `auth_sessions`, `users` | log in, log out, look up a user by cookie or bearer, require an administrator | session read twice in one request; revoked or expired in between | dead sessions and disabled users fall quiet; no chain of tokens outlives its links; a logout takes effect |
| Registration, `application/registration` | `email_verifications`, `users` | register, verify | count then insert; mark then create; unique e-mail decides races | accounts confirmed by their own e-mail, permanent; pending codes bounded |
| Roles and client credentials, `application/rbac`, `service.go` 619-730 | `role_scopes`, `subject_roles` | upsert, delete, bind, unbind, issue | multi-statement transactions at READ COMMITTED | a role is one upsert; tokens within roles |
| Invitations, `application/invite` | `invitations`, `subject_roles` | create, accept | bind first, mark second | one answer each; never used up without its role |
| Dynamic client registration, `application/dcr` | `oauth_clients` | register (upsert) | callers choose ids, rows are replaced under readers | what was answered is what the server goes by |
| Redirect validation, `infrastructure/redirect` | none | validate, normalize | raw text is compared later; comma lists | stored URIs come from validated ones, which are fixed points |
| Startup and shutdown, `cmd`, `bootstrap/app.go`, `auth/bootstrap.go`, `repositories.go` 52-399 | schema, seeds, bootstrap administrator | migrate, seed, create the administrator, serve, shut down | two instances at once on a half-migrated database; a crash after any statement; every restart seeds again | nobody serves too early; the administrator is created once; restarts converge |
| Configuration, `internal/config` | none | load, default, validate | none concurrent, but values `Validate` lets through can end every start | bootstrap settings in `Startup`, the other values are CONSTANTS |
| Access tokens, `infrastructure/jwt` | none: signed, never stored | sign, verify | cannot be taken back; good until `exp` whatever happens to session and user | end with their time (`Authority`) |
| JWKS, password hashing, clock, ids | none | pure functions, a clock | the clock moves between calls | clock and ids are in every module |
| HTTP routing, middleware, discovery, audit, logs, metrics | counters only | | nothing reads them back; `audit.Service` is wired to no handler | not modelled |

**Interactions.** Handlers share rows and nothing else. The token endpoint reads
clients (written by registration), grants (written by consent) and codes (written by
authorize); authorize and consent start from a session or an access token, which a
login, an exchange or a refresh has issued; invitations write the
bindings that client credentials read; administrators and the seeds of a starting
instance write roles beside both; verification and the bootstrap compete for the
administrator's e-mail.

## 2. Plan

Modules in the order of importance; those marked done exist.

1. `ScopeSets`, `TokenEndpoint`: authorization code and refresh token flows (done).
2. `CredentialLedger`, the abstract promise about single-use credentials, and
   `TokenLedger`, the refinement mapping (done).
3. `TokenInvariants` and the proofs `ScopeProofs`, `TokenProofs`, `TokenTheorems` (done).
4. `Registration`, `Sessions`, `Roles`, `Invitations` = `Roles` + invitations (done);
   `InvitationBook`, the abstract promise about invitations (done).
5. `RedirectUris`, `ClientRegistry` = redirect URIs + registration + its readers (done).
6. `AccountBook`, the abstract promise about accounts, implemented by
   `Registration`; `RegistrationProofs` (done).
7. `Startup` and `StartupProofs`; the role seeds of a starting instance in `Roles` (done).
8. `Authority` = `Sessions` + access tokens, codes and refresh tokens, by what they let
   a client do for a user and how long; `AuthorityProofs` (done).
9. `InvitationProofs`: the theorems about `Roles` and `Invitations` (done).
10. `RegistryProofs`: the theorems about `ClientRegistry` (done).
11. A registration that replaces a client's row under refreshes in flight: its scopes and
    trust level in `TokenEndpoint` (`ReplaceClient`, done); its grant types and secret there (left).

Every safety property and every action property that a passing run checks has a theorem; the
four liveness properties have none (section 5, *Only model-checked*).

## 3. How the modules correspond to the code

**Common conventions.** `req[r]` (or `acc[q]`) is the local state of a running handler:
`at` names the call it makes next, the other fields are what it has read. One
action is one database call with the computation up to the next. A request
that its first call would refuse changes nothing and is not started; a later refusal is a
return to `"idle"`. Credentials that exist may be presented by anyone at
any time, which covers lost responses, retries and stolen credentials alike. `Abort`
is a database error, a cancelled context or a crash, at any call; an open
transaction is rolled back. `Tick` advances the clock between any two calls.
A definition whose comment says *mutant* is a plausible bug kept beside the
definition it would replace; no specification uses it.

### TokenEndpoint

`grants`, `codes`, `tokens` are the tables under their unique keys. `codes[x].used` is
`used_at`, `tokens[t].next` is `replaced_by_id`. `registered` is `oauth_clients.scopes`,
`blocked` stands for `disabled` and `trust_level`; `ReplaceClient` is the upsert of a dynamic
registration under an id in use (`dcr/service.go` 85-119), which replaces both. `origin`,
`answers` and `lists`, the lists of scopes a client has ever been registered with, are history.
`Reregistrations` are the registrations to come; a run without them has clients that are registered once.

Consent reads the client's scopes, Refresh and the exchange do not: they issue the grant's. So a
registration that narrows the list leaves older grants and tokens as they are, a consent that
has read the old list still writes by it, and `ScopesStayRegistered` promises what is left: whatever
is granted or issued fits *one* list the client was registered with, not the present one.

| Flow | Actions in order |
|---|---|
| Authorize (270-338) | `AuthorizeClient`, `AuthorizeGrant`, `SaveAuthorizationCode` |
| Consent (391-428) | `ConsentClient`, `UpsertGrant` |
| ExchangeAuthorizationCode (474-513) | `ExchangeClient`, `ReadCode`, `MarkAuthorizationCodeUsed`, `ExchangeGrant`, `SaveRefreshToken` |
| Refresh (515-555) | `ReadRefreshToken`, `RefreshClient`, `RefreshGrant`, `RotateRefreshToken`, `CommitRotation` |
| Refresh of a used token (523-527) | `ReadRefreshToken`, then `RevokeAlone`, or `RevokeSnapshot` and `RevokeSnapshotRows` |

*Transactions.* `RotateRefreshToken` inserts the successor and updates the old row
`WHERE used_at IS NULL AND revoked_at IS NULL` in one transaction; between that and the
commit the old row is locked (`RowLocked`) and the new one invisible. On SQLite
a transaction keeps all other writers out (`CanWrite`). On PostgreSQL the revoking
UPDATE takes a snapshot of the family, waits for locked rows and rechecks them,
but never sees a row committed after its snapshot: hence two actions.

### Registration, Sessions and Authority, Roles, Invitations, ClientRegistry

| Module | Actions and code |
|---|---|
| `Registration` | `RegisterLookup`, `CountPending`, `GenerateCode`, `SaveEmailVerification` are Register; `GetPendingByEmailAndCode`, `CheckAccount`, `MarkEmailVerified`, `SaveUser` are VerifyEmail. `created_at` orders rows by the second, so `Newest` may be any of the latest. |
| `AccountBook` | what self-registration promises: `Register`, `Confirm`, `OpenAccount`. `Registration` maps `SaveEmailVerification`, `MarkEmailVerified` and `SaveUser` to them; every other step is a stutter. |
| `Sessions` | `LoginUser`, `VerifyPassword`, `SaveSession`; `LogoutCSRF`, `RevokeSession`; `ConsentCSRF`, `ConsentSession`; `AuthorizeSession`; `PresentBearer`; then `ReadUser` and `Act`, the rest of the handler. |
| `Authority` | `LoginAnswer` is `SaveSession` with the signed token, `BearerUser` is `PresentBearer` with one that verifies, `ActForUser` is `Act`, which for an authorization saves a code; `Redeem` is the token endpoint, which reads neither user nor session. |
| `Roles` | `CountBindings` and `DeleteRole`, `UpsertRoleScopes`, then `DeleteRows` and `Commit`, statement by statement; `BindRoleToSubject`, `UnbindRoleFromSubject` are single statements; `StartSeeds`, `SeedBinding`, `SeedScope`, `SeedsDone` are seedLocalDevData, statement by statement; `ClientCredentials`, `ListForSubject`, `SignAccessToken` are the client credentials grant. |
| `Invitations` | extends `Roles`: `AcceptInvitation` reads, `BindInvited` binds the role, `MarkUsed` is the conditional UPDATE. |
| `InvitationBook` | what invitations promise: somebody is let in while the invitation is open (`Admit`), bound once in (`Bind`), and one of those bound uses it up with its one answer (`UseUp`). `Invitations` maps its actions to them; an operator's revocation and the clock are `Lapse`, an acceptance that ends is `Leave`, every role transaction a stutter. |
| `RedirectUris` | `Validate` is validator.go; paths are segment sequences, cleaned by a fold. `ReadBack` is what the comma-joined column gives back: the text behind a comma is a URI if `Texts` has it as one, and otherwise no URI (`Rest`). |
| `ClientRegistry` | `RegisterClient` validates and draws the secret, `Save` is the upsert over every column, `Answer` the response; `AuthorizeClient`, `SaveAuthorizationCode` and `ValidateClientCredentials` read the rows. |

`Authority` keeps for each user two times instead of rows: until when an access token
is good, and from which clock reading on no code or refresh token is. Every issue can only
move them on, by the lifetime counted from the reading the handler took; how often a
credential may be spent is `TokenEndpoint`'s subject, and here those not spent may be all
there are. An exchange is one step at the clock reading its lifetimes count from.

### Startup

| Stage of an instance | Actions and code |
|---|---|
| `down` | `Launch`: main with a configuration that `Validate` accepts; the bootstrap is disabled, enabled, or enabled with credentials of blanks |
| `tables` | `CreateTable`: one CREATE TABLE IF NOT EXISTS of initSchema |
| `clientColumns`, `sessionColumns` | `EnsureOAuthClientColumns`, `EnsureAuthSessionColumns` read which columns are there; `AddColumn` is one ALTER TABLE, an error for a column added since |
| `admin` | `SeedLocalDevData` before it, then `EnsureBootstrapAdmin` looks for the account |
| `saveAdmin` | `SaveBootstrapAdmin`: insert or overwrite by id, refused by the unique e-mail |
| `serving` | `CheckAccount`, `SaveUser`: a verification of the administrator's e-mail, cut between its two calls; `Shutdown` at a signal |
| `stopping` | `CloseRepositories` after at most five seconds, with handlers still between calls |

Every failing statement ends the start (`panic` in main), so `Crash` stands for a failing
call, a refused listener and a killed process alike. The database may be new, half made
or left by an older release (`StartupInit`).

Data is abstracted: scopes are the strings whose aliases matter, everything else (ids,
e-mails, codes, redirect URIs with their PKCE challenge) is a model value;
passwords and JWT signatures are right or wrong.

## 4. Runs

Runs that pass:

| Run | Instance | Shows |
|---|---|---|
| `lineage` | PostgreSQL, 2 requests, 2 codes, 3 tokens, faults | `TypeOK`, `AnsweredOnce`, `LineageIsOneChain`, `RotationChain`, `RevokedIsFinal`; `ImplementsLedger` |
| `approval` | SQLite, 2 clients, one registered for no scope, one registered again with other scopes, 2 scope parameters, 3 tokens, 2 grant ids, faults, operators block and revoke | `CredentialsHaveTheirGrant`, `ScopesStayRegistered`, `WithdrawnScopeStaysOut`, `BlockedStaysQuiet`, `RevocationTakesLineage` |
| `liveness` | PostgreSQL, no faults, fair handlers, row locks | `RequestsReturn`, `ReplayIsRevoked` |
| `register` | 2 e-mails, 3 rows, 2 codes, faults | `TypeOK`, `ImplementsAccountBook`, `RegisteredStaysQuiet`, `SpentCodeHasAccount`, `PendingBounded` |
| `roles` | PostgreSQL, 2 roles, 2 transactions or starting instances, faults | `RoleIsRecentUpserts`, `TokensWithinRoles` |
| `invitations` | SQLite, 2 invitations, 2 acceptances, 2 role transactions, faults, revocation | `InvitationsTypeOK`, `InvitationAnsweredOnce`, `SpentInvitationQuiet`, `RoleIsOneUpsert`, `DeletedWhenUnbound`; `ImplementsInvitationBook` |
| `sessions` | 2 users, 2 sessions, 2 requests, access tokens, codes and refresh tokens that expire, faults, fair logouts | `AuthorityTypeOK`, `DeadSessionQuiet`, `AuthorityNeedsLogin`, `DisabledGainsNothing`, `LogoutTakesEffect` |
| `registry` | 2 registrations over 2 fresh ids and the seeded one, authorizations, operators, faults | `RegistryTypeOK`, `AnsweredIsStored`, `RedirectsAreNormal`, `CodeFitsOneRegistration` |
| `startup` | 2 instances, 3 tables, 3 migrated columns, any older schema, 2 crashes, fair starts | `StartupTypeOK`, `ServingIsReady`, `AdminUnlessOpened`, `AdminNeverRewritten`, `RestartsConverge` |

Runs that refute a statement of the repository:

| Run | Statement | What the code does |
|---|---|---|
| `replay_postgres` | README 449, 78: a replay makes all tokens invalid | a rotation committing after the revocation's snapshot leaves its successor valid. On SQLite it holds (theorem `SqliteRevokesChain`), and of the whole lineage (run `approval`, theorem `SqliteRevokesLineage`); what PostgreSQL keeps is in `RevokedPrefix`, `RevokedWhole` |
| `invitation_twice` | `ErrInviteUsed`, "invitation already used" | a late acceptance binds its subject before it is told |
| `redirect_commas` | README 211, 216-220: redirect URIs are validated as loopback, custom scheme or hosted HTTPS | a loopback URI's query is not looked at, and what stands behind a comma in it is read back as an entry of its own; a code is saved for a URI no rule allows. `RedirectsAreNormal` is what holds |

Further differences between documents and code that reading the code for these
modules showed, and that no run is spent on:

- README 449, 193 and 78: a replay revokes the grant. Refresh only sets `revoked_at` on the grant's refresh tokens (`service.go` 525); the grant stays active, Authorize goes on answering for it without consent, and codes already issued still exchange.
- README 241 and 195: at most five pending codes per e-mail. Count and insert are separate statements, so registrations that run together all pass the count; `PendingBounded` is what holds: at most the requests in flight, less one, above the limit.
- README 451 calls consent incremental; `UpsertGrant` replaces the scopes of earlier consents.
- README 448 and 73 put `ReplacedByID` on the new token; `RotateRefreshToken` writes it on the old one.
- The consent page ties refresh tokens to `offline_access`; Refresh does not ask whether the grant still has it (the new token then carries the grant's scopes, without it: `WithdrawnScopeStaysOut`).
- README §4.7 has the administrator created at the first start. Any account under that e-mail will do, one that somebody registered while an instance ran without a bootstrap administrator included: `AdminUnlessOpened` says when that can happen.
- `Validate` refuses an empty bootstrap e-mail or password, which `ApplyDefaults` has already filled in; one of blanks passes both and ends every start in EnsureBootstrapAdmin.
- Two instances that migrate or create the administrator together make each other's start fail; nothing in the repository starts a process again.
- README 204: mode `guarded` needs an initial access token; `requiresIAT` is true for `iat_required` only, and `service_test.go` registers without one.
- README 212: a registration generates the client id; the request may name one, and the upsert replaces that client's row, `disabled` and `trust_level` included: a blocked client is no longer blocked after it. No property says otherwise; `ReplaceClient` and `Save` do it.
- A registration that narrows a client's scopes does not narrow what its grants and refresh tokens issue (`service.go` 538-549); no document says that it should.
- `unknown_client_allowed_scopes` filters before aliases are resolved: a registration for `routes:read` alone is left without scopes, which Authorize reads as any.
- README 86 has authentication events audited; `audit.Service` is wired to no handler.

**Bounds.** Two requests are enough for every race of one request against another, as no
code path coordinates more than two. Two codes and three tokens give two
lineages, a rotation chain of length two and a replay of its middle. TTLs of
1 with a clock up to 2 reach every order of issue, use and expiry; `approval` keeps the clock still and gives its
room to clients and operators. `MaxPending` is 1 or 2 instead of 5: the overshoot depends
on the number of requests only. `MaxClock`, `MaxRegistrations` and the sets of free ids are the
only bounds on counters. Symmetry is used over ids that are never ordered, and
never in a liveness run. In `sessions` an access token and a session last one tick, codes and
refresh tokens for the reading they were issued at, so that each outlives another and all of them end
within the run. `approval` has one registration to come, which takes the read scope
from a client and gives it another: enough for a consent that read the older list to write after it, and for
refreshes on both sides. `startup` allows two crashes: one for each instance, or two in a row for one;
what comes after the last of them is again a run of starts and shutdowns without end. Deadlock checking is off where all rows and clock
readings may be used up; elsewhere an idle server can always do something.

**Fairness.** Weak fairness of `Continue(r)`: a goroutine that has started and
whose next call can return keeps running. Nothing is assumed about clients, operators, the
clock or the scheduler's choice among requests. A statement that waits for a row
lock is not enabled until the lock is free; weak fairness is enough as
locks are held only by transactions that are themselves fair. `RequestsReturn` and
`ReplayIsRevoked` are checked with `Faults = FALSE`, as a failing call may legitimately end a
request early; `LogoutTakesEffect` is checked with faults and allows for them in its statement.
`FairAuthority` assumes of all handlers only that a logout past its CSRF check runs on.
`FairStartup` assumes that a start that can go on does, and that a shutdown ends, which the five
seconds in `Run` see to. That somebody launches an instance again is the premise of
`RestartsConverge`, not an assumption: the repository leaves it to whoever runs the server.

## 5. Proofs

Checked by TLAPS for every value of the constants that meets the named assumptions:

| Theorem | Module | Statement |
|---|---|---|
| `Invariance`, `TypeCorrect` | `TokenTheorems` | `[]IInv`, `[]TypeOK` |
| `SingleUse` | `TokenTheorems` | `[]AnsweredOnce` |
| `NoFork` | `TokenTheorems` | `[]OneUnusedPerLineage`; proved only, as `LineageIsOneChain` says more |
| `OneChain` | `TokenTheorems` | `[]LineageIsOneChain` |
| `GrantsKept` | `TokenTheorems` | `[]CredentialsHaveTheirGrant` |
| `Chains` | `TokenTheorems` | `[]RotationChain` |
| `RevocationFinal` | `TokenTheorems` | `RevokedIsFinal`, an action property |
| `SqliteRevokesChain`, `SqliteRevokesLineage` | `TokenTheorems` | with `Driver = "sqlite"`, `[]RevocationReachesSuccessor`, `[]RevocationTakesLineage` |
| `RevokedPrefix`, `RevokedWhole` | `TokenTheorems` | on both drivers, `[]RevokedFromTheStart`, `[]RevokedToTheStart`: the revoked tokens of a lineage are its first ones, and all of it once its newest is; proved only |
| `NoLapse` | `TokenTheorems` | `[]LineageNeverLapses`: each token's lifetime counts from a time when its predecessor, or the code, was good; proved only |
| `BlockedIsQuiet` | `TokenTheorems` | `BlockedStaysQuiet`, an action property |
| `Refinement` | `TokenTheorems` | `Spec => Ledger!LedgerSpec` |
| `LedgerLineages` | `TokenTheorems` | `[]OneLivePerLineage` of the ledger, from the ledger's own steps and `Refinement`; proved only |
| `CoveredIsInclusion` | `ScopeProofs` | Authorize's comparison of lengths is inclusion |
| `ScopesRegistered`, `ScopesWithdrawn` | `TokenTheorems` | `[]ScopesStayRegistered`, `WithdrawnScopeStaysOut` |
| `RegistrationTypes`, `SpentCodes` | `RegistrationProofs` | `[]TypeOK`, `[]SpentCodeHasAccount` |
| `TakenIsQuiet`, `PendingLimit` | `RegistrationProofs` | `RegisteredStaysQuiet`, `[]PendingBounded` |
| `RegistrationRefinement` | `RegistrationProofs` | `Spec => Book!BookSpec` |
| `AccountsAreSafe` | `RegistrationProofs` | of the rows of `Registration`: every account is confirmed for its own e-mail and permanent |
| `RecentUpserts`, `WithinRoles` | `InvitationProofs` | `RolesSpec => []RoleIsRecentUpserts`, `TokensWithinRoles`, on both drivers |
| `OneUpsert`, `UnboundDeletion` | `InvitationProofs` | with `Driver = "sqlite"`, `[]RoleIsOneUpsert`, `[]DeletedWhenUnbound` |
| `InvitationTypes`, `OneAnswer`, `BoundBeforeUsed`, `SpentIsQuiet` | `InvitationProofs` | `[]InvitationsTypeOK`, `[]InvitationAnsweredOnce`, `[]UsedInvitationBound` (proved only), `SpentInvitationQuiet` |
| `InvitationRefinement`, `InvitationsAreSafe` | `InvitationProofs` | `InvitationsSpec => ImplementsInvitationBook`, and with it of the rows: an invitation is answered exactly when it is used up, then somebody is bound; nobody gets in once it is over |
| `InvitationsAreRoles`, `RolesWithInvitations` | `InvitationProofs` | `InvitationsSpec => RolesSpec`, so `[]RoleIsRecentUpserts` and `[]TokensWithinRoles` hold with invitations too |
| `AuthorityTypes`, `DeadIsQuiet`, `NeedsLogin`, `NothingForDisabled` | `AuthorityProofs` | `AuthoritySpec =>` `[]AuthorityTypeOK`, `DeadSessionQuiet`, `AuthorityNeedsLogin`, `DisabledGainsNothing` |
| `PowerlessForGood`, `DisabledRunsOut` | `AuthorityProofs` | the two over whole behaviours: a user who has lost everything stays so until somebody logs in as the user; a disabled user whose codes and refresh tokens have expired gets no more while disabled |
| `RegistryTypes`, `AnswersHold`, `CodesFit` | `RegistryProofs` | `[]RegistryTypeOK`, `[]AnsweredIsStored`, `[]CodeFitsOneRegistration` |
| `NormalForms` | `RegistryProofs` | `[]RedirectsAreNormal`, for any allowlists and any URIs behind commas |
| `StartupTypes`, `Readiness`, `AdminFirst`, `AdminKept` | `StartupProofs` | `[]StartupTypeOK`, `[]ServingIsReady`, `[]AdminUnlessOpened`, `AdminNeverRewritten` |
| `StartsSucceed` | `StartupProofs` | once schema and account are there, an instance launched from then on gives up only where a call fails, the process dies or its credentials are blank |

**Argument.** *Token endpoint.* `AnsweredOnce` and `OneUnusedPerLineage` are not inductive: a request
that has passed its conditional UPDATE has earned its answer although the rows do not show whose
it is. `IInv` adds what each stage may rely on. `StageOK`: rows once read still exist, under the
same key and grant id. `CommitOK`, `CommitsApart`: an open rotation owns the locked row and
the successor, and no two rotations share either. `RedeemOK`, `RedeemsApart`: a request past
`MarkAuthorizationCodeUsed` is the only one for its code and no token has come of it yet.
`CodeOK`, `TokenOK` tie rows to the history. `StagesInv` (types and stages) is preserved on its own;
`CredentialsInv` is then preserved under it, one lemma per action that writes
rows. `RotationChain` needs in addition that no request knows a later time than the
clock and that a refreshed token was issued no later than the request began
(`AgesInv`). The refinement maps the open transaction's rows to "not there yet", so its commit is the
ledger's `Rotate`, and uses `IInv` for the fork-freedom that `Open` and
`Rotate` ask for. `ScopesInv` carries the lists a client was registered with through what the requests
are about to write, which the rows do not show; `lists` only grows (`ListsStay`), so a registration
under a request in flight takes no list away.

*Lineages.* `LineageIsOneChain` speaks of paths through `replaced_by_id`. `Leads(t, u)` says that u is in
every set closed under it that has t, so following the column needs no counting: `LeadsKept` keeps
a path while rows gain successors, `LeadsOn` lengthens it by a rotation, which is the only step that
makes the unused token of a lineage used, and it puts another in its place in the same commit.
`PrefixInv` is what survives of a replay on PostgreSQL: a snapshot that has a token has everything
before it, or that is revoked already, since a token is committed before its successor
is. It makes the revoked tokens of a lineage a prefix of the chain, `RevokedFromTheStart`; with
`LineageIsOneChain` the newest token is revoked only if all are. On SQLite nobody rotates
beside a revocation, so revocation runs forwards as well. `LapseInv` adds what a
request between two calls relies on: the time it read was one at which the code or token was good.

*Registration.* `RegistrationInv` adds to types and `SpentCodeHasAccount` what a verification
knows (`StageOK`): the row it judged exists under its e-mail, and is verified once it is past
`MarkEmailVerified`. The latter is what makes `SaveUser` the book's `OpenAccount`, whose guard is
"confirmed"; that the e-mail is free is the unique key's condition. `BookInv` is the same for the
book, and `AccountsAreSafe` carries it over by the refinement. `PendingBounded` is not inductive:
`RaceBounded` counts an e-mail's pending codes together with the requests that passed the rate
limit and have not saved (`Racing`); passing it below the limit makes the sum at most one less
than the bound, and a save only moves one from the second count to the first.

*Sessions and authority.* The action properties speak of what requests have in hand, so
`AuthorityInv` adds to types what each stage has (`StageOK`). `Moves` then says
for every step of a request where a session or user it did not have before comes from, `Kept` what a
step leaves of the session rows, and `TimeSteps` who moves a user's two times on: a login's answer, an
action for the user, or a credential that is still good. Each theorem is a combination of the three;
`PowerlessForGood` and `DisabledRunsOut` put the step lemmas of two of them under a box.

*Client registry.* `AnsweredIsStored` and `CodeFitsOneRegistration` say nothing of requests between
two calls. `RegistryInv` counts as registrations those answered and those still saving or
answering (`Registrations`): each has a serial of its own, and a row that bears it agrees with it
(`RegistrationsOK`); a save therefore settles for its id which registration is current. Every row has
the scopes, URIs and grant types of some saved row (`SavedOK`), and a request about to save a code
what some saved row allowed (`FitsSaved`); saved rows are history and never go. `RedirectsAreNormal`
needs that `CleanPath`, a fold over the segments, is done when it is done once
(`CleanPathFixed`): the fold's recursion equation, and an induction that takes the least
prefix length at which the claim fails, since the least number of a set is at hand without an
operator parameter (`LeastNumber`). `NormalInv` says that the URIs a request is about to save are
valid, that those a saved row was answered with are, and that the row has nothing but pieces of them; what
rows and codes have comes from saved rows by `SavedOK` and `FitsSaved`. What is behind a comma is
then any text: nothing is assumed of `Texts`, nor of commas in the allowlists.

*Roles and invitations.* What a committing transaction leaves behind depends on rows it deleted
before others committed. `RolesInv` says of an open transaction that whatever the role has beyond
the rows it still takes (`old`) or has taken (`gone`) was committed while it was open (`over`). On
SQLite `SqliteInv` adds that one transaction is open at most, so `over` stays empty. Every
step of `Invitations` is a step of `Roles` or leaves the roles alone (`StepsOfRoles`), so `Invitations`
implements `Roles` (`InvitationsAreRoles`) and what `Roles` keeps holds there too. `InvitesInv` adds that an acceptance past the bind has its subject on record, and that an
unused invitation has no answer. The book has no requests: who is let in is read off the
acceptances under way (`Admitted`), and an invitation's life off its row and the clock (`LifeOf`). One tick of the
clock may end any number of invitations, hence `Lapse` of a set; two acceptances of one
subject make the leaving of one a stutter or a `Leave`. That `MarkUsed` is the book's `UseUp`
is where `InvitesInv` is needed: a subject past the bind is on record.

*Startup.* `ServingIsReady` is not inductive: `StartupInv` says for each phase which tables exist and
that a column that does not is still in the instance's list (`PhaseOK`), and that a
verification in flight means that an instance has served without an administrator or that the account exists. Rows and columns are only ever added (`Grows`).
What starts can lose a race for is a column or the administrator they found missing; an instance
that is down holds neither (`DownInv`), and on a finished database none comes into its hands again
(`Unraced`, stable from then on): the safety half of `RestartsConverge`.

**Assumptions** are the named ASSUMEs of the modules: TTLs and bounds are
naturals; codes and tokens are different strings; registered scopes are scopes;
the redirect URIs asked for are parsed ones (`ask.uris \subseteq URI`); scopes are closed under `CanonicalScope`; the seeded client's list has no blank entry
(`CallersAssumption`; for every other row `RegistryTypes` proves it, whatever the configured list has);
what a text behind a comma is as a URI has a scheme and no comma (`TextsAssumption`); the tables that are migrated are among the tables and no column belongs to both;
`None` is no value; the requests in flight are finitely many and the server can have one. TLC
evaluates them in every run. `CoveredIsInclusion` assumes that the scope sets are finite.

**Only model-checked.** Liveness and anything with ENABLED is outside the prover's reach and
stays with TLC (`RequestsReturn`, `ReplayIsRevoked`, `LogoutTakesEffect`, `RestartsConverge`).
The lineage properties that are proved only hold of the `lineage` and `approval` instances too; no run is
spent on them. `RevocationTakesLineage`, `RoleIsOneUpsert` and `DeletedWhenUnbound` are proved for SQLite, where
they hold.

## 6. Not modelled

- Signatures and encoding of access tokens; a token is well signed or not presented. What
  counts is whose it is and until when (`Authority`), not its scopes or audience, by which
  no handler decides.
- The grant, the client and the scopes in `Authority`, the user in `TokenEndpoint`: each looks
  at the part of Authorize the other leaves out. Neither exchange nor refresh reads the user row.
- User information in front of a loopback URI's host, which the validator does not look at either:
  a comma in it would cut the URI as one in the query does. Blanks around a piece, which reading
  trims. `AnsweredIsStored` compares the URIs of lists without commas only and says so; for the others
  `RedirectsAreNormal` says what is read back.
- Commas in scope names: a client whose list is not filtered (`SupportedScopes` empty) could
  have one, and scopes are joined and split in the same way.
- Ports, case folding and IP parsing of hosts beyond what `RedirectUris` tells apart.
- E-mail delivery: whoever presents a code may have received it, so every
  existing code may be presented.
- In `Startup`: an older database that already has an account under the administrator's e-mail;
  PostgreSQL's catalog conflict when two instances create one table at the same instant, which is
  a failing call; the rows of the seeds, which are in `Roles` and `ClientRegistry`.
- Configuration beyond the bootstrap administrator and the values that are CONSTANTS.
- JWKS, password hashing, HTTP routing, middleware, discovery, audit, logging, metrics:
  pure, stateless or read by nothing, listed in `PROJECT.json`.
