------------------------------ MODULE Startup ------------------------------
(***************************************************************************)
(* How instances of the server come up, serve and go down on one database: *)
(* cmd/main.go, internal/bootstrap/app.go, the schema part of              *)
(* internal/infrastructure/sqlite/repositories.go and EnsureBootstrapAdmin *)
(* of internal/application/auth/bootstrap.go.  Every statement of a start  *)
(* is a transaction of its own and nothing keeps a second instance out: it *)
(* may be starting, serving or stopping at the same time.                  *)
(*                                                                         *)
(* Any failing call ends a start: main panics and the process is gone.     *)
(* Whether it is launched again is up to whoever runs it.  Of the users    *)
(* only the account under the administrator's e-mail is kept, which anyone *)
(* may also register for (VerifyEmail of Registration).  The rows of the   *)
(* seeds are in Roles and ClientRegistry.                                  *)
(***************************************************************************)
EXTENDS FiniteSets, Naturals

CONSTANTS
  Instances,
  Tables,
  ClientColumns,   \* what ensureOAuthClientColumns adds when it is missing
  SessionColumns,  \* what ensureAuthSessionColumns adds
  AccountIds,      \* ids idgen can return
  MaxCrashes,      \* bound: crashes and failing calls
  None

ASSUME StartupAssumption ==
  /\ {"oauth_clients", "auth_sessions"} \subseteq Tables
  /\ ClientColumns \cap SessionColumns = {}
  /\ MaxCrashes \in Nat

VARIABLES
  tables,   \* the tables that exist
  columns,  \* the migrated columns that exist
  account,  \* the users row under the administrator's e-mail
  inst,     \* the instances
  signups,  \* instances where VerifyEmail has seen the e-mail free
  opened,   \* history: an instance has served without a bootstrap admin
  crashes

startVars == <<tables, columns, account, inst, signups, opened, crashes>>

Columns == ClientColumns \cup SessionColumns

(* by: the instance that created it as its administrator, None for a user  *)
(* who registered.                                                         *)
AccountRow == [id : AccountIds, by : Instances \cup {None}]

ASSUME NoneAssumption == None \notin Instances \cup AccountIds \cup AccountRow

Phases == {"down", "tables", "clientColumns", "sessionColumns", "admin",
           "saveAdmin", "serving", "stopping"}

(* config bootstrap_admin: ApplyDefaults fills in an empty e-mail or       *)
(* password, Validate lets one of nothing but blanks pass.                 *)
Settings == {"disabled", "blank", "enabled"}

(* missing: the columns of the table at hand that tableColumns did not     *)
(* find.                                                                   *)
InstanceState ==
  [at : Phases, bootstrap : Settings, missing : SUBSET Columns]

Down == [at |-> "down", bootstrap |-> "disabled", missing |-> {}]

StartupTypeOK ==
  /\ tables \subseteq Tables
  /\ columns \subseteq Columns
  /\ account \in AccountRow \cup {None}
  /\ inst \in [Instances -> InstanceState]
  /\ signups \subseteq Instances
  /\ opened \in BOOLEAN
  /\ crashes \in 0..MaxCrashes

ColumnsOf(t) ==
  CASE t = "oauth_clients" -> ClientColumns
    [] t = "auth_sessions" -> SessionColumns
    [] OTHER -> {}

(* An empty database, or one an older release has left behind, in either   *)
(* case without the account.                                               *)
StartupInit ==
  /\ tables \in SUBSET Tables
  /\ columns \in SUBSET UNION {ColumnsOf(t) : t \in tables}
  /\ account = None
  /\ inst = [i \in Instances |-> Down]
  /\ signups = {}
  /\ opened = FALSE
  /\ crashes = 0

(* The process ends and its handlers with it, between two calls.           *)
Ends(i) ==
  /\ inst' = [inst EXCEPT ![i] = Down]
  /\ signups' = signups \ {i}

At(i, phase) == inst' = [inst EXCEPT ![i].at = phase]

Serves(i) ==
  /\ At(i, "serving")
  /\ opened' = (opened \/ inst[i].bootstrap = "disabled")

-----------------------------------------------------------------------------
(* The schema.                                                             *)

Launch(i) ==
  /\ inst[i].at = "down"
  /\ \E b \in Settings :
       inst' = [inst EXCEPT ![i] = [Down EXCEPT !.at = "tables", !.bootstrap = b]]
  /\ UNCHANGED <<tables, columns, account, signups, opened, crashes>>

(* CREATE TABLE IF NOT EXISTS does nothing for a table that is there.      *)
CreateTable(i) ==
  /\ inst[i].at = "tables"
  /\ \E t \in Tables \ tables :
       /\ tables' = tables \cup {t}
       /\ columns' = columns \cup ColumnsOf(t)
  /\ UNCHANGED <<account, inst, signups, opened, crashes>>

(* Mutant: the columns are added without asking which exist.               *)
AddAllColumns(i) ==
  /\ inst[i].at = "tables"
  /\ tables = Tables
  /\ inst' = [inst EXCEPT ![i].at = "clientColumns", ![i].missing = ClientColumns]
  /\ UNCHANGED <<tables, columns, account, signups, opened, crashes>>
EnsureOAuthClientColumns(i) ==
  /\ inst[i].at = "tables"
  /\ tables = Tables
  /\ inst' = [inst EXCEPT ![i].at = "clientColumns",
                          ![i].missing = ClientColumns \ columns]
  /\ UNCHANGED <<tables, columns, account, signups, opened, crashes>>

EnsureAuthSessionColumns(i) ==
  /\ inst[i].at = "clientColumns"
  /\ inst[i].missing = {}
  /\ inst' = [inst EXCEPT ![i].at = "sessionColumns",
                          ![i].missing = SessionColumns \ columns]
  /\ UNCHANGED <<tables, columns, account, signups, opened, crashes>>

(* A column another instance has added since is an error; the mutant takes *)
(* it for a sign that the other one does the rest.                         *)
LeaveRestToOther(i) ==
  /\ \E c \in inst[i].missing :
       IF c \in columns
       THEN inst' = [inst EXCEPT ![i].missing = {}] /\ UNCHANGED columns
       ELSE /\ columns' = columns \cup {c}
            /\ inst' = [inst EXCEPT ![i].missing = @ \ {c}]
  /\ UNCHANGED <<tables, account, signups, opened, crashes>>
AddColumn(i) ==
  /\ \E c \in inst[i].missing :
       \/ /\ c \in columns
          /\ Ends(i)
          /\ UNCHANGED columns
       \/ /\ c \notin columns
          /\ columns' = columns \cup {c}
          /\ inst' = [inst EXCEPT ![i].missing = @ \ {c}]
          /\ UNCHANGED signups
  /\ UNCHANGED <<tables, account, opened, crashes>>

-----------------------------------------------------------------------------
(* Seeds and administrator.                                                *)

(* Mutant: the instance listens while it still looks for its administrator.*)
SeedAndServe(i) ==
  /\ inst[i].at = "sessionColumns"
  /\ inst[i].missing = {}
  /\ At(i, "serving")
  /\ UNCHANGED <<tables, columns, account, signups, opened, crashes>>
SeedLocalDevData(i) ==
  /\ inst[i].at = "sessionColumns"
  /\ inst[i].missing = {}
  /\ At(i, "admin")
  /\ UNCHANGED <<tables, columns, account, signups, opened, crashes>>

(* Any account under the e-mail will do.                                   *)
AccountTaken(i) == inst[i].bootstrap = "enabled" /\ account # None

EnsureBootstrapAdmin(i) ==
  /\ inst[i].at = "admin"
  /\ \/ /\ inst[i].bootstrap = "blank"
        /\ Ends(i)
        /\ UNCHANGED opened
     \/ /\ inst[i].bootstrap = "enabled"
        /\ account = None
        /\ At(i, "saveAdmin")
        /\ UNCHANGED <<signups, opened>>
     \/ /\ inst[i].bootstrap = "disabled" \/ AccountTaken(i)
        /\ Serves(i)
        /\ UNCHANGED signups
  /\ UNCHANGED <<tables, columns, account, crashes>>

(* idgen never returns an id twice.  Mutants: no id at all, and the id     *)
(* usr-bootstrap-admin, which every instance uses when it has no idgen.    *)
NoIds == {None}
FallbackIds == {CHOOSE id \in AccountIds : TRUE}
FreshIds == {id \in AccountIds : account # None => account.id # id}

(* INSERT ... ON CONFLICT(id) DO UPDATE: a row under the same id is over-  *)
(* written, another row under the same e-mail is an error.                 *)
Accepted(id) == account # None => account.id = id

SaveBootstrapAdmin(i) ==
  /\ inst[i].at = "saveAdmin"
  /\ \E id \in FreshIds :
       \/ /\ Accepted(id)
          /\ account' = [id |-> id, by |-> i]
          /\ Serves(i)
          /\ UNCHANGED signups
       \/ /\ ~Accepted(id)
          /\ Ends(i)
          /\ UNCHANGED <<account, opened>>
  /\ UNCHANGED <<tables, columns, crashes>>

-----------------------------------------------------------------------------
(* Serving: a verification for the administrator's e-mail, cut between its *)
(* look-up of the account and its insert.                                  *)

CheckAccount(i) ==
  /\ inst[i].at = "serving"
  /\ i \notin signups
  /\ account = None
  /\ signups' = signups \cup {i}
  /\ UNCHANGED <<tables, columns, account, inst, opened, crashes>>

SaveUser(i) ==
  /\ i \in signups
  /\ \E id \in FreshIds :
       account' = IF Accepted(id) THEN [id |-> id, by |-> None] ELSE account
  /\ signups' = signups \ {i}
  /\ UNCHANGED <<tables, columns, inst, opened, crashes>>

-----------------------------------------------------------------------------
(* SIGTERM: no new requests, five seconds for those in flight; then the    *)
(* repositories are closed and the process ends, handlers or not.          *)

Shutdown(i) ==
  /\ inst[i].at = "serving"
  /\ At(i, "stopping")
  /\ UNCHANGED <<tables, columns, account, signups, opened, crashes>>

CloseRepositories(i) ==
  /\ inst[i].at = "stopping"
  /\ Ends(i)
  /\ UNCHANGED <<tables, columns, account, opened, crashes>>

(* A crash at any time, or a call of a start that fails.                   *)
Crash(i) ==
  /\ inst[i].at # "down"
  /\ crashes < MaxCrashes
  /\ crashes' = crashes + 1
  /\ Ends(i)
  /\ UNCHANGED <<tables, columns, account, opened>>

Continue(i) ==
  \/ CreateTable(i)
  \/ EnsureOAuthClientColumns(i)
  \/ EnsureAuthSessionColumns(i)
  \/ AddColumn(i)
  \/ SeedLocalDevData(i)
  \/ EnsureBootstrapAdmin(i)
  \/ SaveBootstrapAdmin(i)
  \/ CloseRepositories(i)

StartupNext ==
  \E i \in Instances :
    \/ Launch(i)
    \/ Continue(i)
    \/ CheckAccount(i)
    \/ SaveUser(i)
    \/ Shutdown(i)
    \/ Crash(i)

StartupSpec == StartupInit /\ [][StartupNext]_startVars

(* A start goes on and a shutdown is over after its five seconds.  Nobody  *)
(* is obliged to launch an instance.                                       *)
FairStartup == StartupSpec /\ \A i \in Instances : WF_startVars(Continue(i))

-----------------------------------------------------------------------------
(* Properties.                                                             *)

Up(i) == inst[i].at \in {"serving", "stopping"}

(* No handler runs on an instance before the schema is complete, and, if   *)
(* it was launched with a bootstrap administrator, before there is an      *)
(* account under that e-mail, however the instances share the work of      *)
(* their starts and wherever they die in it (New returns before Run).      *)
ServingIsReady ==
  \A i \in Instances : Up(i) =>
    /\ tables = Tables
    /\ columns = Columns
    /\ inst[i].bootstrap = "enabled" => account # None

(* Nobody who registers gets the administrator's e-mail unless an instance *)
(* has served without a bootstrap administrator (EnsureBootstrapAdmin runs *)
(* before the server listens).                                             *)
AdminUnlessOpened == account # None /\ account.by = None => opened

(* The account is created once: neither a later start nor a concurrent one *)
(* replaces its id or its password (SaveUser against the unique e-mail).   *)
AdminNeverRewritten == [][account # None => account' = account]_startVars

(* An instance that is launched again whenever it has gone down, and in    *)
(* the end without blank credentials, serves in the end, although starts   *)
(* that race for a column or for the account make each other fail.         *)
RestartsConverge ==
  \A i \in Instances :
    []<>(inst[i].at # "down") /\ <>[](inst[i].bootstrap # "blank")
      => []<>(inst[i].at = "serving")
=============================================================================
