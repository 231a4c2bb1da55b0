--------------------------- MODULE StartupProofs ---------------------------
(* What holds of every number of instances, tables and columns. *)
EXTENDS Startup, TLAPS

(* What an instance may rely on at each phase of its start: nothing that   *)
(* it has found or done is undone by another instance.                     *)
PhaseOK(i) ==
  /\ inst[i].at \notin {"down", "tables"} => tables = Tables
  /\ inst[i].at = "clientColumns" =>
       /\ inst[i].missing \subseteq ClientColumns
       /\ ClientColumns \subseteq columns \cup inst[i].missing
  /\ inst[i].at = "sessionColumns" =>
       /\ ClientColumns \subseteq columns
       /\ inst[i].missing \subseteq SessionColumns
       /\ SessionColumns \subseteq columns \cup inst[i].missing
  /\ inst[i].at \in {"admin", "saveAdmin"} \/ Up(i) => columns = Columns
  /\ inst[i].at = "saveAdmin" => inst[i].bootstrap = "enabled"
  /\ Up(i) =>
       \/ inst[i].bootstrap = "enabled" /\ account # None
       \/ inst[i].bootstrap = "disabled" /\ opened

StartupInv ==
  /\ StartupTypeOK
  /\ \A i \in Instances : PhaseOK(i)
  /\ signups # {} => opened
  /\ AdminUnlessOpened

(* What no step takes back.                                                *)
Grows ==
  /\ tables \subseteq tables'
  /\ columns \subseteq columns'
  /\ opened => opened'
  /\ account # None => account' = account

LEMMA InitInv == StartupInit => StartupInv
<1> SUFFICES ASSUME StartupInit PROVE StartupInv
  OBVIOUS
<1>1. columns \subseteq Columns
  BY DEF StartupInit, ColumnsOf, Columns
<1>2. Down \in InstanceState
  BY DEF Down, InstanceState, Phases, Settings
<1>3. StartupTypeOK
  <2>1. inst \in [Instances -> InstanceState]
    BY <1>2 DEF StartupInit
  <2>2. crashes \in 0..MaxCrashes
    BY StartupAssumption DEF StartupInit
  <2> QED BY <1>1, <2>1, <2>2 DEF StartupInit, StartupTypeOK
<1>4. ASSUME NEW i \in Instances PROVE PhaseOK(i)
  BY DEF StartupInit, PhaseOK, Down, Up
<1> QED BY <1>3, <1>4 DEF StartupInv, StartupInit, AdminUnlessOpened

(* A step of one instance leaves to the others what they rely on.          *)
LEMMA OthersKeep ==
  ASSUME StartupTypeOK, StartupTypeOK', Grows,
         NEW j \in Instances, PhaseOK(j), inst'[j] = inst[j]
  PROVE  PhaseOK(j)'
<1>1. tables = Tables => tables' = Tables
  BY DEF Grows, StartupTypeOK
<1>2. columns = Columns => columns' = Columns
  BY DEF Grows, StartupTypeOK
<1>3. account # None => account' # None
  BY DEF Grows
<1>4. opened => opened'
  BY DEF Grows
<1> QED BY <1>1, <1>2, <1>3, <1>4 DEF PhaseOK, Up, Grows

(* A step of instance i.                                                   *)
LEMMA StepKeeps ==
  ASSUME StartupInv, StartupTypeOK', Grows, NEW i \in Instances,
         \A j \in Instances \ {i} : inst'[j] = inst[j],
         PhaseOK(i)', signups' # {} => opened', AdminUnlessOpened'
  PROVE  StartupInv'
<1>1. ASSUME NEW j \in Instances PROVE PhaseOK(j)'
  BY OthersKeep DEF StartupInv
<1> QED BY <1>1 DEF StartupInv

(* Steps that end an instance.                                             *)
LEMMA EndsKeeps ==
  ASSUME StartupInv, NEW i \in Instances, Ends(i), crashes' \in 0..MaxCrashes,
         UNCHANGED <<tables, columns, account, opened>>
  PROVE  StartupInv'
<1>1. Down \in InstanceState
  BY DEF Down, InstanceState, Phases, Settings
<1>2. StartupTypeOK'
  BY <1>1 DEF StartupInv, StartupTypeOK, Ends
<1>3. inst'[i] = Down /\ \A j \in Instances \ {i} : inst'[j] = inst[j]
  BY DEF StartupInv, StartupTypeOK, Ends
<1>4. PhaseOK(i)'
  BY <1>3 DEF PhaseOK, Down, Up
<1>5. signups' # {} => opened'
  BY DEF StartupInv, Ends
<1>6. AdminUnlessOpened' /\ Grows
  BY DEF StartupInv, AdminUnlessOpened, Grows
<1> QED BY <1>2, <1>3, <1>4, <1>5, <1>6, StepKeeps

(* Steps of a start that write neither the account nor the history.        *)
LEMMA SchemaKeeps ==
  ASSUME StartupInv, NEW i \in Instances,
         \/ Launch(i) \/ CreateTable(i) \/ EnsureOAuthClientColumns(i)
         \/ EnsureAuthSessionColumns(i) \/ AddColumn(i) \/ SeedLocalDevData(i)
         \/ Shutdown(i)
  PROVE  StartupInv'
<1> USE DEF StartupInv, StartupTypeOK
<1>1. CASE Launch(i)
  <2>1. PICK b \in Settings :
          inst' = [inst EXCEPT ![i] = [Down EXCEPT !.at = "tables", !.bootstrap = b]]
    BY <1>1 DEF Launch
  <2>2. [Down EXCEPT !.at = "tables", !.bootstrap = b] \in InstanceState
    BY DEF Down, InstanceState, Phases
  <2>3. StartupTypeOK'
    BY <1>1, <2>1, <2>2 DEF Launch
  <2>4. PhaseOK(i)'
    BY <2>1 DEF PhaseOK, Down, Up
  <2> QED BY <1>1, <2>1, <2>3, <2>4, StepKeeps
          DEF Launch, Grows, AdminUnlessOpened
<1>2. CASE CreateTable(i)
  <2>1. StartupTypeOK' /\ Grows
    BY <1>2 DEF CreateTable, Grows, ColumnsOf, Columns
  <2>2. PhaseOK(i)'
    BY <1>2 DEF CreateTable, PhaseOK, Up
  <2> QED BY <1>2, <2>1, <2>2, StepKeeps DEF CreateTable, AdminUnlessOpened
<1>3. CASE EnsureOAuthClientColumns(i)
  <2>1. StartupTypeOK'
    BY <1>3 DEF EnsureOAuthClientColumns, InstanceState, Phases, Columns
  <2>2. PhaseOK(i)'
    BY <1>3 DEF EnsureOAuthClientColumns, PhaseOK, Up, InstanceState
  <2> QED BY <1>3, <2>1, <2>2, StepKeeps
          DEF EnsureOAuthClientColumns, Grows, AdminUnlessOpened
<1>4. CASE EnsureAuthSessionColumns(i)
  <2>1. StartupTypeOK'
    BY <1>4 DEF EnsureAuthSessionColumns, InstanceState, Phases, Columns
  <2>2. PhaseOK(i)'
    BY <1>4 DEF EnsureAuthSessionColumns, PhaseOK, Up, InstanceState
  <2> QED BY <1>4, <2>1, <2>2, StepKeeps
          DEF EnsureAuthSessionColumns, Grows, AdminUnlessOpened
<1>5. CASE AddColumn(i)
  <2>1. PICK c \in inst[i].missing :
          \/ /\ Ends(i)
             /\ UNCHANGED columns
          \/ /\ columns' = columns \cup {c}
             /\ inst' = [inst EXCEPT ![i].missing = @ \ {c}]
             /\ UNCHANGED signups
    BY <1>5 DEF AddColumn
  <2>2. UNCHANGED <<tables, account, opened, crashes>>
    BY <1>5 DEF AddColumn
  <2>3. CASE Ends(i) /\ UNCHANGED columns
    BY <2>2, <2>3, EndsKeeps
  <2>4. CASE /\ columns' = columns \cup {c}
             /\ inst' = [inst EXCEPT ![i].missing = @ \ {c}]
             /\ UNCHANGED signups
    <3>1. c \in Columns
      BY DEF InstanceState
    <3>2. StartupTypeOK' /\ Grows
      BY <2>2, <2>4, <3>1 DEF Grows, InstanceState
    <3>3. PhaseOK(i)
      OBVIOUS
    <3>4. columns = Columns => columns' = Columns
      BY <2>4, <3>1
    <3>5. /\ inst'[i].at = inst[i].at
          /\ inst'[i].bootstrap = inst[i].bootstrap
          /\ inst'[i].missing = inst[i].missing \ {c}
      BY <2>4 DEF InstanceState
    <3>6. PhaseOK(i)'
      BY <2>2, <2>4, <3>3, <3>4, <3>5 DEF PhaseOK, Up
    <3> QED BY <2>2, <2>4, <3>2, <3>6, StepKeeps DEF AdminUnlessOpened
  <2> QED BY <2>1, <2>3, <2>4
<1>6. CASE SeedLocalDevData(i)
  <2>1. StartupTypeOK'
    BY <1>6 DEF SeedLocalDevData, At, InstanceState, Phases
  <2>2. columns = Columns
    BY <1>6 DEF SeedLocalDevData, PhaseOK, Columns
  <2>3. PhaseOK(i)'
    BY <1>6, <2>2 DEF SeedLocalDevData, At, PhaseOK, Up, InstanceState
  <2> QED BY <1>6, <2>1, <2>3, StepKeeps
          DEF SeedLocalDevData, At, Grows, AdminUnlessOpened
<1>7. CASE Shutdown(i)
  <2>1. StartupTypeOK'
    BY <1>7 DEF Shutdown, At, InstanceState, Phases
  <2>2. PhaseOK(i)'
    BY <1>7 DEF Shutdown, At, PhaseOK, Up, InstanceState
  <2> QED BY <1>7, <2>1, <2>2, StepKeeps
          DEF Shutdown, At, Grows, AdminUnlessOpened
<1> QED BY <1>1, <1>2, <1>3, <1>4, <1>5, <1>6, <1>7

(* The steps that look for, create or verify the account.  An instance     *)
(* that was told to create it serves only beside one.                      *)
LEMMA AccountKeeps ==
  ASSUME StartupInv, NEW i \in Instances,
         \/ EnsureBootstrapAdmin(i) \/ SaveBootstrapAdmin(i)
         \/ CheckAccount(i) \/ SaveUser(i)
  PROVE  StartupInv'
<1> USE DEF StartupInv, StartupTypeOK
<1>1. CASE EnsureBootstrapAdmin(i)
  <2>1. UNCHANGED <<tables, columns, account, crashes>>
    BY <1>1 DEF EnsureBootstrapAdmin
  <2>2. CASE inst[i].bootstrap = "blank" /\ Ends(i) /\ UNCHANGED opened
    BY <2>1, <2>2, EndsKeeps
  <2>3. CASE /\ inst[i].bootstrap = "enabled" /\ account = None
             /\ At(i, "saveAdmin") /\ UNCHANGED <<signups, opened>>
    <3>1. StartupTypeOK'
      BY <2>1, <2>3 DEF At, InstanceState, Phases
    <3>2. PhaseOK(i)'
      BY <1>1, <2>1, <2>3 DEF EnsureBootstrapAdmin, At, PhaseOK, Up, InstanceState
    <3> QED BY <2>1, <2>3, <3>1, <3>2, StepKeeps DEF At, Grows, AdminUnlessOpened
  <2>4. CASE /\ inst[i].bootstrap = "disabled" \/ AccountTaken(i)
             /\ Serves(i) /\ UNCHANGED signups
    <3>1. StartupTypeOK'
      BY <2>1, <2>4 DEF Serves, At, InstanceState, Phases
    <3>2. PhaseOK(i)'
      BY <1>1, <2>1, <2>4
         DEF EnsureBootstrapAdmin, Serves, At, AccountTaken, PhaseOK, Up, InstanceState
    <3> QED BY <2>1, <2>4, <3>1, <3>2, StepKeeps
            DEF Serves, At, Grows, AdminUnlessOpened
  <2> QED BY <1>1, <2>2, <2>3, <2>4 DEF EnsureBootstrapAdmin
<1>2. CASE SaveBootstrapAdmin(i)
  <2>1. UNCHANGED <<tables, columns, crashes>> /\ inst[i].at = "saveAdmin"
    BY <1>2 DEF SaveBootstrapAdmin
  <2>2. PICK id \in FreshIds :
          \/ /\ Accepted(id)
             /\ account' = [id |-> id, by |-> i]
             /\ Serves(i)
             /\ UNCHANGED signups
          \/ /\ ~Accepted(id)
             /\ Ends(i)
             /\ UNCHANGED <<account, opened>>
    BY <1>2 DEF SaveBootstrapAdmin
  <2>3. CASE ~Accepted(id) /\ Ends(i) /\ UNCHANGED <<account, opened>>
    BY <2>1, <2>3, EndsKeeps
  <2>4. CASE /\ Accepted(id) /\ account' = [id |-> id, by |-> i]
             /\ Serves(i) /\ UNCHANGED signups
    <3>1. account = None /\ id \in AccountIds
      BY <2>4 DEF Accepted, FreshIds
    <3>2. account' \in AccountRow /\ account'.by = i
      BY <2>4, <3>1 DEF AccountRow
    <3>3. account' # None /\ i # None
      BY <3>2, NoneAssumption
    <3>4. StartupTypeOK' /\ Grows
      BY <2>1, <2>4, <3>1, <3>2 DEF Serves, At, InstanceState, Phases, Grows
    <3>5. PhaseOK(i)'
      BY <2>1, <2>4, <3>3 DEF Serves, At, PhaseOK, Up, InstanceState
    <3>6. AdminUnlessOpened'
      BY <3>2, <3>3 DEF AdminUnlessOpened
    <3> QED BY <2>4, <3>4, <3>5, <3>6, StepKeeps DEF Serves, At
  <2> QED BY <2>2, <2>3, <2>4
<1>3. CASE CheckAccount(i)
  <2>1. opened
    BY <1>3 DEF CheckAccount, PhaseOK, Up
  <2>2. StartupTypeOK' /\ Grows
    BY <1>3 DEF CheckAccount, Grows
  <2> QED BY <1>3, <2>1, <2>2, StepKeeps, OthersKeep
          DEF CheckAccount, AdminUnlessOpened
<1>4. CASE SaveUser(i)
  <2>1. UNCHANGED <<tables, columns, inst, opened, crashes>> /\ opened
    BY <1>4 DEF SaveUser
  <2>2. account # None => account' = account
    BY <1>4 DEF SaveUser, Accepted, FreshIds
  <2>3. account' \in AccountRow \cup {None}
    BY <1>4 DEF SaveUser, AccountRow, FreshIds
  <2>4. StartupTypeOK' /\ Grows
    BY <1>4, <2>1, <2>2, <2>3 DEF SaveUser, Grows
  <2> QED BY <1>4, <2>1, <2>4, StepKeeps, OthersKeep DEF SaveUser, AdminUnlessOpened
<1> QED BY <1>1, <1>2, <1>3, <1>4

LEMMA InvKept == ASSUME StartupInv, [StartupNext]_startVars PROVE StartupInv'
<1>1. ASSUME NEW i \in Instances, CloseRepositories(i) \/ Crash(i)
      PROVE  StartupInv'
  <2>1. crashes' \in 0..MaxCrashes
    BY <1>1, StartupAssumption
       DEF CloseRepositories, Crash, StartupInv, StartupTypeOK
  <2> QED BY <1>1, <2>1, EndsKeeps DEF CloseRepositories, Crash
<1>2. CASE UNCHANGED startVars
  BY <1>2 DEF startVars, StartupInv, StartupTypeOK, PhaseOK, Up, AdminUnlessOpened
<1>3. ASSUME NEW i \in Instances, Continue(i) PROVE StartupInv'
  BY <1>1, <1>3, SchemaKeeps, AccountKeeps DEF Continue
<1> QED BY <1>1, <1>2, <1>3, SchemaKeeps, AccountKeeps DEF StartupNext

(* The inductive invariant.                                                *)
LEMMA Invariance == StartupSpec => []StartupInv
  BY InitInv, InvKept, PTL DEF StartupSpec

(* The rows of the schema, the instances and the account stay of their     *)
(* types.                                                                  *)
THEOREM StartupTypes == StartupSpec => []StartupTypeOK
<1>1. StartupInv => StartupTypeOK
  BY DEF StartupInv
<1> QED BY <1>1, Invariance, PTL

(* However many instances share the work of their starts, no handler runs  *)
(* before the schema and, where one was asked for, the administrator.      *)
THEOREM Readiness == StartupSpec => []ServingIsReady
<1>1. StartupInv => ServingIsReady
  BY DEF StartupInv, PhaseOK, ServingIsReady, Up
<1> QED BY <1>1, Invariance, PTL

(* Nobody who registers gets the administrator's e-mail unless an instance *)
(* has served without a bootstrap administrator.                           *)
THEOREM AdminFirst == StartupSpec => []AdminUnlessOpened
<1>1. StartupInv => AdminUnlessOpened
  BY DEF StartupInv
<1> QED BY <1>1, Invariance, PTL

LEMMA AccountStays ==
  ASSUME account # None, StartupNext PROVE account' = account
<1>1. ASSUME NEW i \in Instances, SaveBootstrapAdmin(i) PROVE account' = account
  BY <1>1 DEF SaveBootstrapAdmin, Accepted, FreshIds
<1>2. ASSUME NEW i \in Instances, SaveUser(i) PROVE account' = account
  BY <1>2 DEF SaveUser, Accepted, FreshIds
<1>3. ASSUME NEW i \in Instances,
             \/ Launch(i) \/ CreateTable(i) \/ EnsureOAuthClientColumns(i)
             \/ EnsureAuthSessionColumns(i) \/ AddColumn(i) \/ SeedLocalDevData(i)
             \/ EnsureBootstrapAdmin(i) \/ CloseRepositories(i)
             \/ CheckAccount(i) \/ Shutdown(i) \/ Crash(i)
      PROVE  account' = account
  BY <1>3 DEF Launch, CreateTable, EnsureOAuthClientColumns,
              EnsureAuthSessionColumns, AddColumn, SeedLocalDevData,
              EnsureBootstrapAdmin, CloseRepositories, CheckAccount, Shutdown, Crash
<1> QED BY <1>1, <1>2, <1>3 DEF StartupNext, Continue

(* No start, however many race or come later, rewrites the account.        *)
THEOREM AdminKept == StartupSpec => AdminNeverRewritten
<1>1. [StartupNext]_startVars => [account # None => account' = account]_startVars
  BY AccountStays
<1> QED BY <1>1, PTL DEF StartupSpec, AdminNeverRewritten

-----------------------------------------------------------------------------
(* Starts that race make each other fail, over a column both found missing *)
(* or over the administrator both found missing.                           *)

Ready == tables = Tables /\ columns = Columns /\ account # None

(* An instance that has nothing in hand another one may do before it.      *)
Unraced(i) == Ready /\ inst[i].missing = {} /\ inst[i].at # "saveAdmin"

(* It stops, other than at the end of a shutdown, only when a call fails   *)
(* or the process dies, or its bootstrap credentials are blank.            *)
GivesUp(i) == inst[i].at \notin {"down", "stopping"} /\ inst'[i].at = "down"
Spared(i) == GivesUp(i) => crashes' # crashes \/ inst[i].bootstrap = "blank"

DownInv == \A i \in Instances : inst[i].at = "down" => inst[i].missing = {}

LEMMA AtMoves ==
  ASSUME StartupInv, NEW i \in Instances, NEW phase, At(i, phase)
  PROVE  /\ inst'[i].at = phase /\ inst'[i].missing = inst[i].missing
         /\ \A j \in Instances \ {i} : inst'[j] = inst[j]
  BY DEF At, StartupInv, StartupTypeOK, InstanceState

LEMMA DownStep ==
  ASSUME StartupInv, DownInv, [StartupNext]_startVars PROVE DownInv'
<1>0. inst \in [Instances -> InstanceState] /\ Down.missing = {}
  BY DEF StartupInv, StartupTypeOK, Down
<1>1. ASSUME NEW i \in Instances, Launch(i) PROVE DownInv'
  BY <1>0, <1>1 DEF DownInv, Launch, Down
<1>2. ASSUME NEW i \in Instances, Ends(i) PROVE DownInv'
  BY <1>0, <1>2 DEF DownInv, Ends
<1>3. ASSUME NEW i \in Instances,
             \/ EnsureOAuthClientColumns(i) \/ EnsureAuthSessionColumns(i)
             \/ SeedLocalDevData(i) \/ Shutdown(i)
      PROVE  DownInv'
  <2>1. inst'[i].at # "down" /\ \A j \in Instances \ {i} : inst'[j] = inst[j]
    BY <1>0, <1>3, AtMoves
       DEF InstanceState, EnsureOAuthClientColumns, EnsureAuthSessionColumns,
           SeedLocalDevData, Shutdown
  <2> QED BY <2>1 DEF DownInv
<1>4. ASSUME NEW i \in Instances, AddColumn(i) PROVE DownInv'
  <2>1. CASE Ends(i)
    BY <1>2, <2>1
  <2>2. ASSUME NEW c \in inst[i].missing,
               inst' = [inst EXCEPT ![i].missing = @ \ {c}]
        PROVE  DownInv'
    <3>1. /\ inst'[i].at = inst[i].at /\ inst[i].at # "down"
          /\ \A j \in Instances \ {i} : inst'[j] = inst[j]
      BY <1>0, <2>2 DEF DownInv, InstanceState
    <3> QED BY <3>1 DEF DownInv
  <2> QED BY <1>4, <2>1, <2>2 DEF AddColumn
<1>5. ASSUME NEW i \in Instances,
             EnsureBootstrapAdmin(i) \/ SaveBootstrapAdmin(i)
      PROVE  DownInv'
  <2>1. ASSUME NEW phase \in {"saveAdmin", "serving"}, At(i, phase)
        PROVE  DownInv'
    BY <2>1, AtMoves DEF DownInv
  <2> QED BY <1>2, <1>5, <2>1 DEF EnsureBootstrapAdmin, SaveBootstrapAdmin, Serves
<1>6. ASSUME NEW i \in Instances, CloseRepositories(i) \/ Crash(i)
      PROVE  DownInv'
  BY <1>2, <1>6 DEF CloseRepositories, Crash
<1>7. CASE UNCHANGED inst
  BY <1>7 DEF DownInv
<1> QED BY <1>1, <1>3, <1>4, <1>5, <1>6, <1>7
        DEF StartupNext, Continue, CreateTable, CheckAccount, SaveUser, startVars

LEMMA ReadyStays ==
  ASSUME StartupInv, Ready, [StartupNext]_startVars PROVE Ready'
<1>1. account' = account
  BY AccountStays DEF Ready, startVars
<1>2. tables' = Tables /\ columns' = Columns
  <2>1. ASSUME NEW i \in Instances, CreateTable(i) PROVE FALSE
    BY <2>1 DEF CreateTable, Ready
  <2>2. ASSUME NEW i \in Instances, AddColumn(i) PROVE UNCHANGED <<tables, columns>>
    <3>1. inst[i].missing \subseteq columns
      BY DEF StartupInv, StartupTypeOK, InstanceState, Ready
    <3> QED BY <2>2, <3>1 DEF AddColumn
  <2> QED BY <2>1, <2>2
          DEF Ready, StartupNext, Continue, Launch, EnsureOAuthClientColumns,
              EnsureAuthSessionColumns, SeedLocalDevData, EnsureBootstrapAdmin,
              SaveBootstrapAdmin, CloseRepositories, CheckAccount, SaveUser,
              Shutdown, Crash, startVars
<1> QED BY <1>1, <1>2 DEF Ready

LEMMA UnracedStep ==
  ASSUME StartupInv, NEW i \in Instances, Unraced(i), [StartupNext]_startVars
  PROVE  Unraced(i)' /\ Spared(i)
<1>0. /\ inst \in [Instances -> InstanceState] /\ Ready'
      /\ Down.missing = {} /\ Down.at = "down"
  BY ReadyStays DEF StartupInv, StartupTypeOK, Down, Unraced
<1>1. ASSUME NEW j \in Instances, Ends(j) PROVE Unraced(i)'
  BY <1>0, <1>1 DEF Unraced, Ends
<1>2. ASSUME NEW j \in Instances, CloseRepositories(j) \/ Crash(j)
      PROVE  Unraced(i)' /\ Spared(i)
  <2>1. inst'[j] = Down /\ (j # i => inst'[i] = inst[i])
    BY <1>0, <1>2 DEF CloseRepositories, Crash, Ends
  <2>2. Crash(j) => crashes' # crashes
    BY DEF Crash, StartupInv, StartupTypeOK
  <2> QED BY <1>1, <1>2, <2>1, <2>2
          DEF CloseRepositories, Crash, Spared, GivesUp
<1>3. ASSUME NEW j \in Instances,
             \/ Launch(j) \/ EnsureOAuthClientColumns(j)
             \/ EnsureAuthSessionColumns(j) \/ SeedLocalDevData(j) \/ Shutdown(j)
      PROVE  Unraced(i)' /\ Spared(i)
  <2>1. \A k \in Instances \ {j} : inst'[k] = inst[k]
    BY <1>0, <1>3, AtMoves DEF Launch, EnsureOAuthClientColumns,
       EnsureAuthSessionColumns, SeedLocalDevData, Shutdown
  <2>2. /\ inst'[j].at \notin {"down", "saveAdmin"}
        /\ inst'[j].missing \in {{}, inst[j].missing}
    <3>1. CASE Launch(j)
      <4>1. PICK b \in Settings :
              inst'[j] = [Down EXCEPT !.at = "tables", !.bootstrap = b]
        BY <1>0, <3>1 DEF Launch
      <4> QED BY <4>1 DEF Down
    <3>2. CASE EnsureOAuthClientColumns(j) \/ EnsureAuthSessionColumns(j)
      <4>1. ClientColumns \ columns = {} /\ SessionColumns \ columns = {}
        BY DEF Unraced, Ready, Columns
      <4> QED BY <1>0, <3>2, <4>1 DEF InstanceState,
                 EnsureOAuthClientColumns, EnsureAuthSessionColumns
    <3>3. CASE SeedLocalDevData(j) \/ Shutdown(j)
      BY <3>3, AtMoves DEF SeedLocalDevData, Shutdown
    <3> QED BY <1>3, <3>1, <3>2, <3>3
  <2> QED BY <1>0, <2>1, <2>2 DEF Unraced, Spared, GivesUp
<1>4. ASSUME NEW j \in Instances, AddColumn(j) PROVE Unraced(i)' /\ Spared(i)
  <2>1. j # i
    BY <1>4 DEF AddColumn, Unraced
  <2>2. inst'[i] = inst[i]
    BY <1>0, <1>4, <2>1 DEF AddColumn, Ends
  <2> QED BY <1>0, <2>2 DEF Unraced, Spared, GivesUp
<1>5. ASSUME NEW j \in Instances, EnsureBootstrapAdmin(j)
      PROVE  Unraced(i)' /\ Spared(i)
  <2>1. CASE Ends(j) /\ inst[j].bootstrap = "blank"
    <3>1. j # i => inst'[i] = inst[i]
      BY <1>0, <2>1 DEF Ends
    <3> QED BY <1>1, <2>1, <3>1 DEF Spared, GivesUp
  <2>2. CASE Serves(j)
    BY <1>0, <2>2, AtMoves DEF Serves, Unraced, Spared, GivesUp
  <2> QED BY <1>5, <2>1, <2>2 DEF EnsureBootstrapAdmin, Unraced, Ready
<1>6. ASSUME NEW j \in Instances, SaveBootstrapAdmin(j)
      PROVE  Unraced(i)' /\ Spared(i)
  <2>1. j # i
    BY <1>6 DEF SaveBootstrapAdmin, Unraced
  <2>2. inst'[i] = inst[i]
    BY <1>0, <1>6, <2>1 DEF SaveBootstrapAdmin, Ends, Serves, At
  <2> QED BY <1>0, <2>2 DEF Unraced, Spared, GivesUp
<1>7. CASE UNCHANGED inst
  BY <1>0, <1>7 DEF Unraced, Spared, GivesUp
<1> QED BY <1>2, <1>3, <1>4, <1>5, <1>6, <1>7
        DEF StartupNext, Continue, CreateTable, CheckAccount, SaveUser, startVars

(* Once the schema is complete and the account exists, an instance that is *)
(* down is made to fail by no race any more, however often it and others   *)
(* are launched: its starts end early only where a call of their own fails *)
(* or the credentials are blank (EnsureBootstrapAdmin, ensure...Columns).  *)
THEOREM StartsSucceed ==
  ASSUME NEW i \in Instances
  PROVE  StartupSpec =>
           [](Ready /\ inst[i].at = "down"
                => []Unraced(i) /\ [][Spared(i)]_startVars)
<1>1. StartupInit => DownInv
  BY DEF StartupInit, DownInv, Down
<1>2. DownInv /\ Ready /\ inst[i].at = "down" => Unraced(i)
  BY DEF DownInv, Unraced
<1> QED BY <1>1, <1>2, Invariance, DownStep, UnracedStep, PTL DEF StartupSpec
=============================================================================
