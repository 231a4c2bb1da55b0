--------------------------- MODULE RegistryProofs ---------------------------
(* ClientRegistry for any clients, registrations and requests: its types,  *)
(* that what was answered is stored, and that a code fits one registration *)
(* of its client.                                                          *)
EXTENDS ClientRegistry, ScopeProofs, SequenceTheorems, WellFoundedInduction

(* A row has the columns of a row, and no blank scope: an empty list is    *)
(* read as "any scope", a blank entry must not make one.                   *)
Rows(uris) ==
  [secret : Serials, serial : Serials, grants : SUBSET GrantTypes,
   responses : SUBSET {"code"}, uris : {uris}, scopes : SUBSET (Scopes \ {""}),
   status : Statuses]
IsRow(row) == row \in Rows(row.uris)

(* Registrations that drew their secret: saving, answering or answered.    *)
Registering == {r \in Requests : req[r].at \in {"save", "answer"}}
Registrations ==
  answers \cup {[id |-> req[r].id, row |-> req[r].row] : r \in Registering}

(* What a row has from the registration that saved it last.                *)
Agrees(row, ask) ==
  /\ row.secret = ask.secret
  /\ row.grants = ask.grants /\ row.responses = ask.responses
  /\ row.scopes = ask.scopes
  /\ row.uris = ReadBack(ask.uris)

Bears(row, ask) == row # None /\ row.serial = ask.serial

(* Every registration has a serial of its own, and a row that bears it     *)
(* agrees with it.                                                         *)
RegistrationsOK ==
  /\ \A a \in Registrations :
       a.id \in ClientIds /\ IsRow(a.row) /\ a.row.serial \in 1..minted
  /\ \A a, b \in Registrations : a.row.serial = b.row.serial => a = b
  /\ \A a \in Registrations : Current(a) => Agrees(clients[a.id], a.row)

SavedOK(c) ==
  clients[c] # None =>
    /\ IsRow(clients[c])
    /\ clients[c].serial \in (1..minted) \cup {MaxRegistrations + 1}
    /\ \E s \in saved :
         /\ s.id = c
         /\ s.row.grants = clients[c].grants /\ s.row.uris = clients[c].uris
         /\ s.row.scopes = clients[c].scopes

(* What CodeFitsOneRegistration says of a code, of any code to be.         *)
FitsSaved(id, uri, scopes) ==
  \E s \in saved :
    /\ s.id = id
    /\ "authorization_code" \in s.row.grants
    /\ uri \in s.row.uris
    /\ s.row.scopes # {} => scopes \subseteq NormalizeScopes(s.row.scopes)

RequestOK(r) ==
  /\ req[r] \in [at : Stages, id : ClientIds \cup {None}, row : {req[r].row},
                uri : {req[r].uri}, scopes : {req[r].scopes}]
  /\ req[r].at = "code" =>
       /\ req[r].id \in ClientIds /\ req[r].scopes \subseteq Scopes
       /\ FitsSaved(req[r].id, req[r].uri, req[r].scopes)

CodesOK ==
  \A code \in codes :
    /\ code.id \in ClientIds /\ code.scopes \subseteq Scopes
    /\ FitsSaved(code.id, code.uri, code.scopes)

RegistryInv ==
  /\ DOMAIN clients = ClientIds /\ DOMAIN req = Requests
  /\ minted \in 0..MaxRegistrations
  /\ \A c \in ClientIds : SavedOK(c)
  /\ \A r \in Requests : RequestOK(r)
  /\ RegistrationsOK
  /\ CodesOK

-----------------------------------------------------------------------------
(* Rows and scopes.                                                        *)

LEMMA FilteredScopes ==
  ASSUME NEW in \in SUBSET Scopes
  PROVE  NormalizeScopesAgainst(in) \subseteq Scopes \ {""}
  BY RegistryAssumption DEF NormalizeScopesAgainst

LEMMA CanonicalIsNotBlank ==
  ASSUME NEW s, s # "" PROVE CanonicalScope(s) # ""
  BY DEF CanonicalScope, ReadAliases, WriteAliases

(* A list without blank entries that is not empty stays so.                *)
LEMMA GrantedScopes ==
  ASSUME NEW p \in SUBSET Scopes, NEW allowed \in SUBSET Scopes, "" \notin allowed
  PROVE  /\ GrantScopes(p, allowed) \subseteq Scopes
         /\ allowed # {} => GrantScopes(p, allowed) \subseteq NormalizeScopes(allowed)
<1>1. GrantScopes(p, allowed) \in SUBSET Scopes
  BY GrantScopesType, CallersAssumption
<1>2. ASSUME NEW s \in allowed PROVE CanonicalScope(s) \in NormalizeScopes(allowed)
  BY <1>2, CanonicalIsNotBlank DEF NormalizeScopes
<1> QED BY <1>1, <1>2, GrantScopesBounded

LEMMA StoredRow ==
  ASSUME NEW row, IsRow(row), NEW stored, stored = Stored(row)
  PROVE  IsRow(stored) /\ stored.serial = row.serial /\ Agrees(stored, row)
<1> DEFINE uris == ReadBack(row.uris)
<1>1. stored = [row EXCEPT !.uris = uris] /\ row \in Rows(row.uris)
  BY DEF Stored, IsRow
<1> HIDE DEF uris
<1>2. stored \in Rows(uris) /\ stored.uris = uris
  BY <1>1 DEF Rows
<1>3. /\ stored.secret = row.secret /\ stored.serial = row.serial
      /\ stored.grants = row.grants /\ stored.responses = row.responses
      /\ stored.scopes = row.scopes
  BY <1>1 DEF Rows
<1> QED BY <1>2, <1>3 DEF IsRow, Agrees, uris

LEMMA EditedRow ==
  ASSUME NEW row, IsRow(row), NEW status \in Statuses,
         NEW edited, edited = [row EXCEPT !.status = status]
  PROVE  /\ IsRow(edited) /\ edited.serial = row.serial
         /\ edited.grants = row.grants /\ edited.uris = row.uris
         /\ edited.scopes = row.scopes
         /\ \A ask : Agrees(row, ask) => Agrees(edited, ask)
<1>1. /\ edited \in Rows(row.uris) /\ edited.uris = row.uris
      /\ edited.secret = row.secret /\ edited.serial = row.serial
      /\ edited.grants = row.grants /\ edited.responses = row.responses
      /\ edited.scopes = row.scopes
  BY DEF IsRow, Rows
<1> QED BY <1>1 DEF IsRow, Agrees

LEMMA RowsAreOK ==
  ASSUME NEW row, IsRow(row) PROVE RowOK(row)
  BY DEF IsRow, Rows, RowOK

LEMMA SingleQueries ==
  ASSUME NEW uris, \A u \in uris : Len(u.query) <= 1 PROVE ReadBack(uris) = uris
<1>1. \A u \in uris : Pieces(u) = {u}
  BY DEF Pieces
<1>2. UNION {Pieces(u) : u \in uris} = uris
  BY <1>1
<1> QED BY <1>2 DEF ReadBack

-----------------------------------------------------------------------------
(* Steps.                                                                  *)

LEMMA InitRegistry == RegistryInit => RegistryInv
<1> SUFFICES ASSUME RegistryInit PROVE RegistryInv
  OBVIOUS
<1>1. IsRow(SeedRow) /\ SeedRow.serial = MaxRegistrations + 1
  <2>1. MaxRegistrations + 1 \in Serials
    BY RegistryAssumption DEF Serials
  <2>2. {"client_credentials"} \subseteq GrantTypes
    BY DEF GrantTypes
  <2>3. SeedScopes \subseteq Scopes \ {""}
    BY CallersAssumption
  <2> QED BY <2>1, <2>2, <2>3 DEF SeedRow, ClientRow, IsRow, Rows, Statuses
<1>2. minted \in 0..MaxRegistrations
  BY RegistryAssumption DEF RegistryInit
<1>3. ASSUME NEW c \in ClientIds PROVE SavedOK(c)
  BY <1>1, <1>3 DEF SavedOK, RegistryInit
<1>4. Registrations = {}
  BY DEF Registrations, Registering, RegistryInit, Idle
<1>5. \A r \in Requests : RequestOK(r)
  BY DEF RegistryInit, RequestOK, Idle, Stages
<1> QED BY <1>2, <1>3, <1>4, <1>5
        DEF RegistryInv, RegistrationsOK, CodesOK, RegistryInit

(* A request that moves on leaves the others what they know, while no      *)
(* saved row is forgotten.                                                 *)
LEMMA OthersKnow ==
  ASSUME \A q \in Requests : RequestOK(q), saved \subseteq saved',
         NEW r \in Requests, \A q \in Requests \ {r} : req'[q] = req[q],
         RequestOK(r)'
  PROVE  \A q \in Requests : RequestOK(q)'
  BY DEF RequestOK, FitsSaved

LEMMA CodesKnow ==
  ASSUME CodesOK, codes' = codes, saved \subseteq saved' PROVE CodesOK'
  BY DEF CodesOK, FitsSaved

LEMMA RegistrationsKnow ==
  ASSUME RegistrationsOK, Registrations' \subseteq Registrations,
         UNCHANGED <<clients, minted>>
  PROVE  RegistrationsOK'
  BY DEF RegistrationsOK, Current

LEMMA FewerRegistrations ==
  ASSUME NEW r \in Requests, \A q \in Requests \ {r} : req'[q] = req[q],
         req'[r].at \notin {"save", "answer"}
  PROVE  /\ answers' = answers => Registrations' \subseteq Registrations
         /\ \A a : /\ answers' = answers \cup {a}
                   /\ req[r].at = "answer"
                   /\ a = [id |-> req[r].id, row |-> req[r].row]
                   => Registrations' \subseteq Registrations
  BY DEF Registrations, Registering

LEMMA RegisterKeeps ==
  ASSUME RegistryInv, NEW r \in Requests, RegisterClient(r) PROVE RegistryInv'
<1>1. PICK ask \in Asks : \E id \in NewClientId(ask) :
        /\ ValidMetadata(ask)
        /\ req' = [req EXCEPT ![r] = [Idle EXCEPT !.at = "save", !.id = id,
             !.row = ClientRow(IF ask.method = "none" THEN 0 ELSE minted',
                       minted', NormalizeGrantTypes(ask.grants),
                       NormalizeResponseTypes(ask.responses,
                                              NormalizeGrantTypes(ask.grants)),
                       ValidRedirects(ask.uris),
                       NormalizeScopesAgainst(ask.scopes))]]
  BY DEF RegisterClient
<1> PICK id \in NewClientId(ask) :
        req' = [req EXCEPT ![r] = [Idle EXCEPT !.at = "save", !.id = id,
             !.row = ClientRow(IF ask.method = "none" THEN 0 ELSE minted',
                       minted', NormalizeGrantTypes(ask.grants),
                       NormalizeResponseTypes(ask.responses,
                                              NormalizeGrantTypes(ask.grants)),
                       ValidRedirects(ask.uris),
                       NormalizeScopesAgainst(ask.scopes))]]
  BY <1>1
<1> DEFINE row == ClientRow(IF ask.method = "none" THEN 0 ELSE minted',
                       minted', NormalizeGrantTypes(ask.grants),
                       NormalizeResponseTypes(ask.responses,
                                              NormalizeGrantTypes(ask.grants)),
                       ValidRedirects(ask.uris),
                       NormalizeScopesAgainst(ask.scopes))
           new == [id |-> id, row |-> row]
<1>2. id \in ClientIds
  BY CallersAssumption DEF NewClientId, ClientIds
<1>3. /\ minted' = minted + 1 /\ minted' \in 0..MaxRegistrations
      /\ minted' \in Serials /\ minted' \in 1..minted' /\ minted' \notin 1..minted
      /\ 1..minted \subseteq 1..minted' /\ minted' # MaxRegistrations + 1
  BY RegistryAssumption DEF RegisterClient, RegistryInv, Serials
<1>4. IsRow(row) /\ row.serial = minted'
  <2>1. /\ NormalizeGrantTypes(ask.grants) \subseteq GrantTypes
        /\ NormalizeResponseTypes(ask.responses, NormalizeGrantTypes(ask.grants))
             \subseteq {"code"}
    BY <1>1 DEF ValidMetadata
  <2>2. NormalizeScopesAgainst(ask.scopes) \subseteq Scopes \ {""}
    BY FilteredScopes, CallersAssumption
  <2>3. (IF ask.method = "none" THEN 0 ELSE minted') \in Serials /\ minted' \in Serials
    BY <1>3, RegistryAssumption DEF Serials
  <2>4. PICK secret \in Serials, grants \in SUBSET GrantTypes,
             responses \in SUBSET {"code"}, scopes \in SUBSET (Scopes \ {""}) :
          row = ClientRow(secret, minted', grants, responses,
                          ValidRedirects(ask.uris), scopes)
    BY <2>1, <2>2, <2>3
  <2> HIDE DEF row
  <2> QED BY <1>3, <2>4 DEF ClientRow, IsRow, Rows, Statuses
<1> HIDE DEF row
<1>5. /\ req'[r].at = "save" /\ req'[r].id = id /\ req'[r].row = row
      /\ req'[r] = [at |-> "save", id |-> id, row |-> row, uri |-> None, scopes |-> {}]
      /\ \A q \in Requests \ {r} : req'[q] = req[q]
      /\ DOMAIN req' = Requests
  BY DEF Idle, RegistryInv, row
<1>6. UNCHANGED <<clients, codes, answers, saved>> /\ req[r].at = "idle"
  BY DEF RegisterClient
<1>7. Registrations' \subseteq Registrations \cup {new}
  BY <1>5, <1>6 DEF Registrations, Registering
<1>8. RegistrationsOK'
  <2>1. \A a \in Registrations :
          a.id \in ClientIds /\ IsRow(a.row) /\ a.row.serial \in 1..minted
    BY DEF RegistryInv, RegistrationsOK
  <2>2. \A a \in Registrations : a.row.serial # new.row.serial
    BY <1>3, <1>4, <2>1
  <2>3. new.id \in ClientIds /\ IsRow(new.row) /\ new.row.serial \in 1..minted'
    BY <1>2, <1>3, <1>4
  <2>4. ~Bears(clients'[id], row)
    <3>1. clients[id] = None \/ clients[id].serial # minted'
      BY <1>2, <1>3 DEF RegistryInv, SavedOK
    <3> QED BY <1>4, <1>6, <3>1 DEF Bears
  <2>5. \A a \in Registrations :
          Bears(clients'[a.id], a.row) => Agrees(clients'[a.id], a.row)
    BY <1>6 DEF RegistryInv, RegistrationsOK, Current, Bears
  <2>6. \A a, b \in Registrations \cup {new} : a.row.serial = b.row.serial => a = b
    BY <2>2 DEF RegistryInv, RegistrationsOK
  <2>7. \A a \in Registrations \cup {new} :
          /\ a.id \in ClientIds /\ IsRow(a.row) /\ a.row.serial \in 1..minted'
          /\ Bears(clients'[a.id], a.row) => Agrees(clients'[a.id], a.row)
    BY <1>3, <2>1, <2>3, <2>4, <2>5
  <2> QED BY <1>7, <2>6, <2>7 DEF RegistrationsOK, Current, Bears
<1>9. \A c \in ClientIds : SavedOK(c)'
  BY <1>3, <1>6 DEF RegistryInv, SavedOK
<1>10. RequestOK(r)'
  BY <1>2, <1>5 DEF RequestOK, Stages
<1>11. \A q \in Requests : RequestOK(q)'
  BY <1>5, <1>6, <1>10, OthersKnow DEF RegistryInv
<1>12. CodesOK'
  BY <1>6, CodesKnow DEF RegistryInv
<1> QED BY <1>3, <1>5, <1>6, <1>8, <1>9, <1>11, <1>12 DEF RegistryInv

(* The row is replaced, whoever saved it before and whoever read it.       *)
LEMMA SaveKeeps ==
  ASSUME RegistryInv, NEW r \in Requests, Save(r) PROVE RegistryInv'
<1> DEFINE id == req[r].id
           ask == [id |-> id, row |-> req[r].row]
           row == Stored(req[r].row)
<1>1. /\ req[r].at = "save"
      /\ clients' = [clients EXCEPT ![id] = row]
      /\ saved' = saved \cup
           {[id |-> id, row |-> row, answered |-> req[r].row.uris]}
      /\ req' = [req EXCEPT ![r].at = "answer"]
      /\ UNCHANGED <<minted, codes, answers>>
  BY DEF Save, Upsert
<1>2. ask \in Registrations
  BY <1>1 DEF Registrations, Registering
<1>3. id \in ClientIds /\ IsRow(req[r].row) /\ req[r].row.serial \in 1..minted
  BY <1>2 DEF RegistryInv, RegistrationsOK
<1>4. IsRow(row) /\ row.serial = req[r].row.serial /\ Agrees(row, req[r].row)
  BY <1>3, StoredRow
<1> HIDE DEF row
<1>5. /\ clients'[id] = row /\ DOMAIN clients' = ClientIds
      /\ \A c \in ClientIds \ {id} : clients'[c] = clients[c]
  BY <1>1, <1>3 DEF RegistryInv
<1>6. \A c \in ClientIds : SavedOK(c)'
  <2>1. ASSUME NEW c \in ClientIds, c # id PROVE SavedOK(c)'
    BY <1>1, <1>5, <2>1 DEF RegistryInv, SavedOK
  <2>2. ASSUME NEW c \in ClientIds, c = id PROVE SavedOK(c)'
    <3>1. /\ [id |-> id, row |-> row, answered |-> req[r].row.uris] \in saved'
          /\ clients'[c] = row
      BY <1>1, <1>5, <2>2
    <3>2. /\ IsRow(clients'[c])
          /\ clients'[c].serial \in (1..minted') \cup {MaxRegistrations + 1}
      BY <1>1, <1>3, <1>4, <3>1
    <3>3. \E s \in saved' :
            /\ s.id = c
            /\ s.row.grants = clients'[c].grants /\ s.row.uris = clients'[c].uris
            /\ s.row.scopes = clients'[c].scopes
      BY <2>2, <3>1
    <3> QED BY <3>2, <3>3 DEF SavedOK
  <2> QED BY <2>1, <2>2
<1>7. /\ DOMAIN req' = Requests
      /\ \A q \in Requests \ {r} : req'[q] = req[q]
      /\ req'[r].at = "answer"
      /\ req'[r].id = req[r].id /\ req'[r].row = req[r].row
      /\ req'[r] = [at |-> "answer", id |-> req[r].id, row |-> req[r].row,
                    uri |-> req[r].uri, scopes |-> req[r].scopes]
  <2>1. /\ DOMAIN req = Requests
        /\ req[r] \in [at : Stages, id : ClientIds \cup {None}, row : {req[r].row},
                      uri : {req[r].uri}, scopes : {req[r].scopes}]
    BY DEF RegistryInv, RequestOK
  <2>2. /\ DOMAIN req' = Requests
        /\ \A q \in Requests \ {r} : req'[q] = req[q]
        /\ req'[r] = [req[r] EXCEPT !.at = "answer"]
    BY <1>1, <2>1
  <2> QED BY <2>1, <2>2
<1>8. Registrations' = Registrations
  <2>1. Registering' = Registering
    BY <1>1, <1>7 DEF Registering
  <2>2. \A q \in Registering : [id |-> req'[q].id, row |-> req'[q].row]
                                = [id |-> req[q].id, row |-> req[q].row]
    BY <1>7 DEF Registering
  <2> QED BY <1>1, <2>1, <2>2 DEF Registrations
<1>9. RegistrationsOK'
  <2>1. ASSUME NEW a \in Registrations, Current(a)'
        PROVE  Agrees(clients'[a.id], a.row)
    <3>1. a.id \in ClientIds
      BY DEF RegistryInv, RegistrationsOK
    <3>2. CASE a.id # id
      BY <1>5, <2>1, <3>1, <3>2 DEF RegistryInv, RegistrationsOK, Current
    <3>3. CASE a.id = id
      <4>1. a.row.serial = ask.row.serial
        BY <1>4, <1>5, <2>1, <3>3 DEF Current
      <4>2. a = ask
        BY <1>2, <4>1 DEF RegistryInv, RegistrationsOK
      <4> QED BY <1>4, <1>5, <3>3, <4>2
    <3> QED BY <3>2, <3>3
  <2> QED BY <1>1, <1>8, <2>1 DEF RegistryInv, RegistrationsOK
<1>10. RequestOK(r)'
  BY <1>3, <1>7 DEF RequestOK, Stages
<1>11. \A q \in Requests : RequestOK(q)'
  BY <1>1, <1>7, <1>10, OthersKnow DEF RegistryInv
<1>12. CodesOK'
  BY <1>1, CodesKnow DEF RegistryInv
<1> QED BY <1>1, <1>5, <1>6, <1>7, <1>9, <1>11, <1>12 DEF RegistryInv

LEMMA AnswerKeeps ==
  ASSUME RegistryInv, NEW r \in Requests, Answer(r) PROVE RegistryInv'
<1>1. /\ req[r].at = "answer"
      /\ answers' = answers \cup {[id |-> req[r].id, row |-> req[r].row]}
      /\ req' = [req EXCEPT ![r] = Idle]
      /\ UNCHANGED <<clients, minted, codes, saved>>
  BY DEF Answer
<1>2. /\ req'[r] = Idle /\ DOMAIN req' = Requests
      /\ \A q \in Requests \ {r} : req'[q] = req[q]
  BY <1>1 DEF RegistryInv
<1>3. RegistrationsOK'
  <2>1. req'[r].at \notin {"save", "answer"}
    BY <1>2 DEF Idle
  <2>2. Registrations' \subseteq Registrations
    BY <1>1, <1>2, <2>1, FewerRegistrations
  <2> QED BY <1>1, <2>2, RegistrationsKnow DEF RegistryInv
<1>4. RequestOK(r)'
  BY <1>2 DEF RequestOK, Idle, Stages
<1>5. \A q \in Requests : RequestOK(q)'
  BY <1>1, <1>2, <1>4, OthersKnow DEF RegistryInv
<1>6. CodesOK'
  BY <1>1, CodesKnow DEF RegistryInv
<1> QED BY <1>1, <1>2, <1>3, <1>5, <1>6 DEF RegistryInv, SavedOK

LEMMA AbortKeeps ==
  ASSUME RegistryInv, NEW r \in Requests, Abort(r) PROVE RegistryInv'
<1>1. /\ req' = [req EXCEPT ![r] = Idle]
      /\ UNCHANGED <<clients, minted, codes, answers, saved>>
  BY DEF Abort
<1>2. /\ req'[r] = Idle /\ DOMAIN req' = Requests
      /\ \A q \in Requests \ {r} : req'[q] = req[q]
  BY <1>1 DEF RegistryInv
<1>3. RegistrationsOK'
  <2>1. req'[r].at \notin {"save", "answer"}
    BY <1>2 DEF Idle
  <2>2. Registrations' \subseteq Registrations
    BY <1>1, <1>2, <2>1, FewerRegistrations
  <2> QED BY <1>1, <2>2, RegistrationsKnow DEF RegistryInv
<1>4. RequestOK(r)'
  BY <1>2 DEF RequestOK, Idle, Stages
<1>5. \A q \in Requests : RequestOK(q)'
  BY <1>1, <1>2, <1>4, OthersKnow DEF RegistryInv
<1>6. CodesOK'
  BY <1>1, CodesKnow DEF RegistryInv
<1> QED BY <1>1, <1>2, <1>3, <1>5, <1>6 DEF RegistryInv, SavedOK

(* The row that Authorize reads was saved by a registration.               *)
LEMMA AuthorizeKeeps ==
  ASSUME RegistryInv, NEW r \in Requests, AuthorizeClient(r) PROVE RegistryInv'
<1>1. PICK c \in ClientIds, uri \in Uris, p \in ScopeParameters :
        /\ clients[c] # None
        /\ "authorization_code" \in clients[c].grants
        /\ uri \in clients[c].uris
        /\ req' = [req EXCEPT ![r] = [Idle EXCEPT !.at = "code", !.id = c,
             !.uri = uri, !.scopes = GrantScopes(p, clients[c].scopes)]]
  BY DEF AuthorizeClient, Usable
<1>2. PICK granted \in SUBSET Scopes :
        /\ granted = GrantScopes(p, clients[c].scopes)
        /\ clients[c].scopes # {}
             => granted \subseteq NormalizeScopes(clients[c].scopes)
  <2>1. IsRow(clients[c])
    BY <1>1 DEF RegistryInv, SavedOK
  <2>2. clients[c].scopes \in SUBSET Scopes /\ "" \notin clients[c].scopes
    BY <2>1, RowsAreOK DEF RowOK
  <2>3. p \in SUBSET Scopes
    BY CallersAssumption
  <2> QED BY <2>2, <2>3, GrantedScopes
<1>3. FitsSaved(c, uri, granted)
  <2>1. PICK s \in saved :
          /\ s.id = c
          /\ s.row.grants = clients[c].grants /\ s.row.uris = clients[c].uris
          /\ s.row.scopes = clients[c].scopes
    BY <1>1 DEF RegistryInv, SavedOK
  <2> QED BY <1>1, <1>2, <2>1 DEF FitsSaved
<1>4. /\ req'[r] = [at |-> "code", id |-> c, row |-> None, uri |-> uri,
                    scopes |-> granted]
      /\ DOMAIN req' = Requests
      /\ \A q \in Requests \ {r} : req'[q] = req[q]
  BY <1>1, <1>2 DEF RegistryInv, Idle
<1>5. UNCHANGED <<clients, minted, codes, answers, saved>>
  BY DEF AuthorizeClient
<1>6. RegistrationsOK'
  <2>1. req'[r].at \notin {"save", "answer"}
    BY <1>4
  <2>2. Registrations' \subseteq Registrations
    BY <1>4, <1>5, <2>1, FewerRegistrations
  <2> QED BY <1>5, <2>2, RegistrationsKnow DEF RegistryInv
<1>7. FitsSaved(c, uri, granted)'
  BY <1>3, <1>5 DEF FitsSaved
<1>8. RequestOK(r)'
  BY <1>4, <1>7 DEF RequestOK, Stages
<1>9. \A q \in Requests : RequestOK(q)'
  BY <1>4, <1>5, <1>8, OthersKnow DEF RegistryInv
<1>10. CodesOK'
  BY <1>5, CodesKnow DEF RegistryInv
<1> QED BY <1>4, <1>5, <1>6, <1>9, <1>10 DEF RegistryInv, SavedOK

LEMMA SaveCodeKeeps ==
  ASSUME RegistryInv, NEW r \in Requests, SaveAuthorizationCode(r) PROVE RegistryInv'
<1> DEFINE code == [id |-> req[r].id, uri |-> req[r].uri, scopes |-> req[r].scopes]
<1>1. /\ req[r].at = "code"
      /\ codes' = codes \cup {code}
      /\ req' = [req EXCEPT ![r] = Idle]
      /\ UNCHANGED <<clients, minted, answers, saved>>
  BY DEF SaveAuthorizationCode
<1>2. /\ req'[r] = Idle /\ DOMAIN req' = Requests
      /\ \A q \in Requests \ {r} : req'[q] = req[q]
  BY <1>1 DEF RegistryInv
<1>3. RegistrationsOK'
  <2>1. req'[r].at \notin {"save", "answer"}
    BY <1>2 DEF Idle
  <2>2. Registrations' \subseteq Registrations
    BY <1>1, <1>2, <2>1, FewerRegistrations
  <2> QED BY <1>1, <2>2, RegistrationsKnow DEF RegistryInv
<1>4. RequestOK(r)'
  BY <1>2 DEF RequestOK, Idle, Stages
<1>5. \A q \in Requests : RequestOK(q)'
  BY <1>1, <1>2, <1>4, OthersKnow DEF RegistryInv
<1>6. CodesOK'
  <2>1. /\ code.id \in ClientIds /\ code.scopes \subseteq Scopes
        /\ FitsSaved(code.id, code.uri, code.scopes)
    BY <1>1 DEF RegistryInv, RequestOK
  <2> QED BY <1>1, <2>1 DEF RegistryInv, CodesOK, FitsSaved
<1> QED BY <1>1, <1>2, <1>3, <1>5, <1>6 DEF RegistryInv, SavedOK

LEMMA StatusKeeps ==
  ASSUME RegistryInv, NEW c \in ClientIds, NEW status \in Statuses,
         SetStatus(c, status)
  PROVE  RegistryInv'
<1>1. /\ clients[c] # None
      /\ clients' = [clients EXCEPT ![c].status = status]
      /\ UNCHANGED <<minted, codes, req, answers, saved>>
  BY DEF SetStatus
<1>2. IsRow(clients[c])
  BY <1>1 DEF RegistryInv, SavedOK
<1>3. /\ DOMAIN clients' = ClientIds
      /\ clients'[c] = [clients[c] EXCEPT !.status = status]
      /\ \A d \in ClientIds \ {c} : clients'[d] = clients[d]
  BY <1>1 DEF RegistryInv
<1>4. /\ IsRow(clients'[c]) /\ clients'[c].serial = clients[c].serial
      /\ clients'[c].grants = clients[c].grants /\ clients'[c].uris = clients[c].uris
      /\ clients'[c].scopes = clients[c].scopes
      /\ \A ask : Agrees(clients[c], ask) => Agrees(clients'[c], ask)
  BY <1>2, <1>3, EditedRow
<1>5. \A d \in ClientIds : SavedOK(d)'
  <2>1. ASSUME NEW d \in ClientIds, d # c PROVE SavedOK(d)'
    BY <1>1, <1>3, <2>1 DEF RegistryInv, SavedOK
  <2>2. SavedOK(c)'
    BY <1>1, <1>4 DEF RegistryInv, SavedOK
  <2> QED BY <2>1, <2>2
<1>6. Registrations' = Registrations
  BY <1>1 DEF Registrations, Registering
<1>7. RegistrationsOK'
  <2>1. ASSUME NEW a \in Registrations, Current(a)'
        PROVE  Agrees(clients'[a.id], a.row)
    <3>1. a.id \in ClientIds
      BY DEF RegistryInv, RegistrationsOK
    <3>2. Current(a)
      BY <1>1, <1>3, <1>4, <2>1, <3>1 DEF Current
    <3>3. Agrees(clients[a.id], a.row)
      BY <3>2 DEF RegistryInv, RegistrationsOK
    <3> QED BY <1>3, <1>4, <3>1, <3>3
  <2> QED BY <1>1, <1>6, <2>1 DEF RegistryInv, RegistrationsOK
<1>8. \A q \in Requests : RequestOK(q)'
  BY <1>1 DEF RegistryInv, RequestOK, FitsSaved
<1>9. CodesOK'
  BY <1>1, CodesKnow DEF RegistryInv
<1> QED BY <1>1, <1>3, <1>5, <1>7, <1>8, <1>9 DEF RegistryInv

LEMMA RegistryKept ==
  ASSUME RegistryInv, [RegistryNext]_registryVars PROVE RegistryInv'
<1>1. CASE UNCHANGED registryVars
  <2>1. UNCHANGED <<clients, minted, codes, req, answers, saved>>
    BY <1>1 DEF registryVars
  <2>2. Registrations' = Registrations
    BY <2>1 DEF Registrations, Registering
  <2>3. RegistrationsOK'
    BY <2>1, <2>2, RegistrationsKnow DEF RegistryInv
  <2>4. CodesOK'
    BY <2>1, CodesKnow DEF RegistryInv
  <2>5. \A c \in ClientIds : SavedOK(c)'
    BY <2>1 DEF RegistryInv, SavedOK
  <2>6. \A q \in Requests : RequestOK(q)'
    BY <2>1 DEF RegistryInv, RequestOK, FitsSaved
  <2> QED BY <2>1, <2>3, <2>4, <2>5, <2>6 DEF RegistryInv
<1> QED BY <1>1, RegisterKeeps, SaveKeeps, AnswerKeeps, AuthorizeKeeps,
           SaveCodeKeeps, AbortKeeps, StatusKeeps
        DEF RegistryNext

(* The inductive invariant.                                                *)
LEMMA RegistryInvariance == RegistrySpec => []RegistryInv
  BY InitRegistry, RegistryKept, PTL DEF RegistrySpec

(* Clients, codes, requests and answers stay of their types.  No row holds *)
(* a blank scope, which would turn a list that is read as "these scopes"   *)
(* into one read as "any": the seeds have none (CallersAssumption), and a  *)
(* registration's are filtered.                                            *)
THEOREM RegistryTypes == RegistrySpec => []RegistryTypeOK
<1>1. RegistryInv => RegistryTypeOK
  <2> SUFFICES ASSUME RegistryInv PROVE RegistryTypeOK
    OBVIOUS
  <2>1. \A c \in ClientIds : clients[c] = None \/ RowOK(clients[c])
    BY RowsAreOK DEF RegistryInv, SavedOK
  <2>2. \A a \in answers : a.id \in ClientIds /\ RowOK(a.row)
    BY RowsAreOK DEF RegistryInv, RegistrationsOK, Registrations
  <2> QED BY <2>1, <2>2 DEF RegistryTypeOK, RegistryInv, CodesOK, RequestOK
<1> QED BY <1>1, RegistryInvariance, PTL

(* Registrations that race for one id never mix: what the last one was     *)
(* answered is what the server goes by, secret, grants, scopes and URIs.   *)
THEOREM AnswersHold == RegistrySpec => []AnsweredIsStored
<1>1. RegistryInv => AnsweredIsStored
  <2> SUFFICES ASSUME RegistryInv, NEW a \in answers, Current(a)
               PROVE  /\ Enabled(a.id) =>
                           {s \in Serials : ValidateClientCredentials(a.id, s)}
                             = {a.row.secret} \ {0}
                      /\ clients[a.id].grants = a.row.grants
                      /\ clients[a.id].responses = a.row.responses
                      /\ clients[a.id].scopes = a.row.scopes
                      /\ (\A u \in a.row.uris : Len(u.query) <= 1)
                           => clients[a.id].uris = a.row.uris
    BY DEF AnsweredIsStored
  <2>1. a \in Registrations
    BY DEF Registrations
  <2>2. Agrees(clients[a.id], a.row) /\ a.row.secret \in Serials
    BY <2>1, RowsAreOK DEF RegistryInv, RegistrationsOK, RowOK
  <2> QED BY <2>2, SingleQueries DEF Agrees, ValidateClientCredentials
<1> QED BY <1>1, RegistryInvariance, PTL

(* A code never mixes the redirect URI of one registration with the scopes *)
(* of another.                                                             *)
THEOREM CodesFit == RegistrySpec => []CodeFitsOneRegistration
<1>1. RegistryInv => CodeFitsOneRegistration
  BY DEF RegistryInv, CodesOK, FitsSaved, CodeFitsOneRegistration
<1> QED BY <1>1, RegistryInvariance, PTL

-----------------------------------------------------------------------------
(* Cleaning a path.                                                        *)

(* Induction over numbers, for sets in place of predicates: a set of       *)
(* numbers has a least one, and one that holds 0 and successors holds all. *)
LEMMA LeastNumber ==
  ASSUME NEW T \in SUBSET Nat, T # {}
  PROVE  \E m \in T : \A k \in T : m <= k
<1> DEFINE R == OpToRel(<, Nat)
<1>1. IsWellFoundedOn(R, Nat)
  BY NatLessThanWellFounded
<1>2. \A x, y \in Nat : <<x, y>> \in R <=> x < y
  BY DEF OpToRel
<1> HIDE DEF R
<1>3. PICK m \in T : \A k \in T : ~(<<k, m>> \in R)
  BY <1>1, WFMin
<1>4. \A k \in T : ~(k < m)
  BY <1>2, <1>3
<1>5. \A k \in T : m <= k
  BY <1>4
<1> QED BY <1>5

LEMMA NatSets ==
  ASSUME NEW T, 0 \in T, \A n \in Nat : n \in T => n + 1 \in T
  PROVE  Nat \subseteq T
<1> SUFFICES ASSUME Nat \ T # {} PROVE FALSE
  OBVIOUS
<1>1. PICK m \in Nat \ T : \A k \in Nat \ T : m <= k
  BY LeastNumber
<1>2. m # 0 /\ m - 1 \in Nat /\ m = (m - 1) + 1
  BY <1>1
<1>3. m - 1 \in T
  BY <1>1, <1>2
<1> QED BY <1>1, <1>2, <1>3

(* The recursive function behind FoldLeft, for a path of n segments: it    *)
(* exists, and on the first segments of the path it is one CleanSegment    *)
(* after the other.                                                        *)
IsFold(fold, path, n) ==
  fold = [s \in SUBSET (1..n) |->
            IF s = {} THEN <<>>
            ELSE CleanSegment(fold[s \ {Max(s)}], path[Max(s)])]

LEMMA CleanPathDef ==
  ASSUME NEW path, NEW n, DOMAIN path = 1..n
  PROVE  CleanPath(path) = (CHOOSE fold : IsFold(fold, path, n))[1..n]
  BY DEF CleanPath, FoldLeft, MapThenFoldSet, IsFold

LEMMA MaxOfNumbers ==
  ASSUME NEW s, NEW n \in Nat, s \in SUBSET (1..n), n \in s
  PROVE  Max(s) = n
<1>1. \A y \in s : n >= y
  OBVIOUS
<1>2. \A x \in s : (\A y \in s : x >= y) => x = n
  OBVIOUS
<1> QED BY <1>1, <1>2 DEF Max

LEMMA FoldExists ==
  ASSUME NEW path, NEW n \in Nat
  PROVE  \E fold : IsFold(fold, path, n)
<1> DEFINE T == {k \in Nat : \E fold : IsFold(fold, path, k)}
<1>1. 0 \in T
  <2>1. IsFold([s \in SUBSET (1..0) |-> <<>>], path, 0)
    BY DEF IsFold
  <2> QED BY <2>1
<1>2. ASSUME NEW k \in Nat, k \in T PROVE k + 1 \in T
  <2> PICK fold : IsFold(fold, path, k)
    BY <1>2
  <2> DEFINE next == [s \in SUBSET (1..(k + 1)) |->
               IF k + 1 \in s THEN CleanSegment(fold[s \ {k + 1}], path[k + 1])
               ELSE fold[s]]
             Step(f, s) == IF s = {} THEN <<>>
                           ELSE CleanSegment(f[s \ {Max(s)}], path[Max(s)])
  <2>1. ASSUME NEW s \in SUBSET (1..(k + 1)) PROVE next[s] = Step(next, s)
    <3>1. CASE k + 1 \in s
      <4>1. Max(s) = k + 1
        <5>1. k + 1 \in Nat
          OBVIOUS
        <5> QED BY <3>1, <5>1, MaxOfNumbers
      <4>2. s \ {k + 1} \in SUBSET (1..(k + 1)) /\ k + 1 \notin s \ {k + 1}
        OBVIOUS
      <4>3. next[s \ {k + 1}] = fold[s \ {k + 1}]
        BY <4>2
      <4> QED BY <3>1, <4>1, <4>3
    <3>2. CASE k + 1 \notin s
      <4>1. s \in SUBSET (1..k)
        BY <3>2
      <4>2. fold[s] = Step(fold, s)
        BY <4>1 DEF IsFold
      <4>3. next[s] = fold[s]
        BY <3>2
      <4>4. s \ {Max(s)} \in SUBSET (1..(k + 1)) /\ k + 1 \notin s \ {Max(s)}
        BY <3>2
      <4>5. next[s \ {Max(s)}] = fold[s \ {Max(s)}]
        BY <4>4
      <4> QED BY <4>2, <4>3, <4>5
    <3> QED BY <3>1, <3>2
  <2>2. next = [s \in SUBSET (1..(k + 1)) |-> next[s]]
    OBVIOUS
  <2> HIDE DEF next
  <2>3. IsFold(next, path, k + 1)
    BY <2>1, <2>2 DEF IsFold
  <2> QED BY <2>3
<1> HIDE DEF T
<1>3. n \in T
  BY <1>1, <1>2, NatSets
<1> QED BY <1>3 DEF T

LEMMA CleanPathSteps ==
  ASSUME NEW path, NEW n \in Nat, DOMAIN path = 1..n
  PROVE  \E kept : /\ kept[0] = <<>>
                   /\ \A i \in 1..n : kept[i] = CleanSegment(kept[i - 1], path[i])
                   /\ kept[n] = CleanPath(path)
<1> DEFINE fold == CHOOSE f : IsFold(f, path, n)
           kept == [i \in 0..n |-> fold[1..i]]
<1>1. IsFold(fold, path, n)
  BY FoldExists
<1>2. CleanPath(path) = fold[1..n]
  BY CleanPathDef
<1> HIDE DEF fold
<1>3. kept[0] = <<>>
  BY <1>1 DEF IsFold
<1>4. ASSUME NEW i \in 1..n PROVE kept[i] = CleanSegment(kept[i - 1], path[i])
  <2>1. /\ 1..i \in SUBSET (1..n) /\ 1..i \in SUBSET (1..i) /\ i \in 1..i
        /\ (1..i) \ {i} = 1..(i - 1)
        /\ i - 1 \in 0..n /\ i \in 0..n /\ i \in Nat
    OBVIOUS
  <2>2. Max(1..i) = i
    BY <2>1, MaxOfNumbers
  <2>3. fold[1..i] = CleanSegment(fold[(1..i) \ {Max(1..i)}], path[Max(1..i)])
    BY <1>1, <2>1 DEF IsFold
  <2> QED BY <2>1, <2>2, <2>3
<1>5. kept[n] = CleanPath(path)
  BY <1>2
<1> HIDE DEF kept
<1> QED BY <1>3, <1>4, <1>5

(* A path without empty and dot segments: what cleaning leaves, and what  *)
(* it leaves as it is.                                                     *)
IsClean(path) == \A i \in 1..Len(path) : path[i] \notin {"", ".", ".."}

LEMMA SegmentsKept ==
  ASSUME NEW S, NEW kept \in Seq(S), IsClean(kept), NEW segment \in S
  PROVE  /\ CleanSegment(kept, segment) \in Seq(S)
         /\ IsClean(CleanSegment(kept, segment))
<1>1. CASE segment \in {"", "."}
  BY <1>1 DEF CleanSegment
<1>2. CASE segment = ".."
  <2>1. CASE kept = <<>>
    BY <1>2, <2>1 DEF CleanSegment, IsClean
  <2>2. CASE kept # <<>>
    <3> DEFINE m == Len(kept) - 1
               front == SubSeq(kept, 1, m)
    <3>1. CleanSegment(kept, segment) = front
      BY <1>2, <2>2 DEF CleanSegment, Front
    <3> HIDE DEF m
    <3>2. m \in Nat /\ \A i \in 1..m : i \in 1..Len(kept) /\ kept[i] \in S
      BY <2>2 DEF m
    <3>3. /\ front \in Seq(S) /\ Len(front) = m
          /\ \A i \in 1..m : front[i] = kept[i]
      BY <3>2, SubSeqProperties
    <3> HIDE DEF front
    <3>4. IsClean(front)
      BY <3>2, <3>3 DEF IsClean
    <3> QED BY <3>1, <3>3, <3>4
  <2> QED BY <2>1, <2>2
<1>3. CASE segment \notin {"", ".", ".."}
  <2>1. CleanSegment(kept, segment) = Append(kept, segment)
    BY <1>3 DEF CleanSegment
  <2>2. /\ Append(kept, segment) \in Seq(S)
        /\ Len(Append(kept, segment)) = Len(kept) + 1
        /\ \A i \in 1..Len(kept) : Append(kept, segment)[i] = kept[i]
        /\ Append(kept, segment)[Len(kept) + 1] = segment
    BY AppendProperties
  <2>3. \A i \in 1..(Len(kept) + 1) : i \in 1..Len(kept) \/ i = Len(kept) + 1
    OBVIOUS
  <2>4. IsClean(Append(kept, segment))
    <3> DEFINE longer == Append(kept, segment)
    <3>1. /\ Len(longer) = Len(kept) + 1
          /\ \A i \in 1..Len(kept) : longer[i] = kept[i]
          /\ longer[Len(kept) + 1] = segment
      BY <2>2
    <3> HIDE DEF longer
    <3>2. IsClean(longer)
      BY <1>3, <2>3, <3>1 DEF IsClean
    <3> QED BY <3>2 DEF longer
  <2> QED BY <2>1, <2>2, <2>4
<1> QED BY <1>1, <1>2, <1>3

LEMMA CleanPathIsClean ==
  ASSUME NEW S, NEW path \in Seq(S)
  PROVE  CleanPath(path) \in Seq(S) /\ IsClean(CleanPath(path))
<1> DEFINE n == Len(path)
<1>1. n \in Nat /\ DOMAIN path = 1..n
  OBVIOUS
<1> HIDE DEF n
<1>2. PICK kept : /\ kept[0] = <<>>
                  /\ \A i \in 1..n : kept[i] = CleanSegment(kept[i - 1], path[i])
                  /\ kept[n] = CleanPath(path)
  BY <1>1, CleanPathSteps
<1> DEFINE T == {i \in Nat : i <= n => kept[i] \in Seq(S) /\ IsClean(kept[i])}
<1>3. 0 \in T
  <2>1. <<>> \in Seq(S) /\ IsClean(<<>>)
    BY DEF IsClean
  <2> QED BY <1>2, <2>1
<1>4. ASSUME NEW i \in Nat, i \in T PROVE i + 1 \in T
  <2> SUFFICES ASSUME i + 1 <= n
               PROVE  kept[i + 1] \in Seq(S) /\ IsClean(kept[i + 1])
    OBVIOUS
  <2>1. i + 1 \in 1..n /\ i <= n /\ (i + 1) - 1 = i
    BY <1>1
  <2>2. kept[i] \in Seq(S) /\ IsClean(kept[i]) /\ path[i + 1] \in S
    BY <1>1, <1>4, <2>1
  <2>3. kept[i + 1] = CleanSegment(kept[i], path[i + 1])
    BY <1>2, <2>1
  <2> QED BY <2>2, <2>3, SegmentsKept
<1> HIDE DEF T
<1>5. n \in T
  BY <1>1, <1>3, <1>4, NatSets
<1> QED BY <1>1, <1>2, <1>5 DEF T

LEMMA CleanPathFixed ==
  ASSUME NEW S, NEW path \in Seq(S), IsClean(path)
  PROVE  CleanPath(path) = path
<1> DEFINE n == Len(path)
<1>1. n \in Nat /\ DOMAIN path = 1..n
  OBVIOUS
<1>2. PICK kept : /\ kept[0] = <<>>
                  /\ \A i \in 1..n : kept[i] = CleanSegment(kept[i - 1], path[i])
                  /\ kept[n] = CleanPath(path)
  <2> HIDE DEF n
  <2> QED BY <1>1, CleanPathSteps
<1> DEFINE T == {i \in Nat : i <= n => kept[i] = SubSeq(path, 1, i)}
<1>3. 0 \in T
  <2>1. SubSeq(path, 1, 0) = <<>>
    BY SubSeqEmpty
  <2> QED BY <1>2, <2>1
<1>4. ASSUME NEW i \in Nat, i \in T PROVE i + 1 \in T
  <2> SUFFICES ASSUME i + 1 <= n PROVE kept[i + 1] = SubSeq(path, 1, i + 1)
    OBVIOUS
  <2>1. i + 1 \in 1..n /\ i <= n /\ (i + 1) - 1 = i
    BY <1>1
  <2>2. kept[i + 1] = CleanSegment(SubSeq(path, 1, i), path[i + 1])
    BY <1>2, <1>4, <2>1
  <2>3. path[i + 1] \notin {"", ".", ".."}
    BY <1>1, <2>1 DEF IsClean
  <2>4. kept[i + 1] = Append(SubSeq(path, 1, i), path[i + 1])
    BY <2>2, <2>3 DEF CleanSegment
  <2>5. Append(SubSeq(path, 1, i), path[i + 1]) = SubSeq(path, 1, i + 1)
    BY <2>1
  <2> QED BY <2>4, <2>5
<1> HIDE DEF T
<1>5. n \in T
  BY <1>1, <1>3, <1>4, NatSets
<1>6. kept[n] = SubSeq(path, 1, n)
  BY <1>1, <1>5 DEF T
<1>7. SubSeq(path, 1, n) = path
  OBVIOUS
<1> QED BY <1>2, <1>6, <1>7

-----------------------------------------------------------------------------
(* Stored redirect URIs.                                                   *)

ValidUri(u) == u \in URI /\ Allowed(u) /\ IsClean(u.path)

(* What registrations are about to save or have saved was valid, and what  *)
(* is stored is what splitting makes of it.                                *)
NormalInv ==
  /\ \A r \in Requests : req[r].at = "save" =>
       \A u \in req[r].row.uris : ValidUri(u)
  /\ \A s \in saved :
       /\ \A u \in s.answered : ValidUri(u)
       /\ s.row.uris \subseteq ReadBack(s.answered)

LEMMA ValidUris ==
  ASSUME NEW uris \in SUBSET URI, Invalid \notin ValidRedirects(uris)
  PROVE  \A u \in ValidRedirects(uris) : ValidUri(u)
<1> SUFFICES ASSUME NEW raw \in uris PROVE ValidUri(Validate(raw))
  BY DEF ValidRedirects
<1>1. Validate(raw) # Invalid
  BY DEF ValidRedirects
<1>2. Validate(raw) = Cleaned(raw) /\ Allowed(Cleaned(raw))
  BY <1>1 DEF Validate
<1>3. CleanPath(raw.path) \in Seq(STRING) /\ IsClean(CleanPath(raw.path))
  <2>1. raw.path \in Seq(STRING)
    BY DEF URI
  <2> QED BY <2>1, CleanPathIsClean
<1>4. Cleaned(raw) \in URI /\ Cleaned(raw).path = CleanPath(raw.path)
  BY <1>3 DEF Cleaned, URI
<1> QED BY <1>2, <1>3, <1>4 DEF ValidUri

LEMMA NormalRegister ==
  ASSUME RegistryInv, NormalInv, NEW r \in Requests, RegisterClient(r)
  PROVE  NormalInv'
<1>1. PICK ask \in Asks : \E id \in NewClientId(ask) :
        /\ ValidMetadata(ask)
        /\ req' = [req EXCEPT ![r] = [Idle EXCEPT !.at = "save", !.id = id,
             !.row = ClientRow(IF ask.method = "none" THEN 0 ELSE minted',
                       minted', NormalizeGrantTypes(ask.grants),
                       NormalizeResponseTypes(ask.responses,
                                              NormalizeGrantTypes(ask.grants)),
                       ValidRedirects(ask.uris),
                       NormalizeScopesAgainst(ask.scopes))]]
  BY DEF RegisterClient
<1> PICK id, row :
      /\ row.uris = ValidRedirects(ask.uris)
      /\ req' = [req EXCEPT ![r] = [Idle EXCEPT !.at = "save", !.id = id, !.row = row]]
  BY <1>1 DEF ClientRow
<1>2. /\ req'[r].row = row
      /\ \A q \in Requests \ {r} : req'[q] = req[q]
  BY DEF RegistryInv, Idle
<1>3. \A u \in row.uris : ValidUri(u)
  <2>1. ask.uris \in SUBSET URI
    BY CallersAssumption
  <2>2. Invalid \notin ValidRedirects(ask.uris)
    BY <1>1 DEF ValidMetadata
  <2> QED BY <2>1, <2>2, ValidUris
<1>4. saved' = saved
  BY DEF RegisterClient
<1> QED BY <1>2, <1>3, <1>4 DEF NormalInv

LEMMA NormalSave ==
  ASSUME RegistryInv, NormalInv, NEW r \in Requests, Save(r)
  PROVE  NormalInv'
<1> DEFINE id == req[r].id
           row == Stored(req[r].row)
           new == [id |-> id, row |-> row, answered |-> req[r].row.uris]
<1>1. /\ req[r].at = "save"
      /\ saved' = saved \cup {new}
      /\ req' = [req EXCEPT ![r].at = "answer"]
  BY DEF Save, Upsert
<1>2. row.uris = ReadBack(req[r].row.uris)
  <2>1. [id |-> id, row |-> req[r].row] \in Registrations
    BY <1>1 DEF Registrations, Registering
  <2>2. IsRow(req[r].row)
    BY <2>1 DEF RegistryInv, RegistrationsOK
  <2> QED BY <2>2, StoredRow DEF Agrees
<1> HIDE DEF row
<1>3. /\ \A u \in new.answered : ValidUri(u)
      /\ new.row.uris \subseteq ReadBack(new.answered)
  BY <1>1, <1>2 DEF NormalInv
<1>4. /\ \A q \in Requests \ {r} : req'[q] = req[q]
      /\ req'[r].at = "answer"
  <2>1. /\ req[r] \in [at : Stages, id : ClientIds \cup {None}, row : {req[r].row},
                       uri : {req[r].uri}, scopes : {req[r].scopes}]
        /\ DOMAIN req = Requests
    BY DEF RegistryInv, RequestOK
  <2> QED BY <1>1, <2>1
<1> HIDE DEF new
<1> QED BY <1>1, <1>3, <1>4 DEF NormalInv

LEMMA NormalStep ==
  ASSUME RegistryInv, NormalInv, [RegistryNext]_registryVars
  PROVE  NormalInv'
<1>1. ASSUME NEW r \in Requests, Answer(r) \/ Abort(r) \/ SaveAuthorizationCode(r)
      PROVE  NormalInv'
  <2>1. /\ saved' = saved /\ req'[r] = Idle
        /\ \A q \in Requests \ {r} : req'[q] = req[q]
    BY <1>1 DEF Answer, Abort, SaveAuthorizationCode, RegistryInv
  <2> QED BY <2>1 DEF NormalInv, Idle
<1>2. ASSUME NEW r \in Requests, AuthorizeClient(r) PROVE NormalInv'
  <2>1. /\ saved' = saved /\ req'[r].at = "code"
        /\ \A q \in Requests \ {r} : req'[q] = req[q]
    BY <1>2 DEF AuthorizeClient, RegistryInv, Idle
  <2> QED BY <2>1 DEF NormalInv
<1>3. ASSUME NEW c \in ClientIds, NEW status \in Statuses, SetStatus(c, status)
      PROVE  NormalInv'
  BY <1>3 DEF SetStatus, NormalInv
<1>4. CASE UNCHANGED registryVars
  BY <1>4 DEF NormalInv, registryVars
<1> QED BY <1>1, <1>2, <1>3, <1>4, NormalRegister, NormalSave DEF RegistryNext

(* A client whose redirect URIs were saved by a registration has them from *)
(* the URIs it answered, and Validate's path.Clean is done when it is done *)
(* once.                                                                   *)
LEMMA SavedIsRegistered ==
  ASSUME NormalInv, NEW s \in saved, NEW u \in s.row.uris
  PROVE  Registered(s.id, u)
<1>1. PICK v \in s.answered : u \in Pieces(v)
  BY DEF NormalInv, ReadBack
<1>2. ASSUME NEW w \in s.answered PROVE Normal(w)
  <2>1. ValidUri(w) /\ w.path \in Seq(STRING)
    BY DEF NormalInv, ValidUri, URI
  <2> QED BY <2>1, CleanPathFixed DEF ValidUri, Normal
<1> QED BY <1>1, <1>2 DEF Registered

(* No redirect URI gets into a row or a code but from a URI that some      *)
(* registration of the client answered, for every path, query and          *)
(* allowlist: the normal form Validate computes is the one that is kept,   *)
(* and what Save and reading do to a list is cutting it at commas, no more.*)
THEOREM NormalForms == RegistrySpec => []RedirectsAreNormal
<1>1. RegistryInit => NormalInv
  BY DEF RegistryInit, NormalInv, Idle, SeedRow, ClientRow
<1>2. RegistryInv /\ NormalInv => RedirectsAreNormal
  <2> SUFFICES ASSUME RegistryInv, NormalInv PROVE RedirectsAreNormal
    OBVIOUS
  <2>1. ASSUME NEW c \in ClientIds, clients[c] # None, NEW u \in clients[c].uris
        PROVE  Registered(c, u)
    <3>1. PICK s \in saved : s.id = c /\ s.row.uris = clients[c].uris
      BY <2>1 DEF RegistryInv, SavedOK
    <3> QED BY <3>1, SavedIsRegistered
  <2>2. ASSUME NEW code \in codes PROVE Registered(code.id, code.uri)
    <3>1. PICK s \in saved : s.id = code.id /\ code.uri \in s.row.uris
      BY DEF RegistryInv, CodesOK, FitsSaved
    <3> QED BY <3>1, SavedIsRegistered
  <2> QED BY <2>1, <2>2 DEF RedirectsAreNormal
<1> QED BY <1>1, <1>2, NormalStep, RegistryInvariance, PTL DEF RegistrySpec
=============================================================================
