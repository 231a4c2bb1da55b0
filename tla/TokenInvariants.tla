-------------------------- MODULE TokenInvariants --------------------------
(* The inductive invariant of TokenEndpoint: what a request may still rely *)
(* on at each stage about rows it read in an earlier call.                 *)
EXTENDS TokenLedger

(* What a request holds was read from rows that still exist, under keys    *)
(* and ids that do not change.                                             *)
StageOK(r) ==
  LET q == req[r] IN
  /\ q.at \in {"authGrant", "saveCode", "upsert"} => q.key \in Keys
  /\ q.at \in {"authGrant", "saveCode"} => q.binding \in Bindings
  /\ q.at = "saveCode" => grants[q.key] # None
  /\ q.at = "codeRead" => q.client \in Clients /\ q.binding \in Bindings
  /\ q.at \in {"codeRead", "markCode", "exchGrant", "saveToken"} =>
       q.code \in Codes /\ codes[q.code] # None
  /\ q.at \in {"markCode", "exchGrant", "saveToken"} =>
       q.key = codes[q.code].key
  /\ q.at \in {"clientRead", "refreshGrant", "rotate", "commit"} =>
       q.tok \in Tokens /\ tokens[q.tok] # None /\ q.key = tokens[q.tok].key
  /\ q.at \in {"saveToken", "rotate", "commit"} =>
       grants[q.key] # None /\ q.gid = grants[q.key].id
  /\ q.at = "commit" => q.next \in Tokens
  /\ q.at # "commit" => q.next = None
  /\ q.at = "revoking" => \A t \in q.family : tokens[t] # None

(* An open rotation owns its old row, which nobody uses or revokes, and    *)
(* the row of its successor, which nobody else inserts.                    *)
CommitOK(r) ==
  req[r].at = "commit" =>
    /\ tokens[req[r].next] = None
    /\ ~tokens[req[r].tok].used /\ ~tokens[req[r].tok].revoked

CommitsApart ==
  \A r, s \in Requests :
    /\ req[r].at = "commit" /\ req[s].at = "commit"
    /\ req[r].tok = req[s].tok \/ req[r].next = req[s].next
    => r = s

Redeeming(r) == req[r].at \in {"exchGrant", "saveToken"}

(* A request that has marked its code is the only one that has, and        *)
(* nothing has come of the code yet.                                       *)
RedeemOK(r) ==
  Redeeming(r) =>
    /\ codes[req[r].code].used
    /\ answers[req[r].code] = 0
    /\ \A t \in Tokens : origin[t] # req[r].code

RedeemsApart ==
  \A r, s \in Requests :
    Redeeming(r) /\ Redeeming(s) /\ req[r].code = req[s].code => r = s

CodeOK(x) ==
  /\ codes[x] = None \/ ~codes[x].used =>
       answers[x] = 0 /\ \A t \in Tokens : origin[t] # x
  /\ codes[x] # None => grants[codes[x].key] # None
  /\ answers[x] <= 1

TokenOK(t) ==
  /\ tokens[t] = None => origin[t] = None
  /\ tokens[t] = None \/ ~tokens[t].used => answers[t] = 0
  /\ tokens[t] # None =>
       /\ origin[t] \in Codes
       /\ codes[origin[t]] # None
       /\ codes[origin[t]].key = tokens[t].key
       /\ grants[tokens[t].key] # None
       /\ grants[tokens[t].key].id = tokens[t].gid
  /\ answers[t] <= 1

StagesInv == TypeOK /\ \A r \in Requests : StageOK(r)

CredentialsInv ==
  /\ \A r \in Requests : CommitOK(r) /\ RedeemOK(r)
  /\ CommitsApart
  /\ RedeemsApart
  /\ \A x \in Codes : CodeOK(x)
  /\ \A t \in Tokens : TokenOK(t)
  /\ OneUnusedPerLineage

IInv == StagesInv /\ CredentialsInv

-----------------------------------------------------------------------------
(* For RotationChain: a request never knows a later time than the clock's, *)
(* and the token it refreshes was issued no later than it started.         *)
Refreshing(q) == q.at \in {"clientRead", "refreshGrant", "rotate", "commit"}

AgesInv ==
  /\ \A t \in Tokens : tokens[t] # None => tokens[t].exp <= clock + RefreshTTL
  /\ \A r \in Requests :
       /\ req[r].now <= clock
       /\ Refreshing(req[r]) => tokens[req[r].tok].exp <= req[r].now + RefreshTTL

ChainInv == AgesInv /\ RotationChain

-----------------------------------------------------------------------------
(* What the properties of TokenEndpoint come to for a whole lineage, the   *)
(* refresh tokens that descend from one code.                              *)

(* replaced_by_id leads from t to u: u is in every set of tokens that has  *)
(* t and with a token the one that replaced it.                            *)
Leads(t, u) ==
  \A S \in SUBSET Tokens :
    /\ t \in S
    /\ \A v \in S : tokens[v] # None /\ tokens[v].next # None => tokens[v].next \in S
    => u \in S

(* Every refresh token leads to the one token of its lineage that is not   *)
(* used: a lineage is a single chain, without forks, loops or loose ends,  *)
(* whatever exchanges and rotations run at the same time (RotateRefresh-   *)
(* Token inserts and marks in one transaction).                            *)
Unused(t) == tokens[t] # None /\ ~tokens[t].used
LineageIsOneChain ==
  \A t \in Tokens : tokens[t] # None =>
    \E u \in Tokens :
      /\ Unused(u) /\ origin[u] = origin[t]
      /\ Leads(t, u)
      /\ \A v \in Tokens \ {u} : Unused(v) => origin[v] # origin[t]

(* A lineage is revoked from its start: what a revocation has missed, and  *)
(* on PostgreSQL it may miss what commits after its snapshot, comes after  *)
(* all that it has reached (RevokeRefreshTokensByGrant).                   *)
RevokedFromTheStart ==
  \A t \in Tokens :
    tokens[t] # None /\ tokens[t].next # None /\ tokens[tokens[t].next].revoked
      => tokens[t].revoked

(* The inductive form: a snapshot with a token has all that came before it.*)
PrefixInv ==
  /\ RevokedFromTheStart
  /\ \A r \in Requests, t \in Tokens :
       /\ req[r].at = "revoking"
       /\ tokens[t] # None /\ tokens[t].next \in req[r].family
       => t \in req[r].family \/ tokens[t].revoked

(* So when the token a lineage has come to is revoked, all of it is.       *)
RevokedToTheStart ==
  \A t, u \in Tokens :
    /\ tokens[t] # None /\ tokens[u] # None /\ origin[t] = origin[u]
    /\ ~tokens[u].used /\ tokens[u].revoked
    => tokens[t].revoked

(* README 449, "all tokens": a replay of any token of a lineage takes      *)
(* every token of it (SQLite).                                             *)
RevocationTakesLineage ==
  \A t, u \in Tokens :
    /\ tokens[t] # None /\ tokens[u] # None /\ origin[t] = origin[u]
    /\ tokens[t].revoked
    => tokens[u].revoked

(* A lineage never lapses in between: the lifetime of its first token      *)
(* counts from a time when the code was good, that of every other from a   *)
(* time when the token it replaces was, however much later the calls of    *)
(* the request that read it come.                                          *)
LineageNeverLapses ==
  \A t \in Tokens : tokens[t] # None =>
    LET before == {u \in Tokens : tokens[u] # None /\ tokens[u].next = t} IN
    /\ before = {} => tokens[t].exp <= codes[origin[t]].exp + RefreshTTL
    /\ \A u \in before : tokens[t].exp <= tokens[u].exp + RefreshTTL

LapseInv ==
  /\ LineageNeverLapses
  /\ \A r \in Requests :
       /\ Refreshing(req[r]) => req[r].now <= tokens[req[r].tok].exp
       /\ req[r].at \in {"markCode", "exchGrant", "saveToken"} =>
            req[r].now <= codes[req[r].code].exp
=============================================================================
