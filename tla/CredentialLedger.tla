-------------------------- MODULE CredentialLedger --------------------------
(***************************************************************************)
(* What the token endpoint promises about single-use credentials, with no  *)
(* requests, clocks, grants or transactions in sight: a code is issued and *)
(* spent once, a spent code opens at most one lineage of refresh tokens, a *)
(* lineage moves from token to token one rotation at a time, and a revoked *)
(* token is out of it for good.  TokenEndpoint implements it.              *)
(***************************************************************************)
CONSTANTS Codes, Tokens, None

VARIABLES
  code,    \* the life of a code
  token,   \* the life of a refresh token
  origin   \* the code whose lineage the token belongs to

ledger == <<code, token, origin>>

LedgerTypeOK ==
  /\ code \in [Codes -> {"free", "issued", "spent"}]
  /\ token \in [Tokens -> {"free", "live", "rotated", "revoked"}]
  /\ origin \in [Tokens -> Codes \cup {None}]

LedgerInit ==
  /\ code = [x \in Codes |-> "free"]
  /\ token = [t \in Tokens |-> "free"]
  /\ origin = [t \in Tokens |-> None]

Issue(x) ==
  /\ code[x] = "free"
  /\ code' = [code EXCEPT ![x] = "issued"]
  /\ UNCHANGED <<token, origin>>

Spend(x) ==
  /\ code[x] = "issued"
  /\ code' = [code EXCEPT ![x] = "spent"]
  /\ UNCHANGED <<token, origin>>

Open(x, t) ==
  /\ code[x] = "spent"
  /\ \A u \in Tokens : origin[u] # x
  /\ token[t] = "free"
  /\ token' = [token EXCEPT ![t] = "live"]
  /\ origin' = [origin EXCEPT ![t] = x]
  /\ UNCHANGED code

Rotate(t, n) ==
  /\ token[t] = "live"
  /\ token[n] = "free"
  /\ token' = [token EXCEPT ![t] = "rotated", ![n] = "live"]
  /\ origin' = [origin EXCEPT ![n] = origin[t]]
  /\ UNCHANGED code

Revoke(S) ==
  /\ \A t \in S : token[t] # "free"
  /\ token' = [t \in Tokens |-> IF t \in S THEN "revoked" ELSE token[t]]
  /\ UNCHANGED <<code, origin>>

LedgerNext ==
  \/ \E x \in Codes : Issue(x) \/ Spend(x)
  \/ \E x \in Codes, t \in Tokens : Open(x, t)
  \/ \E t, n \in Tokens : Rotate(t, n)
  \/ \E S \in SUBSET Tokens : Revoke(S)

LedgerSpec == LedgerInit /\ [][LedgerNext]_ledger

-----------------------------------------------------------------------------
(* A lineage has at most one token that can still be refreshed, and only a *)
(* spent code has a lineage.                                               *)
OneLivePerLineage ==
  /\ \A t, u \in Tokens :
       token[t] = "live" /\ token[u] = "live" /\ origin[t] = origin[u] => t = u
  /\ \A t \in Tokens : token[t] # "free" =>
       origin[t] \in Codes /\ code[origin[t]] = "spent"
=============================================================================
