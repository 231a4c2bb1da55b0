---------------------------- MODULE TokenLedger ----------------------------
(* TokenEndpoint seen as a CredentialLedger: the life of a code is its row *)
(* and used_at, the life of a refresh token is its row, used_at and        *)
(* revoked_at, and an uncommitted successor does not exist yet.            *)
EXTENDS TokenEndpoint

CodeLife ==
  [x \in Codes |-> IF codes[x] = None THEN "free"
                   ELSE IF codes[x].used THEN "spent" ELSE "issued"]

TokenLife ==
  [t \in Tokens |-> IF tokens[t] = None THEN "free"
                    ELSE IF tokens[t].revoked THEN "revoked"
                    ELSE IF tokens[t].used THEN "rotated" ELSE "live"]

Ledger == INSTANCE CredentialLedger
            WITH code <- CodeLife, token <- TokenLife

(* Every step of the handlers, at every interleaving, is a step of the     *)
(* ledger or changes nothing in it.                                        *)
ImplementsLedger == Ledger!LedgerSpec
=============================================================================
