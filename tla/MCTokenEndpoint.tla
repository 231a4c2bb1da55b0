-------------------------- MODULE MCTokenEndpoint --------------------------
(* Instances of TokenEndpoint for TLC. *)
EXTENDS TokenInvariants, TLC

MCScopes ==
  {"read", "mcp:read", "routes:read", "gateway:write", "gateway:dangerous",
   "offline_access"}

(* One client that may hold every scope the requests ask for, by way of an *)
(* alias as well as by name.                                               *)
MCOneScopes == [c \in Clients |-> {"mcp:read", "offline_access"}]

MCOfflineParameters == {{"read", "offline_access"}}

(* c1 may hold read and offline_access, c2 was saved without any scope.    *)
MCTwoScopes ==
  [c \in Clients |-> IF c = "c1" THEN {"mcp:read", "offline_access"} ELSE {}]

MCParameters == {{}, {"gateway:dangerous", "offline_access"}}

(* c1 loses the read scope for another one when it is registered again.    *)
MCReregistrations == {<<"c1", {"gateway:write", "offline_access"}>>}

MCSymmetry ==
  Permutations(Requests) \cup Permutations(Codes) \cup Permutations(Tokens)
    \cup Permutations(GrantIds)
=============================================================================
