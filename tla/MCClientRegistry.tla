-------------------------- MODULE MCClientRegistry --------------------------
(* Instances of ClientRegistry for TLC. *)
EXTENDS ClientRegistry, TLC

MCScopes == {"", "read", "routes:read", "gateway:write", "admin:dangerous"}

(* With a blank entry, which the filter has to drop.                       *)
MCSupported == {"", "read", "gateway:write"}

MCSeedScopes == {"routes:read", "admin:dangerous"}

MCParameters == {{}, {"read"}, {"admin:dangerous"}}

MCLoopbackPaths == {<<"callback">>}

MCHosted ==
  {[scheme |-> "https", host |-> "claude.ai", port |-> "", path |-> <<"cb">>,
    query |-> <<>>, fragment |-> FALSE]}

MCCustom ==
  {[scheme |-> "cursor", host |-> "mcp", port |-> "", path |-> <<"cb">>,
    query |-> <<>>, fragment |-> FALSE]}

Loopback(path, query) ==
  [scheme |-> "http", host |-> "localhost", port |-> "3118", path |-> path,
   query |-> query, fragment |-> FALSE]

Hosted(port) ==
  [scheme |-> "https", host |-> "claude.ai", port |-> port, path |-> <<"cb">>,
   query |-> <<>>, fragment |-> FALSE]

Fragment == [Loopback(<<"callback">>, <<>>) EXCEPT !.fragment = TRUE]

(* A host that no list allows.                                             *)
Other ==
  [scheme |-> "https", host |-> "other.example", port |-> "", path |-> <<"cb">>,
   query |-> <<>>, fragment |-> FALSE]

MCTexts == "https://other.example/cb" :> Other

Commas == <<"a", "", "b", "https://other.example/cb">>

MCUris ==
  {Loopback(<<"callback">>, <<>>), Loopback(<<"x", "..", "callback", "">>, <<>>),
   Loopback(<<"callback">>, <<"a">>), Hosted("443"), Other} \cup MCCustom

Ask(id, iat, grants, responses, method, uris, scopes) ==
  [id |-> id, iat |-> iat, grants |-> grants, responses |-> responses,
   method |-> method, uris |-> uris, scopes |-> scopes]

CodeGrant == {"authorization_code", "refresh_token"}

(* Confidential and public clients, clean and unclean redirect URIs, with  *)
(* and without scopes, an old scope name the filter drops, a blank entry,  *)
(* and metadata that is refused.                                           *)
MCAsks(ids) ==
  UNION {
    {Ask(id, FALSE, CodeGrant, {}, "none",
         {Loopback(<<"x", "..", "callback", "">>, <<>>)}, {}),
     Ask(id, TRUE, CodeGrant, {"code"}, "", {Hosted("443")}, {"read", "admin:dangerous"}),
     Ask(id, TRUE, CodeGrant, {""}, "none", MCCustom, {"gateway:write"}),
     Ask(id, FALSE, CodeGrant, {}, "none",
         {Loopback(<<"callback">>, <<>>)}, {"routes:read"}),
     Ask(id, FALSE, {""}, {}, "client_secret_post", {}, {"read"}),
     Ask(id, FALSE, CodeGrant, {"code"}, "none",
         {Loopback(<<"callback">>, Commas)}, {"gateway:write"}),
     Ask(id, TRUE, CodeGrant, {}, "none", {Fragment}, {}),
     Ask(id, TRUE, CodeGrant, {}, "none", {}, {}),
     Ask(id, TRUE, {"implicit"}, {}, "none", {}, {})} : id \in ids}

MCRegistryAsks == MCAsks({None, SeedClient} \cup ChosenIds)

MCRegistrySymmetry == Permutations(Requests) \cup Permutations(FreshIds)
=============================================================================
