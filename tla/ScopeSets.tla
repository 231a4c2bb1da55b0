----------------------------- MODULE ScopeSets -----------------------------
(***************************************************************************)
(* The scope algebra of internal/application/auth/service.go.  A scope     *)
(* list is a set: normalizeScopes removes duplicates and sorts, and the    *)
(* sorting is only layout.  A scope is a string, the empty string is what  *)
(* TrimSpace leaves of a blank entry.                                      *)
(***************************************************************************)
EXTENDS Naturals, FiniteSets

OfflineAccess == "offline_access"

ReadAliases ==
  {"mcp:read", "routes:read", "services:read", "upstreams:read",
   "plugins:read", "global_rules:read", "metrics:read", "gateway:read",
   "oauth:read"}

WriteAliases ==
  {"mcp:write", "routes:write", "services:write", "upstreams:write",
   "plugins:write", "global_rules:write", "gateway:bundle:apply",
   "gateway:dangerous"}

CanonicalScope(scope) ==
  IF scope \in ReadAliases THEN "read"
  ELSE IF scope \in WriteAliases THEN "gateway:write"
  ELSE scope

NormalizeScopes(scopes) == {CanonicalScope(s) : s \in scopes} \ {""}

(* The scopes granted for a request, with "no allowed scope" read as "any  *)
(* scope" and "no requested scope" read as "everything allowed".           *)
GrantScopes(requested, allowed) ==
  LET want == NormalizeScopes(requested)
      may  == NormalizeScopes(allowed)
  IN  IF may = {} THEN want
      ELSE IF want = {} THEN may
      ELSE want \cap may

(* Authorize compares lengths: the wanted scopes are covered by a grant    *)
(* when restricting them to the grant's scopes loses none.                 *)
Covered(scopes, granted) ==
  Cardinality(GrantScopes(scopes, granted)) = Cardinality(scopes)
=============================================================================
