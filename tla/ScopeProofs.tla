---------------------------- MODULE ScopeProofs ----------------------------
(* Lemmas about the scope algebra, for scope sets of any size. *)
EXTENDS ScopeSets, FiniteSetTheorems, TLAPS

LEMMA GrantScopesType ==
  ASSUME NEW S, \A s \in S : CanonicalScope(s) \in S,
         NEW R \in SUBSET S, NEW A \in SUBSET S
  PROVE  GrantScopes(R, A) \in SUBSET S
<1>1. ASSUME NEW B \in SUBSET S PROVE NormalizeScopes(B) \in SUBSET S
  BY <1>1 DEF NormalizeScopes
<1> QED BY <1>1 DEF GrantScopes

(* An alias stands for a scope that is no alias: normalizing what has been *)
(* normalized changes nothing (canonicalScope, normalizeScopes).           *)
LEMMA CanonicalScopeIdempotent ==
  ASSUME NEW s PROVE CanonicalScope(CanonicalScope(s)) = CanonicalScope(s)
<1>1. CanonicalScope("read") = "read"
  BY DEF CanonicalScope, ReadAliases, WriteAliases
<1>2. CanonicalScope("gateway:write") = "gateway:write"
  BY DEF CanonicalScope, ReadAliases, WriteAliases
<1> QED BY <1>1, <1>2 DEF CanonicalScope

LEMMA NormalizeScopesIdempotent ==
  ASSUME NEW R PROVE NormalizeScopes(NormalizeScopes(R)) = NormalizeScopes(R)
  BY CanonicalScopeIdempotent DEF NormalizeScopes

(* Granted scopes are canonical (grantScopes).                             *)
LEMMA GrantScopesCanonical ==
  ASSUME NEW R, NEW A
  PROVE  NormalizeScopes(GrantScopes(R, A)) = GrantScopes(R, A)
<1>1. \A B : NormalizeScopes(NormalizeScopes(B)) = NormalizeScopes(B)
  BY NormalizeScopesIdempotent
<1>2. NormalizeScopes(NormalizeScopes(R) \cap NormalizeScopes(A))
        = NormalizeScopes(R) \cap NormalizeScopes(A)
  BY CanonicalScopeIdempotent DEF NormalizeScopes
<1> QED BY <1>1, <1>2 DEF GrantScopes

(* A grant never widens what is allowed, unless nothing is listed as       *)
(* allowed, and never what is requested, unless nothing is requested.      *)
LEMMA GrantScopesBounded ==
  ASSUME NEW R, NEW A
  PROVE  /\ NormalizeScopes(A) # {} => GrantScopes(R, A) \subseteq NormalizeScopes(A)
         /\ NormalizeScopes(R) # {} => GrantScopes(R, A) \subseteq NormalizeScopes(R)
  BY DEF GrantScopes

(* Authorize compares two lengths to decide that a grant covers the wanted *)
(* scopes.  For a grant that is not empty this is inclusion, and for the   *)
(* empty one, which Consent never stores, it holds of every request.       *)
THEOREM CoveredIsInclusion ==
  ASSUME NEW R, IsFiniteSet(R), NormalizeScopes(R) = R,
         NEW G, NormalizeScopes(G) = G
  PROVE  /\ R # {} /\ G # {} => (Covered(R, G) <=> R \subseteq G)
         /\ G = {} => Covered(R, G)
<1>1. ASSUME R # {}, G # {} PROVE Covered(R, G) <=> R \subseteq G
  <2>1. GrantScopes(R, G) = R \cap G
    BY <1>1 DEF GrantScopes
  <2>2. R \cap G \in SUBSET R
    OBVIOUS
  <2>3. Cardinality(R \cap G) = Cardinality(R) => R = R \cap G
    BY <2>2, FS_Subset
  <2> QED BY <2>1, <2>3 DEF Covered
<1>2. ASSUME G = {} PROVE Covered(R, G)
  BY <1>2 DEF Covered, GrantScopes
<1> QED BY <1>1, <1>2
=============================================================================
