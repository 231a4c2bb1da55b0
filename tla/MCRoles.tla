------------------------------ MODULE MCRoles ------------------------------
(* Instances of Roles for TLC. *)
EXTENDS Roles, TLC

MCScopes == {"read", "routes:read", "gateway:write"}

MCScopeLists == {{}, {"routes:read"}, {"routes:read", "gateway:write"}}

MCParameters == {{}, {"read"}, {"gateway:write"}}

MCSeedScopes == {"routes:read", "gateway:write"}

MCRolesSymmetry == Permutations(Requests)
=============================================================================
