----------------------------- MODULE MCStartup -----------------------------
(* Startup for TLC: the two tables that are migrated and the users.  No    *)
(* symmetry: the run checks a liveness property.                           *)
EXTENDS Startup

MCTables == {"oauth_clients", "auth_sessions", "users"}
=============================================================================
