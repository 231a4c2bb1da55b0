--------------------------- MODULE MCRegistration ---------------------------
(* Instances of Registration for TLC. *)
EXTENDS Registration, TLC

MCRegistrationSymmetry ==
  Permutations(Emails) \cup Permutations(Rows) \cup Permutations(Codes)
    \cup Permutations(Requests)
=============================================================================
