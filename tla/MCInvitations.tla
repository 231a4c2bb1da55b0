--------------------------- MODULE MCInvitations ---------------------------
(* Instances of Invitations for TLC. *)
EXTENDS Invitations, TLC

MCScopes == {"read"}

MCScopeLists == {{}, {"read"}}

MCParameters == {{"read"}}

MCInvitationsSymmetry ==
  Permutations(Subjects) \cup Permutations(InviteCodes)
    \cup Permutations(Acceptances) \cup Permutations(Requests)
=============================================================================
