---------------------------- MODULE Invitations ----------------------------
(***************************************************************************)
(* Invitations to a role: internal/application/invite/service.go over the  *)
(* invitations table, composed with the roles they hand out.  Accepting an *)
(* invitation is three database calls, look-up, bind, mark, outside of any *)
(* transaction; other requests run between them.  The invitation row is    *)
(* judged once, by what the look-up returned.                              *)
(***************************************************************************)
EXTENDS Roles

CONSTANTS
  InviteCodes,  \* codes idgen can return
  Acceptances,  \* acceptances the server can have in flight together
  InviteTTL,
  MaxClock,     \* bound: the last clock reading
  Operators     \* an operator may set revoked_at

ASSUME InvitationsAssumption == InviteTTL \in Nat /\ MaxClock \in Nat

VARIABLES
  clock,     \* ports.Clock
  invites,   \* invitations
  acc,       \* the acceptances in flight
  boundBy,   \* history: the subjects bound through each invitation
  answered   \* history: the successful answers of each invitation

inviteVars == <<clock, invites, acc, boundBy, answered>>
allVars == <<roleVars, inviteVars>>

InviteRow == [role : RoleNames, exp : Nat, used : BOOLEAN, revoked : BOOLEAN]

ASSUME NoneAssumption == None \notin InviteCodes \cup InviteRow

Acceptance ==
  [at : {"idle", "bind", "mark"}, code : InviteCodes \cup {None},
   subject : Subjects \cup {None}, role : RoleNames \cup {None}]

AtRest == [at |-> "idle", code |-> None, subject |-> None, role |-> None]

InvitationsTypeOK ==
  /\ RolesTypeOK
  /\ clock \in 0..MaxClock
  /\ invites \in [InviteCodes -> InviteRow \cup {None}]
  /\ acc \in [Acceptances -> Acceptance]
  /\ boundBy \in [InviteCodes -> SUBSET Subjects]
  /\ answered \in [InviteCodes -> Nat]

InvitationsInit ==
  /\ RolesInit
  /\ clock = 0
  /\ invites = [i \in InviteCodes |-> None]
  /\ acc = [q \in Acceptances |-> AtRest]
  /\ boundBy = [i \in InviteCodes |-> {}]
  /\ answered = [i \in InviteCodes |-> 0]

Return(q) == acc' = [acc EXCEPT ![q] = AtRest]

(* The verdict of AcceptInvitation on the row, and a mutant that has       *)
(* forgotten one of its three checks.                                      *)
NotRevoked(row) == ~row.revoked /\ ~row.used
Usable(row) == ~row.revoked /\ ~row.used /\ clock <= row.exp

(* The WHERE clause of MarkUsed, and a mutant without it.                  *)
AnyTime(i) == TRUE
StillUnused(i) == ~invites[i].used

-----------------------------------------------------------------------------
(* POST /auth/invitations, by an administrator; a mutant with a swapped    *)
(* column.                                                                 *)
SwappedInvitation(i, n) ==
  /\ CanWrite
  /\ invites[i] = None
  /\ invites' = [invites EXCEPT ![i] =
       [role |-> i, exp |-> clock + InviteTTL, used |-> FALSE, revoked |-> FALSE]]
  /\ UNCHANGED <<roleVars, clock, acc, boundBy, answered>>

CreateInvitation(i, n) ==
  /\ CanWrite
  /\ invites[i] = None
  /\ invites' = [invites EXCEPT ![i] =
       [role |-> n, exp |-> clock + InviteTTL, used |-> FALSE, revoked |-> FALSE]]
  /\ UNCHANGED <<roleVars, clock, acc, boundBy, answered>>

(* POST /auth/register/accept.  A blank subject stands for the invited     *)
(* e-mail address; whoever has the code may name any subject.              *)

(* Mutant: the invitation is used up before the role is bound.             *)
MarkFirst(q) ==
  /\ acc[q].at = "idle"
  /\ \E i \in InviteCodes, s \in Subjects :
       /\ invites[i] # None
       /\ Usable(invites[i])
       /\ acc' = [acc EXCEPT ![q] = [at |-> "bind", code |-> i, subject |-> s,
                                     role |-> invites[i].role]]
       /\ invites' = [invites EXCEPT ![i].used = TRUE]
  /\ UNCHANGED <<roleVars, clock, boundBy, answered>>

AcceptInvitation(q) ==
  /\ acc[q].at = "idle"
  /\ \E i \in InviteCodes, s \in Subjects :
       /\ invites[i] # None
       /\ Usable(invites[i])
       /\ acc' = [acc EXCEPT ![q] = [at |-> "bind", code |-> i, subject |-> s,
                                     role |-> invites[i].role]]
  /\ UNCHANGED <<roleVars, clock, invites, boundBy, answered>>

BindInvited(q) ==
  /\ acc[q].at = "bind"
  /\ BindRoleToSubject(acc[q].subject, acc[q].role)
  /\ boundBy' = [boundBy EXCEPT ![acc[q].code] = @ \cup {acc[q].subject}]
  /\ acc' = [acc EXCEPT ![q].at = "mark"]
  /\ UNCHANGED <<clock, invites, answered>>

MarkUsed(q) ==
  /\ acc[q].at = "mark"
  /\ CanWrite
  /\ LET i == acc[q].code IN
     \/ /\ StillUnused(i)
        /\ invites' = [invites EXCEPT ![i].used = TRUE]
        /\ answered' = [answered EXCEPT ![i] = @ + 1]
     \/ /\ ~StillUnused(i)
        /\ UNCHANGED <<invites, answered>>
  /\ Return(q)
  /\ UNCHANGED <<roleVars, clock, boundBy>>

-----------------------------------------------------------------------------
AcceptanceAbort(q) ==
  /\ Faults
  /\ acc[q].at # "idle"
  /\ Return(q)
  /\ UNCHANGED <<roleVars, clock, invites, boundBy, answered>>

RevokeInvitation(i) ==
  /\ Operators
  /\ invites[i] # None
  /\ ~invites[i].revoked
  /\ invites' = [invites EXCEPT ![i].revoked = TRUE]
  /\ UNCHANGED <<roleVars, clock, acc, boundBy, answered>>

Tick ==
  /\ clock < MaxClock
  /\ clock' = clock + 1
  /\ UNCHANGED <<roleVars, invites, acc, boundBy, answered>>

Advance(q) == BindInvited(q) \/ MarkUsed(q)

InvitationsNext ==
  \/ RolesNext /\ UNCHANGED inviteVars
  \/ \E i \in InviteCodes, n \in RoleNames : CreateInvitation(i, n)
  \/ \E q \in Acceptances : AcceptInvitation(q) \/ Advance(q) \/ AcceptanceAbort(q)
  \/ \E i \in InviteCodes : RevokeInvitation(i)
  \/ Tick

InvitationsSpec == InvitationsInit /\ [][InvitationsNext]_allVars

-----------------------------------------------------------------------------
(* Properties.                                                             *)

(* An invitation earns one successful answer, however many acceptances     *)
(* looked it up while it was unused (MarkUsed).                            *)
InvitationAnsweredOnce == \A i \in InviteCodes : answered[i] <= 1

(* The invitation book: how an invitation's row reads at the time, and for *)
(* whom the acceptances that look at it would bind.                        *)
LifeOf(row) ==
  IF row = None THEN "none"
  ELSE IF row.used THEN "used"
  ELSE IF row.revoked \/ clock > row.exp THEN "lapsed" ELSE "open"

Life == [i \in InviteCodes |-> LifeOf(invites[i])]

Admitted ==
  [i \in InviteCodes |->
     {acc[q].subject : q \in {p \in Acceptances : acc[p].code = i}}]

Book == INSTANCE InvitationBook WITH life <- Life, admitted <- Admitted,
                                     bound <- boundBy, answers <- answered

(* An invitation is never used up without its role having been bound, even *)
(* when a call fails half-way (AcceptInvitation binds first and marks      *)
(* second, so a failed acceptance can be retried), whoever is bound had    *)
(* come in while it was neither used nor revoked nor expired, and no row   *)
(* becomes usable again: every step is a step of the invitation book.      *)
ImplementsInvitationBook == Book!BookSpec

(* Once an invitation is used, revoked or expired and the acceptances that *)
(* had seen it usable are over, nobody is bound through it any more.       *)
Accepting(i) == \E q \in Acceptances : acc[q].code = i
SpentInvitationQuiet ==
  [][\A i \in InviteCodes :
       /\ invites[i] # None
       /\ invites[i].used \/ invites[i].revoked \/ clock > invites[i].exp
       /\ ~Accepting(i)
       => ~Accepting(i)' /\ boundBy'[i] = boundBy[i]]_allVars

(* ErrInviteUsed, "invitation already used": an invitation that has been   *)
(* used binds nobody else.                                                 *)
UsedInvitationBindsNobody ==
  [][\A i \in InviteCodes :
       invites[i] # None /\ invites[i].used => boundBy'[i] = boundBy[i]]_allVars
=============================================================================
