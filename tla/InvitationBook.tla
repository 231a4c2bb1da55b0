--------------------------- MODULE InvitationBook ---------------------------
(***************************************************************************)
(* What invitations promise, without codes, clocks, requests, roles or     *)
(* failures: somebody gets in while the invitation is open, binds once in, *)
(* however late, and one of those who bound uses the invitation up and has *)
(* its one successful answer.  Invitations implements it.                  *)
(***************************************************************************)
EXTENDS Naturals

CONSTANTS InviteCodes, Subjects

VARIABLES
  life,      \* of each invitation
  admitted,  \* the subjects an acceptance under way has come in for
  bound,     \* the subjects bound through each invitation
  answers    \* its successful answers

book == <<life, admitted, bound, answers>>

BookTypeOK ==
  /\ life \in [InviteCodes -> {"none", "open", "lapsed", "used"}]
  /\ admitted \in [InviteCodes -> SUBSET Subjects]
  /\ bound \in [InviteCodes -> SUBSET Subjects]
  /\ answers \in [InviteCodes -> Nat]

BookInit ==
  /\ life = [i \in InviteCodes |-> "none"]
  /\ admitted = [i \in InviteCodes |-> {}]
  /\ bound = [i \in InviteCodes |-> {}]
  /\ answers = [i \in InviteCodes |-> 0]

Offer(i) ==
  /\ life[i] = "none"
  /\ life' = [life EXCEPT ![i] = "open"]
  /\ UNCHANGED <<admitted, bound, answers>>

(* A revocation ends one invitation, time any number of them.              *)
Lapse(ended) ==
  /\ \A i \in ended : life[i] = "open"
  /\ life' = [i \in InviteCodes |-> IF i \in ended THEN "lapsed" ELSE life[i]]
  /\ UNCHANGED <<admitted, bound, answers>>

Admit(i, s) ==
  /\ life[i] = "open"
  /\ admitted' = [admitted EXCEPT ![i] = @ \cup {s}]
  /\ UNCHANGED <<life, bound, answers>>

Bind(i, s) ==
  /\ s \in admitted[i]
  /\ bound' = [bound EXCEPT ![i] = @ \cup {s}]
  /\ UNCHANGED <<life, admitted, answers>>

UseUp(i, s, left) ==
  /\ life[i] \in {"open", "lapsed"}
  /\ s \in admitted[i] \cap bound[i]
  /\ life' = [life EXCEPT ![i] = "used"]
  /\ answers' = [answers EXCEPT ![i] = @ + 1]
  /\ admitted' = [admitted EXCEPT ![i] = @ \ left]
  /\ UNCHANGED bound

Leave(i, s) ==
  /\ admitted' = [admitted EXCEPT ![i] = @ \ {s}]
  /\ UNCHANGED <<life, bound, answers>>

BookNext ==
  \/ \E ended \in SUBSET InviteCodes : Lapse(ended)
  \/ \E i \in InviteCodes :
       \/ Offer(i)
       \/ \E s \in Subjects :
            \/ Admit(i, s)
            \/ Bind(i, s)
            \/ \E left \in SUBSET {s} : UseUp(i, s, left)
            \/ Leave(i, s)

BookSpec == BookInit /\ [][BookNext]_book

-----------------------------------------------------------------------------
(* An invitation is answered with success exactly when it is used up, and  *)
(* then somebody has been bound through it.                                *)
UsedOnceAndBound ==
  \A i \in InviteCodes :
    /\ answers[i] = IF life[i] = "used" THEN 1 ELSE 0
    /\ life[i] = "used" => bound[i] # {}

(* Nobody gets in once an invitation is used or lapsed, which is for good, *)
(* and nobody is bound who is not in.                                      *)
NeverReopened ==
  [][\A i \in InviteCodes :
       /\ life[i] \in {"lapsed", "used"} => life'[i] \in {life[i], "used"}
       /\ admitted'[i] \subseteq admitted[i] \/ life[i] = "open"
       /\ bound'[i] \subseteq bound[i] \cup admitted[i]]_book
=============================================================================
