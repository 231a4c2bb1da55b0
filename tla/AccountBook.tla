---------------------------- MODULE AccountBook ----------------------------
(***************************************************************************)
(* What self-registration promises about accounts, without codes, limits,  *)
(* clocks, requests or failures: registrations are for one e-mail, an      *)
(* account is opened by a confirmed registration of its e-mail, at most    *)
(* one per e-mail, and it keeps the password of that registration.         *)
(* Registration implements it.                                             *)
(***************************************************************************)
CONSTANTS Emails, Rows, None

VARIABLES
  registered,  \* the e-mail of each registration
  confirmed,   \* the registrations whose code was presented
  account      \* the registration an e-mail's account was opened by

book == <<registered, confirmed, account>>

BookTypeOK ==
  /\ registered \in [Rows -> Emails \cup {None}]
  /\ confirmed \subseteq Rows
  /\ account \in [Emails -> Rows \cup {None}]

BookInit ==
  /\ registered = [v \in Rows |-> None]
  /\ confirmed = {}
  /\ account = [e \in Emails |-> None]

Register(v, e) ==
  /\ registered[v] = None
  /\ registered' = [registered EXCEPT ![v] = e]
  /\ UNCHANGED <<confirmed, account>>

Confirm(v) ==
  /\ registered[v] # None
  /\ confirmed' = confirmed \cup {v}
  /\ UNCHANGED <<registered, account>>

OpenAccount(v) ==
  /\ v \in confirmed
  /\ account[registered[v]] = None
  /\ account' = [account EXCEPT ![registered[v]] = v]
  /\ UNCHANGED <<registered, confirmed>>

BookNext ==
  \E v \in Rows :
    \/ \E e \in Emails : Register(v, e)
    \/ Confirm(v)
    \/ OpenAccount(v)

BookSpec == BookInit /\ [][BookNext]_book

-----------------------------------------------------------------------------
(* Every account was opened by a confirmed registration of its own e-mail. *)
AccountsConfirmed ==
  \A e \in Emails : account[e] # None =>
    account[e] \in confirmed /\ registered[account[e]] = e

(* An account is for good: nobody who registers the e-mail again, before   *)
(* or after, replaces its password.                                        *)
AccountsPermanent ==
  [][\A e \in Emails : account[e] # None => account'[e] = account[e]]_book
=============================================================================
