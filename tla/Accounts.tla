------------------------------ MODULE Accounts ------------------------------
(***************************************************************************)
(* What the two account services, uporabniki and the account functions of  *)
(* faas-events, have in common: people, who type an e-mail in more than    *)
(* one way, and the ids the services draw for their accounts.  A password  *)
(* is abstracted to the person who knows it, and a token to the id it is   *)
(* signed for.                                                             *)
(***************************************************************************)
CONSTANTS
  Persons, Nobody,
  Emails,
  Spellings,      (* what is typed for an e-mail: blanks, capitals          *)
  normalizeEmail, (* the e-mail that is meant                               *)
  Ids, NoId       (* ids a service may draw                                 *)

ASSUME AccountsAssumption ==
  /\ normalizeEmail \in [Spellings -> Emails]
  /\ Nobody \notin Persons /\ NoId \notin Ids /\ Emails # {}

=============================================================================
