---------------------------- MODULE MCFaasEvents ----------------------------
(***************************************************************************)
(* Small instances of FaasEvents for TLC.                                  *)
(***************************************************************************)
EXTENDS FaasEvents

(* The reservations are one user's; the others may ask for links as well.  *)
OneOwner == [x \in Reservations |-> CHOOSE u \in Users : TRUE]

=============================================================================
