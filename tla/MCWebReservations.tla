------------------------ MODULE MCWebReservations ------------------------
(***************************************************************************)
(* A small instance of WebReservations for TLC.                            *)
(***************************************************************************)
EXTENDS WebReservations

(* One of the users has a reservation already. *)
OneRow ==
  {[r \in Rows |-> IF r = CHOOSE x \in Rows : TRUE THEN CHOOSE u \in Users : TRUE ELSE NoUser]}

=============================================================================
