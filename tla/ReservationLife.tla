-------------------------- MODULE ReservationLife --------------------------
(***************************************************************************)
(* What both back ends promise of a reservation, whoever works on it at    *)
(* once: it is stored, it is active, and it ends once, in one way.         *)
(***************************************************************************)
CONSTANTS
  Ids,      (* the reservations                                             *)
  Endings   (* the ways a reservation may end                               *)

VARIABLE stage

(* Some reservations are older than the behaviour. *)
Init == stage \in [Ids -> {"none", "active"}]

Store(r) ==
  /\ stage[r] = "none"
  /\ stage' = [stage EXCEPT ![r] = "active"]

End(r, ending) ==
  /\ stage[r] = "active"
  /\ stage' = [stage EXCEPT ![r] = ending]

Next == \E r \in Ids : Store(r) \/ \E ending \in Endings : End(r, ending)

Spec == Init /\ [][Next]_stage

=============================================================================
