------------------------- MODULE MCFaasReservations -------------------------
(***************************************************************************)
(* Small instances of FaasReservations for TLC.                            *)
(***************************************************************************)
EXTENDS FaasReservations

CONSTANT LotCapacity  (* every lot of an instance has this capacity *)

MCCapacity == [l \in Lots |-> LotCapacity]

(* Requested numbers below zero and above the capacity: both are clamped. *)
AnyRequest == {-1, LotCapacity + 1}

FullRequest == {LotCapacity}

UTC == {0}

=============================================================================
