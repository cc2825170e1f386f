------------------------ MODULE MCReservationService ------------------------
(***************************************************************************)
(* Small instances of ReservationService for TLC.                          *)
(***************************************************************************)
EXTENDS ReservationService

(* Intervals that overlap, contain one another, and only touch. *)
MCSlots == {<<1, 2>>, <<0, 3>>, <<2, 3>>}

OneSlot == {<<0, 2>>}

UTC == {0}

(* UTC and a zone one tick, or two, ahead of it. *)
Zones == {0, 1, 2}

Stripped == {FALSE}

AnyBlanks == {FALSE, TRUE}

=============================================================================
