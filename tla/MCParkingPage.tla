--------------------------- MODULE MCParkingPage ---------------------------
(***************************************************************************)
(* A small instance of ParkingPage for TLC.                                *)
(***************************************************************************)
EXTENDS ParkingPage

(* No lot states its coordinates: all of them are looked up. *)
AllLookedUp == {}

(* Something to browse, and nothing but what the form creates. *)
FewRows ==
  [m \in Modes |-> IF m = "create" THEN {{}} ELSE {{CHOOSE l \in Lots : TRUE}, Lots}]

(* Enough to pick a place, submit, and pick another before it is answered. *)
TwoOrThree == [m \in Modes |-> IF m = "browse" THEN 2 ELSE 3]

=============================================================================
