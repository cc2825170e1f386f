---------------------------- MODULE ParkingSpots ----------------------------
(***************************************************************************)
(* What the FaaS back end promises about parking spots, with every         *)
(* handler, table and index abstracted away: a lot opens with some free    *)
(* spots, a ticket takes one of them and gives it back at most once, and   *)
(* an administrator may overwrite the number of free spots.                *)
(***************************************************************************)
EXTENDS Integers

CONSTANTS
  Lots,      (* the parking lots that can be opened                         *)
  Tickets,   (* the reservations that can ever hold a spot                  *)
  Capacity,  (* the capacity of each lot                                    *)
  Patches,   (* the numbers an administrator may overwrite a count with     *)
  NoLot      (* where a ticket that holds nothing is parked                 *)

VARIABLES
  open,      (* the lots that exist                                         *)
  free,      (* the free spots of each lot                                  *)
  initial,   (* the free spots each lot opened with                         *)
  patched,   (* the lots whose free spots an administrator overwrote        *)
  ticket,    (* the stage of each ticket                                    *)
  at         (* the lot each ticket took its spot from                      *)

vars == <<open, free, initial, patched, ticket, at>>

Init ==
  /\ open = {}
  /\ free = [l \in Lots |-> 0]
  /\ initial = [l \in Lots |-> 0]
  /\ patched = {}
  /\ ticket = [t \in Tickets |-> "none"]
  /\ at = [t \in Tickets |-> NoLot]

Open(l, n) ==
  /\ l \notin open
  /\ open' = open \cup {l}
  /\ free' = [free EXCEPT ![l] = n]
  /\ initial' = [initial EXCEPT ![l] = n]
  /\ UNCHANGED <<patched, ticket, at>>

Overwrite(l, n) ==
  /\ l \in open
  /\ free' = [free EXCEPT ![l] = n]
  /\ patched' = patched \cup {l}
  /\ UNCHANGED <<open, initial, ticket, at>>

Take(t, l) ==
  /\ l \in open
  /\ ticket[t] = "none"
  /\ free[l] > 0
  /\ free' = [free EXCEPT ![l] = @ - 1]
  /\ ticket' = [ticket EXCEPT ![t] = "held"]
  /\ at' = [at EXCEPT ![t] = l]
  /\ UNCHANGED <<open, initial, patched>>

Return(t) ==
  /\ ticket[t] = "held"
  /\ at[t] \in open
  /\ free' = [free EXCEPT ![at[t]] = @ + 1]
  /\ ticket' = [ticket EXCEPT ![t] = "returned"]
  /\ UNCHANGED <<open, initial, patched, at>>

Next ==
  \/ \E l \in Lots : \E n \in 0..Capacity[l] : Open(l, n)
  \/ \E l \in Lots : \E n \in Patches : Overwrite(l, n)
  \/ \E t \in Tickets : \E l \in Lots : Take(t, l)
  \/ \E t \in Tickets : Return(t)

Spec == Init /\ [][Next]_vars

=============================================================================
