------------------------------- MODULE Outbox -------------------------------
(***************************************************************************)
(* What the reservation service promises those who listen to its events: a *)
(* change of a row and the event that tells of it come in one step, and    *)
(* the event is later sent, once, or given up.  Two cancellations of one   *)
(* reservation may both be told: the service does not prevent it.          *)
(***************************************************************************)
CONSTANTS
  Creations,     (* the calls that may create a reservation, one each       *)
  Cancellations  (* the calls that may cancel one                           *)

VARIABLES
  row,    (* the status of each reservation                                 *)
  event   (* what became of the event of each call                          *)

vars == <<row, event>>

Init ==
  /\ row = [r \in Creations |-> "none"]
  /\ event = [e \in Creations \cup Cancellations |-> "none"]

Create(r) ==
  /\ event[r] = "none"
  /\ row' = [row EXCEPT ![r] = "active"]
  /\ event' = [event EXCEPT ![r] = "pending"]

Cancel(c, r) ==
  /\ event[c] = "none"
  /\ row[r] # "none"
  /\ row' = [row EXCEPT ![r] = "cancelled"]
  /\ event' = [event EXCEPT ![c] = "pending"]

Send(e) ==
  /\ event[e] = "pending"
  /\ event' = [event EXCEPT ![e] = "sent"]
  /\ UNCHANGED row

(* One event, or all that are pending when the process dies. *)
GiveUp(events) ==
  /\ \A e \in events : event[e] = "pending"
  /\ event' = [e \in Creations \cup Cancellations |->
                  IF e \in events THEN "lost" ELSE event[e]]
  /\ UNCHANGED row

Next ==
  \/ \E r \in Creations : Create(r)
  \/ \E c \in Cancellations, r \in Creations : Cancel(c, r)
  \/ \E e \in Creations \cup Cancellations : Send(e)
  \/ \E events \in SUBSET (Creations \cup Cancellations) : GiveUp(events)

Spec == Init /\ [][Next]_vars

=============================================================================
