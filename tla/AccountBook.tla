---------------------------- MODULE AccountBook ----------------------------
(***************************************************************************)
(* What an account service promises: an e-mail address belongs to nobody   *)
(* until somebody registers it, and to that person from then on.           *)
(***************************************************************************)
CONSTANTS Emails, Persons, Nobody

VARIABLE holder   (* whose account an address is *)

Init == holder = [e \in Emails |-> Nobody]

Claim(e, p) ==
  /\ holder[e] = Nobody
  /\ holder' = [holder EXCEPT ![e] = p]

Next == \E e \in Emails, p \in Persons : Claim(e, p)

Spec == Init /\ [][Next]_holder

=============================================================================
