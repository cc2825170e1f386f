----------------------- MODULE FaasReservationsProofs -----------------------
(***************************************************************************)
(* Proofs about FaasReservations, for any lots, reservations, cancel calls *)
(* and overlapping crons, any offsets, page size and bounds: the handlers  *)
(* implement ParkingSpots, and therefore conserve the spots of a lot and   *)
(* never overbook it.                                                      *)
(***************************************************************************)
EXTENDS FaasReservations, FiniteSetTheorems, TLAPS

(***************************************************************************)
(* What the types do not say and the properties rest on.                   *)
(***************************************************************************)

(* A row is stored exactly when its createReservation call got that far. *)
RowsStored ==
  \A r \in Reservations : status[r] # "none" <=> createAt[r] = "done"

(* A call that got past its first check has a lot, and the lot exists. *)
LotsKnown ==
  \A r \in Reservations :
     createAt[r] \in {"read", "decremented", "done", "failed"} => lotOf[r] \in lots

(* A leaked spot belongs to a failed creation or to an ended reservation. *)
LeaksDead ==
  \A r \in leaked : createAt[r] = "failed" \/ Ended(r)

(* A cancel call that read a reservation works on a stored one. *)
TargetsStored ==
  \A c \in Cancellers :
     cancelAt[c] \in {"read", "marked"} =>
        target[c] \in Reservations /\ status[target[c]] # "none"

(* A cron that marked a reservation knows which. *)
ItemsStored ==
  \A x \in Crons : cronAt[x] = "marked" => cronItem[x] \in Reservations

(* What an owed spot says of its reservation, and that one handler owes it. *)
OwedOnce ==
  /\ \A c \in Cancellers : cancelAt[c] = "marked" =>
        Ended(target[c]) /\ target[c] \notin leaked
  /\ \A x \in Crons : cronAt[x] = "marked" =>
        Ended(cronItem[x]) /\ cronItem[x] \notin leaked
  /\ \A c, d \in Cancellers :
        cancelAt[c] = "marked" /\ cancelAt[d] = "marked"
           /\ target[c] = target[d] => c = d
  /\ \A x, y \in Crons :
        cronAt[x] = "marked" /\ cronAt[y] = "marked"
           /\ cronItem[x] = cronItem[y] => x = y
  /\ \A c \in Cancellers, x \in Crons :
        ~(cancelAt[c] = "marked" /\ cronAt[x] = "marked"
             /\ target[c] = cronItem[x])

(* The inductive invariant. *)
FaasInv ==
  /\ TypeOK
  /\ RowsStored
  /\ LotsKnown
  /\ LeaksDead
  /\ TargetsStored
  /\ ItemsStored
  /\ OwedOnce
  /\ AvailableNeverNegative

(* createParkingLot stores a count between nothing and the capacity. *)
LEMMA ClampInRange ==
  ASSUME NEW requested \in Int, NEW capacity \in Nat
  PROVE  Clamp(requested, capacity) \in 0..capacity
  BY DEF Clamp

LEMMA InitInv == Init => FaasInv
  BY FaasAssumption
     DEF Init, FaasInv, TypeOK, RowsStored, LotsKnown, LeaksDead,
         TargetsStored, ItemsStored, OwedOnce, AvailableNeverNegative, Times

(* Every step keeps the variables of their types. *)
LEMMA TypeStep == FaasInv /\ [Next]_vars => TypeOK'
  <1> SUFFICES ASSUME FaasInv, [Next]_vars PROVE TypeOK'
    OBVIOUS
  <1> USE FaasAssumption
      DEF TypeOK, FaasInv, Times, Fail, history, lotVars, rowVars, cancelVars,
          cronVars
  <1>1. ASSUME NEW l \in Lots, NEW n \in Requests, CreateParkingLot(l, n)
        PROVE  TypeOK'
    <2>1. Clamp(n, Capacity[l]) \in Nat
      BY ClampInRange
    <2> QED
      BY <1>1, <2>1 DEF CreateParkingLot
  <1>2. ASSUME NEW l \in Lots, NEW n \in Patches,
               UpdateParkingAvailability(l, n)
        PROVE  TypeOK'
    BY <1>2 DEF UpdateParkingAvailability
  <1>3. ASSUME NEW r \in Reservations, NEW l \in Lots, NEW end \in Times,
               NEW offset \in Offsets, CreateGet(r, l, end, offset)
        PROVE  TypeOK'
    BY <1>3 DEF CreateGet
  <1>4. ASSUME NEW r \in Reservations, CreateStep(r) PROVE TypeOK'
    <2>1. CASE CreateDecrement(r)
      BY <2>1 DEF CreateDecrement, LotsKnown
    <2>2. CASE CreatePut(r)
      BY <2>2 DEF CreatePut
    <2> QED BY <1>4, <2>1, <2>2 DEF CreateStep
  <1>5. ASSUME NEW r \in Reservations, CreateFails(r) PROVE TypeOK'
    BY <1>5 DEF CreateFails
  <1>6. ASSUME NEW r \in Reservations, IndexCatchesUp(r) PROVE TypeOK'
    BY <1>6 DEF IndexCatchesUp
  <1>7. ASSUME NEW c \in Cancellers, NEW r \in Reservations, CancelGet(c, r)
        PROVE  TypeOK'
    BY <1>7 DEF CancelGet
  <1>8. ASSUME NEW c \in Cancellers, CancelStep(c) PROVE TypeOK'
    <2>1. CASE CancelUpdate(c)
      BY <2>1 DEF CancelUpdate
    <2>2. CASE CancelRelease(c)
      BY <2>2 DEF CancelRelease, LotsKnown, TargetsStored, RowsStored
    <2> QED BY <1>8, <2>1, <2>2 DEF CancelStep
  <1>9. ASSUME NEW c \in Cancellers, CancelFails(c) PROVE TypeOK'
    BY <1>9 DEF CancelFails, TargetsStored
  <1>10. ASSUME NEW x \in Crons, ExpireStep(x) PROVE TypeOK'
    <2>1. CASE ExpireStart(x)
      BY <2>1 DEF ExpireStart
    <2>2. ASSUME NEW page \in SUBSET indexed, ExpireQuery(x, page)
          PROVE  TypeOK'
      BY <2>2 DEF ExpireQuery
    <2>3. ASSUME NEW r \in Reservations, ExpireUpdate(x, r) PROVE TypeOK'
      BY <2>3 DEF ExpireUpdate
    <2>4. CASE ExpireRelease(x)
      BY <2>4 DEF ExpireRelease, LotsKnown, ItemsStored, RowsStored, OwedOnce,
                  Ended
    <2>5. CASE ExpireFinish(x)
      BY <2>5 DEF ExpireFinish
    <2> QED BY <1>10, <2>1, <2>2, <2>3, <2>4, <2>5 DEF ExpireStep
  <1>11. ASSUME NEW x \in Crons, ExpireItemFails(x) PROVE TypeOK'
    BY <1>11 DEF ExpireItemFails, LoseMarked, ItemsStored
  <1>12. ASSUME NEW x \in Crons, ExpireDies(x) PROVE TypeOK'
    BY <1>12 DEF ExpireDies, LoseMarked, ItemsStored
  <1>13. CASE Tick
    BY <1>13 DEF Tick
  <1>14. CASE UNCHANGED vars
    BY <1>14 DEF vars
  <1> QED
    BY <1>1, <1>2, <1>3, <1>4, <1>5, <1>6, <1>7, <1>8, <1>9, <1>10, <1>11,
       <1>12, <1>13, <1>14 DEF Next

(***************************************************************************)
(* The invariant is inductive.  The steps that could break OwedOnce are    *)
(* the conditional updates: each marks a reservation only when it finds it *)
(* active, while a marked one is already ended.                            *)
(***************************************************************************)
LEMMA StepInv == FaasInv /\ [Next]_vars => FaasInv'
  <1> SUFFICES ASSUME FaasInv, TypeOK', [Next]_vars PROVE FaasInv'
    BY TypeStep DEF FaasInv
  <1> USE FaasAssumption
      DEF TypeOK, FaasInv, Fail, history, lotVars, rowVars, cancelVars,
          cronVars, RowsStored, LotsKnown, LeaksDead, TargetsStored,
          ItemsStored, OwedOnce, AvailableNeverNegative, Ended
  <1>1. ASSUME NEW l \in Lots, NEW n \in Requests, CreateParkingLot(l, n)
        PROVE  FaasInv'
    <2>1. Clamp(n, Capacity[l]) >= 0
      BY ClampInRange
    <2> QED
      BY <1>1, <2>1 DEF CreateParkingLot
  <1>2. ASSUME NEW l \in Lots, NEW n \in Patches,
               UpdateParkingAvailability(l, n)
        PROVE  FaasInv'
    BY <1>2 DEF UpdateParkingAvailability
  <1>3. ASSUME NEW r \in Reservations, NEW l \in Lots, NEW end \in Times,
               NEW offset \in Offsets, CreateGet(r, l, end, offset)
        PROVE  FaasInv'
    <2>1. \/ createAt' = [createAt EXCEPT ![r] = "read"] /\ l \in lots
          \/ createAt' = [createAt EXCEPT ![r] = "rejected"]
      <3>1. PICK spots \in SpotsSeen(l) :
              createAt' = [createAt EXCEPT ![r] =
                             IF spots > 0 THEN "read" ELSE "rejected"]
        BY <1>3 DEF CreateGet
      <3>2. spots > 0 => l \in lots
        BY DEF SpotsSeen
      <3> QED
        BY <3>1, <3>2
    <2>2. /\ createAt[r] = "idle" /\ lotOf' = [lotOf EXCEPT ![r] = l]
          /\ UNCHANGED <<lotVars, status, indexed, cancelVars, cronVars, leaked>>
      BY <1>3 DEF CreateGet
    <2> QED
      BY <2>1, <2>2
  <1>4. ASSUME NEW r \in Reservations, CreateStep(r) PROVE FaasInv'
    <2>1. CASE CreateDecrement(r)
      BY <2>1 DEF CreateDecrement
    <2>2. CASE CreatePut(r)
      BY <2>2 DEF CreatePut
    <2> QED BY <1>4, <2>1, <2>2 DEF CreateStep
  <1>5. ASSUME NEW r \in Reservations, CreateFails(r) PROVE FaasInv'
    BY <1>5 DEF CreateFails
  <1>6. ASSUME NEW r \in Reservations, IndexCatchesUp(r) PROVE FaasInv'
    BY <1>6 DEF IndexCatchesUp
  <1>7. ASSUME NEW c \in Cancellers, NEW r \in Reservations, CancelGet(c, r)
        PROVE  FaasInv'
    <2>1. /\ cancelAt' = [cancelAt EXCEPT ![c] = "read"] => status[r] # "none"
          /\ \/ cancelAt' = [cancelAt EXCEPT ![c] = "read"]
             \/ cancelAt' = [cancelAt EXCEPT ![c] = "rejected"]
      <3>1. PICK seen \in StatusSeen(r) :
              cancelAt' = [cancelAt EXCEPT ![c] =
                             IF seen = "active" THEN "read" ELSE "rejected"]
        BY <1>7 DEF CancelGet
      <3>2. seen = "active" => status[r] # "none"
        BY DEF StatusSeen
      <3>3. [cancelAt EXCEPT ![c] = "read"][c] # [cancelAt EXCEPT ![c] = "rejected"][c]
        OBVIOUS
      <3> QED
        BY <3>1, <3>2, <3>3
    <2>2. /\ cancelAt[c] = "idle" /\ target' = [target EXCEPT ![c] = r]
          /\ UNCHANGED <<lotVars, rowVars, indexed, createAt, cronVars, leaked>>
      BY <1>7 DEF CancelGet
    <2> QED
      BY <2>1, <2>2
  <1>8. ASSUME NEW c \in Cancellers, CancelStep(c) PROVE FaasInv'
    <2>1. CASE CancelUpdate(c)
      BY <2>1 DEF CancelUpdate
    <2>2. CASE CancelRelease(c)
      BY <2>2 DEF CancelRelease
    <2> QED BY <1>8, <2>1, <2>2 DEF CancelStep
  <1>9. ASSUME NEW c \in Cancellers, CancelFails(c) PROVE FaasInv'
    BY <1>9 DEF CancelFails
  <1>10. ASSUME NEW x \in Crons, ExpireStep(x) PROVE FaasInv'
    <2>1. CASE ExpireStart(x)
      BY <2>1 DEF ExpireStart
    <2>2. ASSUME NEW page \in SUBSET indexed, ExpireQuery(x, page)
          PROVE  FaasInv'
      BY <2>2 DEF ExpireQuery
    <2>3. ASSUME NEW r \in Reservations, ExpireUpdate(x, r) PROVE FaasInv'
      <3>1. CASE status[r] = "active"
        <4>1. /\ status' = [status EXCEPT ![r] = "expired"]
              /\ cronItem' = [cronItem EXCEPT ![x] = r]
              /\ cronAt' = [cronAt EXCEPT ![x] = "marked"]
              /\ UNCHANGED <<lots, available, lotOf, createAt, cancelAt, target,
                             leaked>>
          BY <2>3, <3>1 DEF ExpireUpdate
        <4>2. r \notin leaked
          BY <3>1
        <4>3. /\ \A c \in Cancellers : cancelAt[c] = "marked" => target[c] # r
              /\ \A y \in Crons : cronAt[y] = "marked" => cronItem[y] # r
          BY <3>1
        <4>4. OwedOnce'
          BY <4>1, <4>2, <4>3
        <4>5. RowsStored' /\ LotsKnown' /\ AvailableNeverNegative'
          BY <3>1, <4>1
        <4>6. LeaksDead' /\ TargetsStored' /\ ItemsStored'
          BY <3>1, <4>1
        <4> QED
          BY <4>4, <4>5, <4>6
      <3>2. CASE status[r] # "active"
        BY <2>3, <3>2 DEF ExpireUpdate
      <3> QED BY <3>1, <3>2
    <2>4. CASE ExpireRelease(x)
      BY <2>4 DEF ExpireRelease
    <2>5. CASE ExpireFinish(x)
      BY <2>5 DEF ExpireFinish
    <2> QED BY <1>10, <2>1, <2>2, <2>3, <2>4, <2>5 DEF ExpireStep
  <1>11. ASSUME NEW x \in Crons, ExpireItemFails(x) PROVE FaasInv'
    BY <1>11 DEF ExpireItemFails, LoseMarked
  <1>12. ASSUME NEW x \in Crons, ExpireDies(x) PROVE FaasInv'
    BY <1>12 DEF ExpireDies, LoseMarked
  <1>13. CASE Tick
    BY <1>13 DEF Tick
  <1>14. CASE UNCHANGED vars
    BY <1>14 DEF vars
  <1> QED
    BY <1>1, <1>2, <1>3, <1>4, <1>5, <1>6, <1>7, <1>8, <1>9, <1>10, <1>11,
       <1>12, <1>13, <1>14 DEF Next

(* The inductive invariant holds in every reachable state. *)
THEOREM Invariant == Spec => []FaasInv
  BY InitInv, StepInv, PTL DEF Spec

(* Every variable stays of its type. *)
THEOREM TypeCorrect == Spec => []TypeOK
  <1>1. FaasInv => TypeOK
    BY DEF FaasInv
  <1> QED
    BY <1>1, Invariant, PTL

(* availableSpots never becomes negative, whatever administrators write. *)
THEOREM NeverNegative == Spec => []AvailableNeverNegative
  <1>1. FaasInv => AvailableNeverNegative
    BY DEF FaasInv
  <1> QED
    BY <1>1, Invariant, PTL

(* At most one handler is about to return the spot of a reservation. *)
THEOREM OneReleaser == Spec => []SingleReleaser
  <1>1. FaasInv => SingleReleaser
    BY DEF FaasInv, OwedOnce, SingleReleaser, Owed, CancelOwes, CronOwes
  <1> QED
    BY <1>1, Invariant, PTL

-----------------------------------------------------------------------------
(* The refinement. *)

(***************************************************************************)
(* A step that keeps the counts of the lots, every ticket, and the lot of  *)
(* every ticket that is not none, is a stutter of ParkingSpots.            *)
(***************************************************************************)
LEMMA MappedStutter ==
  ASSUME UNCHANGED <<lots, available, initial, patched>>,
         \A r \in Reservations :
            /\ TicketOf(r)' = TicketOf(r)
            /\ TicketOf(r) # "none" => lotOf'[r] = lotOf[r]
  PROVE  UNCHANGED Spots!vars
  <1>1. ticketBar' = ticketBar
    BY DEF ticketBar
  <1>2. atBar' = atBar
    BY DEF atBar
  <1> QED
    BY <1>1, <1>2 DEF Spots!vars

(* Tickets and lots of a step that ends, takes or returns nothing. *)
LEMMA SameHandlers ==
  ASSUME UNCHANGED <<lotVars, rowVars, createAt, cancelVars, history, leaked>>,
         \A x \in Crons, r \in Reservations : CronOwes(x, r)' <=> CronOwes(x, r)
  PROVE  UNCHANGED Spots!vars
  <1>1. \A r \in Reservations : Owed(r)' <=> Owed(r)
    BY DEF Owed, CancelOwes, cancelVars
  <1>2. \A r \in Reservations : TicketOf(r)' = TicketOf(r)
    BY <1>1 DEF TicketOf, Holds, Ended, rowVars
  <1> QED
    BY <1>2, MappedStutter DEF lotVars, rowVars, history

(* Taking a spot of lot l for reservation r. *)
LEMMA MappedTake ==
  ASSUME NEW r \in Reservations, NEW l \in Lots, FaasInv,
         l \in lots, available[l] > 0, lotOf[r] = l,
         TicketOf(r) = "none", TicketOf(r)' = "held",
         \A q \in Reservations : q # r => TicketOf(q)' = TicketOf(q),
         available' = [available EXCEPT ![l] = @ - 1],
         UNCHANGED <<lots, initial, patched, lotOf>>
  PROVE  Spots!Take(r, l)
  <1>1. ticketBar' = [ticketBar EXCEPT ![r] = "held"]
    BY DEF ticketBar
  <1>2. atBar' = [atBar EXCEPT ![r] = l]
    BY DEF atBar
  <1>3. ticketBar[r] = "none"
    BY DEF ticketBar
  <1> QED
    BY <1>1, <1>2, <1>3 DEF Spots!Take

(* Giving back the spot of reservation r. *)
LEMMA MappedReturn ==
  ASSUME NEW r \in Reservations, FaasInv, lotOf[r] \in lots,
         TicketOf(r) = "held", TicketOf(r)' = "returned",
         \A q \in Reservations : q # r => TicketOf(q)' = TicketOf(q),
         available' = [available EXCEPT ![lotOf[r]] = @ + 1],
         UNCHANGED <<lots, initial, patched, lotOf>>
  PROVE  Spots!Return(r)
  <1>1. ticketBar' = [ticketBar EXCEPT ![r] = "returned"]
    BY DEF ticketBar
  <1>2. atBar' = atBar
    BY DEF atBar
  <1>3. ticketBar[r] = "held" /\ atBar[r] = lotOf[r]
    BY DEF ticketBar, atBar
  <1> QED
    BY <1>1, <1>2, <1>3 DEF Spots!Return

(* Before anything happens no ticket holds a spot. *)
LEMMA InitRefines == Init => Spots!Init
  <1> SUFFICES ASSUME Init PROVE Spots!Init
    OBVIOUS
  <1>1. \A r \in Reservations : TicketOf(r) = "none"
    BY FaasAssumption
       DEF Init, TicketOf, Holds, Owed, CancelOwes, CronOwes, Ended
  <1> QED
    BY <1>1 DEF Init, Spots!Init, ticketBar, atBar

(* createReservation takes at most one spot, in its conditional decrement. *)
LEMMA CreateRefines ==
  ASSUME FaasInv, NEW r \in Reservations,
         \/ \E l \in Lots, end \in Times, offset \in Offsets :
               CreateGet(r, l, end, offset)
         \/ CreateStep(r)
         \/ CreateFails(r)
  PROVE  [Spots!Next]_(Spots!vars)
  <1> USE DEF FaasInv, TypeOK, RowsStored, LotsKnown, LeaksDead, OwedOnce
  <1>0. createAt[r] # "done" =>
           /\ status[r] = "none" /\ ~Ended(r) /\ ~Owed(r)
           /\ createAt[r] # "failed" => r \notin leaked
    BY DEF Ended, Owed, CancelOwes, CronOwes
  <1>1. CASE UNCHANGED <<status, cancelVars, cronVars>>
    <2>0. \A q \in Reservations : Owed(q)' <=> Owed(q)
      BY <1>1 DEF Owed, CancelOwes, CronOwes, cancelVars, cronVars
    <2>1. ASSUME NEW l \in Lots, NEW end \in Times, NEW offset \in Offsets,
                 CreateGet(r, l, end, offset)
          PROVE  UNCHANGED Spots!vars
      <3>1. TicketOf(r) = "none"
        BY <1>0, <2>1 DEF CreateGet, TicketOf, Holds
      <3>2. \A q \in Reservations : TicketOf(q)' = TicketOf(q)
        BY <1>1, <2>0, <2>1 DEF CreateGet, TicketOf, Holds, Ended
      <3>3. UNCHANGED <<lots, available, initial, patched>>
        BY <2>1 DEF CreateGet, lotVars, history
      <3>4. \A q \in Reservations : q # r => lotOf'[q] = lotOf[q]
        BY <2>1 DEF CreateGet
      <3> QED
        BY <3>1, <3>2, <3>3, <3>4, MappedStutter
    <2>2. CASE CreateDecrement(r) /\ available[lotOf[r]] > 0
      <3>1. PICK l \in Lots : l = lotOf[r] /\ l \in lots
        BY <2>2 DEF CreateDecrement
      <3>2. TicketOf(r) = "none"
        BY <1>0, <2>2 DEF CreateDecrement, TicketOf, Holds
      <3>3. /\ createAt' = [createAt EXCEPT ![r] = "decremented"]
            /\ available' = [available EXCEPT ![l] = @ - 1]
            /\ UNCHANGED <<lots, initial, patched, lotOf, leaked>>
        BY <2>2, <3>1 DEF CreateDecrement, rowVars, history
      <3>4. TicketOf(r)' = "held"
        BY <3>3 DEF TicketOf, Holds
      <3>5. \A q \in Reservations : q # r => TicketOf(q)' = TicketOf(q)
        BY <1>1, <2>0, <3>3 DEF TicketOf, Holds, Ended
      <3>6. Spots!Take(r, l)
        BY <2>2, <3>1, <3>2, <3>3, <3>4, <3>5, MappedTake
      <3> QED
        BY <3>1, <3>6 DEF Spots!Next
    <2>3. CASE CreateDecrement(r) /\ ~(available[lotOf[r]] > 0)
      <3>1. /\ createAt[r] = "read"
            /\ createAt' = [createAt EXCEPT ![r] = "rejected"]
            /\ UNCHANGED <<lots, available, initial, patched, lotOf, leaked>>
        BY <2>3 DEF CreateDecrement, rowVars, history
      <3>2. \A q \in Reservations : TicketOf(q)' = TicketOf(q)
        BY <1>1, <2>0, <3>1 DEF TicketOf, Holds, Ended
      <3> QED
        BY <3>1, <3>2, MappedStutter
    <2>4. CASE CreateFails(r)
      <3>1. /\ createAt' = [createAt EXCEPT ![r] = "failed"]
            /\ UNCHANGED <<lots, available, initial, patched, lotOf>>
        BY <2>4 DEF CreateFails, lotVars, rowVars, history
      <3>2. /\ createAt[r] = "read" => leaked' = leaked
            /\ createAt[r] = "decremented" => leaked' = leaked \cup {r}
            /\ createAt[r] \in {"read", "decremented"}
        BY <2>4 DEF CreateFails
      <3>3. \A q \in Reservations : TicketOf(q)' = TicketOf(q)
        BY <1>0, <1>1, <2>0, <3>1, <3>2 DEF TicketOf, Holds, Ended
      <3> QED
        BY <3>1, <3>3, MappedStutter
    <2>5. ~CreatePut(r)
      BY <1>0, <1>1 DEF CreatePut
    <2> QED
      BY <2>1, <2>2, <2>3, <2>4, <2>5 DEF CreateStep
  <1>2. CASE CreatePut(r)
    <2>1. /\ createAt[r] = "decremented"
          /\ createAt' = [createAt EXCEPT ![r] = "done"]
          /\ status' = [status EXCEPT ![r] = "active"]
          /\ UNCHANGED <<lots, available, initial, patched, lotOf, leaked>>
      BY <1>2 DEF CreatePut, lotVars, history
    <2>2. \A q \in Reservations : Owed(q)' <=> Owed(q)
      BY <1>2 DEF CreatePut, Owed, CancelOwes, CronOwes, cancelVars, cronVars
    <2>3. \A q \in Reservations : TicketOf(q)' = TicketOf(q)
      BY <2>1, <2>2 DEF TicketOf, Holds, Ended
    <2> QED
      BY <2>1, <2>3, MappedStutter
  <1> QED
    BY <1>1, <1>2
       DEF CreateGet, CreateStep, CreateDecrement, CreateFails, rowVars

(***************************************************************************)
(* cancelReservation returns at most one spot, that of the reservation it  *)
(* marked, which nobody else owes.                                         *)
(***************************************************************************)
LEMMA CancelRefines ==
  ASSUME FaasInv, NEW c \in Cancellers,
         \/ \E r \in Reservations : CancelGet(c, r)
         \/ CancelStep(c)
         \/ CancelFails(c)
  PROVE  [Spots!Next]_(Spots!vars)
  <1> USE DEF FaasInv, TypeOK, RowsStored, LotsKnown, TargetsStored, OwedOnce
  <1>1. ASSUME UNCHANGED cronVars,
               \A d \in Cancellers \ {c} :
                  cancelAt'[d] = cancelAt[d] /\ target'[d] = target[d]
        PROVE  \A q \in Reservations :
                  (CancelOwes(c, q)' <=> CancelOwes(c, q)) => (Owed(q)' <=> Owed(q))
    <2> SUFFICES ASSUME NEW q \in Reservations, CancelOwes(c, q)' <=> CancelOwes(c, q)
                 PROVE  Owed(q)' <=> Owed(q)
      OBVIOUS
    <2>1. \A d \in Cancellers : CancelOwes(d, q)' <=> CancelOwes(d, q)
      BY <1>1 DEF CancelOwes
    <2>2. \A x \in Crons : CronOwes(x, q)' <=> CronOwes(x, q)
      BY <1>1 DEF CronOwes, cronVars
    <2> QED
      BY <2>1, <2>2 DEF Owed
  <1>2. ASSUME NEW q \in Reservations, CancelGet(c, q)
        PROVE  UNCHANGED Spots!vars
    <2>1. \A p \in Reservations : Owed(p)' <=> Owed(p)
      BY <1>1, <1>2 DEF CancelGet, CancelOwes, cronVars
    <2>2. \A p \in Reservations : TicketOf(p)' = TicketOf(p)
      BY <1>2, <2>1 DEF CancelGet, TicketOf, Holds, Ended, rowVars
    <2> QED
      BY <1>2, <2>2, MappedStutter DEF CancelGet, lotVars, rowVars, history
  <1>3. CASE CancelUpdate(c) /\ status[target[c]] = "active"
    <2>0. PICK r \in Reservations : r = target[c]
      BY <1>3 DEF CancelUpdate
    <2>1. /\ cancelAt[c] = "read" /\ target[c] = r
          /\ status' = [status EXCEPT ![r] = "cancelled"]
          /\ cancelAt' = [cancelAt EXCEPT ![c] = "marked"]
          /\ UNCHANGED <<lots, available, initial, patched, lotOf, leaked,
                         createAt, target, cronVars>>
      BY <1>3, <2>0 DEF CancelUpdate, lotVars, history
    <2>2. Owed(r)'
      BY <2>1 DEF Owed, CancelOwes
    <2>3. \A q \in Reservations : q # r => (Owed(q)' <=> Owed(q))
      BY <1>1, <2>1 DEF CancelOwes, cronVars
    <2>4. \A q \in Reservations : TicketOf(q)' = TicketOf(q)
      BY <1>3, <2>0, <2>1, <2>2, <2>3 DEF TicketOf, Holds, Ended
    <2> QED
      BY <2>1, <2>4, MappedStutter
  <1>4. CASE CancelUpdate(c) /\ status[target[c]] # "active"
    <2>1. /\ cancelAt[c] = "read"
          /\ cancelAt' = [cancelAt EXCEPT ![c] = "rejected"]
          /\ UNCHANGED <<lots, available, initial, patched, lotOf, leaked,
                         createAt, status, target, cronVars>>
      BY <1>4 DEF CancelUpdate, lotVars, history
    <2>2. \A q \in Reservations : Owed(q)' <=> Owed(q)
      BY <1>1, <2>1 DEF CancelOwes, cronVars
    <2>3. \A q \in Reservations : TicketOf(q)' = TicketOf(q)
      BY <2>1, <2>2 DEF TicketOf, Holds, Ended
    <2> QED
      BY <2>1, <2>3, MappedStutter
  <1>5. CASE CancelRelease(c)
    <2>0. PICK r \in Reservations : r = target[c]
      BY <1>5 DEF CancelRelease
    <2>1. /\ cancelAt[c] = "marked" /\ target[c] = r
          /\ available' = [available EXCEPT ![lotOf[r]] = @ + 1]
          /\ cancelAt' = [cancelAt EXCEPT ![c] = "done"]
          /\ UNCHANGED <<lots, initial, patched, lotOf, leaked, createAt,
                         status, target, cronVars>>
      BY <1>5, <2>0 DEF CancelRelease, rowVars, history
    <2>2. Ended(r) /\ createAt[r] = "done" /\ r \notin leaked
      BY <2>1 DEF Ended
    <2>3. ~Owed(r)'
      BY <2>1 DEF Owed, CancelOwes, CronOwes, cronVars
    <2>4. TicketOf(r) = "held"
      BY <2>1 DEF TicketOf, Holds, Owed, CancelOwes
    <2>5. TicketOf(r)' = "returned"
      BY <2>1, <2>2, <2>3 DEF TicketOf, Holds, Ended
    <2>6. \A q \in Reservations : q # r => (Owed(q)' <=> Owed(q))
      BY <1>1, <2>1 DEF CancelOwes, cronVars
    <2>7. \A q \in Reservations : q # r => TicketOf(q)' = TicketOf(q)
      BY <2>1, <2>6 DEF TicketOf, Holds, Ended
    <2>8. Spots!Return(r)
      BY <2>1, <2>2, <2>4, <2>5, <2>7, MappedReturn
    <2> QED
      BY <2>1, <2>8 DEF Spots!Next
  <1>6. CASE CancelFails(c)
    <2>0. PICK r \in Reservations : r = target[c]
      BY <1>6 DEF CancelFails
    <2>1. /\ cancelAt[c] \in {"read", "marked"} /\ target[c] = r
          /\ leaked' = IF cancelAt[c] = "marked" THEN leaked \cup {r} ELSE leaked
          /\ cancelAt' = [cancelAt EXCEPT ![c] = "failed"]
          /\ UNCHANGED <<lots, available, initial, patched, lotOf, createAt,
                         status, target, cronVars>>
      BY <1>6, <2>0 DEF CancelFails, lotVars, rowVars, history
    <2>2. \A q \in Reservations : q # r => (Owed(q)' <=> Owed(q))
      BY <1>1, <2>1 DEF CancelOwes, cronVars
    <2>3. cancelAt[c] = "read" => (Owed(r)' <=> Owed(r))
      BY <1>1, <2>1 DEF CancelOwes, cronVars
    <2>4. cancelAt[c] = "marked" => Owed(r) /\ r \in leaked'
      BY <2>1 DEF Owed, CancelOwes
    <2>5. \A q \in Reservations : TicketOf(q)' = TicketOf(q)
      BY <2>1, <2>2, <2>3, <2>4 DEF TicketOf, Holds, Ended
    <2> QED
      BY <2>1, <2>5, MappedStutter
  <1> QED
    BY <1>2, <1>3, <1>4, <1>5, <1>6 DEF CancelStep

(***************************************************************************)
(* expireReservations returns one spot per reservation it marked, and none *)
(* for an item somebody else ended after its query.                        *)
(***************************************************************************)
LEMMA ExpireRefines ==
  ASSUME FaasInv, NEW x \in Crons,
         ExpireStep(x) \/ ExpireItemFails(x) \/ ExpireDies(x)
  PROVE  [Spots!Next]_(Spots!vars)
  <1> USE DEF FaasInv, TypeOK, RowsStored, LotsKnown, ItemsStored, OwedOnce
  <1>1. ASSUME UNCHANGED cancelVars,
               \A y \in Crons \ {x} :
                  cronAt'[y] = cronAt[y] /\ cronItem'[y] = cronItem[y]
        PROVE  \A q \in Reservations :
                  (CronOwes(x, q)' <=> CronOwes(x, q)) => (Owed(q)' <=> Owed(q))
    <2> SUFFICES ASSUME NEW q \in Reservations, CronOwes(x, q)' <=> CronOwes(x, q)
                 PROVE  Owed(q)' <=> Owed(q)
      OBVIOUS
    <2>1. \A y \in Crons : CronOwes(y, q)' <=> CronOwes(y, q)
      BY <1>1 DEF CronOwes
    <2>2. \A c \in Cancellers : CancelOwes(c, q)' <=> CancelOwes(c, q)
      BY <1>1 DEF CancelOwes, cancelVars
    <2> QED
      BY <2>1, <2>2 DEF Owed
  <1>2. CASE \/ ExpireStart(x)
             \/ \E page \in SUBSET indexed : ExpireQuery(x, page)
             \/ ExpireFinish(x)
    <2>1. \A y \in Crons, q \in Reservations : CronOwes(y, q)' <=> CronOwes(y, q)
      BY <1>2 DEF ExpireStart, ExpireQuery, ExpireFinish, CronOwes
    <2> QED
      BY <1>2, <2>1, SameHandlers DEF ExpireStart, ExpireQuery, ExpireFinish
  <1>3. ASSUME NEW q \in Reservations, ExpireUpdate(x, q), status[q] = "active"
        PROVE  UNCHANGED Spots!vars
    <2>1. /\ cronAt[x] = "loop"
          /\ status' = [status EXCEPT ![q] = "expired"]
          /\ cronAt' = [cronAt EXCEPT ![x] = "marked"]
          /\ cronItem' = [cronItem EXCEPT ![x] = q]
          /\ UNCHANGED <<lots, available, initial, patched, lotOf, leaked,
                         createAt, cancelVars>>
      BY <1>3 DEF ExpireUpdate, lotVars, history
    <2>2. Owed(q)'
      BY <2>1 DEF Owed, CronOwes
    <2>3. \A p \in Reservations : p # q => (Owed(p)' <=> Owed(p))
      BY <1>1, <2>1 DEF CronOwes
    <2>4. \A p \in Reservations : TicketOf(p)' = TicketOf(p)
      BY <1>3, <2>1, <2>2, <2>3 DEF TicketOf, Holds, Ended
    <2> QED
      BY <2>1, <2>4, MappedStutter
  <1>4. ASSUME NEW q \in Reservations, ExpireUpdate(x, q), status[q] # "active"
        PROVE  UNCHANGED Spots!vars
    <2>1. \A y \in Crons, p \in Reservations : CronOwes(y, p)' <=> CronOwes(y, p)
      BY <1>4 DEF ExpireUpdate, CronOwes
    <2> QED
      BY <1>4, <2>1, SameHandlers DEF ExpireUpdate, rowVars
  <1>5. CASE ExpireRelease(x)
    <2>a. PICK r \in Reservations : r = cronItem[x]
      BY <1>5 DEF ExpireRelease
    <2>1. /\ cronAt[x] = "marked" /\ cronItem[x] = r
          /\ available' = [available EXCEPT ![lotOf[r]] = @ + 1]
          /\ cronAt' = [cronAt EXCEPT ![x] = "loop"]
          /\ cronItem' = [cronItem EXCEPT ![x] = NoReservation]
          /\ UNCHANGED <<lots, initial, patched, lotOf, leaked, createAt,
                         status, cancelVars>>
      BY <1>5, <2>a DEF ExpireRelease, rowVars, history
    <2>0. Ended(r) /\ r \notin leaked
      BY <2>1
    <2>2. Ended(r) /\ createAt[r] = "done" /\ r \notin leaked
      BY <2>0, <2>1 DEF Ended
    <2>3. ~Owed(r)'
      BY <2>1 DEF Owed, CancelOwes, CronOwes, cancelVars
    <2>4. TicketOf(r) = "held"
      <3>1. CronOwes(x, r)
        BY <2>1 DEF CronOwes
      <3> QED
        BY <3>1 DEF TicketOf, Holds, Owed
    <2>5. TicketOf(r)' = "returned"
      BY <2>1, <2>2, <2>3 DEF TicketOf, Holds, Ended
    <2>6. \A q \in Reservations : q # r => (Owed(q)' <=> Owed(q))
      BY <1>1, <2>1 DEF CronOwes
    <2>7. \A q \in Reservations : q # r => TicketOf(q)' = TicketOf(q)
      BY <2>1, <2>6 DEF TicketOf, Holds, Ended
    <2>8. Spots!Return(r)
      BY <2>1, <2>2, <2>4, <2>5, <2>7, MappedReturn
    <2> QED
      BY <2>1, <2>8 DEF Spots!Next
  <1>6. CASE ExpireItemFails(x) \/ ExpireDies(x)
    <2>1. /\ leaked' = IF cronAt[x] = "marked" THEN leaked \cup {cronItem[x]}
                                               ELSE leaked
          /\ cronItem' = [cronItem EXCEPT ![x] = NoReservation]
          /\ cronAt'[x] # "marked"
          /\ \A y \in Crons : y # x => cronAt'[y] = cronAt[y]
          /\ UNCHANGED <<lots, available, initial, patched, lotOf, createAt,
                         status, cancelVars>>
      BY <1>6 DEF ExpireItemFails, ExpireDies, LoseMarked, lotVars, rowVars,
                  history
    <2>2. \A q \in Reservations :
             ~CronOwes(x, q) => (Owed(q)' <=> Owed(q)) /\ (q \in leaked' <=> q \in leaked)
      BY <1>1, <2>1 DEF CronOwes
    <2>3. \A q \in Reservations : CronOwes(x, q) => Owed(q) /\ q \in leaked'
      BY <2>1 DEF Owed, CronOwes
    <2>4. \A q \in Reservations : TicketOf(q)' = TicketOf(q)
      BY <2>1, <2>2, <2>3 DEF TicketOf, Holds, Ended
    <2> QED
      BY <2>1, <2>4, MappedStutter
  <1> QED
    BY <1>2, <1>3, <1>4, <1>5, <1>6 DEF ExpireStep

(* Every step of the handlers is a step of ParkingSpots, or invisible to it. *)
LEMMA StepRefines == FaasInv /\ [Next]_vars => [Spots!Next]_(Spots!vars)
  <1> SUFFICES ASSUME FaasInv, [Next]_vars PROVE [Spots!Next]_(Spots!vars)
    OBVIOUS
  <1> USE DEF FaasInv, TypeOK
  <1>1. ASSUME NEW l \in Lots, NEW n \in Requests, CreateParkingLot(l, n)
        PROVE  Spots!Next
    <2>1. Clamp(n, Capacity[l]) \in 0..Capacity[l]
      BY FaasAssumption, ClampInRange
    <2>2. \A r \in Reservations : TicketOf(r)' = TicketOf(r)
      BY <1>1 DEF CreateParkingLot, TicketOf, Holds, Owed, CancelOwes, CronOwes,
                  Ended, rowVars, cancelVars, cronVars
    <2>3. ticketBar' = ticketBar
      BY <2>2 DEF ticketBar
    <2>4. atBar' = atBar
      BY <1>1, <2>2 DEF atBar, CreateParkingLot, rowVars
    <2>5. Spots!Open(l, Clamp(n, Capacity[l]))
      BY <1>1, <2>3, <2>4 DEF CreateParkingLot, Spots!Open
    <2> QED
      BY <2>1, <2>5 DEF Spots!Next
  <1>2. ASSUME NEW l \in Lots, NEW n \in Patches,
               UpdateParkingAvailability(l, n)
        PROVE  Spots!Next
    <2>1. \A r \in Reservations : TicketOf(r)' = TicketOf(r)
      BY <1>2 DEF UpdateParkingAvailability, TicketOf, Holds, Owed, CancelOwes,
                  CronOwes, Ended, rowVars, cancelVars, cronVars
    <2>2. ticketBar' = ticketBar
      BY <2>1 DEF ticketBar
    <2>3. atBar' = atBar
      BY <1>2, <2>1 DEF atBar, UpdateParkingAvailability, rowVars
    <2>4. Spots!Overwrite(l, n)
      BY <1>2, <2>2, <2>3 DEF UpdateParkingAvailability, Spots!Overwrite
    <2> QED
      BY <2>4 DEF Spots!Next
  <1>3. CASE \/ \E r \in Reservations : IndexCatchesUp(r)
             \/ Tick
             \/ UNCHANGED vars
    <2>1. \A x \in Crons, r \in Reservations : CronOwes(x, r)' <=> CronOwes(x, r)
      BY <1>3 DEF IndexCatchesUp, Tick, vars, cronVars, CronOwes
    <2> QED
      BY <1>3, <2>1, SameHandlers DEF IndexCatchesUp, Tick, vars
  <1> QED
    BY <1>1, <1>2, <1>3, CreateRefines, CancelRefines, ExpireRefines DEF Next

(***************************************************************************)
(* The handlers implement ParkingSpots: each reservation takes at most one *)
(* spot and returns it at most once, to the lot it took it from.           *)
(***************************************************************************)
THEOREM Refinement == Spec => ImplementsParkingSpots
  BY InitRefines, StepRefines, Invariant, PTL
     DEF Spec, ImplementsParkingSpots, Spots!Spec

-----------------------------------------------------------------------------
(* What ParkingSpots guarantees, read back in the tables. *)

(***************************************************************************)
(* The inductive invariant of the counts: a reservation that holds a spot  *)
(* holds one of an existing lot, no lot was created with more spots than   *)
(* its capacity, and the spots of a lot nobody overwrote add up.           *)
(***************************************************************************)
CountInv ==
  /\ \A l \in lots : initial[l] <= Capacity[l]
  /\ SpotsConserved

(* The holders of a lot, as ParkingSpots sees them before and after a step. *)
LEMMA HoldersMapped ==
  ASSUME NEW l \in Lots
  PROVE  /\ Holders(l) = {r \in Reservations : ticketBar[r] = "held" /\ atBar[r] = l}
         /\ Holders(l)' = {r \in Reservations : ticketBar'[r] = "held" /\ atBar'[r] = l}
  <1>1. ASSUME NEW r \in Reservations
        PROVE  /\ ticketBar[r] = "held" <=> Holds(r)
               /\ ticketBar'[r] = "held" <=> Holds(r)'
               /\ Holds(r) => atBar[r] = lotOf[r]
               /\ Holds(r)' => atBar'[r] = lotOf'[r]
    BY DEF ticketBar, atBar, TicketOf
  <1> QED
    BY <1>1 DEF Holders

(* There are finitely many holders. *)
LEMMA HoldersFinite ==
  ASSUME NEW l
  PROVE  IsFiniteSet(Holders(l)) /\ Cardinality(Holders(l)) \in Nat
  <1>1. Holders(l) \in SUBSET Reservations
    BY DEF Holders
  <1>2. IsFiniteSet(Holders(l))
    BY <1>1, FS_Subset, FaasAssumption
  <1> QED
    BY <1>2, FS_CardinalityType

(***************************************************************************)
(* Each step of ParkingSpots moves at most one reservation into or out of  *)
(* the holders of one lot, and the lot's count by as much the other way.   *)
(***************************************************************************)
LEMMA StepCounts ==
  FaasInv /\ FaasInv' /\ CountInv /\ [Spots!Next]_(Spots!vars) => CountInv'
  <1> SUFFICES ASSUME FaasInv, FaasInv', CountInv, [Spots!Next]_(Spots!vars)
               PROVE  CountInv'
    OBVIOUS
  <1>a. /\ lots \subseteq Lots /\ lots' \subseteq Lots
        /\ available \in [Lots -> Int] /\ available' \in [Lots -> Int]
        /\ initial \in [Lots -> Nat] /\ initial' \in [Lots -> Nat]
        /\ Capacity \in [Lots -> Nat]
    BY FaasAssumption DEF FaasInv, TypeOK
  <1>b. ticketBar = [r \in Reservations |-> TicketOf(r)]
    BY DEF ticketBar
  <1>c. atBar = [r \in Reservations |->
                   IF TicketOf(r) = "none" THEN NoLot ELSE lotOf[r]]
    BY DEF atBar
  <1>0. ASSUME NEW l \in Lots
        PROVE  /\ Holders(l) = {r \in Reservations : ticketBar[r] = "held" /\ atBar[r] = l}
               /\ Holders(l)' = {r \in Reservations : ticketBar'[r] = "held" /\ atBar'[r] = l}
    BY HoldersMapped
  <1>1. ASSUME NEW l \in Lots, NEW n \in 0..Capacity[l], Spots!Open(l, n)
        PROVE  CountInv'
    <2>1. \A k \in Lots : Holders(k)' = Holders(k)
      BY <1>0, <1>1 DEF Spots!Open
    <2>2. Holders(l) = {}
      <3>1. ASSUME NEW r \in Reservations, Holds(r) PROVE lotOf[r] \in lots
        <4>1. Owed(r) => Ended(r)
          BY DEF Owed, CancelOwes, CronOwes, OwedOnce, FaasInv
        <4>2. Ended(r) \/ status[r] = "active" => createAt[r] = "done"
          BY DEF Ended, RowsStored, FaasInv
        <4>3. r \in leaked => createAt[r] = "failed" \/ Ended(r)
          BY DEF LeaksDead, FaasInv
        <4> QED
          BY <3>1, <4>1, <4>2, <4>3 DEF Holds, LotsKnown, FaasInv
      <3> QED
        BY <1>1, <3>1 DEF Holders, Spots!Open
    <2>3. SpotsConserved'
      <3> SUFFICES ASSUME NEW k \in lots' \ patched'
                   PROVE  available'[k] + Cardinality(Holders(k)') = initial'[k]
        BY DEF SpotsConserved
      <3>1. CASE k = l
        BY <1>a, <1>1, <2>1, <2>2, <3>1, FS_EmptySet DEF Spots!Open
      <3>2. CASE k # l
        BY <1>a, <1>1, <2>1, <3>2 DEF Spots!Open, CountInv, SpotsConserved
      <3> QED BY <3>1, <3>2
    <2> QED
      BY <1>a, <1>1, <2>3 DEF Spots!Open, CountInv
  <1>2. ASSUME NEW l \in Lots, NEW n \in Patches, Spots!Overwrite(l, n)
        PROVE  CountInv'
    <2>1. \A k \in Lots : Holders(k)' = Holders(k)
      BY <1>0, <1>2 DEF Spots!Overwrite
    <2> QED
      BY <1>a, <1>2, <2>1 DEF Spots!Overwrite, CountInv, SpotsConserved
  <1>3. ASSUME NEW r \in Reservations, NEW l \in Lots, Spots!Take(r, l)
        PROVE  CountInv'
    <2>1. Holders(l)' = Holders(l) \cup {r} /\ r \notin Holders(l)
      BY <1>0, <1>3, <1>b, <1>c DEF Spots!Take
    <2>2. \A k \in Lots : k # l => Holders(k)' = Holders(k)
      BY <1>0, <1>3, <1>b, <1>c DEF Spots!Take
    <2>3. Cardinality(Holders(l)') = Cardinality(Holders(l)) + 1
      BY <2>1, HoldersFinite, FS_AddElement
    <2>4. ASSUME NEW k \in lots' \ patched'
          PROVE  available'[k] + Cardinality(Holders(k)') = initial'[k]
      <3>1. CASE k = l
        BY <1>a, <1>3, <2>3, <3>1, HoldersFinite DEF Spots!Take, CountInv, SpotsConserved
      <3>2. CASE k # l
        BY <1>a, <1>3, <2>2, <3>2 DEF Spots!Take, CountInv, SpotsConserved
      <3> QED BY <3>1, <3>2
    <2> QED
      BY <1>a, <1>3, <2>4 DEF Spots!Take, CountInv, SpotsConserved
  <1>4. ASSUME NEW r \in Reservations, Spots!Return(r)
        PROVE  CountInv'
    <2>0. PICK l \in Lots : l = atBar[r] /\ l \in lots
      BY <1>a, <1>4 DEF Spots!Return
    <2>1. Holders(l)' = Holders(l) \ {r} /\ r \in Holders(l)
      BY <1>0, <1>4, <2>0, <1>a, <1>b, <1>c DEF Spots!Return
    <2>2. ASSUME NEW k \in Lots, k # l PROVE Holders(k)' = Holders(k)
      <3>1. \A q \in Reservations : atBar'[q] = k => q # r
        BY <1>4, <2>0, <2>2 DEF Spots!Return
      <3>2. \A q \in Reservations : q # r => ticketBar'[q] = ticketBar[q]
        BY <1>4, <1>b DEF Spots!Return
      <3>3. atBar' = atBar
        BY <1>4 DEF Spots!Return
      <3> QED
        BY <1>0, <3>1, <3>2, <3>3
    <2>3. Cardinality(Holders(l)') = Cardinality(Holders(l)) - 1
      BY <2>1, HoldersFinite, FS_RemoveElement
    <2>4. ASSUME NEW k \in lots' \ patched'
          PROVE  available'[k] + Cardinality(Holders(k)') = initial'[k]
      <3>1. CASE k = l
        BY <1>a, <1>4, <2>0, <2>3, <3>1, HoldersFinite
           DEF Spots!Return, CountInv, SpotsConserved
      <3>2. CASE k # l
        BY <1>a, <1>4, <2>0, <2>2, <3>2 DEF Spots!Return, CountInv, SpotsConserved
      <3> QED BY <3>1, <3>2
    <2> QED
      BY <1>a, <1>4, <2>4 DEF Spots!Return, CountInv, SpotsConserved
  <1>5. CASE UNCHANGED Spots!vars
    <2>1. \A k \in Lots : Holders(k)' = Holders(k)
      BY <1>0, <1>5 DEF Spots!vars
    <2> QED
      BY <1>a, <1>5, <2>1 DEF Spots!vars, CountInv, SpotsConserved
  <1> QED
    BY <1>1, <1>2, <1>3, <1>4, <1>5 DEF Spots!Next

(* The counts add up in every reachable state. *)
LEMMA Counted == Spec => []CountInv
  <1>1. Init => CountInv
    BY DEF Init, CountInv, SpotsConserved
  <1> QED
    BY <1>1, Invariant, StepRefines, StepCounts, PTL DEF Spec

(* No interleaving loses or invents a spot of a lot nobody overwrote. *)
THEOREM Conservation == Spec => []SpotsConserved
  <1>1. CountInv => SpotsConserved
    BY DEF CountInv
  <1> QED
    BY <1>1, Counted, PTL

(* A lot nobody overwrote never has more active reservations than spots. *)
THEOREM NeverOverbooked == Spec => []NoOverbooking
  <1>1. FaasInv /\ CountInv => NoOverbooking
    <2> SUFFICES ASSUME FaasInv, CountInv, NEW l \in lots \ patched
                 PROVE  Cardinality({r \in Reservations :
                           lotOf[r] = l /\ status[r] = "active"}) <= Capacity[l]
      BY DEF NoOverbooking
    <2> DEFINE Active == {r \in Reservations : lotOf[r] = l /\ status[r] = "active"}
    <2>1. Active \in SUBSET Holders(l)
      BY DEF Holders, Holds
    <2>2. /\ Cardinality(Active) <= Cardinality(Holders(l))
          /\ Cardinality(Active) \in Nat
      BY <2>1, HoldersFinite, FS_Subset, FS_CardinalityType
    <2>3. /\ available[l] + Cardinality(Holders(l)) = initial[l]
          /\ initial[l] <= Capacity[l] /\ available[l] >= 0
          /\ available[l] \in Int /\ initial[l] \in Nat /\ Capacity[l] \in Nat
      BY FaasAssumption DEF CountInv, SpotsConserved, FaasInv, TypeOK,
         AvailableNeverNegative
    <2> QED
      BY <2>2, <2>3, HoldersFinite
  <1> QED
    BY <1>1, Invariant, Counted, PTL

-----------------------------------------------------------------------------
(* What a failure costs. *)

LossInv == IsFiniteSet(leaked) /\ Cardinality(leaked) <= failures

(* Each failure, and no other step, loses a spot, and one at most. *)
LEMMA LossStep == FaasInv /\ LossInv /\ [Next]_vars => LossInv'
  <1> SUFFICES ASSUME FaasInv, LossInv, [Next]_vars PROVE LossInv'
    OBVIOUS
  <1>1. Cardinality(leaked) \in Nat /\ failures \in Nat
    BY FS_CardinalityType, FaasAssumption DEF LossInv, FaasInv, TypeOK
  <1>2. ASSUME Fail, leaked' = leaked \/ \E r : leaked' = leaked \cup {r} PROVE LossInv'
    <2>1. IsFiniteSet(leaked') /\ Cardinality(leaked') <= Cardinality(leaked) + 1
      <3>1. CASE leaked' = leaked
        BY <1>1, <3>1 DEF LossInv
      <3>2. ASSUME NEW r, leaked' = leaked \cup {r}
            PROVE  /\ IsFiniteSet(leaked \cup {r})
                   /\ Cardinality(leaked \cup {r}) <= Cardinality(leaked) + 1
        <4>1. CASE r \in leaked
          <5>1. leaked \cup {r} = leaked
            BY <4>1
          <5> QED
            BY <1>1, <5>1 DEF LossInv
        <4>2. CASE r \notin leaked
          <5>1. IsFiniteSet(leaked)
            BY DEF LossInv
          <5>2. /\ IsFiniteSet(leaked \cup {r})
                /\ Cardinality(leaked \cup {r}) = Cardinality(leaked) + 1
            BY <4>2, <5>1, FS_AddElement
          <5> QED
            BY <1>1, <5>2
        <4> QED
          BY <4>1, <4>2
      <3> QED
        BY <1>2, <3>1, <3>2
    <2>2. failures' = failures + 1
      BY <1>2 DEF Fail
    <2>3. Cardinality(leaked') \in Nat
      BY <2>1, FS_CardinalityType
    <2> QED
      BY <1>1, <2>1, <2>2, <2>3 DEF LossInv
  <1>3. ASSUME NEW r \in Reservations, CreateFails(r) PROVE LossInv'
    BY <1>2, <1>3 DEF CreateFails
  <1>4. ASSUME NEW c \in Cancellers, CancelFails(c) PROVE LossInv'
    BY <1>2, <1>4 DEF CancelFails
  <1>5. ASSUME NEW x \in Crons, ExpireItemFails(x) \/ ExpireDies(x) PROVE LossInv'
    BY <1>2, <1>5 DEF ExpireItemFails, ExpireDies, LoseMarked
  <1>6. CASE UNCHANGED <<failures, leaked>>
    BY <1>6 DEF LossInv
  <1> QED
    BY <1>3, <1>4, <1>5, <1>6
       DEF Next, CreateStep, CancelStep, ExpireStep, CreateParkingLot,
           UpdateParkingAvailability, CreateGet, CreateDecrement, CreatePut,
           IndexCatchesUp, CancelGet, CancelUpdate, CancelRelease, ExpireStart,
           ExpireQuery, ExpireUpdate, ExpireRelease, ExpireFinish, Tick, vars

(***************************************************************************)
(* A failure between the two updates of createReservation,                 *)
(* cancelReservation or expireReservations costs one spot at most, and     *)
(* nothing but such a failure costs any.                                   *)
(***************************************************************************)
THEOREM OneSpotPerFailure == Spec => []LossesBounded
  <1>1. Init => LossInv
    BY FS_EmptySet DEF Init, LossInv
  <1>2. FaasInv /\ CountInv /\ LossInv => LossesBounded
    <2> SUFFICES ASSUME FaasInv, CountInv, LossInv, NEW l \in lots \ patched
                 PROVE  initial[l] <= available[l] + Cardinality(Holders(l) \ leaked) + failures
      BY DEF LossesBounded
    <2> DEFINE Kept == Holders(l) \ leaked
    <2>1. IsFiniteSet(Kept) /\ Cardinality(Kept) \in Nat
      BY HoldersFinite, FS_Difference, FS_CardinalityType
    <2>2. Cardinality(leaked) \in Nat /\ failures \in Nat
      BY FS_CardinalityType, FaasAssumption DEF LossInv, FaasInv, TypeOK
    <2>3. /\ IsFiniteSet(Kept \cup leaked) /\ Cardinality(Kept \cup leaked) \in Nat
          /\ Cardinality(Kept \cup leaked) <= Cardinality(Kept) + Cardinality(leaked)
      <3>1. /\ IsFiniteSet(Kept \cup leaked)
            /\ Cardinality(Kept \cup leaked) =
                  Cardinality(Kept) + Cardinality(leaked) - Cardinality(Kept \cap leaked)
        BY <2>1, FS_Union DEF LossInv
      <3>2. Cardinality(Kept \cap leaked) \in Nat
        BY <2>1, FS_Intersection, FS_CardinalityType DEF LossInv
      <3> HIDE DEF Kept
      <3>3. Cardinality(Kept \cup leaked) \in Nat
        BY <3>1, FS_CardinalityType
      <3> QED
        BY <2>1, <2>2, <3>1, <3>2, <3>3
    <2>4. /\ Cardinality(Holders(l)) <= Cardinality(Kept \cup leaked)
          /\ Cardinality(Holders(l)) \in Nat
      BY <2>3, FS_Subset, HoldersFinite
    <2>5. /\ available[l] + Cardinality(Holders(l)) = initial[l]
          /\ available[l] \in Int /\ initial[l] \in Nat
      BY DEF CountInv, SpotsConserved, FaasInv, TypeOK
    <2> QED
      BY <2>1, <2>2, <2>3, <2>4, <2>5 DEF LossInv
  <1> QED
    BY <1>1, <1>2, LossStep, Invariant, Counted, PTL DEF Spec

-----------------------------------------------------------------------------
(* The life of a reservation. *)

(* Each write of a status is conditional on what it replaces. *)
LEMMA LifeStep == FaasInv /\ [Next]_vars => [Life!Next]_status
  <1> SUFFICES ASSUME FaasInv, Next, status' # status PROVE Life!Next
    BY DEF vars, rowVars
  <1> USE DEF FaasInv, TypeOK
  <1>1. ASSUME NEW r \in Reservations, CreatePut(r) PROVE Life!Next
    <2>1. status[r] = "none"
      BY <1>1 DEF CreatePut, RowsStored
    <2>2. Life!Store(r)
      BY <1>1, <2>1 DEF CreatePut, Life!Store
    <2> QED
      BY <2>2 DEF Life!Next
  <1>2. ASSUME NEW c \in Cancellers, CancelUpdate(c) PROVE Life!Next
    <2>1. target[c] \in Reservations /\ Life!End(target[c], "cancelled")
      BY <1>2 DEF CancelUpdate, TargetsStored, Life!End
    <2> QED
      BY <2>1 DEF Life!Next
  <1>3. ASSUME NEW x \in Crons, NEW r \in Reservations, ExpireUpdate(x, r)
        PROVE  Life!Next
    <2>1. Life!End(r, "expired")
      BY <1>3 DEF ExpireUpdate, Life!End
    <2> QED
      BY <2>1 DEF Life!Next
  <1> QED
    BY <1>1, <1>2, <1>3
       DEF Next, CreateStep, CancelStep, ExpireStep, CreateParkingLot,
           UpdateParkingAvailability, CreateGet, CreateDecrement, CreateFails,
           IndexCatchesUp, CancelGet, CancelRelease, CancelFails, ExpireStart,
           ExpireQuery, ExpireRelease, ExpireFinish, ExpireItemFails,
           ExpireDies, Tick, rowVars

(***************************************************************************)
(* Cancel calls and overlapping crons end a reservation once, in one way,  *)
(* although each decides on a status it read before.                       *)
(***************************************************************************)
THEOREM OneLife == Spec => ImplementsReservationLife
  <1>1. Init => Life!Init
    BY DEF Init, Life!Init
  <1> QED
    BY <1>1, LifeStep, Invariant, PTL DEF Spec, ImplementsReservationLife, Life!Spec

(***************************************************************************)
(* Cancellations and crons never rewrite an ended reservation.             *)
(***************************************************************************)
THEOREM EndedStaysEnded == Spec => EndedForGood
  <1>1. ASSUME FaasInv, [Life!Next]_status, NEW r \in Reservations, Ended(r)
        PROVE  status'[r] = status[r]
    <2>1. \A q \in Reservations : Life!Store(q) => q # r /\ status'[r] = status[r]
      BY <1>1 DEF Life!Store, Ended, FaasInv, TypeOK
    <2>2. \A q \in Reservations, ending \in {"cancelled", "expired"} :
             Life!End(q, ending) => q # r /\ status'[r] = status[r]
      BY <1>1 DEF Life!End, Ended, FaasInv, TypeOK
    <2> QED
      BY <1>1, <2>1, <2>2 DEF Life!Next
  <1>2. FaasInv /\ [Life!Next]_status =>
           [\A r \in Reservations : Ended(r) => status'[r] = status[r]]_vars
    BY <1>1
  <1> QED
    BY <1>2, LifeStep, Invariant, PTL DEF Spec, EndedForGood

-----------------------------------------------------------------------------
(* Why nothing is expired early. *)

(***************************************************************************)
(* The inductive invariant of the cron: an endTime never sorts before its  *)
(* instant, the index lists stored rows only, whose endTime is final, and  *)
(* what a cron still has to visit had ended by the now it captured.        *)
(***************************************************************************)
CronInv ==
  /\ \A r \in Reservations : endTime[r] <= endText[r]
  /\ \A r \in indexed : createAt[r] = "done"
  /\ \A x \in Crons :
        /\ cronNow[x] <= clock
        /\ \A r \in cronItems[x] :
              createAt[r] = "done" /\ endText[r] <= cronNow[x]

(* Clients write their times so that none sorts before its instant. *)
TextsNotEarly == \A offset \in Offsets : offset >= 0

LEMMA CronStep ==
  ASSUME TextsNotEarly, FaasInv, CronInv, [Next]_vars PROVE CronInv'
  <1> USE DEF CronInv, FaasInv, TypeOK, Times
  <1>1. ASSUME NEW r \in Reservations, NEW l \in Lots, NEW end \in Times,
               NEW offset \in Offsets, CreateGet(r, l, end, offset)
        PROVE  CronInv'
    <2>1. end \in Int /\ offset \in Int /\ offset >= 0
      BY FaasAssumption DEF TextsNotEarly
    <2>2. \A q \in Reservations : createAt[q] = "done" => q # r
      BY <1>1 DEF CreateGet
    <2>3. /\ endTime' = [endTime EXCEPT ![r] = end]
          /\ endText' = [endText EXCEPT ![r] = end + offset]
          /\ \A q \in Reservations : q # r => createAt'[q] = createAt[q]
          /\ UNCHANGED <<indexed, cronNow, cronItems, clock>>
      BY <1>1 DEF CreateGet, cronVars
    <2>4. \A q \in Reservations : endTime'[q] <= endText'[q]
      BY <2>1, <2>3
    <2> QED
      BY <2>2, <2>3, <2>4
  <1>2. ASSUME NEW r \in Reservations, IndexCatchesUp(r) PROVE CronInv'
    <2>1. r \notin indexed => createAt[r] = "done"
      BY <1>2 DEF IndexCatchesUp, RowsStored
    <2> QED
      BY <1>2, <2>1 DEF IndexCatchesUp, rowVars, cronVars
  <1>3. ASSUME NEW x \in Crons, ExpireStep(x) PROVE CronInv'
    <2>1. CASE ExpireStart(x)
      BY <2>1 DEF ExpireStart, rowVars
    <2>2. ASSUME NEW page \in SUBSET indexed, ExpireQuery(x, page) PROVE CronInv'
      BY <2>2 DEF ExpireQuery, Past, rowVars
    <2>3. ASSUME NEW r \in Reservations, ExpireUpdate(x, r) PROVE CronInv'
      BY <2>3 DEF ExpireUpdate
    <2>4. CASE ExpireRelease(x) \/ ExpireFinish(x)
      BY <2>4 DEF ExpireRelease, ExpireFinish, rowVars
    <2> QED
      BY <1>3, <2>1, <2>2, <2>3, <2>4 DEF ExpireStep
  <1>4. ASSUME NEW x \in Crons, ExpireItemFails(x) \/ ExpireDies(x) PROVE CronInv'
    BY <1>4 DEF ExpireItemFails, ExpireDies, rowVars
  <1>5. CASE Tick
    BY <1>5 DEF Tick, rowVars, cronVars
  <1>6. ASSUME NEW r \in Reservations, CreateStep(r) \/ CreateFails(r)
        PROVE  CronInv'
    BY <1>6 DEF CreateStep, CreateDecrement, CreatePut, CreateFails, rowVars, cronVars
  <1>7. CASE UNCHANGED <<endTime, endText, indexed, createAt, cronVars, clock>>
    BY <1>7 DEF cronVars
  <1> QED
    BY <1>1, <1>2, <1>3, <1>4, <1>5, <1>6, <1>7
       DEF Next, CreateParkingLot, UpdateParkingAvailability, CancelGet,
           CancelStep, CancelUpdate, CancelRelease, CancelFails, vars, rowVars

(***************************************************************************)
(* Although its now is old by the time it updates, its page is a stale     *)
(* copy and it compares strings, no cron expires a reservation before its  *)
(* end, if clients write times that do not sort before their instant (the  *)
(* UTC times of the web UI sort at it).                                    *)
(***************************************************************************)
THEOREM NothingExpiresEarly ==
  ASSUME TextsNotEarly PROVE Spec => ExpiresOnlyWhatEnded
  <1>1. Init => CronInv
    BY DEF Init, CronInv
  <1>2. FaasInv /\ CronInv /\ [Next]_vars => CronInv'
    BY CronStep
  <1>3. FaasInv /\ CronInv /\ [Next]_vars =>
           [\A r \in Reservations :
              status[r] = "active" /\ status'[r] = "expired" => endTime[r] <= clock]_vars
    <2> SUFFICES ASSUME FaasInv, CronInv, Next, NEW r \in Reservations,
                        status[r] = "active", status'[r] = "expired"
                 PROVE  endTime[r] <= clock
      OBVIOUS
    <2> USE DEF FaasInv, TypeOK, Times
    <2>1. ASSUME NEW x \in Crons, NEW q \in Reservations, ExpireUpdate(x, q)
          PROVE  endTime[r] <= clock
      <3>1. r \in cronItems[x]
        BY <2>1 DEF ExpireUpdate
      <3> QED
        BY <3>1 DEF CronInv
    <2>2. ASSUME NEW q \in Reservations, CreatePut(q) PROVE FALSE
      BY <2>2 DEF CreatePut
    <2>3. ASSUME NEW c \in Cancellers, CancelUpdate(c) PROVE FALSE
      BY <2>3 DEF CancelUpdate
    <2> QED
      BY <2>1, <2>2, <2>3
         DEF Next, CreateStep, CancelStep, ExpireStep, CreateParkingLot,
             UpdateParkingAvailability, CreateGet, CreateDecrement, CreateFails,
             IndexCatchesUp, CancelGet, CancelRelease, CancelFails, ExpireStart,
             ExpireQuery, ExpireRelease, ExpireFinish, ExpireItemFails,
             ExpireDies, Tick, rowVars
  <1> QED
    BY <1>1, <1>2, <1>3, Invariant, PTL DEF Spec, ExpiresOnlyWhatEnded

=============================================================================
