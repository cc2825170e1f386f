-------------------------- MODULE FaasReservations --------------------------
(***************************************************************************)
(* The parking lots and reservations tables of the FaaS back end, and the  *)
(* Lambda handlers that write them: createParkingLot,                      *)
(* updateParkingAvailability, createReservation, cancelReservation and the *)
(* expireReservations cron.  Every awaited ddb.send is one action, so that *)
(* the handlers interleave wherever the code awaits; the code between two  *)
(* awaits is part of the action that precedes it.  DynamoDB itself makes a *)
(* conditional update of one item atomic; its plain Gets may answer with   *)
(* an older item, and its status-index lags behind the reservations table. *)
(*                                                                         *)
(* A reservation id stands for the createReservation invocation that draws *)
(* it (uuidv4 makes it fresh), so the state of that invocation is indexed  *)
(* by the id.                                                              *)
(***************************************************************************)
EXTENDS Integers, FiniteSets

CONSTANTS
  Lots,          (* ids of parking lots                                     *)
  Reservations,  (* ids of reservations, one per createReservation call     *)
  Cancellers,    (* the calls of cancelReservation                          *)
  Crons,         (* the expireReservations invocations that may overlap     *)
  NoLot,         (* the lot of a reservation that was not asked for yet     *)
  NoReservation, (* the target of a handler that has none                   *)
  Capacity,      (* capacity of each lot, positive: createParkingLot checks *)
  Requests,      (* availableSpots values createParkingLot is called with   *)
  Patches,       (* availableSpots values updateParkingAvailability accepts *)
  Offsets,       (* how far the text of an endTime sorts from its instant   *)
  PageSize,      (* most items one Query of the status-index returns        *)
  MaxTime,       (* bound on the clock and on endTime                       *)
  MaxFailures    (* bound on failed calls and killed invocations            *)

ASSUME FaasAssumption ==
  /\ IsFiniteSet(Reservations)
  /\ NoLot \notin Lots
  /\ NoReservation \notin Reservations
  /\ Capacity \in [Lots -> Nat \ {0}]
  /\ Requests \subseteq Int
  /\ Patches \subseteq Nat
  /\ Offsets \subseteq Int
  /\ PageSize \in Nat \ {0}
  /\ MaxTime \in Nat
  /\ MaxFailures \in Nat

VARIABLES
  lots,       (* keys of the parking-lots table                             *)
  available,  (* availableSpots of each lot                                 *)
  lotOf,      (* parkingLotId of each reservation                           *)
  endTime,    (* the instant its endTime names                              *)
  endText,    (* where the stored endTime string sorts among now strings    *)
  status,     (* status attribute of each reservation, "none": not stored   *)
  indexed,    (* the reservations the status-index lists as active          *)
  createAt,   (* where each createReservation invocation is                 *)
  cancelAt,   (* where each cancelReservation invocation is                 *)
  target,     (* the reservation each cancelReservation invocation read     *)
  cronAt,     (* where each expireReservations invocation is                *)
  cronNow,    (* the now it captured                                        *)
  cronItems,  (* the queried items its loop still has to visit              *)
  cronItem,   (* the item it marked expired and not released yet            *)
  clock,      (* current time                                               *)
  failures,   (* failed calls and killed invocations so far                 *)
  initial,    (* history: availableSpots each lot was created with          *)
  patched,    (* history: lots updateParkingAvailability wrote              *)
  leaked      (* history: reservations whose spot a failure lost            *)

lotVars == <<lots, available>>
rowVars == <<lotOf, endTime, endText, status>>
cancelVars == <<cancelAt, target>>
cronVars == <<cronAt, cronNow, cronItems, cronItem>>
history == <<initial, patched>>
vars == <<lotVars, rowVars, indexed, createAt, cancelVars, cronVars,
          clock, failures, history, leaked>>

Times == 0..MaxTime

TypeOK ==
  /\ lots \subseteq Lots
  /\ available \in [Lots -> Int]
  /\ lotOf \in [Reservations -> Lots \cup {NoLot}]
  /\ endTime \in [Reservations -> Int]
  /\ endText \in [Reservations -> Int]
  /\ status \in [Reservations -> {"none", "active", "cancelled", "expired"}]
  /\ indexed \subseteq Reservations
  /\ createAt \in [Reservations ->
        {"idle", "read", "decremented", "done", "rejected", "failed"}]
  /\ cancelAt \in [Cancellers ->
        {"idle", "read", "marked", "done", "rejected", "failed"}]
  /\ target \in [Cancellers -> Reservations \cup {NoReservation}]
  /\ cronAt \in [Crons -> {"idle", "query", "loop", "marked"}]
  /\ cronNow \in [Crons -> Int]
  /\ cronItems \in [Crons -> SUBSET Reservations]
  /\ cronItem \in [Crons -> Reservations \cup {NoReservation}]
  /\ clock \in Times
  /\ failures \in 0..MaxFailures
  /\ initial \in [Lots -> Nat]
  /\ patched \subseteq lots
  /\ leaked \subseteq Reservations

Init ==
  /\ lots = {}
  /\ available = [l \in Lots |-> 0]
  /\ lotOf = [r \in Reservations |-> NoLot]
  /\ endTime = [r \in Reservations |-> 0]
  /\ endText = [r \in Reservations |-> 0]
  /\ status = [r \in Reservations |-> "none"]
  /\ indexed = {}
  /\ createAt = [r \in Reservations |-> "idle"]
  /\ cancelAt = [c \in Cancellers |-> "idle"]
  /\ target = [c \in Cancellers |-> NoReservation]
  /\ cronAt = [x \in Crons |-> "idle"]
  /\ cronNow = [x \in Crons |-> 0]
  /\ cronItems = [x \in Crons |-> {}]
  /\ cronItem = [x \in Crons |-> NoReservation]
  /\ clock = 0
  /\ failures = 0
  /\ initial = [l \in Lots |-> 0]
  /\ patched = {}
  /\ leaked = {}

(***************************************************************************)
(* A call to a table fails, or Lambda kills the invocation.  A call whose  *)
(* effect is applied but whose answer is lost is the call followed by this.*)
(***************************************************************************)
Fail ==
  /\ failures < MaxFailures
  /\ failures' = failures + 1

-----------------------------------------------------------------------------
(* Parking lots. *)

(* Mutant: nothing keeps the clamped number from being negative. *)
ClampWithoutFloor(requested, capacity) ==
  IF requested < capacity THEN requested ELSE capacity

(* Math.max(0, Math.min(capacity, requestedAvailable)) *)
Clamp(requested, capacity) ==
  LET least == IF requested < capacity THEN requested ELSE capacity
  IN  IF least > 0 THEN least ELSE 0

(* createParkingLot: the one Put of a fresh key. *)
CreateParkingLot(l, requested) ==
  /\ l \notin lots
  /\ lots' = lots \cup {l}
  /\ available' = [available EXCEPT ![l] = Clamp(requested, Capacity[l])]
  /\ initial' = [initial EXCEPT ![l] = Clamp(requested, Capacity[l])]
  /\ UNCHANGED <<rowVars, indexed, createAt, cancelVars, cronVars, clock,
                 failures, patched, leaked>>

(***************************************************************************)
(* updateParkingAvailability: one conditional update that overwrites the   *)
(* count.  Only a negative value is refused: neither the capacity nor the  *)
(* reservations are looked at.                                             *)
(***************************************************************************)
UpdateParkingAvailability(l, spots) ==
  /\ l \in lots
  /\ available' = [available EXCEPT ![l] = spots]
  /\ patched' = patched \cup {l}
  /\ UNCHANGED <<lots, rowVars, indexed, createAt, cancelVars, cronVars,
                 clock, failures, initial, leaked>>

-----------------------------------------------------------------------------
(* createReservation. *)

(***************************************************************************)
(* The spots a Get of lot l may show, up to their sign: it is not a        *)
(* ConsistentRead, so it shows the count of an earlier moment, or no item. *)
(***************************************************************************)
SpotsSeen(l) == IF l \in lots THEN {0, 1} ELSE {0}

(***************************************************************************)
(* The request arrives and its lot is read.  A lot that does not exist or  *)
(* has no spot left rejects it.  Nothing requires endTime to be ahead.     *)
(***************************************************************************)
CreateGet(r, l, end, offset) ==
  /\ createAt[r] = "idle"
  /\ lotOf' = [lotOf EXCEPT ![r] = l]
  /\ endTime' = [endTime EXCEPT ![r] = end]
  /\ endText' = [endText EXCEPT ![r] = end + offset]
  /\ \E spots \in SpotsSeen(l) :
        createAt' = [createAt EXCEPT ![r] =
                       IF spots > 0 THEN "read" ELSE "rejected"]
  /\ UNCHANGED <<lotVars, status, indexed, cancelVars, cronVars, clock,
                 failures, history, leaked>>

(* Mutant: the decrement trusts the count that CreateGet read. *)
CreateDecrementBlind(r) ==
  /\ createAt[r] = "read"
  /\ available' = [available EXCEPT ![lotOf[r]] = @ - 1]
  /\ createAt' = [createAt EXCEPT ![r] = "decremented"]
  /\ UNCHANGED <<lots, rowVars, indexed, cancelVars, cronVars, clock,
                 failures, history, leaked>>

(* The conditional decrement, availableSpots > :zero. *)
CreateDecrement(r) ==
  /\ createAt[r] = "read"
  /\ \/ /\ available[lotOf[r]] > 0
        /\ available' = [available EXCEPT ![lotOf[r]] = @ - 1]
        /\ createAt' = [createAt EXCEPT ![r] = "decremented"]
     \/ /\ available[lotOf[r]] <= 0
        /\ createAt' = [createAt EXCEPT ![r] = "rejected"]
        /\ UNCHANGED available
  /\ UNCHANGED <<lots, rowVars, indexed, cancelVars, cronVars, clock,
                 failures, history, leaked>>

(* The reservation is stored. *)
CreatePut(r) ==
  /\ createAt[r] = "decremented"
  /\ status' = [status EXCEPT ![r] = "active"]
  /\ createAt' = [createAt EXCEPT ![r] = "done"]
  /\ UNCHANGED <<lotVars, lotOf, endTime, endText, indexed, cancelVars,
                 cronVars, clock, failures, history, leaked>>

(* An error other than the failed condition: the decrement is not undone. *)
CreateFails(r) ==
  /\ Fail
  /\ createAt[r] \in {"read", "decremented"}
  /\ createAt' = [createAt EXCEPT ![r] = "failed"]
  /\ leaked' = IF createAt[r] = "decremented" THEN leaked \cup {r} ELSE leaked
  /\ UNCHANGED <<lotVars, rowVars, indexed, cancelVars, cronVars, clock,
                 history>>

-----------------------------------------------------------------------------
(* cancelReservation. *)

(* The statuses a Get of reservation r may show: those of earlier moments too. *)
StatusSeen(r) ==
  IF status[r] = "none" THEN {"none"} ELSE {"none", "active", status[r]}

(***************************************************************************)
(* The reservation is read by its owner's key; one that is not there or is *)
(* not active is refused.  A caller who is not the owner finds nothing.    *)
(***************************************************************************)
CancelGet(c, r) ==
  /\ cancelAt[c] = "idle"
  /\ target' = [target EXCEPT ![c] = r]
  /\ \E seen \in StatusSeen(r) :
        cancelAt' = [cancelAt EXCEPT ![c] =
                       IF seen = "active" THEN "read" ELSE "rejected"]
  /\ UNCHANGED <<lotVars, rowVars, indexed, createAt, cronVars, clock,
                 failures, history, leaked>>

(* Mutant: the update trusts the status that CancelGet read. *)
CancelUpdateBlind(c) ==
  /\ cancelAt[c] = "read"
  /\ status' = [status EXCEPT ![target[c]] = "cancelled"]
  /\ cancelAt' = [cancelAt EXCEPT ![c] = "marked"]
  /\ UNCHANGED <<lotVars, lotOf, endTime, endText, indexed, createAt, target,
                 cronVars, clock, failures, history, leaked>>

(* The conditional update from active to cancelled. *)
CancelUpdate(c) ==
  /\ cancelAt[c] = "read"
  /\ \/ /\ status[target[c]] = "active"
        /\ status' = [status EXCEPT ![target[c]] = "cancelled"]
        /\ cancelAt' = [cancelAt EXCEPT ![c] = "marked"]
     \/ /\ status[target[c]] # "active"
        /\ cancelAt' = [cancelAt EXCEPT ![c] = "rejected"]
        /\ UNCHANGED status
  /\ UNCHANGED <<lotVars, lotOf, endTime, endText, indexed, createAt, target,
                 cronVars, clock, failures, history, leaked>>

(* Mutant: the call answers without returning the spot. *)
CancelReleaseForgets(c) ==
  /\ cancelAt[c] = "marked"
  /\ cancelAt' = [cancelAt EXCEPT ![c] = "done"]
  /\ UNCHANGED <<lotVars, rowVars, indexed, createAt, target, cronVars, clock,
                 failures, history, leaked>>

(* The spot goes back to the lot, unconditionally. *)
CancelRelease(c) ==
  /\ cancelAt[c] = "marked"
  /\ available' = [available EXCEPT ![lotOf[target[c]]] = @ + 1]
  /\ cancelAt' = [cancelAt EXCEPT ![c] = "done"]
  /\ UNCHANGED <<lots, rowVars, indexed, createAt, target, cronVars, clock,
                 failures, history, leaked>>

(* Between the two updates an error or a kill loses the spot. *)
CancelFails(c) ==
  /\ Fail
  /\ cancelAt[c] \in {"read", "marked"}
  /\ cancelAt' = [cancelAt EXCEPT ![c] = "failed"]
  /\ leaked' = IF cancelAt[c] = "marked" THEN leaked \cup {target[c]}
                                         ELSE leaked
  /\ UNCHANGED <<lotVars, rowVars, indexed, createAt, target, cronVars, clock,
                 history>>

-----------------------------------------------------------------------------
(* expireReservations. *)

(* The schedule starts an invocation, which captures now before it queries. *)
ExpireStart(x) ==
  /\ cronAt[x] = "idle"
  /\ cronAt' = [cronAt EXCEPT ![x] = "query"]
  /\ cronNow' = [cronNow EXCEPT ![x] = clock]
  /\ UNCHANGED <<lotVars, rowVars, indexed, createAt, cancelVars, cronItems,
                 cronItem, clock, failures, history, leaked>>

(* The pages a single Query of the status-index may return. *)
Pages ==
  IF Cardinality(indexed) <= PageSize
  THEN {indexed}
  ELSE {page \in SUBSET indexed : Cardinality(page) = PageSize}

(* Mutants: the filter is left out, or leaves out the end itself. *)
AnyTime(x, r) == endText[r] \in Int
StrictlyPast(x, r) == endText[r] < cronNow[x]

(* The filter of the loop, endTime <= now as strings. *)
Past(x, r) == endText[r] <= cronNow[x]

(***************************************************************************)
(* The status-index answers with one page; the loop passes over the items  *)
(* whose endTime string sorts after the captured now.                      *)
(***************************************************************************)
ExpireQuery(x, page) ==
  /\ cronAt[x] = "query"
  /\ page \in Pages
  /\ cronItems' = [cronItems EXCEPT ![x] =
        {r \in page : Past(x, r)}]
  /\ cronAt' = [cronAt EXCEPT ![x] = "loop"]
  /\ UNCHANGED <<lotVars, rowVars, indexed, createAt, cancelVars, cronNow,
                 cronItem, clock, failures, history, leaked>>

(* Mutant: the update trusts the status that the index showed. *)
ExpireUpdateBlind(x, r) ==
  /\ cronAt[x] = "loop"
  /\ r \in cronItems[x]
  /\ cronItems' = [cronItems EXCEPT ![x] = @ \ {r}]
  /\ status' = [status EXCEPT ![r] = "expired"]
  /\ cronItem' = [cronItem EXCEPT ![x] = r]
  /\ cronAt' = [cronAt EXCEPT ![x] = "marked"]
  /\ UNCHANGED <<lotVars, lotOf, endTime, endText, indexed, createAt,
                 cancelVars, cronNow, clock, failures, history, leaked>>

(* The conditional update from active to expired; a failed one is skipped. *)
ExpireUpdate(x, r) ==
  /\ cronAt[x] = "loop"
  /\ r \in cronItems[x]
  /\ cronItems' = [cronItems EXCEPT ![x] = @ \ {r}]
  /\ \/ /\ status[r] = "active"
        /\ status' = [status EXCEPT ![r] = "expired"]
        /\ cronItem' = [cronItem EXCEPT ![x] = r]
        /\ cronAt' = [cronAt EXCEPT ![x] = "marked"]
     \/ /\ status[r] # "active"
        /\ UNCHANGED <<status, cronItem, cronAt>>
  /\ UNCHANGED <<lotVars, lotOf, endTime, endText, indexed, createAt,
                 cancelVars, cronNow, clock, failures, history, leaked>>

(* The spot goes back to the lot and the loop goes on. *)
ExpireRelease(x) ==
  /\ cronAt[x] = "marked"
  /\ available' = [available EXCEPT ![lotOf[cronItem[x]]] = @ + 1]
  /\ cronAt' = [cronAt EXCEPT ![x] = "loop"]
  /\ cronItem' = [cronItem EXCEPT ![x] = NoReservation]
  /\ UNCHANGED <<lots, rowVars, indexed, createAt, cancelVars, cronNow,
                 cronItems, clock, failures, history, leaked>>

(* The loop is over. *)
ExpireFinish(x) ==
  /\ cronAt[x] = "loop"
  /\ cronItems[x] = {}
  /\ cronAt' = [cronAt EXCEPT ![x] = "idle"]
  /\ UNCHANGED <<lotVars, rowVars, indexed, createAt, cancelVars, cronNow,
                 cronItems, cronItem, clock, failures, history, leaked>>

(* The spot a marked item still owes is lost. *)
LoseMarked(x) ==
  /\ leaked' = IF cronAt[x] = "marked" THEN leaked \cup {cronItem[x]}
                                       ELSE leaked
  /\ cronItem' = [cronItem EXCEPT ![x] = NoReservation]

(* One update of the loop fails: it is logged and the loop goes on. *)
ExpireItemFails(x) ==
  /\ Fail
  /\ \/ /\ cronAt[x] = "marked"
        /\ UNCHANGED cronItems
     \/ /\ cronAt[x] = "loop"
        /\ \E r \in cronItems[x] :
              cronItems' = [cronItems EXCEPT ![x] = @ \ {r}]
  /\ LoseMarked(x)
  /\ cronAt' = [cronAt EXCEPT ![x] = "loop"]
  /\ UNCHANGED <<lotVars, rowVars, indexed, createAt, cancelVars, cronNow,
                 clock, history>>

(* The query throws, or the invocation is killed. *)
ExpireDies(x) ==
  /\ Fail
  /\ cronAt[x] # "idle"
  /\ LoseMarked(x)
  /\ cronAt' = [cronAt EXCEPT ![x] = "idle"]
  /\ cronItems' = [cronItems EXCEPT ![x] = {}]
  /\ UNCHANGED <<lotVars, rowVars, indexed, createAt, cancelVars, cronNow,
                 clock, history>>

-----------------------------------------------------------------------------
(* The status-index catches up with one row of the table. *)
IndexCatchesUp(r) ==
  /\ (status[r] = "active") # (r \in indexed)
  /\ indexed' = IF r \in indexed THEN indexed \ {r} ELSE indexed \cup {r}
  /\ UNCHANGED <<lotVars, rowVars, createAt, cancelVars, cronVars, clock,
                 failures, history, leaked>>

Tick ==
  /\ clock < MaxTime
  /\ clock' = clock + 1
  /\ UNCHANGED <<lotVars, rowVars, indexed, createAt, cancelVars, cronVars,
                 failures, history, leaked>>

CreateStep(r) == CreateDecrement(r) \/ CreatePut(r)
CancelStep(c) == CancelUpdate(c) \/ CancelRelease(c)

ExpireStep(x) ==
  \/ ExpireStart(x)
  \/ \E page \in SUBSET indexed : ExpireQuery(x, page)
  \/ \E r \in Reservations : ExpireUpdate(x, r)
  \/ ExpireRelease(x)
  \/ ExpireFinish(x)

Next ==
  \/ \E l \in Lots :
        \/ \E requested \in Requests : CreateParkingLot(l, requested)
        \/ \E spots \in Patches : UpdateParkingAvailability(l, spots)
  \/ \E r \in Reservations :
        \/ \E l \in Lots, end \in Times, offset \in Offsets :
              CreateGet(r, l, end, offset)
        \/ CreateStep(r)
        \/ CreateFails(r)
        \/ IndexCatchesUp(r)
  \/ \E c \in Cancellers :
        \/ \E r \in Reservations : CancelGet(c, r)
        \/ CancelStep(c)
        \/ CancelFails(c)
  \/ \E x \in Crons :
        \/ ExpireStep(x)
        \/ ExpireItemFails(x)
        \/ ExpireDies(x)
  \/ Tick

Spec == Init /\ [][Next]_vars

(***************************************************************************)
(* Lambda runs an invocation it has started, the schedule keeps starting   *)
(* the cron, the index catches up and time passes.  Clients and            *)
(* administrators owe nothing, and failures are not fair.                  *)
(***************************************************************************)
Fairness ==
  /\ \A r \in Reservations : WF_vars(CreateStep(r)) /\ WF_vars(IndexCatchesUp(r))
  /\ \A c \in Cancellers : WF_vars(CancelStep(c))
  /\ \A x \in Crons : WF_vars(ExpireStep(x))
  /\ WF_vars(Tick)

FairSpec == Spec /\ Fairness

-----------------------------------------------------------------------------
(* Where a reservation's spot is. *)

Ended(r) == status[r] \in {"cancelled", "expired"}
CancelOwes(c, r) == cancelAt[c] = "marked" /\ target[c] = r
CronOwes(x, r) == cronAt[x] = "marked" /\ cronItem[x] = r

(* A handler has ended the reservation and not yet returned its spot. *)
Owed(r) ==
  \/ \E c \in Cancellers : CancelOwes(c, r)
  \/ \E x \in Crons : CronOwes(x, r)

(* The spot is taken from its lot's count. *)
Holds(r) ==
  createAt[r] = "decremented" \/ status[r] = "active" \/ Owed(r) \/ r \in leaked

Holders(l) == {r \in Reservations : lotOf[r] = l /\ Holds(r)}

(***************************************************************************)
(* No interleaving of creations, cancellations and overlapping crons loses *)
(* or invents a spot: what a lot shows as available and what reservations  *)
(* hold (or failures leaked) add up to what it was created with, until an  *)
(* administrator overwrites the count.                                     *)
(***************************************************************************)
SpotsConserved ==
  \A l \in lots \ patched :
     available[l] + Cardinality(Holders(l)) = initial[l]

(***************************************************************************)
(* What failures and killed Lambdas cost: a lot shows all of its spots but *)
(* those of reservations that go on, and one at most for each failure.     *)
(***************************************************************************)
LossesBounded ==
  \A l \in lots \ patched :
     initial[l] <= available[l] + Cardinality(Holders(l) \ leaked) + failures

(***************************************************************************)
(* The read of availableSpots in createReservation is stale by the time it *)
(* is used, yet a lot never has more active reservations than its capacity *)
(* unless an administrator overwrote its count.                            *)
(***************************************************************************)
NoOverbooking ==
  \A l \in lots \ patched :
     Cardinality({r \in Reservations : lotOf[r] = l /\ status[r] = "active"})
       <= Capacity[l]

(***************************************************************************)
(* Even when an administrator overwrites the count between the read and    *)
(* the decrement of createReservation, it never becomes negative.          *)
(***************************************************************************)
AvailableNeverNegative == \A l \in lots : available[l] >= 0

(***************************************************************************)
(* A reservation that a cancel call and one or two crons try to end at the *)
(* same time is ended by one of them only: at most one handler is about to *)
(* return its spot, and its status is an ended one.                        *)
(***************************************************************************)
SingleReleaser ==
  \A r \in Reservations :
     /\ Owed(r) => Ended(r) /\ r \notin leaked
     /\ \A c, d \in Cancellers : CancelOwes(c, r) /\ CancelOwes(d, r) => c = d
     /\ \A x, y \in Crons : CronOwes(x, r) /\ CronOwes(y, r) => x = y
     /\ \A c \in Cancellers, x \in Crons : ~(CancelOwes(c, r) /\ CronOwes(x, r))

(***************************************************************************)
(* cancelReservation and expireReservations never rewrite each other's     *)
(* outcome: an ended reservation keeps its status, and no later write      *)
(* stores it again as active.                                              *)
(***************************************************************************)
EndedForGood ==
  [][\A r \in Reservations : Ended(r) => status'[r] = status[r]]_vars

(***************************************************************************)
(* The cron expires no reservation before it ends, although it compares    *)
(* strings with a now captured before its query.  It takes Offsets = {0}:  *)
(* clients send UTC times, as web-ui/app.js does with toISOString.         *)
(***************************************************************************)
ExpiresOnlyWhatEnded ==
  [][\A r \in Reservations :
        status[r] = "active" /\ status'[r] = "expired" => endTime[r] <= clock]_vars

(***************************************************************************)
(* A reservation whose end has passed does not stay active forever: failed *)
(* and killed crons are followed by others, and the index catches up.      *)
(***************************************************************************)
EndedReservationsExpire ==
  \A r \in Reservations :
     (status[r] = "active" /\ endText[r] <= clock) ~> (status[r] # "active")

(* Every reservation that ever got past the checks of lot l has ended. *)
Vacated(l) ==
  \A r \in Reservations :
     lotOf[r] = l => Ended(r) \/ createAt[r] \in {"rejected", "failed"}

(***************************************************************************)
(* A lot whose reservations are all cancelled or expired gets all its      *)
(* spots back, whichever handlers ended them, unless a failure lost one.   *)
(***************************************************************************)
VacatedLotsFillUp ==
  \A l \in Lots :
     (l \in lots \ patched /\ Vacated(l))
        ~> (leaked # {} \/ ~Vacated(l) \/ available[l] = initial[l])

-----------------------------------------------------------------------------
(* The tables implement ParkingSpots. *)

TicketOf(r) ==
  IF Holds(r) THEN "held" ELSE IF Ended(r) THEN "returned" ELSE "none"

ticketBar == [r \in Reservations |-> TicketOf(r)]
atBar ==
  [r \in Reservations |-> IF TicketOf(r) = "none" THEN NoLot ELSE lotOf[r]]

Spots == INSTANCE ParkingSpots WITH
           Tickets <- Reservations, open <- lots, free <- available,
           ticket <- ticketBar, at <- atBar

(***************************************************************************)
(* Each reservation takes one spot of its lot, while there is one, and     *)
(* returns it at most once, and only there: the handlers implement         *)
(* ParkingSpots.                                                           *)
(***************************************************************************)
ImplementsParkingSpots == Spots!Spec

-----------------------------------------------------------------------------
(* The rows implement ReservationLife. *)

Life == INSTANCE ReservationLife WITH
          Ids <- Reservations, Endings <- {"cancelled", "expired"}, stage <- status

(***************************************************************************)
(* Cancel calls and overlapping crons, which read a status, await and then *)
(* write, end a reservation once: no write stores it as active again, and  *)
(* none rewrites how it ended.                                             *)
(***************************************************************************)
ImplementsReservationLife == Life!Spec

=============================================================================
