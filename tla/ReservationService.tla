------------------------- MODULE ReservationService -------------------------
(***************************************************************************)
(* The microservice rezervacije-parkiranja: its REST handlers that create  *)
(* and cancel reservations over SQLite, and the ReactiveEventPublisher     *)
(* whose worker sends their events to ActiveMQ.  The service is one        *)
(* asyncio loop: a step runs up to the next await that can suspend it, so  *)
(* a check, the commit and the publication of one handler are three steps. *)
(*                                                                         *)
(* A reservation id stands for the POST that creates it, and every call    *)
(* publishes one event at most, so the call stands for its event too.      *)
(***************************************************************************)
EXTENDS Naturals, Sequences

CONSTANTS
  Reservations,   (* ids of reservations, one per POST /reservations        *)
  Cancellers,     (* the calls of POST /reservations/{id}/cancel            *)
  Users,          (* user_id values, stripped                               *)
  Slots,          (* UTC intervals <<start, end>> that are asked for        *)
  Offsets,        (* UTC offsets the times of a request may be written in   *)
  Paddings,       (* whether a request may write its user_id with blanks    *)
  NoReservation,  (* the target of a call that has none                     *)
  NoEvent,        (* what the worker holds between two events               *)
  BrokerRequired, (* broker_required                                        *)
  MaxFailures     (* bound on failed commits, broker outages and crashes    *)

Calls == Reservations \cup Cancellers

ASSUME ServiceAssumption ==
  /\ Reservations \cap Cancellers = {}
  /\ NoReservation \notin Reservations
  /\ NoEvent \notin Calls
  /\ Slots \subseteq Nat \X Nat
  /\ \A slot \in Slots : slot[1] < slot[2]
  /\ Offsets \subseteq Nat
  /\ Paddings \subseteq BOOLEAN
  /\ BrokerRequired \in BOOLEAN
  /\ MaxFailures \in Nat

VARIABLES
  row,        (* status column of each reservation, "none": not stored      *)
  owner,      (* user_id column                                             *)
  slot,       (* start_time and end_time columns                            *)
  callAt,     (* where each handler is                                      *)
  target,     (* the reservation each cancel call works on                  *)
  queue,      (* the publisher's asyncio.Queue                              *)
  sending,    (* the event its worker is sending                            *)
  conn,       (* the publisher's broker                                     *)
  up,         (* whether ActiveMQ runs                                      *)
  phase,      (* the service                                                *)
  failures,   (* failed commits, broker outages and crashes so far          *)
  sent,       (* history: events ActiveMQ has received                      *)
  lost,       (* history: events that will never be sent                    *)
  hasty,      (* history: cancellations that read a row whose created event *)
              (* was not in the queue yet                                   *)
  seen        (* history: the rows each creation's overlap check looked at  *)

db == <<row, owner, slot>>
calls == <<callAt, target>>
publisher == <<queue, sending, conn, phase>>
history == <<sent, lost, hasty>>
vars == <<db, calls, publisher, up, failures, history, seen>>

InQueue(e) == \E i \in 1..Len(queue) : queue[i] = e

TypeOK ==
  /\ row \in [Reservations -> {"none", "active", "cancelled"}]
  /\ owner \in [Reservations -> Users]
  /\ slot \in [Reservations -> Nat \X Nat]
  /\ callAt \in [Calls ->
        {"idle", "checked", "committed", "done", "refused", "failed"}]
  /\ target \in [Cancellers -> Reservations \cup {NoReservation}]
  /\ queue \in Seq(Calls)
  /\ sending \in Calls \cup {NoEvent}
  /\ conn \in {"connected", "broken", "noop", "none"}
  /\ up \in BOOLEAN
  /\ phase \in {"running", "stopping", "stopped"}
  /\ failures \in 0..MaxFailures
  /\ sent \subseteq Calls
  /\ lost \subseteq Calls
  /\ hasty \subseteq Cancellers
  /\ seen \in [Reservations -> SUBSET Reservations]

Init ==
  /\ row = [r \in Reservations |-> "none"]
  /\ owner \in [Reservations -> Users]
  /\ slot \in [Reservations -> Slots]
  /\ callAt = [e \in Calls |-> "idle"]
  /\ target = [c \in Cancellers |-> NoReservation]
  /\ queue = <<>>
  /\ sending = NoEvent
  /\ conn = "none"
  /\ up \in BOOLEAN
  /\ phase = "stopped"
  /\ failures = 0
  /\ sent = {}
  /\ lost = {}
  /\ hasty = {}
  /\ seen = [r \in Reservations |-> {}]

Fail ==
  /\ failures < MaxFailures
  /\ failures' = failures + 1

At(e, place) == callAt[e] = place
Goes(e, place) == callAt' = [callAt EXCEPT ![e] = place]

-----------------------------------------------------------------------------
(* create_reservation. *)

(* Mutant: only a new start inside a stored interval counts as an overlap. *)
StartOverlaps(user, padded, start, end) ==
  /\ ~padded
  /\ \E q \in Reservations :
        /\ row[q] = "active" /\ owner[q] = user
        /\ slot[q][2] > start /\ slot[q][1] <= start

(***************************************************************************)
(* has_user_overlap, with the arguments as the request wrote them.  SQLite *)
(* compares wall clocks without an offset, and a user_id with blanks is no *)
(* stored one.                                                             *)
(***************************************************************************)
HasUserOverlap(user, padded, start, end) ==
  /\ ~padded
  /\ \E q \in Reservations :
        /\ row[q] = "active" /\ owner[q] = user
        /\ slot[q][2] > start /\ slot[q][1] < end

(***************************************************************************)
(* The overlap check, then Reservation.create, which strips user_id and    *)
(* turns the times into UTC, and refuses an interval that ended by now.    *)
(***************************************************************************)
CreateCheck(r, padded, offset, ended) ==
  /\ phase = "running"
  /\ At(r, "idle")
  /\ LET start == slot[r][1] + offset
         end   == slot[r][2] + offset
     IN  Goes(r, IF HasUserOverlap(owner[r], padded, start, end) \/ ended
                 THEN "refused" ELSE "checked")
  /\ seen' = [seen EXCEPT ![r] = {q \in Reservations : row[q] # "none"}]
  /\ UNCHANGED <<db, target, publisher, up, failures, history>>

(* repository.add commits the row. *)
CreateCommit(r) ==
  /\ At(r, "checked")
  /\ row' = [row EXCEPT ![r] = "active"]
  /\ Goes(r, "committed")
  /\ UNCHANGED <<owner, slot, target, publisher, up, failures, history, seen>>

-----------------------------------------------------------------------------
(* cancel_reservation. *)

(***************************************************************************)
(* The row is read; a missing one, one of another user and a cancelled one *)
(* are refused.  The status changes in memory only.                        *)
(***************************************************************************)
CancelCheck(c, r, user) ==
  /\ phase = "running"
  /\ At(c, "idle")
  /\ target' = [target EXCEPT ![c] = r]
  /\ Goes(c, IF row[r] = "active" /\ owner[r] = user THEN "checked"
                                                     ELSE "refused")
  /\ hasty' = IF At(r, "committed") THEN hasty \cup {c} ELSE hasty
  /\ UNCHANGED <<db, publisher, up, failures, sent, lost, seen>>

(* repository.update writes the row it finds, whatever its status is by now. *)
CancelCommit(c) ==
  /\ At(c, "checked")
  /\ row' = [row EXCEPT ![target[c]] = "cancelled"]
  /\ Goes(c, "committed")
  /\ UNCHANGED <<owner, slot, target, publisher, up, failures, history, seen>>

-----------------------------------------------------------------------------
(* Both handlers, by their call. *)

(* Mutant: a failed commit goes unnoticed. *)
CommitFailureIgnored(e) ==
  /\ Fail
  /\ At(e, "checked")
  /\ Goes(e, "committed")
  /\ UNCHANGED <<db, target, publisher, up, history, seen>>

(* A commit fails, for instance on a locked database: nothing is stored. *)
CommitFails(e) ==
  /\ Fail
  /\ At(e, "checked")
  /\ Goes(e, "failed")
  /\ UNCHANGED <<db, target, publisher, up, history, seen>>

(* publish puts the event into the unbounded queue and never blocks. *)
Publish(e) ==
  /\ At(e, "committed")
  /\ queue' = Append(queue, e)
  /\ Goes(e, "done")
  /\ UNCHANGED <<db, target, sending, conn, up, phase, failures, history, seen>>

-----------------------------------------------------------------------------
(* ReactiveEventPublisher. *)

(***************************************************************************)
(* start, in a new process.  Without ActiveMQ a required broker keeps the  *)
(* service down, and one that is not required is replaced by NoopBroker.   *)
(***************************************************************************)
Start ==
  /\ phase = "stopped"
  /\ up \/ ~BrokerRequired
  /\ phase' = "running"
  /\ conn' = IF up THEN "connected" ELSE "noop"
  /\ UNCHANGED <<db, calls, queue, sending, up, failures, history, seen>>

(* The worker takes the next event. *)
WorkerGets ==
  /\ phase # "stopped"
  /\ sending = NoEvent
  /\ queue # <<>>
  /\ sending' = Head(queue)
  /\ queue' = Tail(queue)
  /\ UNCHANGED <<db, calls, conn, up, phase, failures, history, seen>>

(* Mutant: an event is taken again until the broker accepts it. *)
WorkerRetries ==
  /\ sending # NoEvent
  /\ sending' = NoEvent
  /\ IF conn = "connected"
     THEN /\ sent' = sent \cup {sending}
          /\ UNCHANGED queue
     ELSE /\ queue' = <<sending>> \o queue
          /\ UNCHANGED sent
  /\ UNCHANGED <<db, calls, conn, up, phase, failures, lost, hasty, seen>>

(* Mutant: an event that was not accepted goes back to the end of the queue. *)
WorkerRequeues ==
  /\ sending # NoEvent
  /\ sending' = NoEvent
  /\ IF conn = "connected"
     THEN /\ sent' = sent \cup {sending}
          /\ UNCHANGED queue
     ELSE /\ queue' = Append(queue, sending)
          /\ UNCHANGED sent
  /\ UNCHANGED <<db, calls, conn, up, phase, failures, lost, hasty, seen>>

(***************************************************************************)
(* It sends the event, and goes on after a failure.  A connection broken   *)
(* once stays so, and NoopBroker only logs: such an event is never sent.   *)
(***************************************************************************)
WorkerSends ==
  /\ sending # NoEvent
  /\ sending' = NoEvent
  /\ IF conn = "connected"
     THEN /\ sent' = sent \cup {sending}
          /\ UNCHANGED lost
     ELSE /\ lost' = lost \cup {sending}
          /\ UNCHANGED sent
  /\ UNCHANGED <<db, calls, queue, conn, up, phase, failures, hasty, seen>>

(* uvicorn begins to shut down once no request is open, and stop sends None. *)
Stop ==
  /\ phase = "running"
  /\ \A e \in Calls : ~At(e, "checked") /\ ~At(e, "committed")
  /\ phase' = "stopping"
  /\ UNCHANGED <<db, calls, queue, sending, conn, up, failures, history, seen>>

(* Mutant: stop does not wait for the worker. *)
StoppedAtOnce ==
  /\ phase = "stopping"
  /\ phase' = "stopped"
  /\ conn' = "none"
  /\ queue' = <<>>
  /\ sending' = NoEvent
  /\ UNCHANGED <<db, calls, up, failures, history, seen>>

(* The worker meets the None behind the last event, and stop disconnects. *)
Stopped ==
  /\ phase = "stopping"
  /\ sending = NoEvent
  /\ queue = <<>>
  /\ phase' = "stopped"
  /\ conn' = "none"
  /\ UNCHANGED <<db, calls, queue, sending, up, failures, history, seen>>

-----------------------------------------------------------------------------
(* ActiveMQ goes down, and with it the connection. *)
BrokerGoesDown ==
  /\ Fail
  /\ up
  /\ up' = FALSE
  /\ conn' = IF conn = "connected" THEN "broken" ELSE conn
  /\ UNCHANGED <<db, calls, queue, sending, phase, history, seen>>

BrokerComesBack ==
  /\ ~up
  /\ up' = TRUE
  /\ UNCHANGED <<db, calls, publisher, failures, history, seen>>

(* The process dies: open requests, the queue and the worker are gone. *)
Crash ==
  /\ Fail
  /\ phase # "stopped"
  /\ lost' = lost \cup {e \in Calls : InQueue(e) \/ sending = e \/ At(e, "committed")}
  /\ callAt' = [e \in Calls |->
        IF callAt[e] \in {"checked", "committed"} THEN "failed" ELSE callAt[e]]
  /\ queue' = <<>>
  /\ sending' = NoEvent
  /\ conn' = "none"
  /\ phase' = "stopped"
  /\ UNCHANGED <<db, target, up, sent, hasty, seen>>

Handle(e) ==
  \/ e \in Reservations /\ CreateCommit(e)
  \/ e \in Cancellers /\ CancelCommit(e)
  \/ Publish(e)

Work == WorkerGets \/ WorkerSends \/ Stopped

Next ==
  \/ \E r \in Reservations, padded \in Paddings, offset \in Offsets,
        ended \in BOOLEAN : CreateCheck(r, padded, offset, ended)
  \/ \E c \in Cancellers, r \in Reservations, user \in Users :
        CancelCheck(c, r, user)
  \/ \E e \in Calls : Handle(e) \/ CommitFails(e)
  \/ Work
  \/ Start \/ Stop
  \/ BrokerGoesDown \/ BrokerComesBack \/ Crash

Spec == Init /\ [][Next]_vars

(* The loop runs every handler and the worker; docker restarts the service. *)
Fairness ==
  /\ \A e \in Calls : WF_vars(Handle(e))
  /\ WF_vars(Work)
  /\ WF_vars(Start)

FairSpec == Spec /\ Fairness

-----------------------------------------------------------------------------
(* Where the event of a call is, once its row is committed. *)
Places(e) ==
  (IF At(e, "committed") THEN {"handler"} ELSE {})
    \cup (IF InQueue(e) THEN {"queue"} ELSE {})
    \cup (IF sending = e THEN {"worker"} ELSE {})
    \cup (IF e \in sent THEN {"sent"} ELSE {})
    \cup (IF e \in lost THEN {"lost"} ELSE {})

(***************************************************************************)
(* Commits, the queue, the worker and the broker are separate steps, yet   *)
(* the events tell what the table holds: every stored row has exactly one  *)
(* created event, every cancelled row a cancelled one, no row that is not  *)
(* has any, and no event is in two places or queued twice.                 *)
(***************************************************************************)
EventsMatchRows ==
  /\ \A i, j \in 1..Len(queue) : queue[i] = queue[j] => i = j
  /\ \A e \in Calls : \A here, there \in Places(e) : here = there
  /\ \A r \in Reservations :
        /\ row[r] = "none" <=> Places(r) = {}
        /\ row[r] = "cancelled" <=>
              \E c \in Cancellers : target[c] = r /\ Places(c) # {}

(***************************************************************************)
(* A commit and the publication of its event are two steps of a handler,   *)
(* yet the cancelled event of a reservation never gets ahead of its        *)
(* created event, in the queue or at the broker, unless the cancellation   *)
(* read the row between those two steps of the creation.                   *)
(***************************************************************************)
CreatedFirst ==
  \A c \in Cancellers \ hasty, r \in Reservations :
     target[c] = r /\ Places(c) # {} =>
        /\ At(r, "committed") => At(c, "committed")
        /\ \A i, j \in 1..Len(queue) : queue[i] = r /\ queue[j] = c => i < j
        /\ sending = c \/ c \in sent \cup lost => r \in sent \cup lost

(* Two reservations of one user whose intervals share an instant. *)
Overlap(q, r) ==
  /\ q # r
  /\ owner[q] = owner[r]
  /\ slot[q][2] > slot[r][1]
  /\ slot[q][1] < slot[r][2]

(***************************************************************************)
(* Two active reservations of one user overlap only when neither creation  *)
(* found the row of the other: whatever was stored before the check is     *)
(* respected.  It takes UTC times and a user_id without blanks.            *)
(***************************************************************************)
OnlyRacersOverlap ==
  \A q, r \in Reservations :
     row[q] = "active" /\ row[r] = "active" /\ q \in seen[r] => ~Overlap(q, r)

(* The service refuses a user's overlapping reservation with a conflict. *)
NoOverlap ==
  \A q, r \in Reservations :
     row[q] = "active" /\ row[r] = "active" => ~Overlap(q, r)

(* A reservation is cancelled once, and a second cancellation is an error. *)
CancelledOnce ==
  \A c, d \in Cancellers :
     target[c] = target[d] /\ Places(c) # {} /\ Places(d) # {} => c = d

(* README: the background worker sends the event to ActiveMQ. *)
QueuedEventsAreSent ==
  \A e \in Calls :
     (InQueue(e) /\ up /\ phase = "running")
        ~> (e \in sent \/ ~up \/ phase = "stopped")

(***************************************************************************)
(* No failed send stops the worker: the event of every committed row ends  *)
(* up sent, or given up for good.                                          *)
(***************************************************************************)
EveryEventEnds == \A e \in Calls : At(e, "committed") ~> e \in sent \cup lost

(***************************************************************************)
(* A shutdown that waits for the worker comes to an end, and loses nothing *)
(* that was in its queue.                                                  *)
(***************************************************************************)
StopDrains ==
  \A e \in Calls :
     (phase = "stopping" /\ InQueue(e))
        ~> (phase = "stopped" /\ e \in sent \cup lost)

-----------------------------------------------------------------------------
(* The service implements Outbox. *)

EventOf(e) ==
  IF e \in sent THEN "sent"
  ELSE IF e \in lost THEN "lost"
  ELSE IF Places(e) = {} THEN "none" ELSE "pending"

eventBar == [e \in Calls |-> EventOf(e)]

Box == INSTANCE Outbox WITH
         Creations <- Reservations, Cancellations <- Cancellers, event <- eventBar

(***************************************************************************)
(* Seen from outside, a change of the table and the event that tells of it *)
(* are one step, and each event is sent at most once, or given up: the     *)
(* handlers, the queue and the worker implement Outbox.                    *)
(***************************************************************************)
ImplementsOutbox == Box!Spec

(***************************************************************************)
(* The rows implement ReservationLife: a second cancellation of a row, of  *)
(* a caller who read it while it was active, changes nothing in the table. *)
(***************************************************************************)
Life == INSTANCE ReservationLife WITH
          Ids <- Reservations, Endings <- {"cancelled"}, stage <- row

(* No overlapping creations, cancellations and failed commits bring a      *)
(* cancelled reservation back.                                             *)
ImplementsReservationLife == Life!Spec

=============================================================================
