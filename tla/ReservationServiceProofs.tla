---------------------- MODULE ReservationServiceProofs ----------------------
(***************************************************************************)
(* Proofs about the reservation service, for any calls, intervals, failures*)
(* and configuration of the broker.                                        *)
(***************************************************************************)
EXTENDS ReservationService, TLAPS

(* The event of a call that has committed nothing is nowhere. *)
Unplaced ==
  \A e \in Calls : callAt[e] \in {"idle", "checked", "refused"} => Places(e) = {}

(* A cancel call that passed its checks works on a stored row. *)
CheckedStored ==
  \A c \in Cancellers :
     At(c, "checked") => target[c] \in Reservations /\ row[target[c]] # "none"

(* Only a stored row was seen. *)
SeenStored ==
  \A r \in Reservations : \A q \in seen[r] : row[q] # "none"

(* The inductive invariant. *)
ServiceInv ==
  /\ TypeOK
  /\ EventsMatchRows
  /\ Unplaced
  /\ CheckedStored
  /\ SeenStored

LEMMA InitInv == Init => ServiceInv
  <1> SUFFICES ASSUME Init PROVE ServiceInv
    OBVIOUS
  <1> USE ServiceAssumption
  <1>1. Len(queue) = 0 /\ queue \in Seq(Calls)
    BY DEF Init
  <1>2. \A e \in Calls : Places(e) = {}
    BY <1>1 DEF Init, Places, InQueue, At
  <1>3. TypeOK
    <2>1. Slots \subseteq Nat \X Nat
      OBVIOUS
    <2> QED
      BY <1>1, <2>1 DEF Init, TypeOK
  <1>4. EventsMatchRows
    BY <1>1, <1>2 DEF Init, EventsMatchRows, Calls
  <1> QED
    BY <1>2, <1>3, <1>4 DEF Init, ServiceInv, Unplaced, CheckedStored, SeenStored, At, Calls

(* Every step keeps the variables of their types. *)
LEMMA TypeStep == TypeOK /\ CheckedStored /\ [Next]_vars => TypeOK'
  <1> SUFFICES ASSUME TypeOK, CheckedStored, [Next]_vars PROVE TypeOK'
    OBVIOUS
  <1> USE ServiceAssumption
      DEF TypeOK, CheckedStored, Calls, Fail, At, Goes, db, calls, publisher, history
  <1>1. ASSUME NEW r \in Reservations, NEW padded \in Paddings,
               NEW offset \in Offsets, NEW ended \in BOOLEAN,
               CreateCheck(r, padded, offset, ended)
        PROVE  TypeOK'
    <2>1. \/ callAt' = [callAt EXCEPT ![r] = "checked"]
          \/ callAt' = [callAt EXCEPT ![r] = "refused"]
      <3> DEFINE start == slot[r][1] + offset
                 end   == slot[r][2] + offset
                 bad   == HasUserOverlap(owner[r], padded, start, end) \/ ended
      <3>1. callAt' = [callAt EXCEPT ![r] = IF bad THEN "refused" ELSE "checked"]
        BY <1>1 DEF CreateCheck
      <3> HIDE DEF bad
      <3>2. CASE bad
        BY <3>1, <3>2
      <3>3. CASE ~bad
        BY <3>1, <3>3
      <3> QED
        BY <3>2, <3>3
    <2>2. UNCHANGED <<row, owner, slot, target, queue, sending, conn, phase,
                      up, failures, sent, lost, hasty>>
      BY <1>1 DEF CreateCheck
    <2>3. seen' \in [Reservations -> SUBSET Reservations]
      BY <1>1 DEF CreateCheck
    <2>4. callAt' \in [Calls -> {"idle", "checked", "committed", "done",
                                 "refused", "failed"}]
      BY <2>1
    <2> QED
      BY <2>2, <2>3, <2>4
  <1>2. ASSUME NEW c \in Cancellers, NEW r \in Reservations, NEW user \in Users,
               CancelCheck(c, r, user)
        PROVE  TypeOK'
    BY <1>2 DEF CancelCheck
  <1>3. ASSUME NEW e \in Calls, Handle(e) PROVE TypeOK'
    <2>1. CASE e \in Reservations /\ CreateCommit(e)
      BY <2>1 DEF CreateCommit
    <2>2. CASE e \in Cancellers /\ CancelCommit(e)
      BY <2>2 DEF CancelCommit
    <2>3. CASE Publish(e)
      <3>1. queue' \in Seq(Calls)
        BY <2>3 DEF Publish
      <3> QED
        BY <2>3, <3>1 DEF Publish
    <2> QED
      BY <1>3, <2>1, <2>2, <2>3 DEF Handle
  <1>4. ASSUME NEW e \in Calls, CommitFails(e) PROVE TypeOK'
    BY <1>4 DEF CommitFails
  <1>5. CASE Work
    <2>1. CASE WorkerGets
      <3>1. Head(queue) \in Calls /\ Tail(queue) \in Seq(Calls)
        BY <2>1 DEF WorkerGets
      <3> QED
        BY <2>1, <3>1 DEF WorkerGets
    <2>2. CASE WorkerSends
      BY <2>2 DEF WorkerSends
    <2>3. CASE Stopped
      BY <2>3 DEF Stopped
    <2> QED
      BY <1>5, <2>1, <2>2, <2>3 DEF Work
  <1>6. CASE Start \/ Stop
    BY <1>6 DEF Start, Stop
  <1>7. CASE BrokerGoesDown
    <2>1. up' = FALSE
      BY <1>7 DEF BrokerGoesDown
    <2>2. up' \in BOOLEAN
      BY <2>1
    <2>3. /\ failures' \in 0..MaxFailures
          /\ conn' \in {conn, "broken"}
          /\ UNCHANGED <<db, calls, queue, sending, phase, history, seen>>
      BY <1>7 DEF BrokerGoesDown
    <2> QED
      BY <2>2, <2>3
  <1>8. CASE BrokerComesBack
    <2>1. up' = TRUE
      BY <1>8 DEF BrokerComesBack
    <2>2. up' \in BOOLEAN
      BY <2>1
    <2>3. UNCHANGED <<db, calls, publisher, failures, history, seen>>
      BY <1>8 DEF BrokerComesBack
    <2> QED
      BY <2>2, <2>3
  <1>9. CASE Crash
    <2>1. lost' \subseteq Calls
      BY <1>9 DEF Crash
    <2>2. callAt' \in [Calls -> {"idle", "checked", "committed", "done",
                                 "refused", "failed"}]
      BY <1>9 DEF Crash
    <2>3. queue' \in Seq(Calls)
      BY <1>9 DEF Crash
    <2> QED
      BY <1>9, <2>1, <2>2, <2>3 DEF Crash
  <1>10. CASE UNCHANGED vars
    BY <1>10 DEF vars
  <1> HIDE DEF TypeOK, CheckedStored, Fail, At, Goes, db, calls, publisher, history
  <1> QED
    BY <1>1, <1>2, <1>3, <1>4, <1>5, <1>6, <1>7, <1>8, <1>9,
       <1>10 DEF Next

(* What each place says of an event, now and after a step. *)
LEMMA Located ==
  ASSUME NEW e \in Calls
  PROVE  /\ Places(e) \subseteq {"handler", "queue", "worker", "sent", "lost"}
         /\ "handler" \in Places(e) <=> At(e, "committed")
         /\ "queue" \in Places(e) <=> InQueue(e)
         /\ "worker" \in Places(e) <=> sending = e
         /\ "sent" \in Places(e) <=> e \in sent
         /\ "lost" \in Places(e) <=> e \in lost
  BY DEF Places

(* An event stays where it is while nothing that holds it changes. *)
LEMMA Stays ==
  ASSUME NEW e \in Calls, UNCHANGED <<queue, sending, sent, lost>>,
         At(e, "committed")' <=> At(e, "committed")
  PROVE  Places(e)' = Places(e)
  BY DEF Places, InQueue

(***************************************************************************)
(* Steps that move no event, commit no row and only turn calls that have   *)
(* not committed keep the invariant.                                       *)
(***************************************************************************)
LEMMA QuietStep ==
  ASSUME ServiceInv, TypeOK', UNCHANGED <<row, queue, sending, sent, lost>>,
         \A e \in Calls : (callAt'[e] = "committed") <=> (callAt[e] = "committed"),
         \A e \in Calls : callAt'[e] \in {"idle", "checked", "refused"} =>
                             callAt[e] \in {"idle", "checked", "refused"},
         \A c \in Cancellers : callAt[c] # "idle" => target'[c] = target[c],
         CheckedStored', SeenStored'
  PROVE  ServiceInv'
  <1>1. \A e \in Calls : Places(e)' = Places(e)
    BY Stays DEF At
  <1>2. Unplaced'
    BY <1>1 DEF ServiceInv, Unplaced
  <1>3. \A c \in Cancellers : Places(c) # {} => target'[c] = target[c]
    BY DEF ServiceInv, Unplaced, Calls
  <1>4. EventsMatchRows'
    BY <1>1, <1>3 DEF ServiceInv, EventsMatchRows, Calls
  <1> QED
    BY <1>2, <1>4 DEF ServiceInv

(* A committed row has its event with the handler. *)
LEMMA CommitStep ==
  ASSUME ServiceInv, TypeOK', NEW e \in Calls, At(e, "checked"),
         Goes(e, "committed"), UNCHANGED <<target, queue, sending, sent, lost, seen>>
  PROVE  /\ Places(e)' = {"handler"} /\ Places(e) = {}
         /\ \A d \in Calls : d # e => Places(d)' = Places(d)
         /\ \A d \in Calls : \A here, there \in Places(d)' : here = there
         /\ Unplaced'
  <1>1. callAt'[e] = "committed" /\ \A d \in Calls : d # e => callAt'[d] = callAt[d]
    BY DEF Goes, ServiceInv, TypeOK
  <1>2. Places(e) = {}
    BY DEF ServiceInv, Unplaced, At
  <1>3. ~InQueue(e) /\ sending # e /\ e \notin sent /\ e \notin lost
    BY <1>2, Located
  <1>4. Places(e)' = {"handler"}
    BY <1>1, <1>3 DEF Places, InQueue, At
  <1>5. \A d \in Calls : d # e => Places(d)' = Places(d)
    BY <1>1, Stays DEF At
  <1>6. \A d \in Calls : \A here, there \in Places(d)' : here = there
    BY <1>4, <1>5 DEF ServiceInv, EventsMatchRows
  <1>7. Unplaced'
    BY <1>1, <1>5 DEF ServiceInv, Unplaced
  <1> QED
    BY <1>2, <1>4, <1>5, <1>6, <1>7

LEMMA CreateCommitKeeps ==
  ASSUME ServiceInv, TypeOK', NEW r \in Reservations, CreateCommit(r)
  PROVE  ServiceInv'
  <1>0. /\ r \in Calls /\ r \notin Cancellers
        /\ \A q \in Reservations : q \in Calls
        /\ \A c \in Cancellers : c \in Calls /\ c # r
    BY ServiceAssumption DEF Calls
  <1>1. /\ Places(r)' = {"handler"} /\ Places(r) = {}
        /\ \A d \in Calls : d # r => Places(d)' = Places(d)
        /\ \A d \in Calls : \A here, there \in Places(d)' : here = there
        /\ Unplaced'
    BY <1>0, CommitStep DEF CreateCommit, publisher, history
  <1>2. /\ row' = [row EXCEPT ![r] = "active"] /\ row[r] = "none"
        /\ row'[r] = "active" /\ \A q \in Reservations : q # r => row'[q] = row[q]
        /\ UNCHANGED <<target, queue, seen>>
        /\ \A c \in Cancellers : callAt'[c] = callAt[c]
    BY <1>0, <1>1 DEF CreateCommit, ServiceInv, TypeOK, EventsMatchRows, Goes, publisher
  <1>3. EventsMatchRows'
    <2>1. \A i, j \in 1..Len(queue') : queue'[i] = queue'[j] => i = j
      BY <1>2 DEF ServiceInv, EventsMatchRows
    <2>2. \A q \in Reservations : row'[q] = "none" <=> Places(q)' = {}
      BY <1>0, <1>1, <1>2 DEF ServiceInv, EventsMatchRows
    <2>3. \A q \in Reservations : row'[q] = "cancelled" <=>
             \E c \in Cancellers : target'[c] = q /\ Places(c)' # {}
      BY <1>0, <1>1, <1>2 DEF ServiceInv, EventsMatchRows
    <2> QED
      BY <1>1, <2>1, <2>2, <2>3 DEF EventsMatchRows
  <1>4. CheckedStored'
    BY <1>2 DEF ServiceInv, CheckedStored, At
  <1>5. SeenStored'
    BY <1>2 DEF ServiceInv, SeenStored, TypeOK
  <1> QED
    BY <1>1, <1>3, <1>4, <1>5 DEF ServiceInv

LEMMA CancelCommitKeeps ==
  ASSUME ServiceInv, TypeOK', NEW c \in Cancellers, CancelCommit(c)
  PROVE  ServiceInv'
  <1>0. /\ c \in Calls /\ c \notin Reservations
        /\ \A q \in Reservations : q \in Calls /\ q # c
        /\ \A d \in Cancellers : d \in Calls
    BY ServiceAssumption DEF Calls
  <1>1. /\ Places(c)' = {"handler"} /\ Places(c) = {}
        /\ \A d \in Calls : d # c => Places(d)' = Places(d)
        /\ \A d \in Calls : \A here, there \in Places(d)' : here = there
        /\ Unplaced'
    BY <1>0, CommitStep DEF CancelCommit, publisher, history
  <1>2. PICK r \in Reservations : r = target[c] /\ row[r] # "none"
    BY DEF CancelCommit, ServiceInv, CheckedStored
  <1>3. /\ row'[r] = "cancelled" /\ \A q \in Reservations : q # r => row'[q] = row[q]
        /\ UNCHANGED <<target, queue, seen>>
        /\ callAt'[c] = "committed"
        /\ \A d \in Cancellers : d # c => callAt'[d] = callAt[d]
    BY <1>0, <1>2 DEF CancelCommit, ServiceInv, TypeOK, Goes, publisher
  <1>4. EventsMatchRows'
    <2>1. \A i, j \in 1..Len(queue') : queue'[i] = queue'[j] => i = j
      BY <1>3 DEF ServiceInv, EventsMatchRows
    <2>2. \A q \in Reservations : row'[q] = "none" <=> Places(q)' = {}
      BY <1>0, <1>1, <1>2, <1>3 DEF ServiceInv, EventsMatchRows
    <2>3. \A q \in Reservations : row'[q] = "cancelled" <=>
             \E d \in Cancellers : target'[d] = q /\ Places(d)' # {}
      BY <1>0, <1>1, <1>2, <1>3 DEF ServiceInv, EventsMatchRows
    <2> QED
      BY <1>1, <2>1, <2>2, <2>3 DEF EventsMatchRows
  <1>5. CheckedStored'
    BY <1>3 DEF ServiceInv, CheckedStored, At
  <1>6. SeenStored'
    BY <1>2, <1>3 DEF ServiceInv, SeenStored, TypeOK
  <1> QED
    BY <1>1, <1>4, <1>5, <1>6 DEF ServiceInv

(***************************************************************************)
(* A step that only carries events on, each from one place to one other,   *)
(* keeps the invariant.                                                    *)
(***************************************************************************)
LEMMA CarryStep ==
  ASSUME ServiceInv, TypeOK', UNCHANGED <<row, target, seen>>,
         \A e \in Calls : (Places(e)' = {}) <=> (Places(e) = {}),
         \A e \in Calls : \A here, there \in Places(e)' : here = there,
         \A i, j \in 1..Len(queue') : queue'[i] = queue'[j] => i = j,
         \A e \in Calls : callAt'[e] \in {"idle", "checked", "refused"} =>
                             callAt'[e] = callAt[e]
  PROVE  ServiceInv'
  <1>1. EventsMatchRows'
    BY DEF ServiceInv, EventsMatchRows, Calls
  <1>2. Unplaced'
    BY DEF ServiceInv, Unplaced
  <1>3. CheckedStored' /\ SeenStored'
    BY DEF ServiceInv, CheckedStored, SeenStored, At, Calls
  <1> QED
    BY <1>1, <1>2, <1>3 DEF ServiceInv

LEMMA PublishKeeps ==
  ASSUME ServiceInv, TypeOK', NEW e \in Calls, Publish(e)
  PROVE  /\ ServiceInv'
         /\ \A d \in Calls : (Places(d)' = {}) <=> (Places(d) = {})
  <1>1. /\ queue \in Seq(Calls) /\ queue' = Append(queue, e)
        /\ callAt[e] = "committed" /\ callAt'[e] = "done"
        /\ \A d \in Calls : d # e => callAt'[d] = callAt[d]
        /\ UNCHANGED <<row, target, sending, sent, lost, seen>>
    BY DEF Publish, ServiceInv, TypeOK, Goes, At, db, history
  <1>2. \A d, p \in Places(e) : d = p
    BY DEF ServiceInv, EventsMatchRows
  <1>3. ~InQueue(e) /\ sending # e /\ e \notin sent /\ e \notin lost
    BY <1>1, <1>2, Located DEF At
  <1>4. /\ Len(queue') = Len(queue) + 1 /\ Len(queue) \in Nat
        /\ queue'[Len(queue) + 1] = e
        /\ \A i \in 1..Len(queue) : queue'[i] = queue[i]
    BY <1>1
  <1>5. \A d \in Calls : InQueue(d)' <=> (InQueue(d) \/ d = e)
    BY <1>4 DEF InQueue
  <1>6. \A i, j \in 1..Len(queue') : queue'[i] = queue'[j] => i = j
    <2>1. \A i \in 1..Len(queue) : queue[i] # e
      BY <1>3 DEF InQueue
    <2>2. \A i, j \in 1..Len(queue) : queue[i] = queue[j] => i = j
      BY DEF ServiceInv, EventsMatchRows
    <2> QED
      BY <1>4, <2>1, <2>2
  <1>7. Places(e)' = {"queue"}
    BY <1>1, <1>3, <1>5 DEF Places, At
  <1>8. \A d \in Calls : d # e => Places(d)' = Places(d)
    BY <1>1, <1>5 DEF Places, At
  <1>9. Places(e) # {}
    BY <1>1, Located DEF At
  <1>10. \A d \in Calls : \A here, there \in Places(d)' : here = there
    BY <1>7, <1>8 DEF ServiceInv, EventsMatchRows
  <1> QED
    BY <1>1, <1>6, <1>7, <1>8, <1>9, <1>10, CarryStep

LEMMA WorkerGetsKeeps ==
  ASSUME ServiceInv, TypeOK', WorkerGets
  PROVE  /\ ServiceInv'
         /\ \A d \in Calls : (Places(d)' = {}) <=> (Places(d) = {})
  <1>1. /\ queue \in Seq(Calls) /\ queue # <<>> /\ queue' = Tail(queue)
        /\ sending = NoEvent /\ sending' = Head(queue)
        /\ UNCHANGED <<row, target, sent, lost, seen, callAt>>
    BY DEF WorkerGets, ServiceInv, TypeOK, db, calls, history
  <1>2. /\ Len(queue) \in Nat \ {0} /\ Len(queue') = Len(queue) - 1
        /\ \A i \in 1..Len(queue') : queue'[i] = queue[i + 1]
        /\ Head(queue) = queue[1] /\ Head(queue) \in Calls
    BY <1>1
  <1>e. PICK e \in Calls : e = Head(queue)
    BY <1>2
  <1>3. \A i, j \in 1..Len(queue) : queue[i] = queue[j] => i = j
    BY DEF ServiceInv, EventsMatchRows
  <1>4. \A d \in Calls : InQueue(d) <=> (InQueue(d)' \/ d = e)
    <2> SUFFICES ASSUME NEW d \in Calls PROVE InQueue(d) <=> (InQueue(d)' \/ d = e)
      OBVIOUS
    <2>1. ASSUME InQueue(d) PROVE InQueue(d)' \/ d = e
      <3>1. PICK i \in 1..Len(queue) : queue[i] = d
        BY <2>1 DEF InQueue
      <3>2. CASE i = 1
        BY <1>e, <1>2, <3>1, <3>2
      <3>3. CASE i # 1
        <4>1. i - 1 \in 1..Len(queue') /\ queue'[i - 1] = d
          BY <1>e, <1>2, <3>1, <3>3
        <4> QED
          BY <4>1 DEF InQueue
      <3> QED
        BY <3>2, <3>3
    <2>2. ASSUME InQueue(d)' PROVE InQueue(d)
      <3>1. PICK i \in 1..Len(queue') : queue'[i] = d
        BY <2>2 DEF InQueue
      <3>2. i + 1 \in 1..Len(queue) /\ queue[i + 1] = d
        BY <1>e, <1>2, <3>1
      <3> QED
        BY <3>2 DEF InQueue
    <2>3. InQueue(e)
      BY <1>e, <1>2 DEF InQueue
    <2> QED
      BY <2>1, <2>2, <2>3
  <1>5. ~InQueue(e)'
    <2> SUFFICES ASSUME NEW i \in 1..Len(queue'), queue'[i] = e PROVE FALSE
      BY DEF InQueue
    <2>1. i + 1 \in 1..Len(queue) /\ 1 \in 1..Len(queue) /\ queue[i + 1] = queue[1]
      BY <1>e, <1>2
    <2> QED
      BY <1>e, <1>2, <1>3, <2>1
  <1>6. InQueue(e)
    BY <1>e, <1>2, <1>4
  <1>7. ~At(e, "committed") /\ e \notin sent /\ e \notin lost
    <2>1. \A here, there \in Places(e) : here = there
      BY <1>e, <1>2 DEF ServiceInv, EventsMatchRows
    <2> QED
      BY <1>e, <1>2, <1>6, <2>1, Located
  <1>8. Places(e)' = {"worker"}
    BY <1>e, <1>1, <1>5, <1>7 DEF Places, At
  <1>9. \A d \in Calls : d # e => Places(d)' = Places(d)
    <2>1. \A d \in Calls : d # NoEvent
      BY ServiceAssumption
    <2> QED
      BY <1>e, <1>1, <1>4, <2>1 DEF Places, At
  <1>10. Places(e) # {}
    BY <1>e, <1>2, <1>6, Located
  <1>11. \A d \in Calls : \A here, there \in Places(d)' : here = there
    BY <1>8, <1>9 DEF ServiceInv, EventsMatchRows
  <1>12. \A i, j \in 1..Len(queue') : queue'[i] = queue'[j] => i = j
    <2> SUFFICES ASSUME NEW i \in 1..Len(queue'), NEW j \in 1..Len(queue'),
                        queue'[i] = queue'[j]
                 PROVE  i = j
      OBVIOUS
    <2>1. /\ i + 1 \in 1..Len(queue) /\ j + 1 \in 1..Len(queue)
          /\ queue[i + 1] = queue[j + 1]
      BY <1>2
    <2>2. i + 1 = j + 1
      BY <1>3, <2>1
    <2> QED
      BY <1>e, <1>2, <2>2
  <1>13. \A d \in Calls : (Places(d)' = {}) <=> (Places(d) = {})
    BY <1>8, <1>9, <1>10
  <1> QED
    BY <1>e, <1>1, <1>11, <1>12, <1>13, CarryStep

LEMMA WorkerSendsKeeps ==
  ASSUME ServiceInv, TypeOK', WorkerSends
  PROVE  /\ ServiceInv'
         /\ \A d \in Calls : (Places(d)' = {}) <=> (Places(d) = {})
  <1>e. PICK e \in Calls : e = sending
    BY DEF WorkerSends, ServiceInv, TypeOK
  <1>1. /\ sending = e /\ sending' = NoEvent
        /\ \/ sent' = sent \cup {e} /\ lost' = lost
           \/ sent' = sent /\ lost' = lost \cup {e}
        /\ UNCHANGED <<row, target, queue, seen, callAt>>
    BY <1>e DEF WorkerSends, ServiceInv, TypeOK, db, calls
  <1>2. ~At(e, "committed") /\ ~InQueue(e) /\ e \notin sent /\ e \notin lost
    <2>1. \A here, there \in Places(e) : here = there
      BY <1>1 DEF ServiceInv, EventsMatchRows
    <2> QED
      BY <1>1, <2>1, Located
  <1>3. \A d \in Calls : d # NoEvent
    BY ServiceAssumption
  <1>4. Places(e)' = {"sent"} \/ Places(e)' = {"lost"}
    BY <1>1, <1>2, <1>3 DEF Places, InQueue, At
  <1>5. \A d \in Calls : d # e => Places(d)' = Places(d)
    BY <1>1, <1>3 DEF Places, InQueue, At
  <1>6. Places(e) # {}
    BY <1>1, Located
  <1>7. \A d \in Calls : \A here, there \in Places(d)' : here = there
    BY <1>4, <1>5 DEF ServiceInv, EventsMatchRows
  <1>8. \A d \in Calls : (Places(d)' = {}) <=> (Places(d) = {})
    BY <1>4, <1>5, <1>6
  <1>9. \A i, j \in 1..Len(queue') : queue'[i] = queue'[j] => i = j
    BY <1>1 DEF ServiceInv, EventsMatchRows
  <1> QED
    BY <1>1, <1>7, <1>8, <1>9, CarryStep

LEMMA CrashKeeps ==
  ASSUME ServiceInv, TypeOK', Crash
  PROVE  /\ ServiceInv'
         /\ \A d \in Calls : (Places(d)' = {}) <=> (Places(d) = {})
  <1>1. /\ queue' = <<>> /\ sending' = NoEvent
        /\ UNCHANGED <<row, target, sent, seen>>
        /\ \A d \in Calls : /\ callAt'[d] # "committed"
                            /\ \/ callAt'[d] = callAt[d]
                               \/ callAt'[d] = "failed"
    BY DEF Crash, ServiceInv, TypeOK, db
  <1>2. Len(queue') = 0
    BY <1>1
  <1>3. \A d \in Calls : d # NoEvent /\ ~InQueue(d)'
    BY <1>2, ServiceAssumption DEF InQueue
  <1>4. \A d \in Calls :
           d \in lost' <=> \/ d \in lost \/ InQueue(d) \/ sending = d
                           \/ At(d, "committed")
    BY DEF Crash
  <1>5. \A d \in Calls :
           Places(d)' = (IF d \in sent THEN {"sent"} ELSE {})
                          \cup (IF d \in lost' THEN {"lost"} ELSE {})
    BY <1>1, <1>3 DEF Places, At
  <1>6. \A d \in Calls : (Places(d)' = {}) <=> (Places(d) = {})
    BY <1>4, <1>5, Located
  <1>7. \A d \in Calls : \A here, there \in Places(d)' : here = there
    <2> SUFFICES ASSUME NEW d \in Calls, d \in sent PROVE d \notin lost'
      BY <1>5
    <2>1. \A here, there \in Places(d) : here = there
      BY DEF ServiceInv, EventsMatchRows
    <2> QED
      BY <1>4, <2>1, Located
  <1>8. \A i, j \in 1..Len(queue') : queue'[i] = queue'[j] => i = j
    BY <1>2
  <1> QED
    BY <1>1, <1>6, <1>7, <1>8, CarryStep

(* The invariant is inductive. *)
LEMMA StepInv == ServiceInv /\ [Next]_vars => ServiceInv'
  <1> SUFFICES ASSUME ServiceInv, [Next]_vars PROVE ServiceInv'
    OBVIOUS
  <1>0. TypeOK'
    BY TypeStep DEF ServiceInv
  <1>a. /\ callAt \in [Calls -> {"idle", "checked", "committed", "done",
                                 "refused", "failed"}]
        /\ Reservations \subseteq Calls /\ Cancellers \subseteq Calls
        /\ Reservations \cap Cancellers = {}
    BY ServiceAssumption DEF ServiceInv, TypeOK, Calls
  <1>1. ASSUME NEW r \in Reservations, NEW padded \in Paddings,
               NEW offset \in Offsets, NEW ended \in BOOLEAN,
               CreateCheck(r, padded, offset, ended)
        PROVE  ServiceInv'
    <2>1. /\ callAt[r] = "idle"
          /\ callAt'[r] \in {"checked", "refused"}
          /\ \A e \in Calls : e # r => callAt'[e] = callAt[e]
      <3> DEFINE bad == HasUserOverlap(owner[r], padded, slot[r][1] + offset,
                                       slot[r][2] + offset) \/ ended
      <3>1. callAt' = [callAt EXCEPT ![r] = IF bad THEN "refused" ELSE "checked"]
        BY <1>1 DEF CreateCheck, Goes
      <3>2. callAt[r] = "idle"
        BY <1>1 DEF CreateCheck, At
      <3> HIDE DEF bad
      <3>3. CASE bad
        BY <1>a, <3>1, <3>2, <3>3
      <3>4. CASE ~bad
        BY <1>a, <3>1, <3>2, <3>4
      <3> QED
        BY <3>3, <3>4
    <2>2. UNCHANGED <<row, target, queue, sending, sent, lost>>
      BY <1>1 DEF CreateCheck, db, publisher, history
    <2>3. CheckedStored'
      BY <1>a, <2>1, <2>2 DEF ServiceInv, CheckedStored, At
    <2>4. seen' = [seen EXCEPT ![r] = {q \in Reservations : row[q] # "none"}]
      BY <1>1 DEF CreateCheck
    <2>5. SeenStored'
      BY <2>2, <2>4 DEF ServiceInv, TypeOK, SeenStored
    <2> QED
      BY <1>0, <1>a, <2>1, <2>2, <2>3, <2>5, QuietStep
  <1>2. ASSUME NEW c \in Cancellers, NEW r \in Reservations, NEW user \in Users,
               CancelCheck(c, r, user)
        PROVE  ServiceInv'
    <2>1. /\ callAt[c] = "idle"
          /\ \/ callAt'[c] = "checked" /\ row[r] = "active"
             \/ callAt'[c] = "refused"
          /\ \A e \in Calls : e # c => callAt'[e] = callAt[e]
          /\ target' = [target EXCEPT ![c] = r]
          /\ UNCHANGED <<row, queue, sending, sent, lost, seen>>
      BY <1>2, <1>a DEF CancelCheck, Goes, At, db, publisher, history
    <2>2. target'[c] = r /\ \A d \in Cancellers : d # c => target'[d] = target[d]
      BY <2>1 DEF ServiceInv, TypeOK
    <2>3. CheckedStored'
      BY <1>a, <2>1, <2>2 DEF ServiceInv, CheckedStored, At
    <2>4. SeenStored'
      BY <2>1 DEF ServiceInv, SeenStored
    <2> QED
      BY <1>0, <1>a, <2>1, <2>2, <2>3, <2>4, QuietStep
  <1>3. ASSUME NEW e \in Calls, Handle(e) PROVE ServiceInv'
    BY <1>0, <1>3, CreateCommitKeeps, CancelCommitKeeps, PublishKeeps DEF Handle
  <1>4. ASSUME NEW e \in Calls, CommitFails(e) PROVE ServiceInv'
    <2>1. /\ callAt[e] = "checked" /\ callAt'[e] = "failed"
          /\ \A d \in Calls : d # e => callAt'[d] = callAt[d]
          /\ UNCHANGED <<row, target, queue, sending, sent, lost, seen>>
      BY <1>4, <1>a DEF CommitFails, Goes, At, db, publisher, history
    <2>2. CheckedStored' /\ SeenStored'
      BY <1>a, <2>1 DEF ServiceInv, CheckedStored, SeenStored, At
    <2> QED
      BY <1>0, <1>a, <2>1, <2>2, QuietStep
  <1>5. CASE WorkerGets \/ WorkerSends
    BY <1>0, <1>5, WorkerGetsKeeps, WorkerSendsKeeps
  <1>6. CASE Stopped \/ Start \/ Stop \/ BrokerGoesDown \/ BrokerComesBack
             \/ UNCHANGED vars
    <2>1. UNCHANGED <<row, callAt, target, queue, sending, sent, lost, seen>>
      BY <1>6 DEF Stopped, Start, Stop, BrokerGoesDown, BrokerComesBack, vars,
                  db, calls, publisher, history
    <2>2. CheckedStored' /\ SeenStored'
      BY <2>1 DEF ServiceInv, CheckedStored, SeenStored, At
    <2> QED
      BY <1>0, <2>1, <2>2, QuietStep
  <1>7. CASE Crash
    BY <1>0, <1>7, CrashKeeps
  <1> QED
    BY <1>1, <1>2, <1>3, <1>4, <1>5, <1>6, <1>7 DEF Next, Work

(* The invariant holds in every reachable state. *)
THEOREM Invariant == Spec => []ServiceInv
  BY InitInv, StepInv, PTL DEF Spec

(* Every variable stays of its type. *)
THEOREM TypeCorrect == Spec => []TypeOK
  <1>1. ServiceInv => TypeOK
    BY DEF ServiceInv
  <1> QED
    BY <1>1, Invariant, PTL

(***************************************************************************)
(* Every stored row has exactly one created event and every cancelled row  *)
(* a cancelled one, through commits, sends, outages and crashes.           *)
(***************************************************************************)
THEOREM EventsFollowRows == Spec => []EventsMatchRows
  <1>1. ServiceInv => EventsMatchRows
    BY DEF ServiceInv
  <1> QED
    BY <1>1, Invariant, PTL

-----------------------------------------------------------------------------
(* Requests whose times are UTC and whose user_id has no blanks. *)
Normalised == Offsets \subseteq {0} /\ Paddings \subseteq {FALSE}

(***************************************************************************)
(* A creation past its check does not overlap what it saw and is still     *)
(* active: a row that is active now was so at the check.                   *)
(***************************************************************************)
ChecksHold ==
  \A r \in Reservations : \A q \in seen[r] :
     (callAt[r] = "checked" \/ row[r] = "active") /\ row[q] = "active"
        => ~Overlap(q, r)

(* A row is stored by its own creation, past the check. *)
RowsChecked ==
  \A r \in Reservations : callAt[r] \in {"idle", "checked"} => row[r] = "none"

LEMMA StepRacers ==
  Normalised /\ ServiceInv /\ RowsChecked /\ ChecksHold /\ [Next]_vars
     => RowsChecked' /\ ChecksHold'
  <1> SUFFICES ASSUME Normalised, ServiceInv, RowsChecked, ChecksHold, [Next]_vars
               PROVE  RowsChecked' /\ ChecksHold'
    OBVIOUS
  <1>a. /\ callAt \in [Calls -> {"idle", "checked", "committed", "done",
                                 "refused", "failed"}]
        /\ row \in [Reservations -> {"none", "active", "cancelled"}]
        /\ slot \in [Reservations -> Nat \X Nat]
        /\ seen \in [Reservations -> SUBSET Reservations]
        /\ Reservations \subseteq Calls /\ Cancellers \subseteq Calls
        /\ Reservations \cap Cancellers = {}
    BY ServiceAssumption DEF ServiceInv, TypeOK, Calls
  <1>s. \A r \in Reservations : \A q \in seen[r] : q \in Reservations
    BY <1>a
  <1>1. ASSUME NEW r \in Reservations, NEW padded \in Paddings,
               NEW offset \in Offsets, NEW ended \in BOOLEAN,
               CreateCheck(r, padded, offset, ended)
        PROVE  RowsChecked' /\ ChecksHold'
    <2> DEFINE bad == HasUserOverlap(owner[r], padded, slot[r][1] + offset,
                                     slot[r][2] + offset) \/ ended
    <2>1. /\ callAt[r] = "idle" /\ row[r] = "none"
          /\ callAt' = [callAt EXCEPT ![r] = IF bad THEN "refused" ELSE "checked"]
          /\ seen' = [seen EXCEPT ![r] = {q \in Reservations : row[q] # "none"}]
          /\ UNCHANGED <<row, owner, slot>>
      BY <1>1 DEF CreateCheck, Goes, At, db, RowsChecked
    <2>2. padded = FALSE /\ offset = 0 /\ slot[r][1] \in Nat /\ slot[r][2] \in Nat
      BY <1>a DEF Normalised
    <2>3. bad \/ \A q \in Reservations : row[q] = "active" => ~Overlap(q, r)
      <3>1. /\ slot[r][1] + offset = slot[r][1]
            /\ slot[r][2] + offset = slot[r][2]
        BY <2>2
      <3> QED
        BY <2>2, <3>1 DEF HasUserOverlap, Overlap
    <2> HIDE DEF bad
    <2>4. \/ callAt'[r] = "refused"
          \/ /\ callAt'[r] = "checked"
             /\ \A q \in Reservations : row[q] = "active" => ~Overlap(q, r)
      <3>1. CASE bad
        BY <1>a, <2>1, <3>1
      <3>2. CASE ~bad
        BY <1>a, <2>1, <2>3, <3>2
      <3> QED
        BY <3>1, <3>2
    <2>5. \A p \in Reservations : p # r => callAt'[p] = callAt[p] /\ seen'[p] = seen[p]
      BY <1>a, <2>1
    <2>6. \A p, q \in Reservations : Overlap(p, q)' <=> Overlap(p, q)
      BY <2>1 DEF Overlap
    <2>7. RowsChecked'
      BY <2>1, <2>5 DEF RowsChecked
    <2>8. ChecksHold'
      BY <1>a, <1>s, <2>1, <2>4, <2>5, <2>6 DEF ChecksHold
    <2> QED
      BY <2>7, <2>8
  <1>2. ASSUME UNCHANGED <<owner, slot, seen>>,
               \A r \in Reservations :
                  callAt'[r] \in {"idle", "checked"} => callAt'[r] = callAt[r],
               \A r \in Reservations : row'[r] = "active" =>
                  row[r] = "active" \/ callAt[r] = "checked",
               \A q, r \in Reservations :
                  q \in seen[r] /\ row'[q] = "active" => row[q] = "active",
               \A r \in Reservations : callAt'[r] \in {"idle", "checked"} =>
                  row'[r] = row[r]
        PROVE  RowsChecked' /\ ChecksHold'
    <2>1. \A p, q \in Reservations : Overlap(p, q)' <=> Overlap(p, q)
      BY <1>2 DEF Overlap
    <2>2. RowsChecked'
      BY <1>2 DEF RowsChecked
    <2>3. ChecksHold'
      BY <1>2, <1>s, <2>1 DEF ChecksHold
    <2> QED
      BY <2>2, <2>3
  <1>3. ASSUME NEW r \in Reservations, CreateCommit(r)
        PROVE  RowsChecked' /\ ChecksHold'
    <2>1. /\ callAt[r] = "checked" /\ callAt'[r] = "committed"
          /\ \A q \in Reservations : q # r => callAt'[q] = callAt[q] /\ row'[q] = row[q]
          /\ UNCHANGED <<owner, slot, seen>>
      BY <1>3, <1>a DEF CreateCommit, At, Goes
    <2>2. row[r] = "none" /\ \A p \in Reservations : r \notin seen[p]
      BY <2>1 DEF RowsChecked, ServiceInv, SeenStored
    <2> QED
      BY <1>2, <2>1, <2>2
  <1>4. ASSUME NEW c \in Cancellers, CancelCommit(c)
        PROVE  RowsChecked' /\ ChecksHold'
    <2>1. /\ target[c] \in Reservations /\ row[target[c]] # "none"
          /\ row' = [row EXCEPT ![target[c]] = "cancelled"]
          /\ \A q \in Reservations : callAt'[q] = callAt[q]
          /\ UNCHANGED <<owner, slot, seen>>
      BY <1>4, <1>a DEF CancelCommit, At, Goes, ServiceInv, CheckedStored
    <2>2. \A q \in Reservations : row'[q] = row[q] \/ row'[q] = "cancelled"
      BY <1>a, <2>1
    <2>3. \A q \in Reservations : callAt[q] \in {"idle", "checked"} => q # target[c]
      BY <2>1 DEF RowsChecked
    <2>4. \A q \in Reservations : q # target[c] => row'[q] = row[q]
      BY <1>a, <2>1
    <2> QED
      BY <1>2, <2>1, <2>2, <2>3, <2>4
  <1>5. ASSUME UNCHANGED <<row, owner, slot, seen>>,
               \A r \in Reservations :
                  callAt'[r] \in {"idle", "checked"} => callAt'[r] = callAt[r]
        PROVE  RowsChecked' /\ ChecksHold'
    BY <1>2, <1>5
  <1>6. ASSUME NEW c \in Cancellers, NEW r \in Reservations, NEW user \in Users,
               CancelCheck(c, r, user)
        PROVE  RowsChecked' /\ ChecksHold'
    <2>1. \A q \in Reservations : callAt'[q] = callAt[q]
      BY <1>a, <1>6 DEF CancelCheck, Goes
    <2> QED
      BY <1>5, <1>6, <2>1 DEF CancelCheck, db
  <1>7. ASSUME NEW e \in Calls, Publish(e) \/ CommitFails(e)
        PROVE  RowsChecked' /\ ChecksHold'
    <2>1. \A d \in Calls : callAt'[d] = callAt[d] \/ callAt'[d] \in {"done", "failed"}
      BY <1>a, <1>7 DEF Publish, CommitFails, Goes
    <2> QED
      BY <1>a, <1>5, <1>7, <2>1 DEF Publish, CommitFails, db
  <1>8. CASE Work \/ Start \/ Stop \/ BrokerGoesDown \/ BrokerComesBack
             \/ UNCHANGED vars
    <2>1. UNCHANGED <<row, owner, slot, callAt, seen>>
      BY <1>8 DEF Work, WorkerGets, WorkerSends, Stopped, Start, Stop,
                  BrokerGoesDown, BrokerComesBack, vars, db, calls
    <2> QED
      BY <1>5, <2>1
  <1>9. CASE Crash
    <2>1. \A d \in Calls : callAt'[d] = callAt[d] \/ callAt'[d] = "failed"
      BY <1>9 DEF Crash
    <2> QED
      BY <1>a, <1>5, <1>9, <2>1 DEF Crash, db
  <1> QED
    BY <1>1, <1>3, <1>4, <1>6, <1>7, <1>8, <1>9 DEF Next, Handle

(***************************************************************************)
(* When requests are normalised, two active reservations of one user       *)
(* overlap only if neither creation found the other's row.                 *)
(***************************************************************************)
THEOREM RacersOnly == ASSUME Normalised PROVE Spec => []OnlyRacersOverlap
  <1>1. Init => RowsChecked /\ ChecksHold
    BY DEF Init, RowsChecked, ChecksHold
  <1>2. ServiceInv /\ RowsChecked /\ ChecksHold => OnlyRacersOverlap
    BY DEF ChecksHold, OnlyRacersOverlap
  <1>3. ServiceInv /\ RowsChecked /\ ChecksHold /\ [Next]_vars
           => RowsChecked' /\ ChecksHold'
    BY StepRacers
  <1> QED
    BY <1>1, <1>2, <1>3, Invariant, PTL DEF Spec

-----------------------------------------------------------------------------
(* The order of the events. *)

(***************************************************************************)
(* A cancellation that was not hasty works on a stored row whose created   *)
(* event has left the creation's handler.                                  *)
(***************************************************************************)
ReadQueued ==
  \A c \in Cancellers \ hasty :
     callAt[c] \notin {"idle", "refused"} =>
        /\ target[c] \in Reservations
        /\ row[target[c]] # "none" /\ ~At(target[c], "committed")

OrderInv == ReadQueued /\ CreatedFirst

(* The created event of such a row is in the queue or beyond. *)
LEMMA CreatedIsOut ==
  ASSUME ServiceInv, ReadQueued, NEW c \in Cancellers \ hasty, NEW r \in Reservations,
         target[c] = r, Places(c) # {}
  PROVE  /\ callAt[c] \notin {"idle", "checked", "refused"}
         /\ ~At(r, "committed")
         /\ InQueue(r) \/ sending = r \/ r \in sent \cup lost
  <1>1. callAt[c] \notin {"idle", "checked", "refused"}
    BY DEF ServiceInv, Unplaced, Calls
  <1>2. ~At(r, "committed") /\ row[r] # "none"
    BY <1>1 DEF ReadQueued
  <1>3. Places(r) # {}
    BY <1>2 DEF ServiceInv, EventsMatchRows
  <1>4. r \in Calls
    BY DEF Calls
  <1> QED
    BY <1>1, <1>2, <1>3, <1>4, Located

(* Nothing moves a stored row's creation back before its publication. *)
LEMMA ReadQueuedStep ==
  ASSUME ServiceInv, ServiceInv', ReadQueued, [Next]_vars PROVE ReadQueued'
  <1>a. /\ callAt \in [Calls -> {"idle", "checked", "committed", "done",
                                 "refused", "failed"}]
        /\ row \in [Reservations -> {"none", "active", "cancelled"}]
        /\ target \in [Cancellers -> Reservations \cup {NoReservation}]
        /\ \A r \in Reservations : r \in Calls /\ r \notin Cancellers
        /\ \A c \in Cancellers : c \in Calls /\ c \notin Reservations
    BY ServiceAssumption DEF ServiceInv, TypeOK, Calls
  <1>1. ASSUME NEW c \in Cancellers, NEW r \in Reservations, NEW user \in Users,
               CancelCheck(c, r, user)
        PROVE  ReadQueued'
    <2>1. /\ callAt'[c] = "refused" \/ row[r] = "active"
          /\ \A e \in Calls : e # c => callAt'[e] = callAt[e]
          /\ target'[c] = r /\ \A d \in Cancellers : d # c => target'[d] = target[d]
          /\ row' = row
          /\ hasty' = IF At(r, "committed") THEN hasty \cup {c} ELSE hasty
      BY <1>1, <1>a DEF CancelCheck, Goes, db
    <2> QED
      BY <1>a, <2>1 DEF ReadQueued, At
  <1>2. ASSUME hasty' = hasty, target' = target,
               \A c \in Cancellers : callAt[c] \in {"idle", "refused"} => callAt'[c] = callAt[c],
               \A r \in Reservations :
                  row[r] # "none" /\ ~At(r, "committed")
                     => row'[r] # "none" /\ callAt'[r] # "committed"
        PROVE  ReadQueued'
    BY <1>a, <1>2 DEF ReadQueued, At
  <1>3. ASSUME NEW r \in Reservations, CreateCommit(r) PROVE ReadQueued'
    <2>1. row[r] = "none"
      BY <1>a, <1>3 DEF CreateCommit, ServiceInv, Unplaced, EventsMatchRows, At
    <2>2. /\ \A e \in Calls : e # r => callAt'[e] = callAt[e]
          /\ row' = [row EXCEPT ![r] = "active"]
          /\ UNCHANGED <<target, hasty>>
      BY <1>a, <1>3 DEF CreateCommit, Goes, history
    <2> QED
      BY <1>a, <1>2, <2>1, <2>2 DEF At
  <1>4. ASSUME NEW c \in Cancellers, CancelCommit(c) PROVE ReadQueued'
    <2>1. /\ \A e \in Calls : e # c => callAt'[e] = callAt[e]
          /\ callAt[c] = "checked"
          /\ row' = [row EXCEPT ![target[c]] = "cancelled"]
          /\ UNCHANGED <<target, hasty>>
      BY <1>a, <1>4 DEF CancelCommit, Goes, At, history
    <2> QED
      BY <1>a, <1>2, <2>1 DEF At
  <1>5. ASSUME NEW e \in Calls, CommitFails(e) \/ Publish(e) PROVE ReadQueued'
    <2>1. /\ \A d \in Calls : d # e => callAt'[d] = callAt[d]
          /\ callAt[e] \in {"checked", "committed"} /\ callAt'[e] \in {"failed", "done"}
          /\ UNCHANGED <<row, target, hasty>>
      BY <1>a, <1>5 DEF CommitFails, Publish, Goes, At, db, history
    <2> QED
      BY <1>a, <1>2, <2>1 DEF At
  <1>6. ASSUME NEW r \in Reservations, NEW padded \in Paddings,
               NEW offset \in Offsets, NEW ended \in BOOLEAN,
               CreateCheck(r, padded, offset, ended)
        PROVE  ReadQueued'
    <2>1. /\ \A d \in Calls : d # r => callAt'[d] = callAt[d]
          /\ callAt'[r] # "committed"
          /\ UNCHANGED <<row, target, hasty>>
      <3> DEFINE bad == HasUserOverlap(owner[r], padded, slot[r][1] + offset,
                                       slot[r][2] + offset) \/ ended
      <3>1. callAt' = [callAt EXCEPT ![r] = IF bad THEN "refused" ELSE "checked"]
        BY <1>6 DEF CreateCheck, Goes
      <3> HIDE DEF bad
      <3> QED
        BY <1>a, <1>6, <3>1 DEF CreateCheck, db, history
    <2> QED
      BY <1>a, <1>2, <2>1 DEF At
  <1>7. CASE Crash
    <2>1. /\ \A d \in Calls : callAt'[d] = IF callAt[d] \in {"checked", "committed"}
                                          THEN "failed" ELSE callAt[d]
          /\ UNCHANGED <<row, target, hasty>>
      BY <1>7 DEF Crash, db
    <2> QED
      BY <1>a, <1>2, <2>1 DEF At
  <1>8. CASE UNCHANGED <<row, target, callAt, hasty>>
    BY <1>8 DEF ReadQueued, At
  <1> QED
    BY <1>1, <1>3, <1>4, <1>5, <1>6, <1>7, <1>8
       DEF Next, Handle, Work, WorkerGets, WorkerSends, Stopped, Start, Stop,
           BrokerGoesDown, BrokerComesBack, vars, db, calls, publisher, history

(***************************************************************************)
(* The queue hands events on in the order they came, and the worker sends  *)
(* or gives up one before it takes the next.                               *)
(***************************************************************************)
LEMMA CreatedFirstStep ==
  ASSUME ServiceInv, ServiceInv', OrderInv, ReadQueued', [Next]_vars
  PROVE  CreatedFirst'
  <1> SUFFICES ASSUME NEW c \in Cancellers, c \notin hasty', NEW r \in Reservations,
                      target'[c] = r, Places(c)' # {}
               PROVE  /\ \A i, j \in 1..Len(queue') :
                            queue'[i] = r /\ queue'[j] = c => i < j
                      /\ sending' = c \/ c \in sent' \cup lost'
                            => r \in sent' \cup lost'
    <2>1. ASSUME NEW c \in Cancellers, c \notin hasty', NEW r \in Reservations,
                 target'[c] = r, Places(c)' # {}
          PROVE  ~At(r, "committed")'
      BY <2>1 DEF ReadQueued, ServiceInv, Unplaced, Calls
    <2> QED
      BY <2>1 DEF CreatedFirst
  <1>a. /\ queue \in Seq(Calls) /\ queue' \in Seq(Calls)
        /\ r \in Calls /\ c \in Calls /\ r # c /\ r # NoEvent /\ c # NoEvent
    BY ServiceAssumption DEF ServiceInv, TypeOK, Calls
  <1>b. c \notin hasty
    BY DEF Next, CreateCheck, CancelCheck, Handle, CreateCommit, CancelCommit, Publish,
           CommitFails, Work, WorkerGets, WorkerSends, Stopped, Start, Stop,
           BrokerGoesDown, BrokerComesBack, Crash, vars, history
  <1>c. ASSUME Places(c) # {}, target[c] = r
        PROVE  /\ ~At(r, "committed")
               /\ InQueue(r) \/ sending = r \/ r \in sent \cup lost
               /\ \A i, j \in 1..Len(queue) : queue[i] = r /\ queue[j] = c => i < j
               /\ sending = c \/ c \in sent \cup lost => r \in sent \cup lost
    BY <1>b, <1>c, CreatedIsOut DEF OrderInv, CreatedFirst
  <1> DEFINE InOrder ==
        /\ \A i, j \in 1..Len(queue') : queue'[i] = r /\ queue'[j] = c => i < j
        /\ sending' = c \/ c \in sent' \cup lost' => r \in sent' \cup lost'
  <1>1. ASSUME UNCHANGED <<queue, sending, sent, lost>>,
               \A d \in Cancellers : callAt[d] # "idle" => target'[d] = target[d]
        PROVE  InOrder
    <2>1. CASE ~InQueue(c) /\ sending # c /\ c \notin sent \cup lost
      BY <1>1, <2>1 DEF InQueue
    <2>2. CASE InQueue(c) \/ sending = c \/ c \in sent \cup lost
      <3>1. Places(c) # {}
        BY <1>a, <2>2, Located
      <3>2. callAt[c] # "idle"
        BY <3>1 DEF ServiceInv, Unplaced, Calls
      <3> QED
        BY <1>1, <1>c, <3>1, <3>2
    <2> QED
      BY <2>1, <2>2
  <1>2. ASSUME NEW e \in Calls, Publish(e) PROVE InOrder
    <2>1. /\ queue' = Append(queue, e) /\ callAt[e] = "committed"
          /\ UNCHANGED <<target, sending, sent, lost>>
      BY <1>2 DEF Publish, At, db, history
    <2>2. /\ Len(queue') = Len(queue) + 1 /\ Len(queue) \in Nat
          /\ queue'[Len(queue) + 1] = e
          /\ \A i \in 1..Len(queue) : queue'[i] = queue[i]
      BY <1>a, <2>1
    <2>3. CASE Places(c) # {}
      <3>1. /\ e # r
            /\ \A i, j \in 1..Len(queue) : queue[i] = r /\ queue[j] = c => i < j
            /\ sending = c \/ c \in sent \cup lost => r \in sent \cup lost
        BY <1>c, <2>1, <2>3 DEF At
      <3> QED
        BY <2>1, <2>2, <3>1
    <2>4. CASE Places(c) = {}
      <3>1. ~At(c, "committed") /\ ~InQueue(c) /\ sending # c /\ c \notin sent \cup lost
        BY <1>a, <2>4, Located
      <3> QED
        BY <2>1, <2>2, <3>1 DEF InQueue, At
    <2> QED
      BY <2>3, <2>4
  <1>3. CASE WorkerGets
    <2>1. /\ queue # <<>> /\ queue' = Tail(queue)
          /\ sending = NoEvent /\ sending' = Head(queue)
          /\ UNCHANGED <<target, callAt, sent, lost>>
      BY <1>3 DEF WorkerGets, db, calls, history
    <2>2. /\ Len(queue) \in Nat \ {0} /\ Len(queue') = Len(queue) - 1
          /\ \A i \in 1..Len(queue') : queue'[i] = queue[i + 1]
          /\ Head(queue) = queue[1]
      BY <1>a, <2>1
    <2>3. \A d \in Calls : InQueue(d)' => InQueue(d)
      <3> SUFFICES ASSUME NEW d \in Calls, NEW i \in 1..Len(queue'), queue'[i] = d
                   PROVE  \E j \in 1..Len(queue) : queue[j] = d
        BY DEF InQueue
      <3>1. i + 1 \in 1..Len(queue) /\ queue[i + 1] = d
        BY <2>2
      <3> QED
        BY <3>1
    <2>4. Places(c) # {}
      <3>1. CASE sending' = c
        <4>1. InQueue(c)
          BY <2>1, <2>2, <3>1 DEF InQueue
        <4> QED
          BY <1>a, <4>1, Located
      <3>2. CASE sending' # c
        <4>1. At(c, "committed")' \/ InQueue(c)' \/ c \in sent' \cup lost'
          BY <3>2 DEF Places
        <4>2. At(c, "committed") \/ InQueue(c) \/ c \in sent \cup lost
          BY <1>a, <2>1, <2>3, <4>1 DEF At
        <4> QED
          BY <1>a, <4>2, Located
      <3> QED
        BY <3>1, <3>2
    <2>5. /\ InQueue(r) \/ r \in sent \cup lost
          /\ \A i, j \in 1..Len(queue) : queue[i] = r /\ queue[j] = c => i < j
          /\ c \in sent \cup lost => r \in sent \cup lost
      BY <1>a, <1>c, <2>1, <2>4
    <2>6. \A i, j \in 1..Len(queue') : queue'[i] = r /\ queue'[j] = c => i < j
      <3> SUFFICES ASSUME NEW i \in 1..Len(queue'), NEW j \in 1..Len(queue'),
                          queue'[i] = r, queue'[j] = c
                   PROVE  i < j
        OBVIOUS
      <3>1. i + 1 \in 1..Len(queue) /\ j + 1 \in 1..Len(queue)
        BY <2>2
      <3>2. i + 1 < j + 1
        BY <2>2, <2>5, <3>1
      <3> QED
        BY <2>2, <3>2
    <2>7. ASSUME sending' = c PROVE r \in sent \cup lost
      <3> SUFFICES ASSUME NEW i \in 1..Len(queue), queue[i] = r PROVE FALSE
        BY <2>5 DEF InQueue
      <3>1. 1 \in 1..Len(queue) /\ queue[1] = c
        BY <2>1, <2>2, <2>7
      <3>2. i < 1
        BY <2>5, <3>1
      <3> QED
        BY <2>2, <3>2
    <2> QED
      BY <2>1, <2>5, <2>6, <2>7
  <1>4. CASE WorkerSends
    <2>1. /\ sending # NoEvent /\ sending' = NoEvent
          /\ sent' \cup lost' = sent \cup lost \cup {sending}
          /\ UNCHANGED <<target, callAt, queue>>
      BY <1>4 DEF WorkerSends, db, calls
    <2>2. At(c, "committed") \/ InQueue(c) \/ sending = c \/ c \in sent \cup lost
      BY <1>a, <2>1 DEF Places, At, InQueue
    <2>3. Places(c) # {}
      BY <1>a, <2>2, Located
    <2> QED
      BY <1>a, <1>c, <2>1, <2>3
  <1>5. CASE Crash
    <2>1. /\ queue' = <<>> /\ sending' = NoEvent
          /\ \A d \in Calls : /\ callAt'[d] # "committed"
                              /\ d \in lost' <=> \/ d \in lost \/ InQueue(d)
                                                \/ sending = d \/ At(d, "committed")
          /\ UNCHANGED <<target, sent>>
      BY <1>5 DEF Crash, db
    <2>2. At(c, "committed") \/ InQueue(c) \/ sending = c \/ c \in sent \cup lost
      BY <1>a, <2>1 DEF Places, At, InQueue
    <2>3. Places(c) # {}
      BY <1>a, <2>2, Located
    <2>4. r \in sent' \cup lost'
      BY <1>a, <1>c, <2>1, <2>3
    <2>5. Len(queue') = 0
      BY <2>1
    <2> QED
      BY <2>4, <2>5
  <1>6. CASE ~(\E e \in Calls : Publish(e)) /\ ~WorkerGets /\ ~WorkerSends /\ ~Crash
    <2>1. UNCHANGED <<queue, sending, sent, lost>>
      BY <1>6 DEF Next, CreateCheck, CancelCheck, Handle, CreateCommit, CancelCommit,
             CommitFails, Work, Stopped, Start, Stop, BrokerGoesDown,
             BrokerComesBack, vars, publisher, history
    <2>2. \A d \in Cancellers : callAt[d] # "idle" => target'[d] = target[d]
      <3>1. ASSUME NEW d \in Cancellers, NEW q \in Reservations, NEW user \in Users,
                   CancelCheck(d, q, user)
            PROVE  \A x \in Cancellers : callAt[x] # "idle" => target'[x] = target[x]
        BY <3>1 DEF CancelCheck, At, ServiceInv, TypeOK
      <3>2. CASE target' = target
        BY <3>2
      <3> QED
        BY <1>6, <3>1, <3>2
           DEF Next, CreateCheck, Handle, CreateCommit, CancelCommit, CommitFails, Work,
               Stopped, Start, Stop, BrokerGoesDown, BrokerComesBack, vars, calls
    <2> QED
      BY <1>1, <2>1, <2>2
  <1> QED
    BY <1>2, <1>3, <1>4, <1>5, <1>6

(***************************************************************************)
(* The cancelled event of a reservation never gets ahead of its created    *)
(* event, through queue, worker, outages, shutdowns and crashes, unless    *)
(* the cancellation read the row before the creation had published.        *)
(***************************************************************************)
THEOREM CreatedEventsComeFirst == Spec => []CreatedFirst
  <1>1. Init => OrderInv
    <2> SUFFICES ASSUME Init PROVE OrderInv
      OBVIOUS
    <2>1. ServiceInv
      BY InitInv
    <2>2. \A c \in Cancellers : callAt[c] = "idle" /\ c \in Calls
      BY DEF Init, Calls
    <2>3. \A c \in Cancellers : Places(c) = {}
      BY <2>1, <2>2 DEF ServiceInv, Unplaced
    <2> QED
      BY <2>2, <2>3 DEF OrderInv, ReadQueued, CreatedFirst
  <1>2. ServiceInv /\ ServiceInv' /\ OrderInv /\ [Next]_vars => OrderInv'
    BY ReadQueuedStep, CreatedFirstStep DEF OrderInv
  <1>3. OrderInv => CreatedFirst
    BY DEF OrderInv
  <1> QED
    BY <1>1, <1>2, <1>3, Invariant, PTL DEF Spec

-----------------------------------------------------------------------------
(* The refinement of Outbox. *)

(* A step that places no new event, and sends or loses none, is invisible. *)
LEMMA BoxStutter ==
  ASSUME UNCHANGED <<row, sent, lost>>,
         \A e \in Calls : (Places(e)' = {}) <=> (Places(e) = {})
  PROVE  UNCHANGED Box!vars
  <1>1. \A e \in Calls : EventOf(e)' = EventOf(e)
    BY DEF EventOf
  <1> QED
    BY <1>1 DEF Box!vars, eventBar

(* An event that waits to be sent is pending, and neither sent nor lost.   *)
LEMMA WaitingIsPending ==
  ASSUME ServiceInv, NEW e \in Calls, At(e, "committed") \/ InQueue(e) \/ sending = e
  PROVE  eventBar[e] = "pending" /\ e \notin sent \cup lost
  <1>1. \A here, there \in Places(e) : here = there
    BY DEF ServiceInv, EventsMatchRows
  <1> QED
    BY <1>1, Located DEF eventBar, EventOf

LEMMA BoxStep == ServiceInv /\ ServiceInv' /\ [Next]_vars => [Box!Next]_(Box!vars)
  <1> SUFFICES ASSUME ServiceInv, ServiceInv', [Next]_vars
               PROVE  [Box!Next]_(Box!vars)
    OBVIOUS
  <1>a. /\ callAt \in [Calls -> {"idle", "checked", "committed", "done",
                                 "refused", "failed"}]
        /\ row \in [Reservations -> {"none", "active", "cancelled"}]
        /\ Calls = Reservations \cup Cancellers /\ Reservations \cap Cancellers = {}
        /\ TypeOK'
    BY ServiceAssumption DEF ServiceInv, TypeOK, Calls
  <1>1. ASSUME NEW e \in Calls, At(e, "checked"), Goes(e, "committed"),
               UNCHANGED <<target, queue, sending, sent, lost, seen>>
        PROVE  /\ eventBar[e] = "none"
               /\ eventBar' = [eventBar EXCEPT ![e] = "pending"]
    <2>1. /\ Places(e)' = {"handler"} /\ Places(e) = {}
          /\ \A d \in Calls : d # e => Places(d)' = Places(d)
      BY <1>a, <1>1, CommitStep
    <2>2. e \notin sent \cup lost
      BY <2>1, Located
    <2>3. EventOf(e) = "none" /\ EventOf(e)' = "pending"
      BY <1>1, <2>1, <2>2 DEF EventOf
    <2>4. \A d \in Calls : d # e => EventOf(d)' = EventOf(d)
      BY <1>1, <2>1 DEF EventOf
    <2> QED
      BY <2>3, <2>4 DEF eventBar
  <1>2. ASSUME NEW r \in Reservations, CreateCommit(r) PROVE Box!Next
    <2>1. Box!Create(r)
      BY <1>a, <1>1, <1>2 DEF CreateCommit, publisher, history, Box!Create
    <2> QED
      BY <2>1 DEF Box!Next
  <1>3. ASSUME NEW c \in Cancellers, CancelCommit(c) PROVE Box!Next
    <2>1. PICK r \in Reservations : r = target[c] /\ row[r] # "none"
      BY <1>3 DEF CancelCommit, ServiceInv, CheckedStored
    <2>2. Box!Cancel(c, r)
      BY <1>a, <1>1, <1>3, <2>1 DEF CancelCommit, publisher, history, Box!Cancel
    <2> QED
      BY <2>2 DEF Box!Next
  <1>4. CASE (\E e \in Calls : Publish(e)) \/ WorkerGets
    <2>1. \A d \in Calls : (Places(d)' = {}) <=> (Places(d) = {})
      BY <1>a, <1>4, PublishKeeps, WorkerGetsKeeps
    <2>2. UNCHANGED <<row, sent, lost>>
      BY <1>4 DEF Publish, WorkerGets, db, history
    <2> QED
      BY <2>1, <2>2, BoxStutter
  <1>5. CASE WorkerSends
    <2>e. PICK e \in Calls : e = sending
      BY <1>5 DEF WorkerSends, ServiceInv, TypeOK
    <2>1. eventBar[e] = "pending" /\ e \notin sent \cup lost
      BY <2>e, WaitingIsPending
    <2>2. \A d \in Calls : (Places(d)' = {}) <=> (Places(d) = {})
      BY <1>a, <1>5, WorkerSendsKeeps
    <2>3. CASE sent' = sent \cup {e} /\ lost' = lost
      <3>1. EventOf(e)' = "sent" /\ \A d \in Calls : d # e => EventOf(d)' = EventOf(d)
        BY <2>2, <2>3 DEF EventOf
      <3>2. eventBar' = [eventBar EXCEPT ![e] = "sent"]
        BY <3>1 DEF eventBar
      <3>3. Box!Send(e)
        BY <1>5, <2>1, <3>2 DEF WorkerSends, db, Box!Send
      <3> QED
        BY <1>a, <3>3 DEF Box!Next
    <2>4. CASE sent' = sent /\ lost' = lost \cup {e}
      <3>1. EventOf(e)' = "lost" /\ \A d \in Calls : d # e => EventOf(d)' = EventOf(d)
        BY <2>1, <2>2, <2>4 DEF EventOf
      <3>2. eventBar' = [d \in Reservations \cup Cancellers |->
                           IF d \in {e} THEN "lost" ELSE eventBar[d]]
        BY <1>a, <3>1 DEF eventBar
      <3>3. Box!GiveUp({e})
        BY <1>5, <2>1, <3>2 DEF WorkerSends, db, Box!GiveUp
      <3> QED
        BY <1>a, <3>3 DEF Box!Next
    <2> QED
      BY <1>5, <2>e, <2>3, <2>4 DEF WorkerSends
  <1>6. CASE Crash
    <2> DEFINE Dropped == {e \in Calls : InQueue(e) \/ sending = e \/ At(e, "committed")}
    <2>1. \A e \in Dropped : eventBar[e] = "pending" /\ e \notin sent \cup lost
      BY WaitingIsPending
    <2>2. \A d \in Calls : (Places(d)' = {}) <=> (Places(d) = {})
      BY <1>a, <1>6, CrashKeeps
    <2>3. row' = row /\ sent' = sent /\ lost' = lost \cup Dropped
      BY <1>6 DEF Crash, db
    <2>4. \A d \in Calls : EventOf(d)' = IF d \in Dropped THEN "lost" ELSE EventOf(d)
      <3>1. ASSUME NEW d \in Dropped PROVE EventOf(d)' = "lost"
        BY <2>1, <2>3 DEF EventOf
      <3>2. ASSUME NEW d \in Calls, d \notin Dropped PROVE EventOf(d)' = EventOf(d)
        BY <2>2, <2>3, <3>2 DEF EventOf
      <3> QED
        BY <3>1, <3>2
    <2>5. eventBar' = [d \in Reservations \cup Cancellers |->
                         IF d \in Dropped THEN "lost" ELSE eventBar[d]]
      BY <1>a, <2>4 DEF eventBar
    <2>6. Box!GiveUp(Dropped)
      BY <2>1, <2>3, <2>5 DEF Box!GiveUp
    <2> QED
      BY <1>a, <2>6 DEF Box!Next
  <1>7. ASSUME UNCHANGED <<row, queue, sending, sent, lost>>,
               \A e \in Calls : (callAt'[e] = "committed") <=> (callAt[e] = "committed")
        PROVE  UNCHANGED Box!vars
    <2>1. \A e \in Calls : Places(e)' = Places(e)
      BY <1>7, Stays DEF At
    <2> QED
      BY <1>7, <2>1, BoxStutter
  <1>8. ASSUME NEW r \in Reservations, NEW padded \in Paddings,
               NEW offset \in Offsets, NEW ended \in BOOLEAN,
               CreateCheck(r, padded, offset, ended)
        PROVE  UNCHANGED Box!vars
    <2> DEFINE bad == HasUserOverlap(owner[r], padded, slot[r][1] + offset,
                                     slot[r][2] + offset) \/ ended
    <2>1. callAt' = [callAt EXCEPT ![r] = IF bad THEN "refused" ELSE "checked"]
      BY <1>8 DEF CreateCheck, Goes
    <2>2. callAt[r] = "idle" /\ UNCHANGED <<row, queue, sending, sent, lost>>
      BY <1>8 DEF CreateCheck, At, db, publisher, history
    <2> HIDE DEF bad
    <2> QED
      BY <1>a, <1>7, <2>1, <2>2
  <1>9. ASSUME NEW c \in Cancellers, NEW r \in Reservations, NEW user \in Users,
               CancelCheck(c, r, user)
        PROVE  UNCHANGED Box!vars
    BY <1>a, <1>7, <1>9 DEF CancelCheck, Goes, At, db, publisher
  <1>10. ASSUME NEW e \in Calls, CommitFails(e) PROVE UNCHANGED Box!vars
    BY <1>a, <1>7, <1>10 DEF CommitFails, Goes, At, db, publisher, history
  <1>11. CASE Stopped \/ Start \/ Stop \/ BrokerGoesDown \/ BrokerComesBack
              \/ UNCHANGED vars
    BY <1>7, <1>11 DEF Stopped, Start, Stop, BrokerGoesDown, BrokerComesBack, vars,
                       db, calls, publisher, history
  <1> QED
    BY <1>2, <1>3, <1>4, <1>5, <1>6, <1>8, <1>9, <1>10, <1>11 DEF Next, Handle, Work

(***************************************************************************)
(* The service implements Outbox: a row and its event change together, and *)
(* every event is sent once, or given up, whatever crashes in between.     *)
(***************************************************************************)
THEOREM Refinement == Spec => ImplementsOutbox
  <1>1. Init => Box!Init
    <2> SUFFICES ASSUME Init PROVE Box!Init
      OBVIOUS
    <2>1. \A e \in Calls : callAt[e] = "idle" /\ sent = {} /\ lost = {}
      BY DEF Init
    <2>2. \A e \in Calls : Places(e) = {}
      BY <2>1, InitInv DEF ServiceInv, Unplaced
    <2>3. \A e \in Calls : EventOf(e) = "none"
      BY <2>1, <2>2 DEF EventOf
    <2> QED
      BY <2>3 DEF Box!Init, Init, eventBar, Calls
  <1> QED
    BY <1>1, BoxStep, Invariant, PTL DEF Spec, ImplementsOutbox, Box!Spec

(***************************************************************************)
(* A reservation of the service is stored once and cancelled once, though  *)
(* two overlapping cancellations of it may both be answered and told.      *)
(***************************************************************************)
THEOREM OneLife == Spec => ImplementsReservationLife
  <1>1. Init => Life!Init
    BY DEF Init, Life!Init
  <1>2. ServiceInv /\ [Next]_vars => [Life!Next]_row
    <2> SUFFICES ASSUME ServiceInv, Next, row' # row PROVE Life!Next
      BY DEF vars, db
    <2>1. ASSUME NEW r \in Reservations, CreateCommit(r) PROVE Life!Next
      <3>1. row[r] = "none"
        BY <2>1 DEF CreateCommit, ServiceInv, Unplaced, EventsMatchRows, At, Calls
      <3>2. Life!Store(r)
        BY <2>1, <3>1 DEF CreateCommit, Life!Store
      <3> QED
        BY <3>2 DEF Life!Next
    <2>2. ASSUME NEW c \in Cancellers, CancelCommit(c) PROVE Life!Next
      <3>1. PICK r \in Reservations : r = target[c] /\ row[r] # "none"
        BY <2>2 DEF CancelCommit, ServiceInv, CheckedStored
      <3>2. row[r] = "active" /\ row' = [row EXCEPT ![r] = "cancelled"]
        BY <2>2, <3>1 DEF CancelCommit, ServiceInv, TypeOK
      <3>3. Life!End(r, "cancelled")
        BY <3>2 DEF Life!End
      <3> QED
        BY <3>3 DEF Life!Next
    <2> QED
      BY <2>1, <2>2
         DEF Next, CreateCheck, CancelCheck, Handle, Publish, CommitFails, Work,
             WorkerGets, WorkerSends, Stopped, Start, Stop, BrokerGoesDown,
             BrokerComesBack, Crash, db
  <1> QED
    BY <1>1, <1>2, Invariant, PTL DEF Spec, ImplementsReservationLife, Life!Spec

=============================================================================
