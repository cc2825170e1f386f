-------------------------- MODULE FaasEventsProofs --------------------------
(***************************************************************************)
(* Proofs about the change stream, the announcements it leads to, and the  *)
(* evidence, for any users, reservations, batches, uploads and failures.   *)
(***************************************************************************)
EXTENDS FaasEvents, SequenceTheorems, TLAPS

(* What happened to a row and what the row is. *)
RowsAgree ==
  \A r \in Reservations :
    /\ status[r] = "none" => changes[r] = <<>> /\ evidence[r] = NoKey
    /\ \A i \in DOMAIN changes[r] :
         /\ changes[r][i] \in {"cancelled", "expired"} => status[r] = changes[r][i]
         /\ changes[r][i] = "evidence_uploaded" => evidence[r] # NoKey
         /\ \A j \in DOMAIN changes[r] : changes[r][i] = changes[r][j] => i = j

(* An event of the bucket is of a file put with a link of the owner's, and *)
(* a handler past its lookup works on a stored row.                        *)
UploadsAgree ==
  /\ \A r \in indexed : status[r] # "none"
  /\ \A link \in signed : link[1] = Owner[link[2].reservation]
  /\ \A key \in Key :
       /\ upload[key] # "none" => key.local \/ <<Owner[key.reservation], key>> \in signed
       /\ upload[key] = "found" => status[key.reservation] # "none"

Announces(u, i, r, type) ==
  /\ stream[u][i].reservation = r
  /\ resolveEventType(stream[u][i]) = type

(* A record is of the user whose shard it is in, and announces a change.   *)
RecordsAgree ==
  \A u \in Users : \A i \in DOMAIN stream[u] :
    LET r == stream[u][i].reservation
        type == resolveEventType(stream[u][i])
    IN /\ Owner[r] = u /\ ~isLocalStage
       /\ type = "none" \/ \E p \in DOMAIN changes[r] : changes[r][p] = type

(* The records of a reservation are in the order of its changes. *)
RecordsInOrder ==
  \A u \in Users : \A i, j \in DOMAIN stream[u] : \A r \in Reservations :
    \A p, q \in DOMAIN changes[r] :
      /\ i < j
      /\ Announces(u, i, r, changes[r][p]) /\ Announces(u, j, r, changes[r][q])
      => p < q

BatchesAgree ==
  \A u \in Users : /\ batch[u] <= Len(stream[u])
                   /\ batch[u] > 0 => next[u] <= batch[u] + 1

(* Where the handler of a shard will read first. *)
Ahead(u) == IF batch[u] = 0 THEN 1 ELSE next[u]

(* A change that is not announced yet is ahead of the handler. *)
RestIsAhead ==
  ~isLocalStage =>
    \A r \in Reservations : \A p \in DOMAIN changes[r] :
      p > Len(announced[r]) =>
        \E i \in DOMAIN stream[Owner[r]] :
           i >= Ahead(Owner[r]) /\ Announces(Owner[r], i, r, changes[r][p])

(* AnnouncedAsItHappened, index by index. *)
AnnouncedInOrder ==
  \A r \in Reservations :
    /\ Len(announced[r]) <= Len(changes[r])
    /\ \A i \in 1..Len(announced[r]) : announced[r][i] = changes[r][i]

(* The inductive invariant. *)
EventsInv ==
  /\ TypeOK
  /\ RowsAgree /\ UploadsAgree /\ EvidenceIsOwn
  /\ RecordsAgree /\ RecordsInOrder /\ BatchesAgree /\ RestIsAhead
  /\ AnnouncedInOrder

LEMMA InOrderIsPrefix ==
  ASSUME TypeOK, AnnouncedInOrder PROVE AnnouncedAsItHappened
  <1> SUFFICES ASSUME NEW r \in Reservations PROVE IsPrefix(announced[r], changes[r])
    BY DEF AnnouncedAsItHappened
  <1>1. PICK s \in Seq(Types), t \in Seq(Types) : s = announced[r] /\ t = changes[r]
    BY DEF TypeOK
  <1>2. Len(s) <= Len(t) /\ \A i \in 1..Len(s) : s[i] = t[i]
    BY <1>1 DEF AnnouncedInOrder
  <1>3. SubSeq(s, 1, Len(s)) = SubSeq(t, 1, Len(s))
    BY <1>2
  <1> QED
    BY <1>1, <1>2, <1>3 DEF IsPrefix

LEMMA InitInv == Init => EventsInv
  <1> SUFFICES ASSUME Init PROVE EventsInv
    OBVIOUS
  <1>1. TypeOK
    <2>1. queue \cup logged = {} /\ signed = {} /\ recorded = {}
      BY DEF Init
    <2>2. /\ BatchSize \in Nat \ {0} /\ MaxRetries \in Nat
          /\ MaxUploads \in Nat /\ MaxFailures \in Nat
      BY EventsAssumption
    <2> QED
      BY <2>1, <2>2 DEF Init, TypeOK
  <1>2. RowsAgree /\ UploadsAgree /\ EvidenceIsOwn
    BY DEF Init, RowsAgree, UploadsAgree, EvidenceIsOwn
  <1>3. RecordsAgree /\ RecordsInOrder /\ BatchesAgree /\ RestIsAhead /\ AnnouncedInOrder
    BY EventsAssumption
       DEF Init, RecordsAgree, RecordsInOrder, BatchesAgree, RestIsAhead, AnnouncedInOrder
  <1> QED
    BY <1>1, <1>2, <1>3 DEF EventsInv

(* The records, their batches and what is announced of them. *)
ShardsInv == RecordsAgree /\ RecordsInOrder /\ BatchesAgree /\ RestIsAhead /\ AnnouncedInOrder

(***************************************************************************)
(* A write whose record announces the change it is keeps the stream in     *)
(* order, if that change did not happen before.                            *)
(***************************************************************************)
LEMMA RowChanges ==
  ASSUME TypeOK, ShardsInv, NEW r \in Reservations, NEW image \in Image,
         NEW type \in Types \cup {"none"},
         Streams(r, image),
         resolveEventType([reservation |-> r, old |-> ImageOf(r), new |-> image]) = type,
         \A i \in DOMAIN changes[r] : changes[r][i] # type,
         changes' = IF type = "none" THEN changes
                    ELSE [changes EXCEPT ![r] = Append(@, type)],
         UNCHANGED <<isLocalStage, batch, next, announced>>
  PROVE  /\ stream' \in [Users -> Seq(ChangeRecord)]
         /\ changes' \in [Reservations -> Seq(Types)]
         /\ ShardsInv'
  <1> USE DEF ShardsInv
  <1>1. PICK record \in ChangeRecord :
           /\ record = [reservation |-> r, old |-> ImageOf(r), new |-> image]
           /\ record.reservation = r /\ resolveEventType(record) = type
    <2>1. ImageOf(r) \in Image
      BY DEF TypeOK, ImageOf, Image
    <2> QED
      BY <2>1 DEF ChangeRecord
  <1>2. PICK u \in Users : u = Owner[r]
    BY EventsAssumption
  <1>3. changes' \in [Reservations -> Seq(Types)]
    BY DEF TypeOK
  <1>4. /\ \A s \in Reservations \ {r} : changes'[s] = changes[s]
        /\ DOMAIN changes[r] \subseteq DOMAIN changes'[r]
        /\ \A i \in DOMAIN changes[r] : changes'[r][i] = changes[r][i]
        /\ Len(changes[r]) <= Len(changes'[r])
    BY DEF TypeOK
  <1>5. /\ type = "none" => changes'[r] = changes[r]
        /\ type # "none" => /\ DOMAIN changes'[r] = DOMAIN changes[r] \cup {Len(changes[r]) + 1}
                            /\ changes'[r][Len(changes[r]) + 1] = type
    BY DEF TypeOK
  <1>6. AnnouncedInOrder'
    <2> SUFFICES ASSUME NEW s \in Reservations
                 PROVE  /\ Len(announced[s]) <= Len(changes'[s])
                        /\ \A i \in 1..Len(announced[s]) : announced[s][i] = changes'[s][i]
      BY DEF AnnouncedInOrder
    <2>1. /\ Len(announced[s]) <= Len(changes[s])
          /\ \A i \in 1..Len(announced[s]) : announced[s][i] = changes[s][i]
      BY DEF AnnouncedInOrder
    <2>2. announced[s] \in Seq(Types) /\ changes[s] \in Seq(Types) /\ changes'[s] \in Seq(Types)
      BY <1>3 DEF TypeOK
    <2> QED
      BY <1>4, <2>1, <2>2
  <1>7. CASE isLocalStage
    <2>1. /\ stream' = stream
          /\ \A w \in Users : stream[w] \in Seq(ChangeRecord) /\ DOMAIN stream[w] = {}
      BY <1>7 DEF Streams, RecordsAgree, TypeOK
    <2> QED
      BY <1>3, <1>6, <1>7, <2>1
         DEF RecordsAgree, RecordsInOrder, BatchesAgree, RestIsAhead, TypeOK
  <1>8. CASE ~isLocalStage
    <2>1. /\ stream' = [stream EXCEPT ![u] = Append(@, record)]
          /\ \A w \in Users :
               stream[w] \in Seq(ChangeRecord)
      BY <1>1, <1>2, <1>8 DEF Streams, TypeOK
    <2> DEFINE n == Len(stream[u]) + 1
    <2>2. /\ stream' \in [Users -> Seq(ChangeRecord)]
          /\ \A w \in Users \ {u} : stream'[w] = stream[w]
          /\ DOMAIN stream'[u] = DOMAIN stream[u] \cup {n}
          /\ stream'[u][n] = record /\ Len(stream'[u]) = n
          /\ \A i \in DOMAIN stream[u] : stream'[u][i] = stream[u][i] /\ i < n
          /\ n \in Nat \ {0} /\ Len(stream[u]) \in Nat /\ n = Len(stream[u]) + 1
      <3>1. PICK shard \in Seq(ChangeRecord) :
               shard = stream[u]
        BY <1>2, <2>1
      <3>2. stream'[u] = Append(shard, record) /\ \A w \in Users \ {u} : stream'[w] = stream[w]
        BY <1>2, <2>1, <3>1 DEF TypeOK
      <3>3. stream' \in [Users -> Seq(ChangeRecord)]
        <4>1. Append(shard, record) \in Seq(ChangeRecord)
          BY <1>1, <3>1
        <4> QED
          BY <1>2, <2>1, <3>1, <4>1 DEF TypeOK
      <3>4. /\ DOMAIN stream'[u] = DOMAIN shard \cup {n}
            /\ stream'[u][n] = record /\ Len(stream'[u]) = n
            /\ \A i \in DOMAIN shard : stream'[u][i] = shard[i] /\ i < n
            /\ Len(shard) \in Nat
        BY <1>1, <3>1, <3>2
      <3>5. \A i \in DOMAIN stream[u] : stream'[u][i] = stream[u][i] /\ i < n
        BY <3>1, <3>4
      <3>6. DOMAIN stream'[u] = DOMAIN stream[u] \cup {n}
        BY <3>1, <3>4
      <3>7. Len(stream[u]) \in Nat /\ n = Len(stream[u]) + 1 /\ n \in Nat \ {0}
        BY <3>1, <3>4
      <3> QED
        BY <3>2, <3>3, <3>4, <3>5, <3>6, <3>7
    <2>3. BatchesAgree'
      <3> SUFFICES ASSUME NEW w \in Users
                   PROVE  batch[w] <= Len(stream'[w]) /\ (batch[w] > 0 => next[w] <= batch[w] + 1)
        BY DEF BatchesAgree
      <3>1. CASE w = u
        <4>1. batch[u] \in Nat /\ batch[u] <= Len(stream[u])
          BY EventsAssumption DEF BatchesAgree, TypeOK
        <4> QED
          BY <2>2, <3>1, <4>1 DEF BatchesAgree
      <3>2. CASE w # u
        BY <2>2, <3>2 DEF BatchesAgree
      <3> QED
        BY <3>1, <3>2
    <2> HIDE DEF n
    <2>4. RecordsAgree'
      <3> SUFFICES ASSUME NEW w \in Users, NEW i \in DOMAIN stream'[w],
                          NEW e, e = stream'[w][i]
                   PROVE  /\ Owner[e.reservation] = w
                          /\ \/ resolveEventType(e) = "none"
                             \/ \E p \in DOMAIN changes'[e.reservation] :
                                   changes'[e.reservation][p] = resolveEventType(e)
        BY <1>8 DEF RecordsAgree
      <3>1. CASE w = u /\ i = n
        <4>1. e = record /\ e.reservation = r /\ resolveEventType(e) = type
          BY <1>1, <2>2, <3>1
        <4>2. type # "none" => \E p \in DOMAIN changes'[r] : changes'[r][p] = type
          BY <1>5
        <4> QED
          BY <1>2, <3>1, <4>1, <4>2
      <3>2. CASE ~(w = u /\ i = n)
        <4>1. i \in DOMAIN stream[w] /\ e = stream[w][i]
          BY <2>2, <3>2
        <4> QED
          BY <1>4, <4>1 DEF RecordsAgree
      <3> QED
        BY <3>1, <3>2
    <2>5. RecordsInOrder'
      <3> SUFFICES ASSUME NEW w \in Users,
                          NEW i \in DOMAIN stream'[w], NEW j \in DOMAIN stream'[w],
                          NEW s \in Reservations,
                          NEW p \in DOMAIN changes'[s], NEW q \in DOMAIN changes'[s],
                          i < j,
                          Announces(w, i, s, changes[s][p])', Announces(w, j, s, changes[s][q])'
                   PROVE  p < q
        BY DEF RecordsInOrder
      <3> DEFINE c == Len(changes[r]) + 1
      <3>1. /\ stream'[w][i].reservation = s /\ stream'[w][j].reservation = s
            /\ resolveEventType(stream'[w][i]) = changes'[s][p]
            /\ resolveEventType(stream'[w][j]) = changes'[s][q]
        BY DEF Announces
      <3>2. i \in DOMAIN stream[w] /\ stream'[w][i] = stream[w][i]
        <4>1. CASE w # u
          BY <2>2, <4>1
        <4>2. CASE w = u
          <5>1. j <= n /\ i # n
            BY <2>2, <4>2
          <5> QED
            BY <2>2, <4>2, <5>1
        <4> QED
          BY <4>1, <4>2
      <3>3. changes'[s][p] # "none" /\ changes'[s][q] # "none"
        <4>1. PICK seq \in Seq(Types) : seq = changes'[s]
          BY <1>3
        <4>2. seq[p] \in Types /\ seq[q] \in Types
          BY <4>1
        <4> QED
          BY <4>1, <4>2 DEF Types
      <3>4. PICK k \in DOMAIN changes[s] : changes[s][k] = changes'[s][p]
        BY <3>1, <3>2, <3>3 DEF RecordsAgree
      <3>5. p \in DOMAIN changes[s] /\ changes'[s][p] = changes[s][p]
        BY <1>4, <1>5, <3>4
      <3>6. CASE w = u /\ j = n
        <4>1. s = r /\ type = changes'[s][q] /\ type # "none"
          BY <1>1, <2>2, <3>1, <3>3, <3>6
        <4>2. q = c
          BY <1>4, <1>5, <4>1
        <4> QED
          BY <3>5, <4>1, <4>2 DEF TypeOK
      <3>7. CASE ~(w = u /\ j = n)
        <4>1. j \in DOMAIN stream[w] /\ stream'[w][j] = stream[w][j]
          BY <2>2, <3>7
        <4>2. PICK l \in DOMAIN changes[s] : changes[s][l] = changes'[s][q]
          BY <3>1, <3>3, <4>1 DEF RecordsAgree
        <4>3. q \in DOMAIN changes[s] /\ changes'[s][q] = changes[s][q]
          BY <1>4, <1>5, <4>2
        <4> QED
          BY <3>1, <3>2, <3>5, <4>1, <4>3 DEF RecordsInOrder, Announces
      <3> QED
        BY <3>6, <3>7
    <2>6. RestIsAhead'
      <3> SUFFICES ASSUME NEW s \in Reservations, NEW p \in DOMAIN changes'[s],
                          p > Len(announced[s])
                   PROVE  \E i \in DOMAIN stream'[Owner[s]] :
                             i >= Ahead(Owner[s]) /\ Announces(Owner[s], i, s, changes[s][p])'
        BY DEF RestIsAhead, Ahead
      <3> DEFINE c == Len(changes[r]) + 1
      <3>1. PICK w \in Users : w = Owner[s]
        BY EventsAssumption
      <3>2. CASE s = r /\ p = c /\ type # "none"
        <4>1. n >= Ahead(u)
          <5>1. next[u] \in Int /\ batch[u] \in Nat
            BY EventsAssumption DEF TypeOK
          <5>2. batch[u] <= Len(stream[u]) /\ (batch[u] > 0 => next[u] <= batch[u] + 1)
            BY DEF BatchesAgree
          <5> QED
            BY <2>2, <5>1, <5>2 DEF Ahead
        <4>2. resolveEventType(stream'[u][n]) = changes'[s][p] /\ stream'[u][n].reservation = s
          BY <1>1, <1>5, <2>2, <3>2
        <4> QED
          BY <1>2, <2>2, <3>2, <4>1, <4>2 DEF Announces
      <3>3. CASE ~(s = r /\ p = c /\ type # "none")
        <4>1. p \in DOMAIN changes[s] /\ changes'[s][p] = changes[s][p]
          BY <1>4, <1>5, <3>3
        <4>2. PICK i \in DOMAIN stream[w] :
                 i >= Ahead(w) /\ Announces(w, i, s, changes[s][p])
          BY <1>8, <3>1, <4>1 DEF RestIsAhead
        <4>3. i \in DOMAIN stream'[w] /\ stream'[w][i] = stream[w][i]
          BY <2>2
        <4> QED
          BY <3>1, <4>1, <4>2, <4>3 DEF Announces
      <3> QED
        BY <3>2, <3>3
    <2> QED
      BY <1>3, <1>6, <2>2, <2>3, <2>4, <2>5, <2>6
  <1> QED
    BY <1>7, <1>8

(* The three writes of a status. *)
LEMMA SetStatusKeeps ==
  ASSUME EventsInv, NEW r \in Reservations, NEW old, NEW new, NEW type,
         SetStatus(r, old, new, type),
         \/ old = "none" /\ new = "active" /\ type = "created"
         \/ old = "active" /\ new = "cancelled" /\ type = "cancelled"
         \/ old = "active" /\ new = "expired" /\ type = "expired"
  PROVE  EventsInv'
  <1> USE DEF EventsInv
  <1>1. PICK image \in Image : image = [ImageOf(r) EXCEPT !.status = new]
    <2>1. ImageOf(r) \in Image
      BY DEF TypeOK, ImageOf, Image
    <2> QED
      BY <2>1 DEF Image
  <1>2. /\ ImageOf(r).status = old /\ image.status = new
        /\ image.evidenceStatus = ImageOf(r).evidenceStatus
    BY <1>1 DEF ImageOf, SetStatus
  <1>3. resolveEventType([reservation |-> r, old |-> ImageOf(r), new |-> image]) = type
    BY <1>2 DEF resolveEventType
  <1>4. /\ status' = [status EXCEPT ![r] = new] /\ status[r] = old
        /\ changes' = [changes EXCEPT ![r] = Append(@, type)]
        /\ Streams(r, image)
        /\ UNCHANGED <<isLocalStage, evidence, recorded, indexed, batch, next, announced, queue,
                       logged, signed, upload, retries, uploads, failures>>
    BY <1>1 DEF SetStatus, streamVars, queueVars, uploadVars
  <1>5. type \in Types /\ \A i \in DOMAIN changes[r] : changes[r][i] # type
    BY <1>4 DEF RowsAgree, Types
  <1>6. stream' \in [Users -> Seq(ChangeRecord)] /\ changes' \in [Reservations -> Seq(Types)]
        /\ ShardsInv'
    <2>1. ShardsInv /\ type # "none"
      BY DEF ShardsInv
    <2> QED
      BY <1>3, <1>4, <1>5, <2>1, RowChanges
  <1>7. RowsAgree'
    <2>1. ASSUME NEW s \in Reservations \ {r}
          PROVE  status'[s] = status[s] /\ changes'[s] = changes[s]
      BY <1>4 DEF TypeOK
    <2>2. PICK seq \in Seq(Types) : seq = changes[r]
      BY DEF TypeOK
    <2>3. /\ DOMAIN changes'[r] = DOMAIN seq \cup {Len(seq) + 1}
          /\ changes'[r][Len(seq) + 1] = type /\ status'[r] = new
          /\ \A i \in DOMAIN seq : changes'[r][i] = seq[i] /\ i # Len(seq) + 1
      BY <1>4, <1>5, <2>2 DEF TypeOK
    <2>4. /\ old = "none" => seq = <<>> /\ evidence[r] = NoKey
          /\ \A i \in DOMAIN seq :
               /\ seq[i] \notin {"cancelled", "expired"} /\ seq[i] # type
               /\ seq[i] = "evidence_uploaded" => evidence[r] # NoKey
               /\ \A j \in DOMAIN seq : seq[i] = seq[j] => i = j
      BY <1>4, <1>5, <2>2 DEF RowsAgree
    <2>5. ASSUME NEW i \in DOMAIN changes'[r]
          PROVE  /\ changes'[r][i] \in {"cancelled", "expired"} => status'[r] = changes'[r][i]
                 /\ changes'[r][i] = "evidence_uploaded" => evidence[r] # NoKey
                 /\ \A j \in DOMAIN changes'[r] : changes'[r][i] = changes'[r][j] => i = j
      BY <2>3, <2>4
    <2> QED
      BY <1>4, <2>1, <2>3, <2>5 DEF RowsAgree
  <1>8. TypeOK'
    BY <1>4, <1>6 DEF TypeOK
  <1>9. UploadsAgree' /\ EvidenceIsOwn'
    BY <1>4 DEF UploadsAgree, EvidenceIsOwn, TypeOK
  <1> QED
    BY <1>6, <1>7, <1>8, <1>9 DEF ShardsInv

(* The handler of an upload writes the evidence of a row that is stored. *)
LEMMA RecordKeeps ==
  ASSUME EventsInv, NEW key \in Key, Record(key)
  PROVE  EventsInv'
  <1> USE DEF EventsInv
  <1>1. PICK r \in Reservations : r = key.reservation
    BY DEF Key
  <1>2. /\ upload[key] = "found" /\ status[r] # "none"
        /\ key.local \/ <<Owner[r], key>> \in signed
    BY <1>1 DEF Record, UploadsAgree
  <1>3. key # NoKey
    BY EventsAssumption DEF Key
  <1>4. PICK image \in Image : image = [ImageOf(r) EXCEPT !.evidenceStatus = "uploaded"]
    <2>1. ImageOf(r) \in Image
      BY DEF TypeOK, ImageOf, Image
    <2> QED
      BY <2>1 DEF Image
  <1>5. PICK type \in {"none", "evidence_uploaded"} :
           type = IF evidence[r] = NoKey THEN "evidence_uploaded" ELSE "none"
    OBVIOUS
  <1>6. /\ ImageOf(r).status = status[r] /\ image.status = status[r]
        /\ image.evidenceStatus = "uploaded"
        /\ ImageOf(r).evidenceStatus = IF evidence[r] = NoKey THEN "pending" ELSE "uploaded"
    BY <1>4 DEF ImageOf
  <1>7. resolveEventType([reservation |-> r, old |-> ImageOf(r), new |-> image]) = type
    BY <1>2, <1>5, <1>6 DEF resolveEventType
  <1>8. /\ evidence' = [evidence EXCEPT ![r] = key]
        /\ upload' = [upload EXCEPT ![key] = "done"] /\ retries' = [retries EXCEPT ![key] = 0]
        /\ recorded' = recorded \cup {key}
        /\ changes' = IF type = "none" THEN changes
                      ELSE [changes EXCEPT ![r] = Append(@, type)]
        /\ Streams(r, image)
        /\ UNCHANGED <<isLocalStage, status, indexed, batch, next, announced, queue, logged,
                       signed, uploads, failures>>
    BY <1>1, <1>4, <1>5 DEF Record, WriteEvidence, Resets, streamVars, queueVars
  <1>9. type \in Types \cup {"none"} /\ \A i \in DOMAIN changes[r] : changes[r][i] # type
    <2>1. PICK seq \in Seq(Types) : seq = changes[r]
      BY DEF TypeOK
    <2>2. \A i \in DOMAIN seq : seq[i] \in Types
      BY <2>1
    <2> QED
      BY <1>5, <2>1, <2>2 DEF RowsAgree, Types
  <1>10. stream' \in [Users -> Seq(ChangeRecord)] /\ changes' \in [Reservations -> Seq(Types)]
         /\ ShardsInv'
    <2>1. ShardsInv
      BY DEF ShardsInv
    <2> QED
      BY <1>7, <1>8, <1>9, <2>1, RowChanges
  <1>11. RowsAgree'
    <2>1. ASSUME NEW s \in Reservations \ {r}
          PROVE  evidence'[s] = evidence[s] /\ changes'[s] = changes[s]
      BY <1>8 DEF TypeOK
    <2>2. PICK seq \in Seq(Types) : seq = changes[r]
      BY DEF TypeOK
    <2>3. evidence'[r] = key
      BY <1>8 DEF TypeOK
    <2>4. CASE type = "none"
      BY <1>2, <1>3, <1>8, <2>1, <2>3, <2>4 DEF RowsAgree
    <2>5. CASE type # "none"
      <3>1. /\ DOMAIN changes'[r] = DOMAIN seq \cup {Len(seq) + 1}
            /\ changes'[r][Len(seq) + 1] = "evidence_uploaded"
            /\ \A i \in DOMAIN seq : changes'[r][i] = seq[i] /\ i # Len(seq) + 1
        BY <1>5, <1>8, <1>9, <2>2, <2>5 DEF TypeOK
      <3>2. \A i \in DOMAIN seq :
              /\ seq[i] \in {"cancelled", "expired"} => status[r] = seq[i]
              /\ seq[i] # "evidence_uploaded"
              /\ \A j \in DOMAIN seq : seq[i] = seq[j] => i = j
        BY <1>5, <1>9, <2>2, <2>5 DEF RowsAgree
      <3>3. ASSUME NEW i \in DOMAIN changes'[r]
            PROVE  /\ changes'[r][i] \in {"cancelled", "expired"} => status[r] = changes'[r][i]
                   /\ \A j \in DOMAIN changes'[r] : changes'[r][i] = changes'[r][j] => i = j
        BY <3>1, <3>2
      <3> QED
        BY <1>2, <1>3, <1>8, <2>1, <2>3, <3>3 DEF RowsAgree
    <2> QED
      BY <2>4, <2>5
  <1>12. TypeOK'
    <2>1. 0 \in 0..MaxRetries
      BY EventsAssumption
    <2>2. retries' \in [Key -> 0..MaxRetries] /\ recorded' \subseteq Key
      BY <1>8, <2>1 DEF TypeOK
    <2> QED
      BY <1>8, <1>10, <2>2 DEF TypeOK
  <1>13. UploadsAgree' /\ EvidenceIsOwn'
    BY <1>1, <1>2, <1>8 DEF UploadsAgree, EvidenceIsOwn, TypeOK
  <1> QED
    BY <1>10, <1>11, <1>12, <1>13 DEF ShardsInv

(* The steps that leave the rows, their records and their batches alone. *)
Others ==
  UNCHANGED <<isLocalStage, status, evidence, stream, changes, batch, next, announced>>

LEMMA OthersKeep ==
  ASSUME EventsInv, Others, TypeOK', UploadsAgree', signed \subseteq signed'
  PROVE  EventsInv'
  <1> USE DEF EventsInv, Others
  <1>1. RowsAgree' /\ EvidenceIsOwn'
    BY DEF RowsAgree, EvidenceIsOwn
  <1>2. RecordsAgree' /\ RecordsInOrder'
    BY DEF RecordsAgree, RecordsInOrder, Announces
  <1>3. BatchesAgree' /\ RestIsAhead' /\ AnnouncedInOrder'
    BY DEF BatchesAgree, RestIsAhead, Ahead, Announces, AnnouncedInOrder
  <1> QED
    BY <1>1, <1>2, <1>3

(* An upload that goes on, fails, ends or is repeated, up to the write. *)
LEMMA UploadKeeps ==
  ASSUME EventsInv, NEW key \in Key,
         NEW to \in {"none", "queued", "found", "missed", "given_up"},
         NEW n \in 0..MaxRetries,
         upload' = [upload EXCEPT ![key] = to], retries' = [retries EXCEPT ![key] = n],
         Others,
         to = "found" => status[key.reservation] # "none",
         to # "none" => key.local \/ <<Owner[key.reservation], key>> \in signed,
         uploads' \in 0..MaxUploads, failures' \in 0..MaxFailures,
         recorded' \subseteq Key, UNCHANGED <<indexed, queue, logged, signed>>
  PROVE  EventsInv'
  <1> USE DEF EventsInv
  <1>1. TypeOK'
    BY DEF TypeOK, Others
  <1>2. UploadsAgree'
    BY DEF UploadsAgree, Others, TypeOK
  <1> QED
    BY <1>1, <1>2, OthersKeep

(* A file that is put with a link of the owner's, or a call of the local   *)
(* handler for a row that is stored.                                       *)
LEMMA StartsKeeps ==
  ASSUME EventsInv, NEW key \in Key, NEW at \in {"queued", "found"}, Starts(key, at),
         at = "found" => status[key.reservation] # "none",
         key.local \/ <<Owner[key.reservation], key>> \in signed
  PROVE  EventsInv'
  <1>1. /\ Others /\ UNCHANGED <<indexed, queue, logged, signed, failures>>
        /\ recorded' \subseteq Key
        /\ upload' = [upload EXCEPT ![key] = at] /\ retries' = [retries EXCEPT ![key] = 0]
    BY DEF Starts, Resets, Others, streamVars, queueVars, EventsInv, TypeOK
  <1>2. uploads' \in 0..MaxUploads /\ failures' \in 0..MaxFailures /\ 0 \in 0..MaxRetries
    BY <1>1, EventsAssumption DEF Starts, EventsInv, TypeOK
  <1> QED
    BY <1>1, <1>2, UploadKeeps

(* What a Query lists is stored. *)
LEMMA ListedStored ==
  ASSUME EventsInv, NEW r \in Reservations, Listed(r) PROVE status[r] # "none"
  BY DEF Listed, EventsInv, UploadsAgree

(* The stream gives the handler a batch, or gives it the same again. *)
LEMMA InvokeKeeps ==
  ASSUME EventsInv, NEW u \in Users, Invoke(u) \/ InvocationFails(u)
  PROVE  EventsInv'
  <1> USE DEF EventsInv
  <1>1. /\ UNCHANGED <<isLocalStage, status, evidence, stream, changes, recorded, indexed,
                       announced, queue, logged, signed, upload, retries, uploads>>
        /\ next' = [next EXCEPT ![u] = 1]
        /\ failures' \in 0..MaxFailures
    BY EventsAssumption
       DEF Invoke, InvocationFails, rowVars, queueVars, uploadVars, TypeOK
  <1>2. BatchSize \in Nat /\ 1 \in 1..BatchSize + 1
    BY EventsAssumption
  <1>3. PICK n \in 0..BatchSize :
           batch' = [batch EXCEPT ![u] = n] /\ n <= Len(stream[u])
    <2>1. CASE Invoke(u)
      <3>1. PICK n \in 1..BatchSize :
               n <= Len(stream[u]) /\ batch' = [batch EXCEPT ![u] = n]
        BY <2>1 DEF Invoke
      <3>2. n \in 0..BatchSize
        BY <1>2
      <3> QED
        BY <3>1, <3>2
    <2>2. CASE InvocationFails(u)
      <3>1. batch' = [batch EXCEPT ![u] = batch[u]] /\ batch[u] \in 0..BatchSize
        BY <2>2 DEF InvocationFails, TypeOK
      <3> QED
        BY <3>1 DEF BatchesAgree
    <2> QED
      BY <2>1, <2>2
  <1>4. /\ \A w \in Users \ {u} : batch'[w] = batch[w] /\ next'[w] = next[w]
        /\ batch'[u] = n /\ next'[u] = 1
        /\ batch' \in [Users -> 0..BatchSize] /\ next' \in [Users -> 1..BatchSize + 1]
    BY <1>1, <1>2, <1>3 DEF TypeOK
  <1>5. TypeOK' /\ BatchesAgree'
    <2>1. TypeOK'
      BY <1>1, <1>4 DEF TypeOK
    <2>2. BatchesAgree'
      BY <1>1, <1>2, <1>3, <1>4 DEF BatchesAgree
    <2> QED
      BY <2>1, <2>2
  <1>8. RestIsAhead'
    <2> SUFFICES ASSUME ~isLocalStage, NEW r \in Reservations, NEW p \in DOMAIN changes[r],
                        p > Len(announced[r])
                 PROVE  \E i \in DOMAIN stream[Owner[r]] :
                          /\ i >= IF batch'[Owner[r]] = 0 THEN 1 ELSE next'[Owner[r]]
                          /\ stream[Owner[r]][i].reservation = r
                          /\ resolveEventType(stream[Owner[r]][i]) = changes[r][p]
      BY <1>1 DEF RestIsAhead, Ahead, Announces
    <2>1. PICK w \in Users : w = Owner[r]
      BY EventsAssumption
    <2>2. PICK i \in DOMAIN stream[w] :
             /\ i >= IF batch[w] = 0 THEN 1 ELSE next[w]
             /\ stream[w][i].reservation = r
             /\ resolveEventType(stream[w][i]) = changes[r][p]
      BY <2>1 DEF RestIsAhead, Ahead, Announces
    <2>3. i >= 1
      <3>1. stream[w] \in Seq(ChangeRecord)
        BY DEF TypeOK
      <3> QED
        BY <3>1
    <2>4. i >= IF batch'[w] = 0 THEN 1 ELSE next'[w]
      BY <1>4, <2>2, <2>3
    <2> QED
      BY <2>1, <2>2, <2>4
  <1>6. RowsAgree' /\ UploadsAgree' /\ EvidenceIsOwn' /\ AnnouncedInOrder'
    BY <1>1 DEF RowsAgree, UploadsAgree, EvidenceIsOwn, AnnouncedInOrder
  <1>7. RecordsAgree' /\ RecordsInOrder'
    BY <1>1 DEF RecordsAgree, RecordsInOrder, Announces
  <1> QED
    BY <1>5, <1>6, <1>7, <1>8

(* The handler looks at a record: it sends what the record announces.      *)
LEMMA PublishKeeps ==
  ASSUME EventsInv, NEW u \in Users, Publish(u)
  PROVE  EventsInv'
  <1> USE DEF EventsInv
  <1>1. /\ UNCHANGED <<isLocalStage, status, evidence, stream, changes, recorded, indexed, batch,
                       logged, signed, upload, retries, uploads, failures>>
        /\ next[u] <= batch[u] /\ next' = [next EXCEPT ![u] = next[u] + 1]
    BY DEF Publish, rowVars, uploadVars
  <1>2. BatchSize \in Nat /\ batch[u] \in 0..BatchSize /\ next[u] \in 1..BatchSize + 1
    BY EventsAssumption DEF TypeOK
  <1>3. PICK i \in Nat \ {0} : i = next[u] /\ i <= batch[u] /\ batch[u] > 0
    BY <1>1, <1>2
  <1>4. stream[u] \in Seq(ChangeRecord) /\ i \in DOMAIN stream[u]
    BY <1>2, <1>3 DEF BatchesAgree, TypeOK
  <1>5. PICK record \in ChangeRecord : record = stream[u][i]
    BY <1>4
  <1>6. PICK r \in Reservations : r = record.reservation
    BY DEF ChangeRecord
  <1>7. PICK type : type = resolveEventType(record)
    OBVIOUS
  <1>8. /\ ~isLocalStage /\ Owner[r] = u
        /\ type = "none" \/ \E p \in DOMAIN changes[r] : changes[r][p] = type
    BY <1>4, <1>5, <1>6, <1>7 DEF RecordsAgree
  <1>9. PICK c \in Seq(Types), a \in Seq(Types) : c = changes[r] /\ a = announced[r]
    BY DEF TypeOK
  <1>10. /\ Len(a) <= Len(c) /\ \A k \in 1..Len(a) : a[k] = c[k]
         /\ \A k, l \in DOMAIN c : c[k] = c[l] => k = l
    BY <1>9 DEF AnnouncedInOrder, RowsAgree
  <1>11. next' \in [Users -> 1..BatchSize + 1] /\ next'[u] = i + 1
         /\ \A w \in Users \ {u} : next'[w] = next[w]
    BY <1>1, <1>2, <1>3 DEF TypeOK
  <1>12. BatchesAgree'
    BY <1>1, <1>2, <1>3, <1>11 DEF BatchesAgree
  <1>13. RowsAgree' /\ UploadsAgree' /\ EvidenceIsOwn' /\ RecordsAgree' /\ RecordsInOrder'
    BY <1>1 DEF RowsAgree, UploadsAgree, EvidenceIsOwn, RecordsAgree, RecordsInOrder, Announces
  <1>14. ASSUME NEW s \in Reservations, NEW p \in DOMAIN changes[s], p > Len(announced[s]),
                s = r => changes[s][p] # type
         PROVE  \E j \in DOMAIN stream[Owner[s]] :
                  /\ j >= IF batch[Owner[s]] = 0 THEN 1 ELSE next'[Owner[s]]
                  /\ stream[Owner[s]][j].reservation = s
                  /\ resolveEventType(stream[Owner[s]][j]) = changes[s][p]
    <2>1. PICK w \in Users : w = Owner[s]
      BY EventsAssumption
    <2>2. PICK j \in DOMAIN stream[w] :
             /\ j >= IF batch[w] = 0 THEN 1 ELSE next[w]
             /\ stream[w][j].reservation = s
             /\ resolveEventType(stream[w][j]) = changes[s][p]
      BY <1>8, <1>14, <2>1 DEF RestIsAhead, Ahead, Announces
    <2>3. j \in Nat
      <3>1. stream[w] \in Seq(ChangeRecord)
        BY DEF TypeOK
      <3> QED
        BY <3>1
    <2>4. ~(w = u /\ j = i)
      BY <1>5, <1>6, <1>7, <1>14, <2>2
    <2>5. j >= IF batch[w] = 0 THEN 1 ELSE next'[w]
      BY <1>3, <1>11, <2>2, <2>3, <2>4
    <2> QED
      BY <2>1, <2>2, <2>5
  <1>15. type # "none" => type \in Types
    <2>1. \A k \in DOMAIN c : c[k] \in Types
      BY <1>9
    <2> QED
      BY <1>8, <1>9, <2>1
  <1>16. /\ queue' \cup logged \subseteq
              [reservation : Reservations, type : Types] \cup [type : {"daily_reservations"}]
         /\ announced' = IF type = "none" \/ Contains(a, type) THEN announced
                         ELSE [announced EXCEPT ![r] = Append(a, type)]
    <2>1. CASE type = "none"
      BY <1>3, <1>5, <1>7, <2>1 DEF Publish, TypeOK
    <2>2. CASE type # "none"
      <3>1. Announce([reservation |-> r, type |-> type])
        BY <1>3, <1>5, <1>6, <1>7, <2>2 DEF Publish
      <3>2. [reservation |-> r, type |-> type] \in [reservation : Reservations, type : Types]
        BY <1>15, <2>2
      <3> QED
        BY <1>9, <2>2, <3>1, <3>2 DEF Announce, TypeOK
    <2> QED
      BY <2>1, <2>2
  <1>17. CASE type = "none" \/ Contains(a, type)
    <2>1. ASSUME NEW p \in DOMAIN c, p > Len(a) PROVE c[p] # type
      <3>1. CASE type = "none"
        BY <1>9, <3>1 DEF Types
      <3>2. CASE Contains(a, type)
        BY <1>9, <1>10, <2>1, <3>2 DEF Contains
      <3> QED
        BY <1>17, <3>1, <3>2
    <2>2. announced' = announced
      BY <1>16, <1>17
    <2>3. RestIsAhead'
      BY <1>1, <1>9, <1>14, <2>1, <2>2 DEF RestIsAhead, Ahead, Announces
    <2>4. TypeOK'
      BY <1>1, <1>11, <1>16, <2>2 DEF TypeOK
    <2>5. AnnouncedInOrder'
      BY <1>1, <2>2 DEF AnnouncedInOrder
    <2> QED
      BY <1>12, <1>13, <2>3, <2>4, <2>5
  <1>18. CASE ~(type = "none" \/ Contains(a, type))
    <2>1. PICK p \in DOMAIN c : c[p] = type
      BY <1>8, <1>9, <1>18
    <2> DEFINE q == Len(a) + 1
    <2>2. /\ p \in Nat /\ Len(a) \in Nat /\ Len(c) \in Nat /\ p <= Len(c)
          /\ p > Len(a)
      BY <1>9, <1>10, <1>18, <2>1 DEF Contains
    <2>3. p = q
      <3>1. SUFFICES ASSUME q < p PROVE FALSE
        BY <2>2
      <3>2. q \in DOMAIN c /\ c[q] # type
        BY <1>9, <1>10, <2>1, <2>2, <3>1
      <3>3. PICK j \in DOMAIN stream[u] :
               /\ j >= IF batch[u] = 0 THEN 1 ELSE next'[u]
               /\ stream[u][j].reservation = r
               /\ resolveEventType(stream[u][j]) = c[q]
        BY <1>8, <1>9, <1>14, <2>2, <3>2
      <3>4. j > i
        BY <1>3, <1>4, <1>11, <3>3
      <3>5. Announces(u, i, r, changes[r][p]) /\ Announces(u, j, r, changes[r][q])
        BY <1>5, <1>6, <1>7, <1>9, <2>1, <3>3 DEF Announces
      <3>6. p \in DOMAIN changes[r] /\ q \in DOMAIN changes[r] /\ j \in DOMAIN stream[u]
        BY <1>9, <2>1, <3>2, <3>3
      <3>7. p < q
        BY <1>4, <3>4, <3>5, <3>6 DEF RecordsInOrder
      <3> QED
        BY <2>2, <3>1, <3>7
    <2>4. /\ announced'[r] = Append(a, type)
          /\ \A s \in Reservations \ {r} : announced'[s] = announced[s]
          /\ announced' \in [Reservations -> Seq(Types)]
      <3>1. Append(a, type) \in Seq(Types)
        BY <1>9, <1>15, <1>18
      <3> QED
        BY <1>16, <1>18, <3>1 DEF TypeOK
    <2>5. /\ Len(announced'[r]) = q
          /\ \A k \in 1..q : announced'[r][k] = c[k]
      BY <1>9, <1>10, <1>15, <1>18, <2>1, <2>2, <2>3, <2>4
    <2>6. AnnouncedInOrder'
      <3> SUFFICES ASSUME NEW s \in Reservations
                   PROVE  /\ Len(announced'[s]) <= Len(changes[s])
                          /\ \A k \in 1..Len(announced'[s]) : announced'[s][k] = changes[s][k]
        BY <1>1 DEF AnnouncedInOrder
      <3>1. CASE s = r
        BY <1>9, <2>2, <2>3, <2>5, <3>1
      <3>2. CASE s # r
        BY <2>4, <3>2 DEF AnnouncedInOrder
      <3> QED
        BY <3>1, <3>2
    <2>7. RestIsAhead'
      <3> SUFFICES ASSUME NEW s \in Reservations, NEW k \in DOMAIN changes[s],
                          k > Len(announced'[s])
                   PROVE  \E j \in DOMAIN stream[Owner[s]] :
                            /\ j >= IF batch[Owner[s]] = 0 THEN 1 ELSE next'[Owner[s]]
                            /\ stream[Owner[s]][j].reservation = s
                            /\ resolveEventType(stream[Owner[s]][j]) = changes[s][k]
        BY <1>1 DEF RestIsAhead, Ahead, Announces
      <3>1. CASE s = r
        <4>1. k \in DOMAIN c /\ k > q
          BY <1>9, <2>5, <3>1
        <4>2. k > Len(a) /\ c[k] # type
          BY <1>9, <1>10, <2>1, <2>2, <2>3, <4>1
        <4> QED
          BY <1>9, <1>14, <3>1, <4>2
      <3>2. CASE s # r
        BY <1>14, <2>4, <3>2
      <3> QED
        BY <3>1, <3>2
    <2>8. TypeOK'
      BY <1>1, <1>11, <1>16, <2>4 DEF TypeOK
    <2> QED
      BY <1>12, <1>13, <2>6, <2>7, <2>8
  <1> QED
    BY <1>17, <1>18

(* A batch that ended leaves the shard: what is left was behind it.        *)
LEMMA EndBatchKeeps ==
  ASSUME EventsInv, NEW u \in Users, EndBatch(u)
  PROVE  EventsInv'
  <1> USE DEF EventsInv
  <1>1. /\ UNCHANGED <<isLocalStage, status, evidence, changes, recorded, indexed, next, announced,
                       queue, logged, signed, upload, retries, uploads, failures>>
        /\ batch' = [batch EXCEPT ![u] = 0]
        /\ stream' = [stream EXCEPT ![u] = SubSeq(@, batch[u] + 1, Len(@))]
        /\ next[u] > batch[u]
    BY DEF EndBatch, queueVars, uploadVars
  <1>2. PICK shard \in Seq(ChangeRecord), b \in Nat \ {0} :
           shard = stream[u] /\ b = batch[u] /\ b <= Len(shard)
    BY EventsAssumption DEF TypeOK, EndBatch, BatchesAgree
  <1> DEFINE tail == SubSeq(shard, b + 1, Len(shard))
  <1>a. /\ tail \in Seq(ChangeRecord)
        /\ Len(tail) = IF b + 1 <= Len(shard) THEN Len(shard) - (b + 1) + 1 ELSE 0
        /\ \A i \in 1..Len(shard) - (b + 1) + 1 : tail[i] = shard[b + 1 + i - 1]
    <2>1. b + 1 \in Int /\ Len(shard) \in Int /\ \A i \in b + 1..Len(shard) : shard[i] \in ChangeRecord
      BY <1>2
    <2> QED
      BY <2>1, SubSeqProperties
  <1> HIDE DEF tail
  <1>3. PICK rest \in Seq(ChangeRecord) : rest = tail
    BY <1>a
  <1>4. /\ Len(rest) = Len(shard) - b /\ Len(shard) \in Nat
        /\ \A i \in DOMAIN rest : i + b \in DOMAIN shard /\ rest[i] = shard[i + b] /\ i \in Nat
        /\ \A i \in DOMAIN shard : i > b => i - b \in DOMAIN rest /\ rest[i - b] = shard[i]
    <2>1. Len(shard) \in Nat /\ Len(rest) = Len(shard) - b
      <3>1. Len(shard) \in Nat /\ b \in Nat /\ b <= Len(shard)
        BY <1>2
      <3>2. Len(rest) = IF b + 1 <= Len(shard) THEN Len(shard) - (b + 1) + 1 ELSE 0
        BY <1>3, <1>a
      <3> QED
        BY <3>1, <3>2
    <2>2. \A i \in 1..Len(rest) : rest[i] = shard[i + b]
      BY <1>2, <1>3, <1>a, <2>1
    <2>3. DOMAIN rest = 1..Len(rest) /\ DOMAIN shard = 1..Len(shard)
      BY <1>2, <1>3
    <2>4. ASSUME NEW i \in DOMAIN rest
          PROVE  i + b \in DOMAIN shard /\ rest[i] = shard[i + b] /\ i \in Nat
      <3>1. i \in 1..Len(rest) /\ i + b \in 1..Len(shard)
        BY <2>1, <2>3
      <3> QED
        BY <2>2, <2>3, <3>1
    <2>5. ASSUME NEW i \in DOMAIN shard, i > b
          PROVE  i - b \in DOMAIN rest /\ rest[i - b] = shard[i]
      <3>1. i \in 1..Len(shard) /\ i - b \in 1..Len(rest) /\ (i - b) + b = i
        BY <2>1, <2>3, <2>5
      <3> QED
        BY <2>2, <2>3, <3>1
    <2> QED
      BY <2>1, <2>4, <2>5
  <1>5. /\ stream'[u] = rest /\ \A w \in Users \ {u} : stream'[w] = stream[w]
        /\ stream' \in [Users -> Seq(ChangeRecord)]
    BY <1>1, <1>2, <1>3 DEF TypeOK, tail
  <1>6. /\ batch' \in [Users -> 0..BatchSize] /\ batch'[u] = 0
        /\ \A w \in Users \ {u} : batch'[w] = batch[w]
    BY <1>1, EventsAssumption DEF TypeOK
  <1>7. ASSUME NEW w \in Users, NEW i \in DOMAIN stream'[w]
        PROVE  \E k \in DOMAIN stream[w] :
                 /\ stream'[w][i] = stream[w][k]
                 /\ k = IF w = u THEN i + b ELSE i
    BY <1>2, <1>4, <1>5
  <1>8. TypeOK'
    BY <1>1, <1>5, <1>6 DEF TypeOK
  <1>9. BatchesAgree'
    BY <1>1, <1>2, <1>4, <1>5, <1>6 DEF BatchesAgree
  <1>10. RecordsAgree'
    <2> SUFFICES ASSUME NEW w \in Users, NEW i \in DOMAIN stream'[w],
                        NEW e, e = stream'[w][i]
                 PROVE  /\ Owner[e.reservation] = w /\ ~isLocalStage'
                        /\ \/ resolveEventType(e) = "none"
                           \/ \E p \in DOMAIN changes'[e.reservation] :
                                 changes'[e.reservation][p] = resolveEventType(e)
      BY DEF RecordsAgree
    <2>1. PICK k \in DOMAIN stream[w] : e = stream[w][k]
      BY <1>7
    <2>2. /\ Owner[e.reservation] = w /\ ~isLocalStage
          /\ \/ resolveEventType(e) = "none"
             \/ \E p \in DOMAIN changes[e.reservation] :
                   changes[e.reservation][p] = resolveEventType(e)
      BY <2>1 DEF RecordsAgree
    <2>3. changes' = changes /\ isLocalStage' = isLocalStage
      BY <1>1
    <2> QED
      BY <2>2, <2>3
  <1>11. RecordsInOrder'
    <2> SUFFICES ASSUME NEW w \in Users, NEW i \in DOMAIN stream'[w], NEW j \in DOMAIN stream'[w],
                        NEW r \in Reservations,
                        NEW p \in DOMAIN changes[r], NEW q \in DOMAIN changes[r],
                        i < j,
                        Announces(w, i, r, changes[r][p])', Announces(w, j, r, changes[r][q])'
                 PROVE  p < q
      BY <1>1 DEF RecordsInOrder
    <2>a. /\ stream'[w][i].reservation = r /\ stream'[w][j].reservation = r
          /\ resolveEventType(stream'[w][i]) = changes[r][p]
          /\ resolveEventType(stream'[w][j]) = changes[r][q]
      BY <1>1 DEF Announces
    <2>1. PICK k \in DOMAIN stream[w] :
             stream'[w][i] = stream[w][k] /\ k = IF w = u THEN i + b ELSE i
      BY <1>7
    <2>2. PICK l \in DOMAIN stream[w] :
             stream'[w][j] = stream[w][l] /\ l = IF w = u THEN j + b ELSE j
      BY <1>7
    <2>3. k < l
      <3>1. CASE w = u
        BY <1>4, <1>5, <2>1, <2>2, <3>1
      <3>2. CASE w # u
        BY <2>1, <2>2, <3>2
      <3> QED
        BY <3>1, <3>2
    <2> QED
      BY <2>a, <2>1, <2>2, <2>3 DEF RecordsInOrder, Announces
  <1>12. RestIsAhead'
    <2> SUFFICES ASSUME ~isLocalStage, NEW r \in Reservations, NEW p \in DOMAIN changes[r],
                        p > Len(announced[r])
                 PROVE  \E i \in DOMAIN stream'[Owner[r]] :
                          i >= Ahead(Owner[r])' /\ Announces(Owner[r], i, r, changes[r][p])'
      BY <1>1 DEF RestIsAhead
    <2>1. PICK w \in Users : w = Owner[r]
      BY EventsAssumption
    <2>2. PICK i \in DOMAIN stream[w] :
             /\ i >= IF batch[w] = 0 THEN 1 ELSE next[w]
             /\ stream[w][i].reservation = r
             /\ resolveEventType(stream[w][i]) = changes[r][p]
      BY <2>1 DEF RestIsAhead, Ahead, Announces
    <2>3. CASE w = u
      <3>1. i > b /\ i \in Nat
        <4>1. i \in Nat /\ next[u] \in Nat
          BY <1>2, <2>3, EventsAssumption DEF TypeOK
        <4> QED
          BY <1>1, <1>2, <2>2, <2>3, <4>1
      <3>2. i - b \in DOMAIN rest /\ rest[i - b] = stream[w][i] /\ i - b >= 1
        BY <1>2, <1>4, <2>2, <2>3, <3>1
      <3> QED
        <4>1. i - b \in DOMAIN stream'[u] /\ stream'[u][i - b] = stream[u][i]
          BY <1>5, <2>3, <3>2
        <4>2. i - b >= Ahead(u)'
          BY <1>6, <3>2 DEF Ahead
        <4>3. Announces(u, i - b, r, changes[r][p])'
          BY <1>1, <2>2, <2>3, <4>1 DEF Announces
        <4> QED
          BY <2>1, <2>3, <4>1, <4>2, <4>3
    <2>4. CASE w # u
      BY <1>1, <1>5, <1>6, <2>1, <2>2, <2>4 DEF Ahead, Announces
    <2> QED
      BY <2>3, <2>4
  <1>13. RowsAgree' /\ UploadsAgree' /\ EvidenceIsOwn' /\ AnnouncedInOrder'
    BY <1>1 DEF RowsAgree, UploadsAgree, EvidenceIsOwn, AnnouncedInOrder
  <1> QED
    BY <1>8, <1>9, <1>10, <1>11, <1>12, <1>13

(* The invariant is inductive. *)
LEMMA StepInv == EventsInv /\ [Next]_vars => EventsInv'
  <1> SUFFICES ASSUME EventsInv, [Next]_vars PROVE EventsInv'
    OBVIOUS
  <1> USE DEF EventsInv
  <1>1. ASSUME NEW r \in Reservations,
               CreateReservation(r) \/ CancelReservation(r) \/ ExpireReservation(r)
        PROVE  EventsInv'
    BY <1>1, SetStatusKeeps DEF CreateReservation, CancelReservation, ExpireReservation
  <1>2. ASSUME NEW r \in Reservations, IndexCatchesUp(r) PROVE EventsInv'
    <2>1. /\ Others
          /\ UNCHANGED <<recorded, queue, logged, signed, upload, retries, uploads, failures>>
          /\ indexed' = indexed \cup {r} /\ status[r] # "none"
      BY <1>2 DEF IndexCatchesUp, Others, rowVars, streamVars, queueVars, uploadVars
    <2>2. TypeOK'
      BY <2>1 DEF TypeOK, Others
    <2>3. UploadsAgree'
      BY <2>1 DEF UploadsAgree, Others
    <2> QED
      BY <2>1, <2>2, <2>3, OthersKeep
  <1>3. ASSUME NEW u \in Users, Shard(u) \/ InvocationFails(u) PROVE EventsInv'
    BY <1>3, InvokeKeeps, PublishKeeps, EndBatchKeeps DEF Shard
  <1>4. ASSUME ProcessNotificationQueue \/ GenerateDailyReport PROVE EventsInv'
    <2>1. Others /\ UNCHANGED <<recorded, indexed, signed, upload, retries, uploads>>
      BY <1>4
         DEF ProcessNotificationQueue, GenerateDailyReport, Others, rowVars, streamVars,
             uploadVars
    <2>2. failures' \in 0..MaxFailures
      BY <1>4, EventsAssumption DEF ProcessNotificationQueue, GenerateDailyReport, TypeOK
    <2>3. queue' \cup logged' \subseteq queue \cup logged \cup [type : {"daily_reservations"}]
      BY <1>4 DEF ProcessNotificationQueue, GenerateDailyReport, Report
    <2>4. TypeOK'
      BY <2>1, <2>2, <2>3 DEF TypeOK, Others
    <2>5. UploadsAgree'
      BY <2>1 DEF UploadsAgree, Others
    <2> QED
      BY <2>1, <2>4, <2>5, OthersKeep
  <1>5. ASSUME NEW u \in Users, NEW r \in Reservations, GetUploadUrl(u, r) PROVE EventsInv'
    <2>1. PICK t \in Times : signed' = signed \cup {<<u, ObjectKey(r, t)>>}
      BY <1>5 DEF GetUploadUrl
    <2>2. /\ Others
          /\ UNCHANGED <<recorded, indexed, queue, logged, upload, retries, uploads, failures>>
          /\ Owner[r] = u
      BY <1>5
         DEF GetUploadUrl, GetReservation, Others, rowVars, streamVars, queueVars
    <2>3. ObjectKey(r, t) \in Key /\ ObjectKey(r, t).reservation = r
      BY DEF Key, ObjectKey
    <2>4. TypeOK'
      BY <2>1, <2>2, <2>3 DEF TypeOK, Others
    <2>5. UploadsAgree'
      BY <2>1, <2>2, <2>3 DEF UploadsAgree, Others
    <2> QED
      BY <2>1, <2>2, <2>4, <2>5, OthersKeep
  <1>6. ASSUME UploadSelectedFile PROVE EventsInv'
    <2>1. PICK link \in signed : Starts(link[2], "queued")
      BY <1>6 DEF UploadSelectedFile
    <2>2. PICK key \in Key : key = link[2] /\ <<Owner[key.reservation], key>> = link
      BY <2>1 DEF TypeOK, UploadsAgree
    <2> QED
      BY <2>1, <2>2, StartsKeeps
  <1>7. ASSUME NEW r \in Reservations, UploadEvidenceLocal(r) PROVE EventsInv'
    <2>1. PICK t \in Times : Starts(LocalKey(r, t), "found")
      BY <1>7 DEF UploadEvidenceLocal
    <2>2. LocalKey(r, t) \in Key /\ LocalKey(r, t).reservation = r /\ LocalKey(r, t).local
      BY DEF Key, LocalKey
    <2>3. status[r] # "none"
      BY <1>7, ListedStored DEF UploadEvidenceLocal
    <2> QED
      BY <2>1, <2>2, <2>3, StartsKeeps
  <1>8. ASSUME NEW key \in Key, Lookup(key) PROVE EventsInv'
    <2>1. /\ Others /\ UNCHANGED <<recorded, indexed, queue, logged, signed, uploads, failures>>
          /\ key.local \/ <<Owner[key.reservation], key>> \in signed
      BY <1>8 DEF Lookup, Others, rowVars, streamVars, queueVars, UploadsAgree
    <2>2. PICK r \in Reservations : r = key.reservation
      BY DEF Key
    <2>3. PICK n \in 0..MaxRetries, to \in {"found", "missed"} :
             /\ upload' = [upload EXCEPT ![key] = to] /\ retries' = [retries EXCEPT ![key] = n]
             /\ to = "found" => status[key.reservation] # "none"
      <3>1. CASE Listed(key.reservation)
        <4>1. /\ retries' = [retries EXCEPT ![key] = retries[key]]
              /\ retries[key] \in 0..MaxRetries
              /\ upload' = [upload EXCEPT ![key] = "found"]
          BY <1>8, <3>1 DEF Lookup, Moves, TypeOK
        <4>2. status[key.reservation] # "none"
          BY <2>2, <3>1, ListedStored
        <4> QED
          BY <4>1, <4>2
      <3>2. CASE ~Listed(key.reservation)
        <4>1. /\ retries' = [retries EXCEPT ![key] = 0] /\ 0 \in 0..MaxRetries
              /\ upload' = [upload EXCEPT ![key] = "missed"]
          BY <1>8, <3>2, EventsAssumption DEF Lookup, Resets
        <4> QED
          BY <4>1
      <3> QED
        BY <3>1, <3>2
    <2>4. /\ uploads' \in 0..MaxUploads /\ failures' \in 0..MaxFailures
          /\ recorded' \subseteq Key
      BY <2>1 DEF TypeOK
    <2> QED
      BY <2>1, <2>3, <2>4, UploadKeeps
  <1>9. ASSUME NEW key \in Key, UploadFails(key) \/ UploadRepeats(key) PROVE EventsInv'
    <2>1. /\ Others /\ UNCHANGED <<recorded, indexed, queue, logged, signed, uploads>>
          /\ key.local \/ <<Owner[key.reservation], key>> \in signed
      BY <1>9 DEF UploadFails, UploadRepeats, Others, rowVars, streamVars, queueVars, UploadsAgree
    <2>2. /\ uploads' \in 0..MaxUploads /\ failures' \in 0..MaxFailures
          /\ recorded' \subseteq Key
      BY <1>9, <2>1, EventsAssumption DEF UploadFails, UploadRepeats, TypeOK
    <2>3. PICK n \in 0..MaxRetries, to \in {"none", "queued", "given_up"} :
             upload' = [upload EXCEPT ![key] = to] /\ retries' = [retries EXCEPT ![key] = n]
      <3>1. retries[key] \in 0..MaxRetries /\ retries = [retries EXCEPT ![key] = retries[key]]
        BY DEF TypeOK
      <3>2. 0 \in 0..MaxRetries /\ (retries[key] < MaxRetries => retries[key] + 1 \in 0..MaxRetries)
        BY <3>1, EventsAssumption
      <3> QED
        BY <1>9, <3>1, <3>2 DEF UploadFails, UploadRepeats, Moves, Resets
    <2> QED
      BY <2>1, <2>2, <2>3, UploadKeeps
  <1>10. ASSUME NEW key \in Key, Record(key) PROVE EventsInv'
    BY <1>10, RecordKeeps
  <1>11. ASSUME UNCHANGED vars PROVE EventsInv'
    <2>1. /\ Others
          /\ UNCHANGED <<recorded, indexed, queue, logged, signed, upload, retries, uploads,
                         failures>>
      BY <1>11 DEF vars, Others, rowVars, streamVars, queueVars, uploadVars
    <2>2. TypeOK' /\ UploadsAgree'
      BY <2>1 DEF TypeOK, UploadsAgree, Others
    <2> QED
      BY <2>1, <2>2, OthersKeep
  <1> QED
    BY <1>1, <1>2, <1>3, <1>4, <1>5, <1>6, <1>7, <1>8, <1>9, <1>10, <1>11
       DEF Next, OnEvidenceUploaded

(* The invariant holds in every reachable state. *)
THEOREM Invariant == Spec => []EventsInv
  BY InitInv, StepInv, PTL DEF Spec

(* Every variable stays of its type. *)
THEOREM TypeCorrect == Spec => []TypeOK
  <1>1. EventsInv => TypeOK
    BY DEF EventsInv
  <1> QED
    BY <1>1, Invariant, PTL

(***************************************************************************)
(* Whatever batches the stream hands over, and however often it repeats    *)
(* them, what is announced of a reservation is what happened to it, in     *)
(* that order.                                                             *)
(***************************************************************************)
THEOREM AnnouncementsFollowChanges == Spec => []AnnouncedAsItHappened
  <1>1. EventsInv => AnnouncedAsItHappened
    BY InOrderIsPrefix DEF EventsInv
  <1> QED
    BY <1>1, Invariant, PTL

(* On every stage the evidence of a reservation is its own: what comes     *)
(* from the bucket was put there with a link signed for its owner.         *)
THEOREM EvidenceStaysOwn == Spec => []EvidenceIsOwn
  <1>1. EventsInv => EvidenceIsOwn
    BY DEF EventsInv
  <1> QED
    BY <1>1, Invariant, PTL

(***************************************************************************)
(* The changes the stream tells of are those FaasReservations lets happen: *)
(* a reservation is stored once and ends once.                             *)
(***************************************************************************)
THEOREM OneLife == Spec => ImplementsReservationLife
  <1>1. Init => Life!Init
    BY DEF Init, Life!Init
  <1>2. [Next]_vars => [Life!Next]_status
    <2> SUFFICES ASSUME Next, status' # status PROVE Life!Next
      BY DEF vars, rowVars
    <2>1. PICK r \in Reservations :
             CreateReservation(r) \/ CancelReservation(r) \/ ExpireReservation(r)
      BY DEF Next, IndexCatchesUp, Shard, Invoke, Publish, EndBatch, InvocationFails,
             ProcessNotificationQueue, GenerateDailyReport, GetUploadUrl,
             UploadSelectedFile, UploadEvidenceLocal, Starts, OnEvidenceUploaded, Lookup,
             Record, WriteEvidence, UploadFails, UploadRepeats, rowVars
    <2>2. \/ Life!Store(r) \/ Life!End(r, "cancelled") \/ Life!End(r, "expired")
      BY <2>1 DEF CreateReservation, CancelReservation, ExpireReservation, SetStatus,
                  Life!Store, Life!End
    <2> QED
      BY <2>2 DEF Life!Next
  <1> QED
    BY <1>1, <1>2, PTL DEF Spec, ImplementsReservationLife, Life!Spec

-----------------------------------------------------------------------------
(* The queue and the log. *)

(* A message of the report is none of a reservation. *)
LEMMA ReportIsNoMessage ==
  ASSUME NEW r, NEW type
  PROVE  [reservation |-> r, type |-> type] # Report
  <1>1. DOMAIN [reservation |-> r, type |-> type] = {"reservation", "type"}
    OBVIOUS
  <1>2. DOMAIN Report = {"type"}
    BY DEF Report
  <1> QED
    BY <1>1, <1>2

LEMMA AnnounceMessage ==
  ASSUME TypeOK, MessagesAsAnnounced, NEW s \in Reservations, NEW t \in Types,
         Announce([reservation |-> s, type |-> t]), UNCHANGED logged
  PROVE  MessagesAsAnnounced'
  <1> DEFINE Told(q, type) == \E i \in DOMAIN announced[q] : announced[q][i] = type
  <1>1. PICK old \in Seq(Types) : old = announced[s]
    BY DEF TypeOK
  <1>2. /\ queue' = queue \cup {[reservation |-> s, type |-> t]}
        /\ announced' = [announced EXCEPT ![s] = IF Contains(old, t) THEN old ELSE Append(old, t)]
    BY <1>1 DEF Announce
  <1>3. /\ announced'[s] = IF Contains(old, t) THEN old ELSE Append(old, t)
        /\ \A r \in Reservations \ {s} : announced'[r] = announced[r]
    BY <1>2 DEF TypeOK
  <1>4. ASSUME NEW type \in Types
        PROVE  (\E i \in DOMAIN announced'[s] : announced'[s][i] = type)
                 <=> Told(s, type) \/ type = t
    <2>1. CASE Contains(old, t)
      BY <1>1, <1>3, <2>1 DEF Contains
    <2>2. CASE ~Contains(old, t)
      <3>1. /\ DOMAIN Append(old, t) = 1..Len(old) + 1 /\ DOMAIN old = 1..Len(old)
            /\ \A i \in DOMAIN old : Append(old, t)[i] = old[i]
            /\ Append(old, t)[Len(old) + 1] = t /\ Len(old) \in Nat
        OBVIOUS
      <3>2. DOMAIN Append(old, t) = DOMAIN old \cup {Len(old) + 1}
        BY <3>1
      <3> QED
        BY <1>1, <1>3, <2>2, <3>1, <3>2
    <2> QED
      BY <2>1, <2>2
  <1>5. ASSUME NEW r \in Reservations, NEW type \in Types
        PROVE  [reservation |-> r, type |-> type] \in queue' \cup logged' <=>
                 \E i \in DOMAIN announced'[r] : announced'[r][i] = type
    <2>1. [reservation |-> r, type |-> type] = [reservation |-> s, type |-> t]
            <=> r = s /\ type = t
      OBVIOUS
    <2>2. [reservation |-> r, type |-> type] \in queue \cup logged <=> Told(r, type)
      BY DEF MessagesAsAnnounced
    <2>3. CASE r = s
      BY <1>2, <1>4, <2>1, <2>2, <2>3
    <2>4. CASE r # s
      BY <1>2, <1>3, <2>1, <2>2, <2>4
    <2> QED
      BY <2>3, <2>4
  <1> QED
    BY <1>5 DEF MessagesAsAnnounced

LEMMA MessagesStep ==
  ASSUME EventsInv, [Next]_vars, MessagesAsAnnounced PROVE MessagesAsAnnounced'
  <1>1. ASSUME UNCHANGED <<queueVars, announced>> PROVE MessagesAsAnnounced'
    BY <1>1 DEF MessagesAsAnnounced, queueVars
  <1>2. ASSUME NEW u \in Users, Publish(u) PROVE MessagesAsAnnounced'
    <2> DEFINE record == stream[u][next[u]]
               type == resolveEventType(record)
    <2>1. CASE type = "none"
      BY <1>1, <1>2, <2>1 DEF Publish, queueVars
    <2>2. CASE type # "none"
      <3>1. /\ stream[u] \in Seq(ChangeRecord) /\ next[u] \in 1..BatchSize + 1
            /\ batch[u] \in 0..BatchSize /\ batch[u] <= Len(stream[u])
            /\ next[u] <= batch[u]
        BY <1>2 DEF EventsInv, TypeOK, BatchesAgree, Publish
      <3>2. next[u] \in DOMAIN stream[u]
        BY <3>1, EventsAssumption
      <3>3. record \in ChangeRecord
        BY <3>1, <3>2
      <3>4. record.reservation \in Reservations
        BY <3>3 DEF ChangeRecord
      <3>5. type \in Types
        <4>1. PICK p \in DOMAIN changes[record.reservation] :
                 changes[record.reservation][p] = type
          BY <2>2, <3>2 DEF EventsInv, RecordsAgree
        <4>2. changes[record.reservation] \in Seq(Types)
          BY <3>4 DEF EventsInv, TypeOK
        <4> QED
          BY <4>1, <4>2
      <3>6. Announce([reservation |-> record.reservation, type |-> type]) /\ UNCHANGED logged
        BY <1>2, <2>2 DEF Publish
      <3> HIDE DEF type, record
      <3> QED
        BY <3>4, <3>5, <3>6, AnnounceMessage DEF EventsInv
    <2> QED
      BY <2>1, <2>2
  <1>3. CASE ProcessNotificationQueue
    <2>1. queue' \cup logged' = queue \cup logged /\ UNCHANGED announced
      BY <1>3 DEF ProcessNotificationQueue, streamVars
    <2> QED
      BY <2>1 DEF MessagesAsAnnounced
  <1>4. CASE GenerateDailyReport
    <2>1. queue' = queue \cup {Report} /\ UNCHANGED <<logged, announced>>
      BY <1>4 DEF GenerateDailyReport, streamVars
    <2>2. \A r \in Reservations, type \in Types :
             [reservation |-> r, type |-> type] \in queue' \cup logged'
               <=> [reservation |-> r, type |-> type] \in queue \cup logged
      BY <2>1, ReportIsNoMessage
    <2> QED
      BY <2>1, <2>2 DEF MessagesAsAnnounced
  <1>5. CASE \/ UNCHANGED vars
             \/ \E r \in Reservations :
                  \/ CreateReservation(r) \/ CancelReservation(r) \/ ExpireReservation(r)
                  \/ IndexCatchesUp(r)
             \/ \E u \in Users : Invoke(u) \/ EndBatch(u) \/ InvocationFails(u)
    BY <1>1, <1>5 DEF vars, streamVars, CreateReservation, CancelReservation,
                      ExpireReservation, SetStatus, IndexCatchesUp, Invoke, EndBatch,
                      InvocationFails
  <1>6. CASE \/ \E u \in Users, r \in Reservations : GetUploadUrl(u, r)
             \/ UploadSelectedFile
             \/ \E r \in Reservations : UploadEvidenceLocal(r)
             \/ \E key \in Key :
                   OnEvidenceUploaded(key) \/ UploadFails(key) \/ UploadRepeats(key)
    BY <1>1, <1>6 DEF streamVars, GetUploadUrl, UploadSelectedFile, UploadEvidenceLocal, Starts,
                      OnEvidenceUploaded, Lookup, Record, UploadFails, UploadRepeats
  <1> QED
    BY <1>2, <1>3, <1>4, <1>5, <1>6 DEF Next, Shard

(***************************************************************************)
(* onReservationDbChange sends what processNotificationQueue logs: between *)
(* them nothing is lost or made up, whatever fails and is repeated.        *)
(***************************************************************************)
THEOREM MessagesAreKept == Spec => []MessagesAsAnnounced
  <1>1. Init => MessagesAsAnnounced
    BY DEF Init, MessagesAsAnnounced
  <1>2. EventsInv /\ [Next]_vars /\ MessagesAsAnnounced => MessagesAsAnnounced'
    BY MessagesStep
  <1> QED
    BY <1>1, <1>2, Invariant, PTL DEF Spec

(***************************************************************************)
(* What processNotificationQueue logs of a reservation did happen to it.   *)
(***************************************************************************)
THEOREM LogIsTrue == Spec => []LoggedHappened
  <1>1. EventsInv /\ MessagesAsAnnounced => LoggedHappened
    <2> SUFFICES ASSUME EventsInv, MessagesAsAnnounced,
                        NEW r \in Reservations, NEW type \in Types,
                        [reservation |-> r, type |-> type] \in logged
                 PROVE  \E i \in DOMAIN changes[r] : changes[r][i] = type
      BY DEF LoggedHappened
    <2>1. PICK i \in DOMAIN announced[r] : announced[r][i] = type
      BY DEF MessagesAsAnnounced
    <2>2. announced[r] \in Seq(Types) /\ changes[r] \in Seq(Types)
      BY DEF EventsInv, TypeOK
    <2>3. i \in 1..Len(announced[r]) /\ i \in DOMAIN changes[r] /\ changes[r][i] = type
      BY <2>1, <2>2 DEF EventsInv, AnnouncedInOrder
    <2> QED
      BY <2>3
  <1> QED
    BY <1>1, Invariant, MessagesAreKept, PTL

=============================================================================
