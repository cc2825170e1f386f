----------------------------- MODULE FaasEvents -----------------------------
(***************************************************************************)
(* What the FaaS back end tells of its reservations.  The change stream of *)
(* the reservations table feeds onReservationDbChange, batch by batch and  *)
(* in order per user; its messages and those of generateDailyReport go     *)
(* through the notification queue to processNotificationQueue.  Beside it, *)
(* the evidence of a reservation: requestEvidenceUploadUrl signs a link,   *)
(* the panel of the web UI puts a file there, and S3 calls                 *)
(* onEvidenceUploaded, which writes the row.                               *)
(*                                                                         *)
(* The stream repeats a batch until it is through, Lambda repeats a failed *)
(* event of S3 a few times and then gives it up, S3 and SQS deliver at     *)
(* least once and in any order, and the reservationId-index lags.  On the  *)
(* local stage there is no stream, queue or bucket: the link is one of     *)
(* uploadEvidenceLocal, which writes the row itself and is there on the    *)
(* other stages as well.                                                   *)
(*                                                                         *)
(* The key of an object is reservations/<reservation>/<time>-evidence; two *)
(* links signed in one millisecond have the same.  What uploadEvidenceLocal*)
(* writes is no object: its keys start with local/.                        *)
(***************************************************************************)
EXTENDS Integers, Sequences, FiniteSets, FiniteSetsExt, SequencesExt

CONSTANTS
  Users, Reservations,
  Owner,          (* userId of each reservation: its row, its shard         *)
  Times,          (* the instants links are signed at                       *)
  NoKey,
  BatchSize,      (* records the stream hands over at once: 10              *)
  QueueBatchSize, (* messages the queue hands over at once: 5               *)
  MaxRetries,     (* how often Lambda repeats a failed event of S3: 2       *)
  MaxUploads,     (* bound on files put                                     *)
  MaxFailures     (* bound on failures of stream and queue, and on repeats  *)

ASSUME EventsAssumption ==
  /\ Owner \in [Reservations -> Users]
  /\ BatchSize \in Nat \ {0} /\ QueueBatchSize \in Nat \ {0}
  /\ MaxRetries \in Nat /\ MaxUploads \in Nat /\ MaxFailures \in Nat
  /\ NoKey \notin [local : BOOLEAN, reservation : Reservations, time : Times]

VARIABLES
  isLocalStage,
  status,   (* of each row, "none": not stored                              *)
  evidence, (* evidenceObjectKey of each row, NoKey: still pending          *)
  indexed,  (* the rows the reservationId-index lists                       *)
  stream,   (* the change records of each user's shard                      *)
  batch,    (* how many of them the invocation for the shard was given      *)
  next,     (* the one it looks at                                          *)
  queue,    (* the messages in the notification queue                       *)
  logged,   (* the messages processNotificationQueue logged                 *)
  signed,   (* the links, each with the user it was signed for              *)
  upload,   (* how far the event of each object, or the local call, is      *)
  retries,  (* how often that event was repeated because it failed          *)
  uploads, failures,
  recorded, (* history: the keys whose last file was written to the row     *)
  changes,  (* history: what happened to each reservation, in order         *)
  announced (* history: what of it was sent, without the repeats            *)

rowVars == <<status, evidence, stream, changes, recorded>>
streamVars == <<batch, next, announced>>
queueVars == <<queue, logged>>
uploadVars == <<signed, upload, retries, uploads>>
vars == <<isLocalStage, rowVars, indexed, streamVars, queueVars, uploadVars, failures>>

Key == [local : BOOLEAN, reservation : Reservations, time : Times]
ObjectKey(r, t) == [local |-> FALSE, reservation |-> r, time |-> t]
LocalKey(r, t) == [local |-> TRUE, reservation |-> r, time |-> t]
Types == {"created", "cancelled", "expired", "evidence_uploaded"}
Image == [status : {"none", "active", "cancelled", "expired"},
          evidenceStatus : {"pending", "uploaded"}]
ChangeRecord == [reservation : Reservations, old : Image, new : Image]

(* The values of the variables. *)
TypeOK ==
  /\ isLocalStage \in BOOLEAN
  /\ status \in [Reservations -> {"none", "active", "cancelled", "expired"}]
  /\ evidence \in [Reservations -> Key \cup {NoKey}]
  /\ indexed \subseteq Reservations
  /\ stream \in [Users -> Seq(ChangeRecord)]
  /\ batch \in [Users -> 0..BatchSize] /\ next \in [Users -> 1..BatchSize + 1]
  /\ queue \cup logged \subseteq
        [reservation : Reservations, type : Types] \cup [type : {"daily_reservations"}]
  /\ upload \in [Key -> {"none", "queued", "found", "missed", "given_up", "done"}]
  /\ retries \in [Key -> 0..MaxRetries] /\ recorded \subseteq Key
  /\ uploads \in 0..MaxUploads /\ failures \in 0..MaxFailures
  /\ signed \subseteq Users \X Key
  /\ changes \in [Reservations -> Seq(Types)] /\ announced \in [Reservations -> Seq(Types)]

Init ==
  /\ isLocalStage \in BOOLEAN
  /\ status = [r \in Reservations |-> "none"]
  /\ evidence = [r \in Reservations |-> NoKey]
  /\ indexed = {}
  /\ stream = [u \in Users |-> <<>>]
  /\ batch = [u \in Users |-> 0] /\ next = [u \in Users |-> 1]
  /\ queue = {} /\ logged = {}
  /\ upload = [k \in Key |-> "none"] /\ retries = [k \in Key |-> 0]
  /\ uploads = 0 /\ failures = 0
  /\ signed = {} /\ recorded = {}
  /\ changes = [r \in Reservations |-> <<>>] /\ announced = [r \in Reservations |-> <<>>]

(***************************************************************************)
(* The reservations table and its stream.                                  *)
(***************************************************************************)
ImageOf(r) ==
  [status |-> status[r], evidenceStatus |-> IF evidence[r] = NoKey THEN "pending" ELSE "uploaded"]

(* A write leaves the old and the new image in the stream, except on the   *)
(* local stage, which has none.                                            *)
Streams(r, image) ==
  stream' = IF isLocalStage THEN stream
            ELSE [stream EXCEPT ![Owner[r]] =
                    Append(@, [reservation |-> r, old |-> ImageOf(r), new |-> image])]

SetStatus(r, old, new, type) ==
  /\ status[r] = old
  /\ status' = [status EXCEPT ![r] = new]
  /\ Streams(r, [ImageOf(r) EXCEPT !.status = new])
  /\ changes' = [changes EXCEPT ![r] = Append(@, type)]
  /\ UNCHANGED <<isLocalStage, evidence, recorded, indexed, streamVars, queueVars, uploadVars,
                 failures>>

CreateReservation(r) == SetStatus(r, "none", "active", "created")
CancelReservation(r) == SetStatus(r, "active", "cancelled", "cancelled")
ExpireReservation(r) == SetStatus(r, "active", "expired", "expired")

IndexCatchesUp(r) ==
  /\ ~isLocalStage /\ status[r] # "none" /\ r \notin indexed
  /\ indexed' = indexed \cup {r}
  /\ UNCHANGED <<isLocalStage, rowVars, streamVars, queueVars, uploadVars, failures>>

(* What a Query of the reservationId-index answers: the local file has no  *)
(* index and is searched itself.                                           *)
Listed(r) == IF isLocalStage THEN status[r] # "none" ELSE r \in indexed

(***************************************************************************)
(* onReservationDbChange.  A send that throws fails the invocation, and    *)
(* the stream calls it again with the same batch.                          *)
(***************************************************************************)
(* Mutant: a modified row is announced by its status, changed or not. *)
resolveStatusOnly(record) ==
  IF record.old.status = "none" THEN "created" ELSE record.new.status

resolveEventType(record) ==
  CASE record.old.status = "none" -> "created"
    [] record.old.status # "none" /\ record.old.status # record.new.status -> record.new.status
    [] record.old.status = record.new.status
         /\ record.old.evidenceStatus # record.new.evidenceStatus -> "evidence_uploaded"
    [] OTHER -> "none"

Invoke(u) ==
  /\ batch[u] = 0 /\ stream[u] # <<>>
  /\ \E n \in 1..BatchSize :
       /\ n <= Len(stream[u])
       /\ batch' = [batch EXCEPT ![u] = n]
  /\ next' = [next EXCEPT ![u] = 1]
  /\ UNCHANGED <<isLocalStage, rowVars, indexed, announced, queueVars, uploadVars, failures>>

Announce(message) ==
  /\ queue' = queue \cup {message}
  /\ announced' = [announced EXCEPT ![message.reservation] =
                     IF Contains(@, message.type) THEN @ ELSE Append(@, message.type)]

Publish(u) ==
  /\ next[u] <= batch[u]
  /\ LET record == stream[u][next[u]]
         type == resolveEventType(record)
     IN IF type = "none" THEN UNCHANGED <<queue, announced>>
        ELSE Announce([reservation |-> record.reservation, type |-> type])
  /\ next' = [next EXCEPT ![u] = @ + 1]
  /\ UNCHANGED <<isLocalStage, rowVars, indexed, batch, logged, uploadVars, failures>>

EndBatch(u) ==
  /\ batch[u] > 0 /\ next[u] > batch[u]
  /\ stream' = [stream EXCEPT ![u] = SubSeq(@, batch[u] + 1, Len(@))]
  /\ batch' = [batch EXCEPT ![u] = 0]
  /\ UNCHANGED <<isLocalStage, status, evidence, changes, recorded, indexed, next, announced,
                 queueVars, uploadVars, failures>>

(* Mutant: the error of a send is caught and the loop goes on. *)
SendErrorIsCaught(u) ==
  /\ next[u] <= batch[u] /\ failures < MaxFailures
  /\ failures' = failures + 1
  /\ next' = [next EXCEPT ![u] = @ + 1]
  /\ UNCHANGED <<isLocalStage, rowVars, indexed, batch, announced, queueVars, uploadVars>>

(* A send throws, or the invocation dies before it ends. *)
InvocationFails(u) ==
  /\ batch[u] > 0 /\ failures < MaxFailures
  /\ failures' = failures + 1
  /\ next' = [next EXCEPT ![u] = 1]
  /\ UNCHANGED <<isLocalStage, rowVars, indexed, batch, announced, queueVars, uploadVars>>

(***************************************************************************)
(* The queue.  processNotificationQueue logs a batch; when its invocation  *)
(* fails afterwards the messages are delivered again.                      *)
(***************************************************************************)
ProcessNotificationQueue ==
  \E messages \in SUBSET queue :
    /\ messages # {} /\ Cardinality(messages) <= QueueBatchSize
    /\ logged' = logged \cup messages
    /\ \/ queue' = queue \ messages /\ UNCHANGED failures
       \/ failures < MaxFailures /\ failures' = failures + 1 /\ UNCHANGED queue
    /\ UNCHANGED <<isLocalStage, rowVars, indexed, streamVars, uploadVars>>

Report == [type |-> "daily_reservations"]

(* The counts of the report are left out: it reads one Scan and is sent.   *)
(* A behaviour has one report at most.                                     *)
GenerateDailyReport ==
  /\ ~isLocalStage /\ Report \notin queue \cup logged
  /\ queue' = queue \cup {Report}
  /\ UNCHANGED <<isLocalStage, rowVars, indexed, streamVars, logged, uploadVars, failures>>

(***************************************************************************)
(* The evidence.  A panel of the web UI puts its file at the link it was    *)
(* given last, whatever was typed or chosen since; panels are many, so any *)
(* link may be one's.                                                      *)
(***************************************************************************)
(* Mutant: the row is looked up by its id alone. *)
GetById(u, r) == status[r] # "none"

(* A plain Get may answer with the row, or without one put not long ago. *)
GetReservation(u, r) == Owner[r] = u /\ status[r] # "none"

(* The link of the local stage is the same for everybody and every time.   *)
GetUploadUrl(u, r) ==
  /\ ~isLocalStage /\ GetReservation(u, r)
  /\ \E t \in Times : signed' = signed \cup {<<u, ObjectKey(r, t)>>}
  /\ UNCHANGED <<isLocalStage, rowVars, indexed, streamVars, queueVars, upload, retries, uploads,
                 failures>>

Moves(key, to) == upload' = [upload EXCEPT ![key] = to] /\ UNCHANGED retries

(* An event begins or ends: its repeats are counted from none. *)
Resets(key, to) ==
  /\ upload' = [upload EXCEPT ![key] = to]
  /\ retries' = [retries EXCEPT ![key] = 0]

Starts(key, at) ==
  /\ uploads < MaxUploads
  /\ uploads' = uploads + 1
  /\ Resets(key, at)
  /\ recorded' = recorded \ {key}
  /\ UNCHANGED <<isLocalStage, status, evidence, stream, changes, indexed, streamVars, queueVars,
                 signed, failures>>

(* The file is put in the bucket and S3 queues the event. *)
UploadSelectedFile == \E link \in signed : Starts(link[2], "queued")

(* uploadEvidenceLocal up to its update, on any stage and for any caller;  *)
(* a reservation that is not listed is a 404.                              *)
UploadEvidenceLocal(r) == Listed(r) /\ \E t \in Times : Starts(LocalKey(r, t), "found")

(* The Query of onEvidenceUploaded: what it does not list is skipped.      *)
Lookup(key) ==
  /\ upload[key] = "queued"
  /\ IF Listed(key.reservation) THEN Moves(key, "found") ELSE Resets(key, "missed")
  /\ UNCHANGED <<isLocalStage, rowVars, indexed, streamVars, queueVars, signed, uploads, failures>>

WriteEvidence(key) ==
  LET r == key.reservation
  IN /\ evidence' = [evidence EXCEPT ![r] = key]
     /\ recorded' = recorded \cup {key}
     /\ Streams(r, [ImageOf(r) EXCEPT !.evidenceStatus = "uploaded"])
     /\ changes' = IF evidence[r] # NoKey THEN changes
                   ELSE [changes EXCEPT ![r] = Append(@, "evidence_uploaded")]
     /\ UNCHANGED status

(* Mutant: the update asks for an active row. *)
RecordWhileActive(key) ==
  /\ upload[key] = "found"
  /\ IF status[key.reservation] = "active" THEN WriteEvidence(key) ELSE UNCHANGED rowVars
  /\ Resets(key, "done")
  /\ UNCHANGED <<isLocalStage, indexed, streamVars, queueVars, signed, uploads, failures>>

(* The update of either handler, whatever the row holds by now. *)
Record(key) ==
  /\ upload[key] = "found"
  /\ WriteEvidence(key)
  /\ Resets(key, "done")
  /\ UNCHANGED <<isLocalStage, indexed, streamVars, queueVars, signed, uploads, failures>>

(* A request to DynamoDB throws, or the function dies: a local call is     *)
(* over, an event of S3 is repeated MaxRetries times.                      *)
UploadFails(key) ==
  /\ upload[key] \in {"queued", "found"}
  /\ \/ key.local /\ Resets(key, "none")
     \/ /\ ~key.local /\ retries[key] < MaxRetries
        /\ upload' = [upload EXCEPT ![key] = "queued"]
        /\ retries' = [retries EXCEPT ![key] = @ + 1]
     \/ ~key.local /\ retries[key] = MaxRetries /\ Resets(key, "given_up")
  /\ UNCHANGED <<isLocalStage, rowVars, indexed, streamVars, queueVars, signed, uploads, failures>>

(* S3 or Lambda deliver an event once more.                                *)
UploadRepeats(key) ==
  /\ ~key.local /\ upload[key] \in {"missed", "given_up", "done"}
  /\ failures < MaxFailures
  /\ failures' = failures + 1
  /\ Moves(key, "queued")
  /\ UNCHANGED <<isLocalStage, rowVars, indexed, streamVars, queueVars, signed, uploads>>

Shard(u) == Invoke(u) \/ Publish(u) \/ EndBatch(u)
OnEvidenceUploaded(key) == Lookup(key) \/ Record(key)

Next ==
  \/ \E r \in Reservations :
        CreateReservation(r) \/ CancelReservation(r) \/ ExpireReservation(r) \/ IndexCatchesUp(r)
  \/ \E u \in Users : Shard(u) \/ InvocationFails(u)
  \/ ProcessNotificationQueue \/ GenerateDailyReport
  \/ \E u \in Users, r \in Reservations : GetUploadUrl(u, r)
  \/ UploadSelectedFile
  \/ \E r \in Reservations : UploadEvidenceLocal(r)
  \/ \E key \in Key : OnEvidenceUploaded(key) \/ UploadFails(key) \/ UploadRepeats(key)

(* AWS goes on calling the handlers while there is something for them.     *)
Fairness ==
  /\ \A u \in Users : WF_vars(Shard(u))
  /\ WF_vars(ProcessNotificationQueue)
  /\ \A key \in Key : WF_vars(OnEvidenceUploaded(key))

Spec == Init /\ [][Next]_vars
FairSpec == Spec /\ Fairness

(***************************************************************************)
(* Properties.                                                             *)
(***************************************************************************)
(* Retries, batches and the queue apart, what was announced of a           *)
(* reservation is what happened to it, in that order and with nothing left *)
(* out or made up.                                                         *)
AnnouncedAsItHappened == \A r \in Reservations : IsPrefix(announced[r], changes[r])

(* However often a batch, a send or a delivery is repeated, what is in the *)
(* queue or was logged of a reservation is what was announced of it: no    *)
(* message is lost between the two functions, and none is made up.         *)
MessagesAsAnnounced ==
  \A r \in Reservations, type \in Types :
    [reservation |-> r, type |-> type] \in queue \cup logged <=>
      \E i \in DOMAIN announced[r] : announced[r][i] = type

(* The log tells of a reservation only what happened to it. *)
LoggedHappened ==
  \A r \in Reservations, type \in Types :
    [reservation |-> r, type |-> type] \in logged =>
      \E i \in DOMAIN changes[r] : changes[r][i] = type

(* In the end whatever happened to a reservation was logged by the         *)
(* consumer, failed sends and dead invocations notwithstanding.            *)
ChangesAreLogged ==
  <>[](isLocalStage \/ \A r \in Reservations : \A i \in DOMAIN changes[r] :
         [reservation |-> r, type |-> changes[r][i]] \in logged)

(* The evidence of a reservation is for that reservation, its row is       *)
(* stored, and an object of the bucket was put with a link that was signed *)
(* for the owner; where there is no bucket it is none.                     *)
EvidenceIsOwn ==
  \A r \in Reservations : evidence[r] # NoKey =>
    /\ status[r] # "none" /\ evidence[r].reservation = r
    /\ evidence[r].local \/ <<Owner[r], evidence[r]>> \in signed

(* In the end every file that was put, the last one under each key, was    *)
(* written to the row of its reservation after it was put, unless the      *)
(* index did not list the reservation when its event came, or the event    *)
(* failed more often than Lambda repeats it.  Which of several files is    *)
(* written last is left to the order of their events.                      *)
FilesBecomeEvidence ==
  <>[](\A key \in Key : upload[key] # "none" =>
         key \in recorded \/ upload[key] \in {"missed", "given_up"})

(* README: on dev and prod the file goes to a signed link of S3, and every *)
(* endpoint but register and login asks for a token.                       *)
EvidenceIsSigned ==
  \A r \in Reservations :
    ~isLocalStage /\ evidence[r] # NoKey => <<Owner[r], evidence[r]>> \in signed

(***************************************************************************)
(* The rows change as FaasReservations lets them: both implement           *)
(* ReservationLife.                                                        *)
(***************************************************************************)
Life == INSTANCE ReservationLife WITH
          Ids <- Reservations, Endings <- {"cancelled", "expired"}, stage <- status

(* A reservation is stored once and ends once, as the stream will tell.    *)
ImplementsReservationLife == Life!Spec

=============================================================================
