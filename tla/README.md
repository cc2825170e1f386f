# TLA+ verification of the parking system

This directory models the parts of the repository whose correctness depends on
interleaving, failure and order: the FaaS back end (`faas-events`), the circuit
breaker of `gateway-web`, the services `rezervacije-parkiranja` and
`uporabniki`, and the pages of the web client (`spletni-vmesnik`). Each module
is checked by TLC on small instances, and its safety properties are proved with
TLAPS for every value of the constants.

## The system

Two back ends implement the same idea. The FaaS back end is a set of AWS Lambda
handlers over DynamoDB, or over one file on a developer's machine. The
microservices are `uporabniki` (accounts), `parkirisca` (parking lots) and
`rezervacije-parkiranja` (reservations), reached by the browser through
`gateway-web` and by phones through `gateway-mobile`.

| Component | State | Operations | Hard behaviour | What makes it correct | Module |
| --- | --- | --- | --- | --- | --- |
| FaaS parking lots and reservations | two DynamoDB tables, `status-index` | create lot, patch availability, create / cancel reservation, expire cron | every `ddb.send` is an await; handlers and overlapping crons interleave; a call fails between two writes; the index lags | no spot lost, invented or given twice; ended reservations stay ended; they do end | `FaasReservations` |
| FaaS notifications, report, evidence | table stream, SQS queue, S3 bucket | two batch Lambdas, upload link and handlers, report cron | delivery at least once, a batch repeated as a whole, events given up after a few failures, reordering, a lagging index, a second endpoint that writes the same attributes | changes are announced as they happened and logged; a file becomes evidence of its own reservation | `FaasEvents` |
| FaaS accounts, local database, web UI | users table, `email-index`; one JSON file; token and profile of the page | register, login, me; read, change and write of the file; logout | query and put are apart; the file is read and written without a lock by handlers in threads of their own; answers arrive after logout | one account per e-mail, accounts that were answered stay, the page shows its token's profile | `FaasAccounts` |
| gateway-web breaker | per upstream: state, failure count, opening time | `allow_request`, `record_success`, `record_failure` | outcomes of overlapping calls arrive in any order, after the circuit changed | state follows the last outcomes; an open circuit is tried again and closes | `GatewayBreaker` |
| rezervacije-parkiranja | SQLite table, in-memory event queue, STOMP connection | create, cancel, publish, worker, start, stop | checks and commits are separate transactions; broker outages; crashes; shutdown with a full queue | a user's reservations do not overlap; the events tell what the table holds | `ReservationService` |
| uporabniki and the login page | SQLite table with a UNIQUE e-mail; a session per tab, one in localStorage | register, login, me, logout, reload | check and insert are apart; a login is two requests; crashes, answers nobody waits for | an e-mail belongs to who registered it first; a session is of the account that was typed | `UserAccounts` |
| spletni-vmesnik: parking page | list, selection, panel, geocoding run, cache, form | load, refresh, update, delete, create, pick a place | answers in any order over a list that changes; a cancelled run goes on; the cache is read and written around a fetch | the panel manages a listed lot, every lot is looked up, the address is the marked place's | `ParkingPage` |
| spletni-vmesnik: reservations page and shell | session, view; list, scope, flags, form | open, leave, sign in and out; list, create, cancel, details | a page is left, and a user changes, with requests in flight; one flag for three kinds of calls | the list is the user's own and current; one creation at a time; the reserved lot is the one chosen | `WebReservations` |
| parkirisca | SQLite table | list, get, create, update, delete over HTTP and gRPC | operations of two statements; shutdown of two servers | answers true at some moment of the call | in `ParkingPage` |
| gateway-mobile | none | relays, dashboard | two reads of two services | - | - |
| Deployment | - | compose files, nginx, workflows | - | evidence for fairness and restarts | - |

Components interact by HTTP calls, by the DynamoDB stream and SQS, and by events
sent to ActiveMQ. The microservices share no data: `rezervacije-parkiranja`
never changes the availability `parkirisca` keeps, so there is no invariant
across them to state. What does interact is modelled together: a page with the
service it calls, the breaker with its callers, the evidence handlers with the
stream their writes feed.

## Modules

| Module | Role |
| --- | --- |
| `ParkingSpots` | what the FaaS tables promise: spots are taken by tickets and returned once |
| `FaasReservations` | the Lambda handlers, one action per DynamoDB request |
| `ReservationLife` | what both back ends promise of a reservation: it is stored once and ends once |
| `Outbox` | what the reservation service promises of its events: one per committed change, sent once or given up |
| `GatewayBreaker` | one circuit breaker, the calls that share it, the upstream, the clock |
| `ReservationService` | the REST handlers, table, publisher, worker, broker and process |
| `Accounts` | what the two account services have in common: people, e-mails, ids |
| `AccountBook` | what an account service promises: an e-mail is claimed once |
| `UserAccounts` | `uporabniki` and the login page in several tabs |
| `FaasAccounts` | the account functions, their page, and `db.js` on a file |
| `FaasEvents` | the stream, the notification queue and the evidence |
| `ParkingPage` | `ParkingApp.tsx` and `map.ts`, over the statements of `parkirisca` |
| `WebReservations` | `ReservationsApp.tsx` in the shell `App.tsx`, over the reservations table |
| `...Proofs` | the theorems of each component, eight modules |
| `MC...` | instances for TLC: capacities, slots, offsets, owners, the rows there are at first |

The two modules of accounts and the breaker name their parts `UAInit`, `FAInit`,
`GBInit`, ..., so that `MCServices` can extend them and `FaasEvents` side by side.

A definition named "Mutant" in a comment is a wrong variant of the definition
that follows it. No specification uses it; it stands for a plausible bug that a
property must be able to see.

### FaasReservations

A reservation id stands for the `createReservation` call that draws it, so
`createAt[r]` says where that call is: `read` after the Get and its checks,
`decremented` after the conditional update, `done` after the put.
`cancelAt`/`target` do the same for cancel calls, and `cronAt`, `cronNow`,
`cronItems`, `cronItem` for the expire cron and its loop. `available` is
`availableSpots`, `status` the attribute of the row, `indexed` what
`status-index` answers; `CreateGet` and `CancelGet` may read an older value,
because the code's Gets are not `ConsistentRead`. `CreateFails`, `CancelFails`,
`ExpireItemFails` and `ExpireDies` are the catch branches and Lambdas killed
half way. `initial`, `patched` and `leaked` are history.

Abstractions. Spots are whole numbers: `updateParkingAvailability` would store a
fraction. Times are ticks; `endText` is where the string of an end time sorts,
and the runs take `Offsets = {0}` because `web-ui/app.js` sends
`toISOString()`. Users, plates and names decide nothing beyond the early
returns, which end a handler before it changes anything.

### GatewayBreaker

`state`, `failureCount` and `elapsed` are the fields of `CircuitBreaker`;
`elapsed` is the time since `_opened_at_monotonic`, `NotOpened` stands for
`None`. `call[c]` is a call of `_forward` or `_probe_service` that awaits an
upstream which was up or down when it was sent. `DropCall` is a call that ends
without an outcome (an exception that is no `httpx.RequestError`, a
cancellation). That lines 41-43 of `circuit_breaker.py`, an open circuit without
an opening time, are never reached is a theorem (`FieldsStayInAgreement`).

### ReservationService

`row`, `owner` and `slot` are the columns; `callAt[e]` says whether the handler
of call `e` has passed its checks, committed, or published. `queue`, `sending`,
`conn` and `phase` are the publisher: its queue, the event in its worker's
hands, its connection, and whether the service runs. `HasUserOverlap` takes the
arguments as the request wrote them, because the code compares them with the
stored columns before `Reservation.create` normalises them: SQLite keeps no
offset (`_ensure_utc` in `repository.py:13-18` reads it back as UTC) and
`user_id` is stripped only when stored. `CancelCommit` is one step: the reload
in `repository.update` only decides which columns change. `Stop` waits for open
requests because uvicorn does; `Crash` loses the queue because it is an
`asyncio.Queue`. `hasty` is history: a cancellation that read a row between the
commit of its creation and the publication. The code lets it publish first, so
`CreatedFirst` says that nothing but this read can put a cancelled event ahead
of the created one.

### UserAccounts and AccountBook

A request of `uporabniki` is its use case cut at every await: `FindFree`, then
the hash, then `Save`; `FindAccount`, then the comparison, `Verify`; `GetMe`.
`better-sqlite3` is synchronous, so a statement is a step, and the loser of two
inserts gets the same 409 as who came later (`UserRepositoryDb.ts`). In the
browser `buildSession` asks for the token and then for the profile, which are
two requests of one form; `stored` is the session in localStorage, which all
tabs share and which a tab reads only when it is loaded. `GivenUp` is an answer
that is lost or comes too late, with the service going on; `Crash` ends all
requests and `Migrate` keeps the table. A password is the person who knows it,
a token the id it was signed for; tokens do not expire within a behaviour, and
no code deletes an account. `Holder` maps the rows to `AccountBook`: a step of
the service claims an e-mail nobody holds, or changes no holder.

### FaasAccounts

The same operations on DynamoDB (`stage = "dev"`), where `Query` reads an index
that `CatchUp` brings forward and `PutItem` has no condition, and on the local
file. serverless-offline runs each handler in a worker thread, so `db.js` is cut
into `ReadFile`, `OpenFile`, which has emptied the file, and `WriteFile`; of two
writers in the file at once the later may leave a rest of the earlier's text
(`"mixed"`). `OtherFunction` is a command on another collection: it writes the
users back as it read them. The history variables name what the code cannot
prevent: `blind` a query that could not see a registration under way, `raced` a
file read between another's read and write, `cut` a stop in the middle of a
write, `late` a token that changed while its profile was on its way. The
properties say that nothing else goes wrong: without such an event there are no
duplicates, no lost account, and no other's profile.

### FaasEvents

`SetStatus` is what the handlers of `FaasReservations` do to a row; here only
what reaches the stream matters, so they are one step each. The stream has a
shard per user, because `userId` is the partition key. `Invoke` gives the
handler up to `BatchSize` records of a shard; `Publish` handles one of them,
`InvocationFails` returns to the first of the same batch, as Lambda does with a
stream (the batch keeps its size while it is repeated, which
is one of the batches Lambda may choose). The queue hands over any few messages
and repeats them when the consumer fails. `MaxFailures` bounds these failures,
and deliveries of S3 beyond the first, for TLC only: `serverless.yml`
sets no number of retries for either, and the theorems hold for any.

A file goes one of two ways. `GetUploadUrl` signs a link for an object of the
bucket, `UploadSelectedFile` puts a file there, and S3 calls
`onEvidenceUploaded` asynchronously: `Lookup`, then `Record`. When such a call
fails, Lambda repeats it `MaxRetries` times (2 by default) and then drops it
(`"given_up"`); what `Lookup` misses in the index stays missed, because the
handler returns normally. The other way is `uploadEvidenceLocal`, one call that
looks the row up (`UploadEvidenceLocal`) and writes it (the same `Record`). It is
meant for the local stage, which has neither stream, queue nor bucket, but
`serverless.yml:169-174` deploys it everywhere and the handler asks for neither
stage nor user, so the model has it on both stages; its keys, `local/...`, are
those with `local` set. `EvidenceIsOwn` is what holds of both ways together, and
`EvidenceIsSigned`, which the README of `faas-events` promises for deployed
stages, is refuted by the run `faas_evidence`. Two files put under one key at
once are one event. `recorded` is history: the keys whose last file was written.
`FilesBecomeEvidence` asks it of every key. Which of several
files of a reservation is written last is up to the order of their events, and
no property says otherwise. The report's counts are left out, and a behaviour
sends one report at most.

### ParkingPage

Both modes of `ParkingApp.tsx`: `browse` with the list, the selection and the
manage panel, `create` with the form and the map. A step runs from one await to
the next with the render and the effects its state changes cause: `Geocode` is
the effect on `lots`, which cancels the run before it. A cancelled run still
waits for its fetch (`orphans`) and then writes the cache it had read before
(`map.ts`). `loads` keeps the selection of the render that called `loadLots`, as
its closure does. `parkirisca` is its statements: an update reads the row,
writes, and answers what it read; a creation inserts and reads back. Another
client creates and deletes lots. Which coordinates a lot has is abstracted to
whether it has any; filters, sorting and drawing only read this state.

### WebReservations

One tab: `App.tsx` mounts and unmounts the page, signs in and out and is
reloaded; `ReservationsApp.tsx` sends requests for the user of its session.
`calls` are the requests in flight; `live` says whether a mounted page waits for
it. A page that is left gives up all of them, but a write goes on and may still
reach the table. `handleCreateReservation` and `handleCancelReservation` await
`loadMyReservations` with the scope of the render they were clicked in: that is
the kind `relist`. `crossed` and `shared` are history: requests that overlapped,
and the flag `busy` set by two calls. `wanted` is history too: the lot that was
handed over, or chosen in the form since, as long as the loaded lists hold it.
Every `end_time` is still to come, so
"past" lists the cancelled ones. Messages, dates and the text of the lookup
panel are left out.

## Runs

Every property of a passing run comes with a mutant that it catches.

| Run | Shows | Instance |
| --- | --- | --- |
| `faas_races` | spots conserved, no overbooking, one releaser; the rows implement `ReservationLife`, nothing expires early; ended reservations expire, vacated lots fill up | 1 lot with one spot, 2 reservations, 1 cancel call, 2 overlapping recurring crons, moving clock, 1 failure, fair |
| `faas_overwrites` | count never negative, handlers implement `ParkingSpots` | 2 lots, patches to 0 and 2, requests clamped from below and above, pages of one row, 1 failure |
| `service` | the event of every committed row is in exactly one place, created before cancelled unless a hasty cancellation was let in; only creations that race overlap; every event ends, shutdown drains | 1 user, 2 creations, 1 cancellation, nested / touching intervals, 2 failures of any kind, fair |
| `parking_page` | the selection is listed, a deleted lot comes back only with a stale list, `ready` has looked up every lot, the cache keeps answers, the address is the last place's; the page comes to rest | 2 lots without coordinates, 2 loads in flight, 2 places, 2 or 3 clicks, 1 step of another client, 1 failure, fair; 607 865 states |
| `web_reservations` | the list is of the user signed in and current, one creation at a time, the lot handed over or chosen last is reserved; no flag stays set | 2 users, 2 rows, 2 lots, 3 requests in flight, 2 clicks, 4 moves in the shell, 1 failure, fair; 659 142 states |
| `services` | `uporabniki` implements the account book, keeps who was told, lets owners in, opens the right session; duplicates and lost accounts in `faas-events` only by the named races, the profile is the token's; changes announced in order and logged, every file written to its own reservation; the breaker's state follows the last outcomes, openings end, the circuit closes once the upstream stays up | four parts without shared state, one per behaviour: 2 people, 2 e-mails (one for the functions), 2 tabs, 3 submits, 1 crash or lost answer; 2 calls and 3 acts on either stage; 1 reservation, 2 files or a file and a failed batch, 1 retry of a failed event, batches of 2; 3 overlapping calls, threshold 2, timeout 2 ticks; fair; 366 642 states |

Why these bounds are enough to be interesting: a race needs two actors, and a
third shows that the first two leave nothing behind; one spot makes every
competition for it visible, and two make a partial one; two failures let an
outage be followed by a crash. A page of one row with two reservations makes the
cron miss rows. Two people and one e-mail are a race for an account; the second
tab is the one that signs out meanwhile. Two lots let a list lose its selected
lot and keep another; two loads are enough for the answers to change places.
Two files reach evidence twice, one retry is followed by giving up, and a batch
of two is repeated after its first message was sent. Four moves are sign in, open, sign out, and another's sign in
with requests in flight. Deadlock is checked where the system never stops (the
service, and the breaker in `breaker_timeout`); the other instances stop when
their calls and clicks are used up.

Runs that find a disagreement, each with a finding in `PROJECT.json`:

| Run | The code | The text it contradicts |
| --- | --- | --- |
| `breaker_timeout` | a late success closes an open circuit at once | `gateway-web/README.md:32` |
| `service_race` | two concurrent creations of one user both pass the overlap check | `service.py:41`, `test_service.py:76` |
| `service_inputs` | times in another offset, or a padded `user_id`, are compared before they are normalised, so an overlap is stored without any race | `service.py:41`, `test_service.py:76` |
| `service_cancels` | two concurrent cancellations both succeed and publish | `domena/errors.py:10` |
| `service_broker` | after an outage of ActiveMQ no event is sent until a restart | `rezervacije-parkiranja/README.md:25` |
| `faas_evidence` | the handler of the local upload is deployed on every stage, without the authorizer, and writes evidence for which no link was signed | `faas-events/README.md:51-52`, `90-91` |

## Fairness

- `FaasReservations!Fairness`: Lambda runs an invocation it has started; the
  schedule of `serverless.yml` (rate of 5 minutes) starts the cron again and
  again; an index catches up; time passes. Clients, administrators and failures
  are not fair. `EndedReservationsExpire` needs pages that hold every active
  row.
- `GatewayBreaker!GBFairness`: clients or the status page keep calling (without
  traffic an open circuit stays open, there is no timer), `httpx` ends every
  call by its timeout, time passes. The upstream owes nothing. `MCSpec` assumes it
  in behaviours of the gateway only; in the others nothing happens there.
- `ReservationService!Fairness`: the asyncio loop runs every handler and the
  worker, and docker restarts the service (`restart: unless-stopped`). Nothing
  is fair about requests, the broker, or a shutdown starting.
- `ParkingPage!Fairness`: calls of the gateway and of Nominatim are answered or
  fail, and the browser's timers run. Clicks, failures and the other client are
  not fair.
- `WebReservations!FairSpec`: every request is answered, or gives up at the
  gateway's timeout.
- `FaasEvents!Fairness`: AWS calls a shard's handler again until a batch is
  through, the consumer while there are messages, and the handler of an upload;
  failures of a behaviour end, rows and links are nobody's duty.
- `UserAccounts` and `FaasAccounts` state no fairness: what they promise is
  safety, and a login that is never answered breaks none of it.

## Proofs

Every theorem holds for all values of the constants that satisfy the `ASSUME` of
its module, with no bound on calls, failures or time other than the constants
themselves.

**FaasReservations.** `SingleReleaser` and the refinement are not inductive: a
handler that owes a spot must work on a stored row of a known lot. `FaasInv`
adds that rows which were asked for have a lot that exists (`RowsStored`,
`LotsKnown`), that leaked reservations are ended or never stored (`LeaksDead`),
that targets and queried items are stored rows (`TargetsStored`, `ItemsStored`),
and that one handler at most owes a reservation's spot (`OwedOnce`). The
conditional updates are what makes `OwedOnce` inductive: the step that starts to
owe changes the status away from active. `Refinement` maps each handler step to
one step or a stutter of `ParkingSpots`; `Conservation` counts holders along
that mapping, and `NeverOverbooked` follows from it and `NeverNegative`.
`OneSpotPerFailure` adds that `leaked` grows by one reservation at most with
each failure (`LossInv`), so a lot misses at most as many spots as calls failed.
`OneLife` shows that the rows implement `ReservationLife`; that an ended
reservation is never rewritten follows. `NothingExpiresEarly` assumes that no
client writes an end time that sorts before its instant (`TextsNotEarly`; the
web UI sends UTC, which sorts at it) and needs `CronInv`: the index lists stored
rows only, whose end is final, and what a cron still has to visit had ended by
the `now` it captured.

**GatewayBreaker.** `CountBounded` needs `RoomToCount`: in an open circuit every
further failure uses up a call in flight, so count plus calls in flight stays
below threshold plus calls. `OnlyAnswersCloseEarly` is what the code keeps of
the README's promise that `breaker_timeout` refutes: before the recovery timeout
a call is sent only when a late success has closed the circuit
(`RejectsWhileOpen`). Its invariant `OpeningKnown` ties the field `elapsed` to
the time since the circuit opened.

**ReservationService.** `EventsMatchRows` needs to know that calls which have
committed nothing have no event (`Unplaced`) and that a cancel call past its
checks works on a stored row (`CheckedStored`). `RacersOnly` assumes
`Normalised` (UTC times, no blanks), an assumption the run `service_inputs`
shows to be necessary; its invariant `RowsChecked` says of every
stored row, and `ChecksHold` of every creation past its check, that it overlaps
no active row it saw. `CreatedEventsComeFirst` needs `ReadQueued`: what a
cancellation past its check works on, unless it is hasty, is a row whose creation
has published, so that its created event is queued, in the worker's hands or
gone (`CreatedIsOut`); the queue is then first in, first out. `Refinement`
maps table, queue, worker and broker to `Outbox`: what is committed, queued or
in the worker's hands is pending, a crash gives up all of it at once. `OneLife`
holds although overlapping cancellations both succeed: the second finds the row
ended and changes nothing.

**UserAccounts.** Implementing the account book needs ids and e-mails of rows to
differ (`AccountsDiffer`) and every request to know only what is true of the
table at each of its awaits (`RequestsKnow`), which stays true because rows are
never changed. That a session is the typed one also needs each tab to wait for
one request at a time (`TabsWaitOnce`), and that no tab is `NoTab`.

**FaasAccounts.** While no two commands raced, there is one writer at most and
its copy holds all of the table (`FileAgrees`): that keeps accounts. An e-mail
nobody queried blindly has one account or one registration past its query, never
both (`ClaimsAgree`): that excludes duplicates on either stage. Unless `late`,
every profile on its way is asked with the page's token (`TokensAgree`).
Together they make each change of the table one new account of a free e-mail
(`TableStep`), so without the named races the functions implement the same
`AccountBook` as `uporabniki` (`Refinement`, whose hypothesis is
`[](~raced /\ blind = {})`), and with them a holder still loses only an e-mail
that was registered blindly (`HoldersAreKept`).

**FaasEvents.** `MaxFailures`, `MaxRetries` and `MaxUploads` are any natural
numbers in the `ASSUME`. The announcements of a reservation are a prefix of its changes.
Inductive is that the records left in its shard announce changes in their order
(`RecordsInOrder`), and that every change not announced yet has a record ahead of
where the handler reads (`RestIsAhead`); a repeated batch then announces nothing
new before its time. Each type happens to a reservation once (`RowsAgree`), so a
message names a change. `MessagesAreKept` follows a message on: what is queued or
logged of a reservation is what was announced, whatever the consumer repeats, so
the log tells only what happened (`LogIsTrue`). `UploadsAgree` says that a file
in the bucket was put with a link signed for the owner of its reservation, and
that what a handler has found is stored; `EvidenceStaysOwn` follows.

**ParkingPage.** The parts are those of the page: `GoneAgrees` (a deleted lot has
no row, and whatever still names it is stale), `AddressAgrees` (the latest
request is of the marked place), `RunAgrees` (each listed lot is resolved, was
missed, or is still the run's), `CacheAgrees` (as long as lookups did not
overlap, the one under way has read every answer), `ModesAgree`.

**WebReservations.** `PageAgrees` and `CallsAgree` say what a live request is
for and may bring; `CurrentAgrees` that without overlaps one call at most is
under way, in the scope of the page; `BusyAgrees` that `busy` belongs to the one
call that set it. `ReservedLotIsChosen` is inductive as it stands: an answered
load keeps a listed choice and ends the claim on one that is not. `OneLife` needs that every write, waited for or given up, names
a user (`WritesAgree`).

**Abstract specifications.** `ParkingSpots`, `ReservationLife`, `Outbox` and
`AccountBook` have no knowledge of how they are implemented. `ReservationLife` is
implemented by four modules: by both back ends, and by the two modules that see
such a table from outside, `FaasEvents` through its stream and `WebReservations`
through a browser tab, where reservations of earlier behaviours may be stored. TLC
checks `ParkingSpots`, `ReservationLife` (for `FaasReservations`) and
`AccountBook` (for `UserAccounts`) in the runs above.

Only model-checked: all liveness properties (`EndedReservationsExpire`,
`VacatedLotsFillUp`, `EveryOpeningEnds`, `ClosesWhenUp`, `EveryEventEnds`,
`StopDrains`, `PageSettles`, `PageRecovers`, `ChangesAreLogged`,
`FilesBecomeEvidence`) and the violations. Every invariant and action property of
a passing run is a theorem. Liveness needs `ENABLED`, and what a recursive definition computes
for every input needs induction over data; both are out of the prover's reach.
No module here declares a recursive operator.

## Not modelled

- `parkirisca`: capacity and free spots, the checks of its domain, and the
  shutdown of its two servers. Its statements are modelled as far as the parking
  page calls them; an update of spots is one `UPDATE` whose last writer wins.
- `gateway-mobile` keeps no state, each route relays one request. Deployment
  files are evidence for restarts, schedules and required brokers.
- `faas-events/web-ui/app.js`: the panels of lots and reservations replace one
  list by each answer, and its first load; `FaasReservations` takes the requests
  they send as inputs.
- The pages that the React ones replaced (`src/mfes/*.mfe.js`), which no build
  includes.
- The AWS SDK: it repeats a request whose answer was lost, and the updates
  `availableSpots - :one` and `+ :one` are not idempotent. In `FaasReservations` a
  request is applied once or not at all, and the call may fail after it.
- The order of several files of one reservation, and a file whose reservation the
  index did not list yet: the code loses both, and the properties admit it.
- The API lab of the shell, which shows the last answer and keeps it across a
  sign-out (`App.tsx:66`); filters and sorting of lots; the message that names a
  cancelled reservation.
- Read-only handlers, formatting, logging, HTML and configuration change no
  state.
