---------------------------- MODULE ParkingPage ----------------------------
(***************************************************************************)
(* The parking page of the web client, ParkingApp.tsx, in either of its    *)
(* modes: the list and its selection, the panel that manages the selected  *)
(* lot, the geocoding effect with its cache in localStorage, and the form  *)
(* that creates a lot at a place picked on the map.  A step of the page    *)
(* runs from one await to the next, with the render and the effects that   *)
(* its state changes cause.  Behind it stands parkirisca, whose operations *)
(* are one or two SQL statements, and other clients who use it as well.    *)
(* Answers arrive in any order.                                            *)
(*                                                                         *)
(* Which coordinates a lot has is abstracted to whether it has any, and a  *)
(* location text to where it came from.                                    *)
(***************************************************************************)
EXTENDS Integers, FiniteSets

CONSTANTS
  Lots,         (* ids parkirisca draws for parking lots                    *)
  NoLot,        (* null                                                     *)
  Placed,       (* lots whose row or text holds coordinates: never looked up*)
  Loads,        (* the calls of loadLots that may be in flight              *)
  Places,       (* places a click on the map may pick                       *)
  NoPlace,      (* createCoordinates when it is null                        *)
  Rows,         (* the rows there may be when the page is opened            *)
  MaxClicks,    (* bound on what the user does, in each mode                *)
  MaxOthers,    (* bound on what other clients do                           *)
  MaxFailures   (* bound on failed calls to the gateway                     *)

Modes == {"browse", "create"}

ASSUME PageAssumption ==
  /\ IsFiniteSet(Lots)
  /\ NoLot \notin Lots
  /\ Placed \subseteq Lots
  /\ NoPlace \notin Places
  /\ Rows \in [Modes -> SUBSET SUBSET Lots]
  /\ MaxClicks \in [Modes -> Nat]
  /\ MaxOthers \in Nat /\ MaxFailures \in Nat

VARIABLES
  mode,        (* the prop: browse or create                                *)
  stored,      (* rows of parking_lots                                      *)
  born,        (* ids drawn so far                                          *)
  lots,        (* the page's list                                           *)
  selected,    (* selectedLot                                               *)
  loads,       (* each call of loadLots                                     *)
  loading, refreshing, error,
  manage,      (* calls of the manage panel in flight                       *)
  manageBusy,
  coordinates, (* lots with an entry in coordinatesByLotId                  *)
  status,      (* geocodeStatus                                             *)
  run,         (* the live run of the geocoding effect                      *)
  orphans,     (* lookups a cancelled run still waits for                   *)
  cache,       (* lots whose location the cache in localStorage holds       *)
  place,       (* createCoordinates                                         *)
  text,        (* createLocation                                            *)
  reverse,     (* reverse lookups in flight                                 *)
  latest,      (* reverseLookupRequestRef                                   *)
  reverseBusy,
  creating,    (* the call of handleCreateLot                               *)
  createBusy,
  clicks, others, failures,
  answered,    (* history: lots whose lookup was answered                   *)
  missed,      (* history: lots whose last lookup by a live run failed       *)
  overlapped,  (* history: a lookup began while another was in flight       *)
  gone,        (* history: lots this page was told are deleted              *)
  stale        (* history: of these, lots an older list on its way names    *)

server == <<stored, born, others>>
list == <<lots, selected, loads, loading, refreshing, error>>
panel == <<manage, manageBusy, gone, stale>>
geo == <<coordinates, status, run, orphans, cache, answered, missed, overlapped>>
form == <<place, text, reverse, latest, reverseBusy, creating, createBusy>>
vars == <<mode, server, list, panel, geo, form, clicks, failures>>

Idle == [at |-> "idle", result |-> {}, selected |-> NoLot, creates |-> FALSE]
FirstLoad == CHOOSE k \in Loads : TRUE
NoRun == [todo |-> {}, found |-> {}, waits |-> NoLot, snapshot |-> {}]
Lookup == [lot : Lots, snapshot : SUBSET Lots]
Texts == [from : Places \cup {NoPlace}, kind : {"none", "typed", "numbers", "address"}]

TypeOK ==
  /\ mode \in Modes
  /\ stored \subseteq born /\ born \subseteq Lots
  /\ lots \subseteq Lots
  /\ selected \in Lots \cup {NoLot}
  /\ loads \in [Loads -> [at : {"idle", "sent", "answered"}, result : SUBSET Lots,
                          selected : Lots \cup {NoLot}, creates : BOOLEAN]]
  /\ {loading, refreshing, error, manageBusy, reverseBusy, createBusy, overlapped}
       \subseteq BOOLEAN
  /\ manage \subseteq [op : {"refresh", "update", "delete"}, lot : Lots,
                       at : {"sent", "read", "done", "refused"}]
  /\ {coordinates, cache, answered, missed, gone, stale} \subseteq SUBSET Lots
  /\ status \in {"idle", "resolving", "ready"}
  /\ run \in [todo : SUBSET Lots, found : SUBSET Lots, waits : Lots \cup {NoLot},
              snapshot : SUBSET Lots]
  /\ orphans \subseteq Lookup
  /\ place \in Places \cup {NoPlace}
  /\ text \in Texts
  /\ reverse \subseteq [id : Nat, place : Places]
  /\ latest \in Nat
  /\ creating \in [at : {"idle", "sent", "inserted", "done", "refused"},
                   lot : Lots \cup {NoLot}, selected : Lots \cup {NoLot}]
  /\ clicks \in 0..MaxClicks[mode] /\ others \in 0..MaxOthers /\ failures \in 0..MaxFailures

(* The page is mounted: its first effect has called loadLots. *)
Init ==
  /\ mode \in Modes
  /\ stored \in Rows[mode]
  /\ born = stored
  /\ lots = {}
  /\ selected = NoLot
  /\ loads = [k \in Loads |->
                IF k = FirstLoad THEN [Idle EXCEPT !.at = "sent"] ELSE Idle]
  /\ loading = TRUE /\ refreshing = FALSE /\ error = FALSE
  /\ manage = {} /\ manageBusy = FALSE
  /\ coordinates = {}
  /\ status = "idle"
  /\ run = NoRun
  /\ orphans = {}
  /\ cache = {}
  /\ place = NoPlace
  /\ text = [from |-> NoPlace, kind |-> "none"]
  /\ reverse = {} /\ latest = 0 /\ reverseBusy = FALSE
  /\ creating = [at |-> "idle", lot |-> NoLot, selected |-> NoLot]
  /\ createBusy = FALSE
  /\ clicks = 0 /\ others = 0 /\ failures = 0
  /\ answered = {} /\ missed = {} /\ overlapped = FALSE
  /\ gone = {} /\ stale = {}

Click ==
  /\ clicks < MaxClicks[mode]
  /\ clicks' = clicks + 1
  /\ UNCHANGED <<mode, failures>>

Fail ==
  /\ failures < MaxFailures
  /\ failures' = failures + 1
  /\ UNCHANGED <<mode, clicks>>

Progress == UNCHANGED <<mode, clicks, failures>>

-----------------------------------------------------------------------------
(* Geocoding. *)

(***************************************************************************)
(* geocodeLotLocation up to its fetch: a cached location is answered at    *)
(* once; otherwise the lookup leaves with the cache it has read.           *)
(***************************************************************************)
LookUp(l, todo, found, inFlight) ==
  IF l \in cache
  THEN /\ run' = [todo |-> todo \ {l}, found |-> found \cup {l},
                  waits |-> NoLot, snapshot |-> {}]
       /\ UNCHANGED overlapped
  ELSE /\ run' = [todo |-> todo \ {l}, found |-> found, waits |-> l, snapshot |-> cache]
       /\ overlapped' = (overlapped \/ inFlight # {})

(* The cleanup sets cancelled; what the run waits for goes on without it. *)
Cancelled ==
  IF run.waits = NoLot THEN orphans
  ELSE orphans \cup {[lot |-> run.waits, snapshot |-> run.snapshot]}

(* Mutant: a new list with nothing new to look up leaves the status alone. *)
GeocodeKeepsStatus(newLots, known) ==
  LET unresolved == newLots \ known
      todo == unresolved \ Placed
  IN  /\ orphans' = Cancelled
      /\ coordinates' = IF todo = {} THEN known \cup unresolved ELSE known
      /\ \/ /\ todo = {}
            /\ status' = IF newLots = {} THEN "idle" ELSE status
            /\ run' = NoRun
            /\ UNCHANGED overlapped
         \/ /\ status' = "resolving"
            /\ \E l \in todo : LookUp(l, todo, unresolved \cap Placed, Cancelled)
      /\ UNCHANGED <<cache, answered, missed>>

(***************************************************************************)
(* The effect on lots: it cancels the run before, and looks up every lot   *)
(* that has no coordinates yet.                                            *)
(***************************************************************************)
Geocode(newLots, known) ==
  LET unresolved == newLots \ known
      todo == unresolved \ Placed
  IN  /\ orphans' = Cancelled
      /\ coordinates' = IF todo = {} THEN known \cup unresolved ELSE known
      /\ \/ /\ todo = {}
            /\ status' = IF newLots = {} THEN "idle" ELSE "ready"
            /\ run' = NoRun
            /\ UNCHANGED overlapped
         \/ /\ status' = "resolving"
            /\ \E l \in todo : LookUp(l, todo, unresolved \cap Placed, Cancelled)
      /\ UNCHANGED <<cache, answered, missed>>

(* The pause of 300 ms is over: the next lot, or the run is complete. *)
GeocodeNext ==
  /\ status = "resolving" /\ run.waits = NoLot
  /\ \/ /\ \E l \in run.todo : LookUp(l, run.todo, run.found, orphans)
        /\ UNCHANGED <<coordinates, status>>
     \/ /\ run.todo = {}
        /\ coordinates' = coordinates \cup run.found
        /\ status' = "ready"
        /\ run' = NoRun
        /\ UNCHANGED overlapped
  /\ UNCHANGED <<orphans, cache, answered, missed, server, list, panel, form>>
  /\ Progress

(* Mutant: the cache is replaced by the one new entry. *)
RememberOnly(l, snapshot) == {l}

(* The cache that was read before the fetch, and the new entry. *)
Remember(l, snapshot) == snapshot \cup {l}

(* geocodeLotLocation after its fetch: the location is found and cached. *)
LookedUp(l, snapshot) ==
  /\ cache' = Remember(l, snapshot)
  /\ answered' = answered \cup {l}

(* Nominatim does not know the location, or the lookup fails. *)
NotFound(l) ==
  /\ missed' = missed \cup {l}
  /\ UNCHANGED <<cache, answered>>

(* The lookup the live run waits for ends, and its pause begins. *)
GeocodeAnswer ==
  /\ run.waits # NoLot
  /\ \/ /\ LookedUp(run.waits, run.snapshot)
        /\ missed' = missed \ {run.waits}
        /\ run' = [run EXCEPT !.found = @ \cup {run.waits}, !.waits = NoLot, !.snapshot = {}]
     \/ /\ NotFound(run.waits)
        /\ run' = [run EXCEPT !.waits = NoLot, !.snapshot = {}]
  /\ UNCHANGED <<coordinates, status, orphans, overlapped, server, list, panel, form>>
  /\ Progress

(* A lookup of a cancelled run ends: only the cache hears of it. *)
OrphanAnswer(o) ==
  /\ o \in orphans
  /\ orphans' = orphans \ {o}
  /\ LookedUp(o.lot, o.snapshot) \/ UNCHANGED <<cache, answered>>
  /\ UNCHANGED <<coordinates, status, run, overlapped, missed, server, list, panel, form>>
  /\ Progress

-----------------------------------------------------------------------------
(* The list. *)

(* A call of loadLots: it keeps the selection of the render it belongs to. *)
Send(k, creates, selection) ==
  /\ loads[k].at = "idle"
  /\ loads' = [loads EXCEPT ![k] = [at |-> "sent", result |-> {},
                                    selected |-> selection, creates |-> creates]]

(* Refresh, or Retry after an error, which loads in the foreground. *)
Reload(k) ==
  /\ \/ ~refreshing /\ refreshing' = TRUE /\ UNCHANGED loading
     \/ error /\ mode = "browse" /\ loading' = TRUE /\ UNCHANGED refreshing
  /\ Send(k, FALSE, selected)
  /\ UNCHANGED <<server, lots, selected, error, panel, geo, form>>
  /\ Click

(* parkirisca answers with the rows it has. *)
ListRows(k) ==
  /\ loads[k].at = "sent"
  /\ loads' = [loads EXCEPT ![k].at = "answered", ![k].result = stored]
  /\ UNCHANGED <<server, lots, selected, loading, refreshing, error, panel, geo, form>>
  /\ Progress

(* Mutant: the selection is kept whatever the answer lists. *)
ChosenStays(result, old) ==
  IF result = {} THEN {NoLot} ELSE IF old = NoLot THEN result ELSE {old}

(* The selection after a list arrives; result[0] may be any lot of it. *)
Chosen(result, old) ==
  IF result = {} THEN {NoLot} ELSE IF old \in result THEN {old} ELSE result

(* Mutant: without the finally blocks, the flags stay set. *)
LoadEndsQuietly(k) ==
  /\ loads' = [loads EXCEPT ![k] = Idle]
  /\ UNCHANGED <<loading, refreshing, place, text, reverse, latest, reverseBusy, creating,
                 createBusy>>

(* finally: the flags, and those of the creation that awaited this call. *)
LoadEnds(k) ==
  /\ loads' = [loads EXCEPT ![k] = Idle]
  /\ loading' = FALSE /\ refreshing' = FALSE
  /\ createBusy' = (createBusy /\ ~loads[k].creates)
  /\ UNCHANGED <<place, text, reverse, latest, reverseBusy, creating>>

Loaded(k) ==
  /\ loads[k].at = "answered"
  /\ lots' = loads[k].result
  /\ selected' \in Chosen(loads[k].result, loads[k].selected)
  /\ error' = FALSE
  /\ LoadEnds(k)
  /\ Geocode(loads[k].result, coordinates)
  /\ UNCHANGED <<server, panel>>
  /\ Progress

LoadFails(k) ==
  /\ loads[k].at # "idle"
  /\ error' = TRUE
  /\ LoadEnds(k)
  /\ UNCHANGED <<server, lots, selected, panel, geo>>
  /\ Fail

(* A click on a card or a marker of the list. *)
Select(l) ==
  /\ mode = "browse" /\ l \in lots
  /\ selected' = l
  /\ UNCHANGED <<server, lots, loads, loading, refreshing, error, panel, geo, form>>
  /\ Click

-----------------------------------------------------------------------------
(* The manage panel. *)

(* Mutant: the buttons stay enabled while a call is in flight. *)
ManageAnyTime(op) ==
  /\ mode = "browse" /\ selected # NoLot
  /\ manage' = manage \cup {[op |-> op, lot |-> selected, at |-> "sent"]}
  /\ manageBusy' = TRUE
  /\ UNCHANGED <<server, list, gone, stale, geo, form>>
  /\ Click

(* Refresh details, Update availability, Delete: disabled by manageBusy. *)
Manage(op) ==
  /\ mode = "browse" /\ selected # NoLot
  /\ ~manageBusy
  /\ manage' = manage \cup {[op |-> op, lot |-> selected, at |-> "sent"]}
  /\ manageBusy' = TRUE
  /\ UNCHANGED <<server, list, gone, stale, geo, form>>
  /\ Click

Becomes(m, at) == manage' = (manage \ {m}) \cup {[m EXCEPT !.at = at]}

(* GetByID, the whole of a refresh and the first statement of an update. *)
GetRow(m) ==
  /\ m.at = "sent" /\ m.op \in {"refresh", "update"}
  /\ Becomes(m, IF m.lot \notin stored THEN "refused"
                ELSE IF m.op = "update" THEN "read" ELSE "done")
  /\ UNCHANGED stored

(* The UPDATE answers the row read before it, whether or not one is left. *)
UpdateRow(m) ==
  /\ m.at = "read"
  /\ Becomes(m, "done")
  /\ UNCHANGED stored

(* DELETE, and RowsAffected. *)
DeleteRow(m) ==
  /\ m.at = "sent" /\ m.op = "delete"
  /\ Becomes(m, IF m.lot \in stored THEN "done" ELSE "refused")
  /\ stored' = stored \ {m.lot}

ServePanel(m) ==
  /\ GetRow(m) \/ UpdateRow(m) \/ DeleteRow(m)
  /\ UNCHANGED <<born, others, list, manageBusy, gone, stale, geo, form>>
  /\ Progress

PanelEnds(m) ==
  /\ manage' = manage \ {m}
  /\ manageBusy' = FALSE

(* upsertLot *)
Upsert(l) ==
  /\ lots' = lots \cup {l}
  /\ selected' = l
  /\ Geocode(lots', coordinates)
  /\ UNCHANGED <<gone, stale>>

(* What handleDeleteSelectedLot does once the lot is deleted. *)
Forget(l) ==
  /\ lots' = lots \ {l}
  /\ selected' \in IF selected # l THEN {selected}
                   ELSE IF lots' = {} THEN {NoLot} ELSE lots'
  /\ Geocode(lots', coordinates \ {l})
  /\ gone' = gone \cup {l}
  /\ stale' = stale \cup {x \in {l} : \E k \in Loads : x \in loads[k].result}

PanelAnswer(m) ==
  /\ PanelEnds(m)
  /\ \/ m.at = "done" /\ m.op # "delete" /\ Upsert(m.lot)
     \/ m.at = "done" /\ m.op = "delete" /\ Forget(m.lot)
     \/ m.at = "refused" /\ UNCHANGED <<lots, selected, geo, gone, stale>>
  /\ UNCHANGED <<server, loads, loading, refreshing, error, form>>
  /\ Progress

PanelFails(m) ==
  /\ PanelEnds(m)
  /\ UNCHANGED <<server, list, gone, stale, geo, form>>
  /\ Fail

-----------------------------------------------------------------------------
(* The form of the create mode. *)

(* handleCreateMapPick up to its await. *)
Pick(p) ==
  /\ mode = "create"
  /\ place' = p
  /\ text' = [from |-> p, kind |-> "numbers"]
  /\ latest' = latest + 1
  /\ reverse' = reverse \cup {[id |-> latest', place |-> p]}
  /\ reverseBusy' = TRUE
  /\ UNCHANGED <<creating, createBusy, server, list, panel, geo>>
  /\ Click

(* The user types a location. *)
Type ==
  /\ mode = "create"
  /\ text' = [from |-> NoPlace, kind |-> "typed"]
  /\ UNCHANGED <<place, reverse, latest, reverseBusy, creating, createBusy,
                 server, list, panel, geo>>
  /\ Click

(* Mutant: every answer fills in the address. *)
AddressArrivesLate(q) ==
  /\ text' \in {text, [from |-> q.place, kind |-> "address"]}
  /\ reverseBusy' = (reverseBusy /\ q.id # latest)

(* The answer to the latest request counts; any other is ignored. *)
AddressArrives(q) ==
  IF q.id = latest
  THEN /\ text' \in {text, [from |-> q.place, kind |-> "address"]}
       /\ reverseBusy' = FALSE
  ELSE UNCHANGED <<text, reverseBusy>>

ReverseAnswer(q) ==
  /\ reverse' = reverse \ {q}
  /\ AddressArrives(q)
  /\ UNCHANGED <<place, latest, creating, createBusy, server, list, panel, geo>>
  /\ Progress

(***************************************************************************)
(* handleCreateLot: the button is disabled while either call is in flight. *)
(* The id that parkirisca will draw is fresh.                              *)
(***************************************************************************)
Submit(l) ==
  /\ mode = "create" /\ text.kind # "none"
  /\ ~createBusy /\ ~reverseBusy
  /\ l \notin born /\ born' = born \cup {l}
  /\ createBusy' = TRUE
  /\ creating' = [at |-> "sent", lot |-> l, selected |-> selected]
  /\ UNCHANGED <<stored, others, place, text, reverse, latest, reverseBusy,
                 list, panel, geo>>
  /\ Click

(* The INSERT of repository.Create. *)
InsertRow ==
  /\ creating.at = "sent"
  /\ stored' = stored \cup {creating.lot}
  /\ creating' = [creating EXCEPT !.at = "inserted"]
  /\ UNCHANGED <<born, others, place, text, reverse, latest, reverseBusy, createBusy,
                 list, panel, geo>>
  /\ Progress

(* Its GetByID, which reads the row back. *)
ReadBack ==
  /\ creating.at = "inserted"
  /\ creating' = [creating EXCEPT !.at = IF creating.lot \in stored THEN "done" ELSE "refused"]
  /\ UNCHANGED <<place, text, reverse, latest, reverseBusy, createBusy,
                 server, list, panel, geo>>
  /\ Progress

NotCreating == [at |-> "idle", lot |-> NoLot, selected |-> NoLot]

(* The created lot is selected, and the list loaded before the form is free. *)
Created(k) ==
  /\ creating.at = "done"
  /\ selected' = creating.lot
  /\ place' = NoPlace
  /\ creating' = NotCreating
  /\ refreshing' = TRUE
  /\ Send(k, TRUE, creating.selected)
  /\ UNCHANGED <<text, reverse, latest, reverseBusy, createBusy, server, lots, loading,
                 error, panel, geo>>
  /\ Progress

CreateEnds ==
  /\ creating' = NotCreating
  /\ createBusy' = FALSE
  /\ UNCHANGED <<place, text, reverse, latest, reverseBusy, server, list, panel, geo>>

CreateRefused == creating.at = "refused" /\ CreateEnds /\ Progress
CreateFails == creating.at # "idle" /\ CreateEnds /\ Fail

-----------------------------------------------------------------------------
(* Another client creates or deletes a lot. *)
OtherClient ==
  /\ others < MaxOthers /\ others' = others + 1
  /\ \/ \E l \in Lots \ born : born' = born \cup {l} /\ stored' = stored \cup {l}
     \/ \E l \in stored : stored' = stored \ {l} /\ UNCHANGED born
  /\ UNCHANGED <<list, panel, geo, form>>
  /\ Progress

User ==
  \/ \E k \in Loads : Reload(k)
  \/ \E l \in Lots : Select(l) \/ Submit(l)
  \/ \E op \in {"refresh", "update", "delete"} : Manage(op)
  \/ \E p \in Places : Pick(p)
  \/ Type

Answer ==
  \/ \E k \in Loads : ListRows(k) \/ Loaded(k) \/ Created(k)
  \/ \E m \in manage : ServePanel(m) \/ PanelAnswer(m)
  \/ \E q \in reverse : ReverseAnswer(q)
  \/ InsertRow \/ ReadBack \/ CreateRefused

Geocoding == GeocodeNext \/ GeocodeAnswer \/ \E o \in orphans : OrphanAnswer(o)

Failure ==
  \/ \E k \in Loads : LoadFails(k)
  \/ \E m \in manage : PanelFails(m)
  \/ CreateFails

Next == User \/ Answer \/ Geocoding \/ Failure \/ OtherClient

Spec == Init /\ [][Next]_vars

(* The gateway and Nominatim answer or fail, and the browser's timers run. *)
Fairness == WF_vars(Answer) /\ WF_vars(Geocoding)

FairSpec == Spec /\ Fairness

-----------------------------------------------------------------------------
(***************************************************************************)
(* In the browse mode the selected lot is one of the list, whatever order  *)
(* list answers, panel answers and clicks come in, and there is a selected *)
(* lot unless the list is empty: the panel never manages an unlisted lot.  *)
(***************************************************************************)
SelectionListed ==
  mode = "browse" => selected \in IF lots = {} THEN {NoLot} ELSE lots

(***************************************************************************)
(* When the geocoding effect says it is ready, each listed lot either has  *)
(* coordinates or had its last lookup fail, although every change of the   *)
(* list cancels the run before and drops what it had found.                *)
(***************************************************************************)
ResolvedWhenReady ==
  /\ status = "ready" => lots \subseteq coordinates \cup missed
  /\ status = "idle" => lots = {}

(***************************************************************************)
(* README.md:38, results are cached to avoid repeated lookups: an answered *)
(* location stays cached as long as no two lookups overlapped.  Those that *)
(* do each write the cache they read before their fetch.                   *)
(***************************************************************************)
AnswersStayCached == overlapped \/ answered \subseteq cache

(***************************************************************************)
(* A lot this page was told is deleted is listed again only by a list that *)
(* parkirisca had answered before the deletion was confirmed.              *)
(***************************************************************************)
GhostsAreStale == gone \cap lots \subseteq stale

(***************************************************************************)
(* The address in the form is that of the last place picked, however late  *)
(* the addresses of earlier places arrive; a picked place that is still    *)
(* marked on the map is the one the text names.                            *)
(***************************************************************************)
AddressOfLastPick ==
  text.kind \in {"numbers", "address"} => place \in {text.from, NoPlace}

(* Once the user stops, the page stops looking up, loading and waiting,    *)
(* and no button is left disabled.                                         *)
PageSettles ==
  <>[](/\ status # "resolving" /\ ~loading /\ ~refreshing /\ ~manageBusy
       /\ ~createBusy /\ ~reverseBusy)

=============================================================================
