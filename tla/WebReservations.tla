-------------------------- MODULE WebReservations --------------------------
(***************************************************************************)
(* One browser tab of the web client: the shell, App.tsx, that holds the   *)
(* session and mounts one page at a time, and the reservations page,       *)
(* ReservationsApp.tsx, with its list, its scope switcher, its form and    *)
(* its Cancel and Details buttons.  Every call of the page is a request in *)
(* flight; the requests of a page that is left, or that the page gave up,  *)
(* go on without it.  rezervacije-parkiranja is its table of reservations: *)
(* an operation is one step, and every end_time is still to come.          *)
(*                                                                         *)
(* Messages, the lookup panel's text and the dates of the form are left    *)
(* out: no step depends on them.                                           *)
(***************************************************************************)
EXTENDS Integers, FiniteSets

CONSTANTS
  Users, NoUser,
  Rows,         (* ids of reservations                                      *)
  Earlier,      (* what the table may hold when the tab is opened           *)
  Lots, NoLot,
  MaxCalls,     (* bound on the requests in flight                          *)
  MaxClicks,    (* bound on what the user does on the reservations page     *)
  MaxMoves,     (* bound on what the user does in the shell                 *)
  MaxFailures   (* bound on the requests that fail                          *)

ASSUME TabAssumption ==
  /\ IsFiniteSet(Rows)
  /\ Earlier \subseteq [Rows -> Users \cup {NoUser}]
  /\ NoUser \notin Users /\ NoLot \notin Lots
  /\ MaxCalls \in Nat /\ MaxClicks \in Nat /\ MaxMoves \in Nat /\ MaxFailures \in Nat

VARIABLES
  owner,       (* user_id of each row of reservations; NoUser: no row yet   *)
  cancelled,   (* rows whose status is cancelled                            *)
  session,     (* the user of the shell's session                           *)
  stored,      (* the user of the session in localStorage                   *)
  view,        (* activeView                                                *)
  selectedLot, (* the lot Reserve was clicked on                            *)
  scope, list, loadingList, busy,        (* state of the page               *)
  parkingLots, loadingLots, parkingLotId,
  calls,       (* the requests in flight                                    *)
  clicks, moves, failures,
  wanted,      (* history: the lot handed over or chosen last, while listed *)
  crossed,     (* history: two of the page's calls that list or change      *)
               (* reservations overlapped, or one failed                    *)
  shared       (* history: two calls that set busy overlapped, or a page    *)
               (* was left while it created a reservation                   *)

table == <<owner, cancelled>>
shell == <<session, stored, view, selectedLot>>
mine == <<scope, list, loadingList, busy>>
form == <<parkingLots, loadingLots, parkingLotId, wanted>>
vars == <<table, shell, mine, form, calls, clicks, moves, failures, crossed, shared>>

Scopes == {"all", "active", "past"}
Slots == 1..MaxCalls
Card == [id : Rows, cancelled : BOOLEAN]

(***************************************************************************)
(* A request: kind "relist" is the call of loadMyReservations that a       *)
(* creation or a cancellation awaits before it clears busy.                *)
(***************************************************************************)
NoCall == [kind |-> "none", user |-> NoUser, scope |-> "all", row |-> {},
           at |-> "sent", live |-> FALSE, result |-> {}]
Call == [kind : {"none", "list", "relist", "create", "cancel", "get"},
         user : Users \cup {NoUser}, scope : Scopes, row : SUBSET Rows,
         at : {"sent", "done", "refused"}, live : BOOLEAN, result : SUBSET Card]

Lists == {"list", "relist"}
Writes == {"create", "cancel"}
InFlight(kinds) == {c \in Slots : calls[c].kind \in kinds}
Live(kinds) == {c \in InFlight(kinds) : calls[c].live}
Mounted == session # NoUser /\ view = "reservations"

TypeOK ==
  /\ owner \in [Rows -> Users \cup {NoUser}]
  /\ cancelled \subseteq Rows
  /\ {session, stored} \subseteq Users \cup {NoUser}
  /\ view \in {"dashboard", "reservations"}
  /\ {selectedLot, parkingLotId, wanted} \subseteq Lots \cup {NoLot}
  /\ scope \in Scopes /\ list \subseteq Card
  /\ {loadingList, busy, loadingLots, crossed, shared} \subseteq BOOLEAN
  /\ parkingLots \subseteq Lots
  /\ calls \in [Slots -> Call]
  /\ clicks \in 0..MaxClicks /\ moves \in 0..MaxMoves /\ failures \in 0..MaxFailures

(* The tab is opened; a session may have been stored before. *)
Init ==
  /\ owner \in Earlier
  /\ cancelled = {}
  /\ stored \in Users \cup {NoUser} /\ session = stored
  /\ view = "dashboard" /\ selectedLot = NoLot
  /\ scope = "active" /\ list = {} /\ loadingList = FALSE /\ busy = FALSE
  /\ parkingLots = {} /\ loadingLots = FALSE /\ parkingLotId = NoLot
  /\ wanted = NoLot
  /\ calls = [c \in Slots |-> NoCall]
  /\ clicks = 0 /\ moves = 0 /\ failures = 0
  /\ crossed = FALSE /\ shared = FALSE

Click == clicks < MaxClicks /\ clicks' = clicks + 1 /\ UNCHANGED <<moves, failures>>
Move == moves < MaxMoves /\ moves' = moves + 1 /\ UNCHANGED <<clicks, failures>>
Fail == failures < MaxFailures /\ failures' = failures + 1 /\ UNCHANGED <<clicks, moves>>
Progress == UNCHANGED <<clicks, moves, failures>>

-----------------------------------------------------------------------------
(* Requests. *)

(* The page calls the gateway for the user of its session. *)
Send(base, kind, targetScope, row) ==
  /\ \E c \in Slots : base[c] = NoCall
  /\ calls' = [base EXCEPT ![CHOOSE c \in Slots : base[c] = NoCall] =
                 [NoCall EXCEPT !.kind = kind, !.user = session, !.scope = targetScope,
                                !.row = row, !.live = TRUE]]

(* Mutant: the answers of a page that is left reach the next one. *)
AbandonedAnswer == calls

(* What becomes of the requests of a page that is left: only writes matter. *)
Abandoned ==
  [c \in Slots |-> IF calls[c].kind \in Writes /\ calls[c].at = "sent"
                   THEN [calls[c] EXCEPT !.live = FALSE] ELSE NoCall]

(* list_user_reservations *)
Listing(u, s) ==
  {[id |-> r, cancelled |-> r \in cancelled] :
     r \in {x \in Rows : /\ owner[x] = u
                         /\ s = "active" => x \notin cancelled
                         /\ s = "past" => x \in cancelled}}

Answer(c, result, at) ==
  calls' = [calls EXCEPT ![c] = IF @.live THEN [@ EXCEPT !.at = at, !.result = result]
                                ELSE NoCall]

ServeList(c) ==
  /\ calls[c].kind \in Lists
  /\ Answer(c, Listing(calls[c].user, calls[c].scope), "done")
  /\ UNCHANGED table

Unused == {r \in Rows : owner[r] = NoUser}

(* create_reservation stores a row, or refuses an overlapping one. *)
ServeCreate(c) ==
  /\ calls[c].kind = "create"
  /\ \/ /\ Unused # {}
        /\ owner' = [owner EXCEPT ![CHOOSE r \in Unused : TRUE] = calls[c].user]
        /\ Answer(c, {}, "done")
     \/ /\ Answer(c, {}, "refused")
        /\ UNCHANGED owner
  /\ UNCHANGED cancelled

(* cancel_reservation: only the owner, and only once. *)
ServeCancel(c) ==
  /\ calls[c].kind = "cancel"
  /\ \E r \in calls[c].row :
       IF owner[r] = calls[c].user /\ r \notin cancelled
       THEN cancelled' = cancelled \cup {r} /\ Answer(c, {}, "done")
       ELSE UNCHANGED cancelled /\ Answer(c, {}, "refused")
  /\ UNCHANGED owner

ServeGet(c) == calls[c].kind = "get" /\ Answer(c, {}, "done") /\ UNCHANGED table

Serve(c) ==
  /\ calls[c].at = "sent"
  /\ ServeList(c) \/ ServeCreate(c) \/ ServeCancel(c) \/ ServeGet(c)
  /\ UNCHANGED <<shell, mine, form, crossed, shared>>
  /\ Progress

-----------------------------------------------------------------------------
(* The reservations page. *)

(* A call that lists or changes reservations while another is in flight. *)
Crosses == crossed' = (crossed \/ InFlight(Lists \cup Writes) # {})

(* Mutant: a creation forgets to set it. *)
SetBusyLate == busy' = busy /\ shared' = (shared \/ busy)

(* The flag is one for all of the calls that set it. *)
SetBusy == busy' = TRUE /\ shared' = (shared \/ busy)

(* setScope, whose effect calls loadMyReservations; Retry on an empty list. *)
ShowScope(s) ==
  /\ Mounted
  /\ s # scope \/ (~loadingList /\ list = {})
  /\ scope' = s /\ loadingList' = TRUE
  /\ Send(calls, "list", s, {})
  /\ Crosses
  /\ UNCHANGED <<table, shell, list, busy, form, shared>>
  /\ Click

(* handleCreateReservation up to its await; the button is disabled by busy. *)
Create ==
  /\ Mounted /\ ~busy /\ parkingLotId # NoLot
  /\ SetBusy
  /\ Send(calls, "create", scope, {})
  /\ Crosses
  /\ UNCHANGED <<table, shell, scope, list, loadingList, form>>
  /\ Click

(* handleCancelReservation, on a card: no flag disables it. *)
Cancel(card) ==
  /\ Mounted /\ ~loadingList /\ card \in list /\ ~card.cancelled
  /\ SetBusy
  /\ Send(calls, "cancel", scope, {card.id})
  /\ Crosses
  /\ UNCHANGED <<table, shell, scope, list, loadingList, form>>
  /\ Click

(* handleGetReservation: by Details on a card, or by its button unless busy. *)
Get ==
  /\ Mounted
  /\ ~busy \/ (~loadingList /\ list # {})
  /\ SetBusy
  /\ Send(calls, "get", scope, {})
  /\ UNCHANGED <<table, shell, scope, list, loadingList, form, crossed>>
  /\ Click

(* finally of the request c. *)
Finally(c) ==
  /\ loadingList' = (loadingList /\ calls[c].kind \notin Lists)
  /\ busy' = (busy /\ calls[c].kind = "list")

(* Mutant: a created or cancelled reservation is not followed by a new list. *)
AnswersAtOnce(c) ==
  /\ calls[c].at # "sent"
  /\ list' = IF calls[c].kind \in Lists THEN calls[c].result ELSE list
  /\ Finally(c)
  /\ calls' = [calls EXCEPT ![c] = NoCall]

(* Mutant: the awaited list clears only its own flag. *)
AnswersKeepBusy(c) ==
  /\ calls[c].at # "sent"
  /\ list' = IF calls[c].kind \in Lists THEN calls[c].result ELSE list
  /\ IF calls[c].kind \in Writes /\ calls[c].at = "done"
     THEN /\ loadingList' = TRUE
          /\ calls' = [calls EXCEPT ![c] = [@ EXCEPT !.kind = "relist", !.at = "sent", !.row = {}]]
          /\ UNCHANGED busy
     ELSE /\ loadingList' = (loadingList /\ calls[c].kind \notin Lists)
          /\ busy' = (busy /\ calls[c].kind \in Lists)
          /\ calls' = [calls EXCEPT ![c] = NoCall]

(***************************************************************************)
(* A live request is answered.  What created or cancelled a reservation    *)
(* goes on to loadMyReservations, with the scope of the render it was      *)
(* clicked in.                                                             *)
(***************************************************************************)
Answers(c) ==
  /\ calls[c].at # "sent"
  /\ list' = IF calls[c].kind \in Lists THEN calls[c].result ELSE list
  /\ IF calls[c].kind \in Writes /\ calls[c].at = "done"
     THEN /\ loadingList' = TRUE
          /\ calls' = [calls EXCEPT ![c] = [@ EXCEPT !.kind = "relist", !.at = "sent", !.row = {}]]
          /\ UNCHANGED busy
     ELSE /\ Finally(c)
          /\ calls' = [calls EXCEPT ![c] = NoCall]

Answered(c) ==
  /\ calls[c].live
  /\ Answers(c)
  /\ UNCHANGED <<table, shell, scope, form, crossed, shared>>
  /\ Progress

(* The gateway fails or gives up; the service may still do what was asked. *)
Fails(c) ==
  /\ calls[c].kind # "none" /\ calls[c].live
  /\ Finally(c)
  /\ calls' = [calls EXCEPT ![c] = IF @.kind \in Writes /\ @.at = "sent"
                                   THEN [@ EXCEPT !.live = FALSE] ELSE NoCall]
  /\ crossed' = (crossed \/ calls[c].kind # "get")
  /\ shared' = (shared \/ calls[c].kind = "create")
  /\ UNCHANGED <<table, shell, scope, list, form>>
  /\ Fail

(* A write nobody waits for never reached the service. *)
Lost(c) ==
  /\ calls[c].kind # "none" /\ ~calls[c].live
  /\ calls' = [calls EXCEPT ![c] = NoCall]
  /\ UNCHANGED <<table, shell, mine, form, crossed, shared>>
  /\ Progress

(* Mutant: the first lot of the list is chosen, whatever was chosen before. *)
PreferredFirst(result, previous) == IF result = {} THEN {NoLot} ELSE result

(* The updater of setParkingLotId; result[0] may be any lot of the list. *)
Preferred(result, previous) ==
  IF previous \in result THEN {previous} ELSE IF result = {} THEN {NoLot} ELSE result

(* loadParkingLots is answered; other clients change the lots. *)
LotsAnswered(result) ==
  /\ Mounted /\ loadingLots
  /\ loadingLots' = FALSE
  /\ parkingLots' = result
  /\ parkingLotId' \in Preferred(result, parkingLotId)
  /\ wanted' = IF wanted \in result THEN wanted ELSE NoLot
  /\ UNCHANGED <<table, shell, mine, calls, crossed, shared>>
  /\ Progress

LotsFail ==
  /\ Mounted /\ loadingLots /\ loadingLots' = FALSE
  /\ UNCHANGED <<table, shell, mine, parkingLots, parkingLotId, wanted,
                 calls, crossed, shared>>
  /\ Fail

(* Refresh lots, whose preferred lot is the chosen one. *)
RefreshLots ==
  /\ Mounted /\ ~loadingLots /\ loadingLots' = TRUE
  /\ UNCHANGED <<table, shell, mine, parkingLots, parkingLotId, wanted,
                 calls, crossed, shared>>
  /\ Click

(* The select of the form. *)
ChooseLot(l) ==
  /\ Mounted /\ ~loadingLots /\ parkingLots # {} /\ l \in parkingLots \cup {NoLot}
  /\ parkingLotId' = l /\ wanted' = l
  /\ UNCHANGED <<table, shell, mine, parkingLots, loadingLots,
                 calls, crossed, shared>>
  /\ Click

-----------------------------------------------------------------------------
(* The shell. *)

(* The state of a page begins anew whenever it is mounted. *)
Fresh(lot) ==
  /\ scope' = "active" /\ list' = {} /\ busy' = FALSE
  /\ parkingLots' = {} /\ parkingLotId' = lot /\ wanted' = lot

(* The shell leaves the reservations page, or has not shown it. *)
Leave ==
  /\ Fresh(NoLot)
  /\ loadingList' = FALSE /\ loadingLots' = FALSE
  /\ calls' = Abandoned
  /\ shared' = (shared \/ InFlight({"create"}) # {})
  /\ UNCHANGED <<table, crossed>>

(* The page is mounted: its effects load the lots and the reservations. *)
Mount(lot) ==
  /\ view' = "reservations" /\ selectedLot' = lot
  /\ Fresh(lot)
  /\ loadingList' = TRUE /\ loadingLots' = TRUE
  /\ Send(calls, "list", "active", {})
  /\ crossed' = (InFlight(Writes) # {})
  /\ UNCHANGED <<table, session, stored, shared>>

(* My Reservations; Reserve on a lot of the parking page. *)
Open ==
  /\ session # NoUser /\ view = "dashboard"
  /\ \E lot \in Lots \cup {selectedLot} : Mount(lot)
  /\ Move

(* Another view of the navigation. *)
Dashboard ==
  /\ Mounted /\ view' = "dashboard"
  /\ Leave
  /\ UNCHANGED <<session, stored, selectedLot>>
  /\ Move

(* handleLogout *)
Logout ==
  /\ session # NoUser
  /\ session' = NoUser /\ stored' = NoUser
  /\ view' = "dashboard" /\ selectedLot' = NoLot
  /\ Leave
  /\ Move

(* handleSessionChange, called by the login page. *)
SignIn(u) ==
  /\ session = NoUser
  /\ session' = u /\ stored' = u
  /\ UNCHANGED <<table, view, selectedLot, mine, form, calls, crossed, shared>>
  /\ Move

(* The tab is reloaded: loadSession. *)
Reload ==
  /\ session' = stored
  /\ view' = "dashboard" /\ selectedLot' = NoLot
  /\ Leave
  /\ UNCHANGED stored
  /\ Move

-----------------------------------------------------------------------------
User ==
  \/ \E s \in Scopes : ShowScope(s)
  \/ Create \/ Get \/ RefreshLots
  \/ \E card \in list : Cancel(card)
  \/ \E l \in Lots \cup {NoLot} : ChooseLot(l)
  \/ Open \/ Dashboard \/ Logout \/ Reload
  \/ \E u \in Users : SignIn(u)

Replies ==
  \/ \E c \in Slots : Serve(c) \/ Answered(c)
  \/ \E result \in SUBSET Lots : LotsAnswered(result)

Failure == LotsFail \/ \E c \in Slots : Fails(c) \/ Lost(c)

Next == User \/ Replies \/ Failure

Spec == Init /\ [][Next]_vars

(* Every request is answered or fails. *)
FairSpec == Spec /\ WF_vars(Replies)

-----------------------------------------------------------------------------
(***************************************************************************)
(* The page lists only reservations of the user who is signed in, although *)
(* requests of an earlier user's page may still be on their way.           *)
(***************************************************************************)
ListIsOwn == \A card \in list : Mounted /\ owner[card.id] = session

(***************************************************************************)
(* Once its requests are answered the page shows the reservations as they  *)
(* are, under the scope it names, with what the user created and cancelled *)
(* on it, unless requests overlapped or failed: then an older list, or the *)
(* list of another scope, may have come last.                              *)
(***************************************************************************)
ListIsCurrent ==
  Mounted /\ ~crossed /\ InFlight(Lists \cup Writes) = {} => list = Listing(session, scope)

(***************************************************************************)
(* The form does not submit a second reservation while the first is on its *)
(* way, unless the flag busy, which it shares with Details and Cancel, was *)
(* cleared by one of them, or the page gave the first one up.              *)
(***************************************************************************)
OneCreation ==
  ~shared => /\ Cardinality(InFlight({"create"})) <= 1
             /\ InFlight({"create"}) # {} => busy

(***************************************************************************)
(* The lot whose Reserve was clicked, or that was chosen in the form since,*)
(* is the one the form reserves, through every loading of the lots,        *)
(* repeated, late or failed, until a loaded list does not hold it.         *)
(***************************************************************************)
ReservedLotIsChosen == Mounted /\ wanted # NoLot => parkingLotId = wanted

(* The list never stays a skeleton, and the form is never disabled for good.*)
PageRecovers == []<>(~loadingList /\ ~loadingLots /\ ~busy)

-----------------------------------------------------------------------------
(* The table implements ReservationLife, as rezervacije-parkiranja does. *)

StageOf(r) ==
  IF owner[r] = NoUser THEN "none" ELSE IF r \in cancelled THEN "cancelled" ELSE "active"

stageBar == [r \in Rows |-> StageOf(r)]

Life == INSTANCE ReservationLife WITH
          Ids <- Rows, Endings <- {"cancelled"}, stage <- stageBar

(***************************************************************************)
(* Whatever a tab asks for, repeats or gives up, a reservation is stored   *)
(* once and cancelled at most once.                                        *)
(***************************************************************************)
ImplementsReservationLife == Life!Spec

=============================================================================
