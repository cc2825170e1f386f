------------------------ MODULE WebReservationsProofs ------------------------
(***************************************************************************)
(* Proofs about one browser tab and its reservations page, for any users,  *)
(* reservations, lots and bounds.                                          *)
(***************************************************************************)
EXTENDS WebReservations, FiniteSetTheorems, TLAPS

(* A page that is not mounted lists nothing and waits for nothing.         *)
PageAgrees ==
  /\ session = NoUser => view = "dashboard"
  /\ ~Mounted => list = {} /\ \A c \in Slots : ~calls[c].live
  /\ \A card \in list : owner[card.id] = session

(* What the page waits for is asked, and answered, for its user; what      *)
(* nobody waits for is a write.                                            *)
CallsAgree ==
  \A c \in Slots :
    IF calls[c].live
    THEN /\ calls[c].user = session /\ calls[c].kind # "none"
         /\ \A card \in calls[c].result : owner[card.id] = session
    ELSE calls[c].kind \in {"none"} \cup Writes

(***************************************************************************)
(* As long as no calls overlapped or failed, at most one is under way that *)
(* lists or changes reservations, in the scope of the page, and until a    *)
(* change is made the list is the table's.                                 *)
(***************************************************************************)
CurrentAgrees ==
  Mounted /\ ~crossed =>
    /\ \A c, d \in InFlight(Lists \cup Writes) : c = d
    /\ \A c \in InFlight(Lists \cup Writes) :
         /\ calls[c].live /\ calls[c].scope = scope
         /\ calls[c].kind \in Lists /\ calls[c].at # "sent" =>
              calls[c].result = Listing(session, scope)
         /\ calls[c].kind \in Writes /\ calls[c].at # "done" =>
              list = Listing(session, scope)
    /\ InFlight(Lists \cup Writes) = {} => list = Listing(session, scope)

(* The kinds of calls that set busy, or keep it. *)
Setters == {"relist", "create", "cancel", "get"}

(* As long as no two calls shared it, busy belongs to the one that set it. *)
BusyAgrees ==
  ~shared =>
    /\ \A c, d \in Live(Setters) : c = d
    /\ Live(Setters) # {} => busy
    /\ \A c \in InFlight({"create"}) : calls[c].live

(* The inductive invariant. *)
TabInv ==
  TypeOK /\ PageAgrees /\ CallsAgree /\ CurrentAgrees /\ BusyAgrees /\ ReservedLotIsChosen

LEMMA NoCallIsCall ==
  NoCall \in Call /\ NoCall.kind = "none" /\ NoCall.live = FALSE /\ NoCall.result = {}
  BY DEF NoCall, Call, Scopes

LEMMA InitInv == Init => TabInv
  <1> SUFFICES ASSUME Init PROVE TabInv
    OBVIOUS
  <1>1. \A c \in Slots : calls[c] = NoCall
    BY DEF Init
  <1>2. ~Mounted
    BY DEF Init, Mounted
  <1>3. TypeOK
    <2>1. calls \in [Slots -> Call]
      BY NoCallIsCall DEF Init
    <2>2. owner \in [Rows -> Users \cup {NoUser}]
      BY TabAssumption DEF Init
    <2>3. clicks \in 0..MaxClicks /\ moves \in 0..MaxMoves /\ failures \in 0..MaxFailures
      BY TabAssumption DEF Init
    <2> QED
      BY <2>1, <2>2, <2>3 DEF Init, TypeOK, Scopes
  <1>4. PageAgrees /\ CallsAgree /\ CurrentAgrees /\ ReservedLotIsChosen
    BY <1>1, <1>2, NoCallIsCall
       DEF Init, PageAgrees, CallsAgree, CurrentAgrees, ReservedLotIsChosen
  <1>5. BusyAgrees
    BY <1>1, NoCallIsCall DEF BusyAgrees, Live, InFlight, Setters
  <1> QED
    BY <1>3, <1>4, <1>5 DEF TabInv

(* The request q takes the free slot c. *)
Sent(base, c, q) ==
  /\ base[c] = NoCall
  /\ q.live = TRUE /\ q.at = "sent" /\ q.result = {} /\ q.user = session
  /\ calls' \in [Slots -> Call] /\ calls'[c] = q
  /\ \A d \in Slots \ {c} : calls'[d] = base[d]

(* A call the page sends. *)
LEMMA Sends ==
  ASSUME TypeOK, NEW base \in [Slots -> Call], NEW kind \in {"list", "create", "cancel", "get"},
         NEW s \in Scopes, NEW row \in SUBSET Rows, Send(base, kind, s, row)
  PROVE  \E c \in Slots, q \in Call :
           Sent(base, c, q) /\ q.kind = kind /\ q.scope = s
  <1>1. PICK c \in Slots :
           /\ base[c] = NoCall
           /\ calls' = [base EXCEPT ![c] = [NoCall EXCEPT !.kind = kind, !.user = session,
                                              !.scope = s, !.row = row, !.live = TRUE]]
    BY DEF Send
  <1> DEFINE k == [NoCall EXCEPT !.kind = kind]
             u == [k EXCEPT !.user = session]
             t == [u EXCEPT !.scope = s]
             r == [t EXCEPT !.row = row]
  <1>2. PICK q : q = [r EXCEPT !.live = TRUE]
    OBVIOUS
  <1>3. q = [NoCall EXCEPT !.kind = kind, !.user = session, !.scope = s, !.row = row,
                           !.live = TRUE]
    BY <1>2
  <1>4. /\ q \in Call
        /\ q.kind = kind /\ q.user = session /\ q.scope = s /\ q.row = row
        /\ q.live = TRUE /\ q.at = "sent" /\ q.result = {}
    <2>1. k \in Call /\ k.kind = kind /\ k.at = "sent" /\ k.result = {}
      BY NoCallIsCall DEF Call, NoCall
    <2> HIDE DEF k
    <2>2. u \in Call /\ u.kind = kind /\ u.user = session /\ u.at = "sent" /\ u.result = {}
      BY <2>1 DEF Call, TypeOK
    <2> HIDE DEF u
    <2>3. /\ t \in Call /\ t.kind = kind /\ t.user = session /\ t.scope = s
          /\ t.at = "sent" /\ t.result = {}
      BY <2>2 DEF Call
    <2> HIDE DEF t
    <2>4. /\ r \in Call /\ r.kind = kind /\ r.user = session /\ r.scope = s /\ r.row = row
          /\ r.at = "sent" /\ r.result = {}
      BY <2>3 DEF Call
    <2> HIDE DEF r
    <2> QED
      BY <1>2, <2>4 DEF Call
  <1>5. calls' = [base EXCEPT ![c] = q]
    BY <1>1, <1>3
  <1>6. calls' \in [Slots -> Call] /\ calls'[c] = q /\ \A d \in Slots \ {c} : calls'[d] = base[d]
    BY <1>4, <1>5
  <1>7. Sent(base, c, q)
    BY <1>1, <1>4, <1>6 DEF Sent
  <1> QED
    BY <1>4, <1>7

(* A call the user makes the page send. *)
LEMMA SendKeeps ==
  ASSUME TabInv, Mounted, NEW kind \in {"list", "create", "cancel", "get"}, NEW row \in SUBSET Rows,
         Send(calls, kind, scope', row), scope' \in Scopes, scope' = scope \/ kind = "list",
         UNCHANGED <<table, shell, list, form>>, loadingList' \in BOOLEAN,
         (kind = "get" /\ crossed' = crossed) \/ Crosses,
         IF kind = "list" THEN UNCHANGED <<busy, shared>> ELSE SetBusy,
         clicks' \in 0..MaxClicks, UNCHANGED <<moves, failures>>
  PROVE  TabInv'
  <1> USE DEF TabInv
  <1>1. PICK s \in Scopes : s = scope' /\ Send(calls, kind, s, row)
    OBVIOUS
  <1>2. PICK c \in Slots, q \in Call : Sent(calls, c, q) /\ q.kind = kind /\ q.scope = s
    <2>1. calls \in [Slots -> Call]
      BY DEF TypeOK
    <2> QED
      BY <1>1, <2>1, Sends
  <1>3. /\ UNCHANGED <<owner, cancelled, session, stored, view, selectedLot, list>>
        /\ UNCHANGED <<parkingLots, loadingLots, parkingLotId, wanted>>
        /\ Mounted' /\ session # NoUser
    BY DEF table, shell, form, Mounted
  <1>4. /\ calls[c].kind = "none" /\ ~calls[c].live
        /\ q.live = TRUE /\ q.at = "sent" /\ q.result = {} /\ q.user = session
        /\ q.kind = kind /\ q.scope = scope'
        /\ calls' \in [Slots -> Call] /\ calls'[c] = q
        /\ \A d \in Slots \ {c} : calls'[d] = calls[d]
    BY <1>1, <1>2, NoCallIsCall DEF Sent
  <1>5. PageAgrees'
    BY <1>3 DEF PageAgrees
  <1>6. CallsAgree'
    BY <1>4, <1>3 DEF CallsAgree
  <1>7. CurrentAgrees'
    <2>1. CASE kind = "get" /\ crossed' = crossed
      <3>1. InFlight(Lists \cup Writes)' = InFlight(Lists \cup Writes)
        BY <1>4, <2>1 DEF InFlight, Lists, Writes
      <3>2. \A d \in InFlight(Lists \cup Writes) : calls'[d] = calls[d]
        BY <1>4 DEF InFlight, Lists, Writes
      <3>3. scope' = scope
        BY <2>1
      <3>4. Listing(session, scope)' = Listing(session, scope)
        BY <1>3, <3>3 DEF Listing
      <3> SUFFICES ASSUME ~crossed' PROVE CurrentAgrees'
        BY DEF CurrentAgrees
      <3>5. /\ \A d, e \in InFlight(Lists \cup Writes)' : d = e
            /\ InFlight(Lists \cup Writes)' = {} => list' = Listing(session, scope)'
        BY <1>3, <2>1, <3>1, <3>4 DEF CurrentAgrees
      <3>6. ASSUME NEW d \in InFlight(Lists \cup Writes)'
            PROVE  /\ calls'[d].live /\ calls'[d].scope = scope'
                   /\ calls'[d].kind \in Lists /\ calls'[d].at # "sent" =>
                        calls'[d].result = Listing(session, scope)'
                   /\ calls'[d].kind \in Writes /\ calls'[d].at # "done" =>
                        list' = Listing(session, scope)'
        <4>1. d \in InFlight(Lists \cup Writes) /\ ~crossed
          BY <2>1, <3>1
        <4>2. /\ calls[d].live /\ calls[d].scope = scope
              /\ calls[d].kind \in Lists /\ calls[d].at # "sent" =>
                   calls[d].result = Listing(session, scope)
              /\ calls[d].kind \in Writes /\ calls[d].at # "done" =>
                   list = Listing(session, scope)
          BY <4>1 DEF CurrentAgrees
        <4> QED
          BY <1>3, <3>2, <3>3, <3>4, <4>1, <4>2
      <3> QED
        BY <3>5, <3>6 DEF CurrentAgrees
    <2>2. CASE Crosses
      <3> SUFFICES ASSUME ~crossed' PROVE CurrentAgrees'
        BY DEF CurrentAgrees
      <3>1. ~crossed /\ InFlight(Lists \cup Writes) = {}
        BY <2>2 DEF Crosses
      <3>2. InFlight(Lists \cup Writes)' \subseteq {c}
        BY <1>4, <3>1 DEF InFlight
      <3>3. scope' = scope => list = Listing(session, scope)'
        BY <1>3, <3>1 DEF CurrentAgrees, Listing
      <3>4. kind # "get" => c \in InFlight(Lists \cup Writes)'
        BY <1>4 DEF InFlight, Lists, Writes
      <3> QED
        BY <1>3, <1>4, <3>2, <3>3, <3>4 DEF CurrentAgrees, Lists, Writes
    <2> QED
      BY <2>1, <2>2
  <1>8. BusyAgrees'
    <2>1. CASE kind = "list"
      <3>1. /\ Live(Setters)' = Live(Setters)
            /\ InFlight({"create"})' = InFlight({"create"})
        BY <1>4, <2>1 DEF Live, InFlight, Setters
      <3>2. \A d \in InFlight({"create"}) : calls'[d] = calls[d]
        BY <1>4 DEF InFlight
      <3> QED
        BY <2>1, <3>1, <3>2 DEF BusyAgrees
    <2>2. CASE kind # "list"
      <3> SUFFICES ASSUME ~shared' PROVE BusyAgrees'
        BY DEF BusyAgrees
      <3>1. busy' = TRUE /\ ~shared /\ ~busy
        BY <2>2 DEF SetBusy
      <3>2. Live(Setters) = {}
        BY <3>1 DEF BusyAgrees
      <3>3. Live(Setters)' \subseteq {c}
        BY <1>4, <3>2 DEF Live, InFlight
      <3>4. \A d \in InFlight({"create"})' : calls'[d].live
        BY <1>4, <3>1 DEF BusyAgrees, InFlight
      <3> QED
        BY <3>1, <3>3, <3>4 DEF BusyAgrees
    <2> QED
      BY <2>1, <2>2
  <1>9. ReservedLotIsChosen'
    BY <1>3 DEF ReservedLotIsChosen, Mounted
  <1>10. TypeOK'
    <2>1. crossed' \in BOOLEAN /\ shared' \in BOOLEAN /\ busy' \in BOOLEAN
      BY DEF TypeOK, Crosses, SetBusy
    <2> QED
      BY <1>4, <1>3, <2>1 DEF TypeOK
  <1> QED
    BY <1>5, <1>6, <1>7, <1>8, <1>9, <1>10

(* The user's clicks on the page. *)
LEMMA ClicksKeep ==
  ASSUME TabInv,
         \/ \E s \in Scopes : ShowScope(s)
         \/ Create \/ Get \/ \E card \in list : Cancel(card)
  PROVE  TabInv'
  <1> USE DEF TabInv
  <1>1. clicks' \in 0..MaxClicks /\ UNCHANGED <<moves, failures>>
    <2>1. Click
      BY DEF ShowScope, Create, Get, Cancel
    <2>2. clicks \in 0..MaxClicks
      BY DEF TypeOK
    <2> QED
      BY <2>1, <2>2, TabAssumption DEF Click
  <1>2. ASSUME NEW s \in Scopes, ShowScope(s) PROVE TabInv'
    <2>1. scope' = s /\ Send(calls, "list", scope', {}) /\ loadingList' = TRUE
      BY <1>2 DEF ShowScope
    <2> QED
      BY <1>1, <1>2, <2>1, SendKeeps DEF ShowScope
  <1>3. CASE Create \/ Get \/ \E card \in list : Cancel(card)
    <2>1. scope' = scope /\ loadingList' = loadingList /\ scope \in Scopes
          /\ loadingList \in BOOLEAN
      BY <1>3 DEF Create, Get, Cancel, TypeOK
    <2>2. CASE Create
      BY <1>1, <2>1, <2>2, SendKeeps DEF Create
    <2>3. CASE Get
      BY <1>1, <2>1, <2>3, SendKeeps DEF Get
    <2>4. ASSUME NEW card \in list, Cancel(card) PROVE TabInv'
      <3>1. card.id \in Rows
        BY DEF TypeOK, Card
      <3> QED
        BY <1>1, <2>1, <2>4, <3>1, SendKeeps DEF Cancel
    <2> QED
      BY <1>3, <2>2, <2>3, <2>4
  <1> QED
    BY <1>2, <1>3

(* The request of the slot c becomes q. *)
Moved(c, q) ==
  /\ calls' \in [Slots -> Call] /\ calls'[c] = q
  /\ \A d \in Slots \ {c} : calls'[d] = calls[d]

LEMMA Replaced ==
  ASSUME TypeOK, NEW c \in Slots, NEW q \in Call, calls' = [calls EXCEPT ![c] = q]
  PROVE  Moved(c, q)
  BY DEF TypeOK, Moved

(* The service's answer. *)
LEMMA AnswerMoves ==
  ASSUME TypeOK, NEW c \in Slots, NEW result \in SUBSET Card, NEW at \in {"done", "refused"},
         Answer(c, result, at)
  PROVE  \E q \in Call :
           /\ Moved(c, q)
           /\ IF calls[c].live
              THEN /\ q.kind = calls[c].kind /\ q.user = calls[c].user
                   /\ q.scope = calls[c].scope
                   /\ q.live = TRUE /\ q.at = at /\ q.result = result
              ELSE q = NoCall
  <1> DEFINE a == [calls[c] EXCEPT !.at = at]
             r == [a EXCEPT !.result = result]
             q == IF calls[c].live THEN r ELSE NoCall
  <1>1. calls[c] \in Call
    BY DEF TypeOK
  <1>2. calls' = [calls EXCEPT ![c] = q]
    BY DEF Answer
  <1>3. /\ a \in Call /\ a.kind = calls[c].kind /\ a.user = calls[c].user
        /\ a.scope = calls[c].scope /\ a.live = calls[c].live /\ a.at = at
    BY <1>1 DEF Call
  <1> HIDE DEF a
  <1>4. /\ r \in Call /\ r.kind = calls[c].kind /\ r.user = calls[c].user
        /\ r.scope = calls[c].scope /\ r.live = calls[c].live /\ r.at = at /\ r.result = result
    BY <1>3 DEF Call
  <1> HIDE DEF r
  <1>5. q \in Call
    BY <1>4, NoCallIsCall
  <1>6. calls[c].live => q.live = TRUE
    BY <1>1, <1>4 DEF Call
  <1>7. Moved(c, q)
    <2> HIDE DEF q
    <2> QED
      BY <1>2, <1>5, Replaced
  <1> QED
    BY <1>4, <1>5, <1>6, <1>7

LEMMA ListingIsCards ==
  ASSUME NEW u \in Users \cup {NoUser}, NEW s \in Scopes
  PROVE  Listing(u, s) \in SUBSET Card /\ \A card \in Listing(u, s) : owner[card.id] = u
  <1> SUFFICES ASSUME NEW card \in Listing(u, s) PROVE card \in Card /\ owner[card.id] = u
    OBVIOUS
  <1>1. PICK r \in Rows : owner[r] = u /\ card = [id |-> r, cancelled |-> r \in cancelled]
    BY DEF Listing
  <1>2. (r \in cancelled) \in BOOLEAN
    OBVIOUS
  <1>3. card.id = r
    BY <1>1
  <1>4. card \in Card
    BY <1>1, <1>2 DEF Card
  <1> QED
    BY <1>1, <1>3, <1>4

(* The service stores and lists for the page, or for a page that is left.  *)
LEMMA ServeKeeps ==
  ASSUME TabInv, NEW c \in Slots, Serve(c)
  PROVE  TabInv'
  <1> USE DEF TabInv
  <1>1. /\ calls[c] \in Call /\ calls[c].at = "sent" /\ calls[c].kind # "none"
        /\ calls[c].user \in Users \cup {NoUser} /\ calls[c].scope \in Scopes
    BY DEF TypeOK, Serve, ServeList, ServeCreate, ServeCancel, ServeGet, Call, Lists
  <1>2. /\ UNCHANGED <<session, stored, view, selectedLot, scope, list, loadingList, busy>>
        /\ UNCHANGED <<parkingLots, loadingLots, parkingLotId, wanted, crossed, shared>>
        /\ UNCHANGED <<clicks, moves, failures>>
        /\ Mounted' = Mounted
    BY DEF Serve, shell, mine, form, Progress, Mounted
  <1>3. PICK result \in SUBSET Card, at \in {"done", "refused"} :
           /\ Answer(c, result, at)
           /\ calls[c].kind \in Lists =>
                /\ UNCHANGED table
                /\ result = Listing(calls[c].user, calls[c].scope)
           /\ calls[c].kind \notin Lists => result = {}
           /\ calls[c].kind \in Writes /\ at = "refused" => UNCHANGED table
           /\ calls[c].kind \notin Writes => UNCHANGED table
    <2>1. CASE ServeList(c)
      <3>1. Listing(calls[c].user, calls[c].scope) \in SUBSET Card
        BY <1>1, ListingIsCards
      <3> QED
        BY <2>1, <3>1 DEF ServeList, Lists, Writes
    <2>2. CASE ServeCreate(c)
      BY <2>2 DEF ServeCreate, Lists, Writes, table
    <2>3. CASE ServeCancel(c)
      BY <2>3 DEF ServeCancel, Lists, Writes, table
    <2>4. CASE ServeGet(c)
      BY <2>4 DEF ServeGet, Lists, Writes
    <2> QED
      BY <2>1, <2>2, <2>3, <2>4 DEF Serve
  <1>4. PICK q \in Call :
           /\ Moved(c, q)
           /\ IF calls[c].live
              THEN /\ q.kind = calls[c].kind /\ q.user = calls[c].user
                   /\ q.scope = calls[c].scope
                   /\ q.live = TRUE /\ q.at = at /\ q.result = result
              ELSE q = NoCall
    BY <1>3, AnswerMoves
  <1>5. /\ calls' \in [Slots -> Call] /\ calls'[c] = q
        /\ \A d \in Slots \ {c} : calls'[d] = calls[d]
    BY <1>4 DEF Moved
  <1>6. /\ owner' \in [Rows -> Users \cup {NoUser}] /\ cancelled' \subseteq Rows
        /\ \A r \in Rows : owner[r] # NoUser => owner'[r] = owner[r]
    <2>1. CASE UNCHANGED table
      BY <2>1 DEF table, TypeOK
    <2>2. CASE ServeCreate(c)
      <3>1. /\ cancelled' = cancelled
            /\ owner' = owner \/ \E r \in Unused : owner' = [owner EXCEPT ![r] = calls[c].user]
        BY <2>2 DEF ServeCreate
      <3> QED
        BY <1>1, <3>1 DEF Unused, TypeOK
    <2>3. CASE ServeCancel(c)
      BY <1>1, <2>3 DEF ServeCancel, TypeOK, Call
    <2>4. UNCHANGED table \/ ServeCreate(c) \/ ServeCancel(c)
      BY DEF Serve, ServeList, ServeGet
    <2> QED
      BY <2>1, <2>2, <2>3, <2>4
  <1>7. \A card \in Card :
           Mounted /\ owner[card.id] = session => owner'[card.id] = session
    BY <1>6 DEF Mounted, Card
  <1>8. list \subseteq Card /\ \A d \in Slots : calls[d].result \subseteq Card
    BY DEF TypeOK, Call
  <1>9. calls[c].live => Mounted /\ calls[c].user = session
    BY DEF PageAgrees, CallsAgree
  <1>10. PageAgrees'
    <2>1. \A card \in list : owner'[card.id] = session
      BY <1>7, <1>8 DEF PageAgrees
    <2>2. ~Mounted => \A d \in Slots : ~calls'[d].live
      BY <1>4, <1>5, NoCallIsCall DEF PageAgrees
    <2> QED
      BY <1>2, <2>1, <2>2 DEF PageAgrees
  <1>11. \A card \in result : calls[c].live => owner[card.id] = session
    <2>1. CASE calls[c].kind \in Lists
      BY <1>1, <1>3, <1>9, <2>1, ListingIsCards
    <2>2. CASE calls[c].kind \notin Lists
      BY <1>3, <2>2
    <2> QED
      BY <2>1, <2>2
  <1>12. CallsAgree'
    <2> SUFFICES ASSUME NEW d \in Slots
                 PROVE  IF calls'[d].live
                        THEN /\ calls'[d].user = session /\ calls'[d].kind # "none"
                             /\ \A card \in calls'[d].result : owner'[card.id] = session
                        ELSE calls'[d].kind \in {"none"} \cup Writes
      BY <1>2 DEF CallsAgree
    <2>1. CASE d = c
      <3>1. CASE calls[c].live
        BY <1>1, <1>4, <1>5, <1>7, <1>9, <1>11, <2>1, <3>1
      <3>2. CASE ~calls[c].live
        BY <1>4, <1>5, <2>1, <3>2, NoCallIsCall
      <3> QED
        BY <3>1, <3>2
    <2>2. CASE d # c
      <3>1. calls[d].live => Mounted
        BY DEF PageAgrees
      <3> QED
        BY <1>5, <1>7, <1>8, <2>2, <3>1 DEF CallsAgree
    <2> QED
      BY <2>1, <2>2
  <1>13. CurrentAgrees'
    <2> SUFFICES ASSUME Mounted, ~crossed PROVE CurrentAgrees'
      BY <1>2 DEF CurrentAgrees
    <2>1. CASE c \in InFlight(Lists \cup Writes)
      <3>1. /\ InFlight(Lists \cup Writes) = {c}
            /\ calls[c].live /\ calls[c].scope = scope
            /\ calls[c].kind \in Writes => list = Listing(session, scope)
        BY <1>1, <2>1 DEF CurrentAgrees
      <3>2. InFlight(Lists \cup Writes)' = {c}
        BY <1>4, <1>5, <3>1 DEF InFlight
      <3>3. UNCHANGED table => Listing(session, scope)' = Listing(session, scope)
        BY <1>2 DEF table, Listing
      <3>4. ~(calls[c].kind \in Lists /\ calls[c].kind \in Writes)
        BY DEF Lists, Writes
      <3> QED
        BY <1>2, <1>3, <1>4, <1>5, <1>9, <3>1, <3>2, <3>3, <3>4 DEF CurrentAgrees
    <2>2. CASE c \notin InFlight(Lists \cup Writes)
      <3>1. calls[c].kind \notin Lists \cup Writes
        BY <2>2 DEF InFlight
      <3>2. Listing(session, scope)' = Listing(session, scope)
        BY <1>2, <1>3, <3>1 DEF table, Listing
      <3>3. InFlight(Lists \cup Writes)' = InFlight(Lists \cup Writes)
        BY <1>4, <1>5, <3>1, NoCallIsCall DEF InFlight, Lists, Writes
      <3>4. \A d \in InFlight(Lists \cup Writes) : calls'[d] = calls[d]
        BY <1>5, <2>2 DEF InFlight
      <3> QED
        BY <1>2, <3>2, <3>3, <3>4 DEF CurrentAgrees
    <2> QED
      BY <2>1, <2>2
  <1>14. BusyAgrees'
    <2>1. Live(Setters)' = Live(Setters)
      BY <1>4, <1>5, <1>1, NoCallIsCall DEF Live, InFlight, Call
    <2>2. \A d \in InFlight({"create"})' : d \in InFlight({"create"}) /\ calls'[d].live = calls[d].live
      BY <1>4, <1>5, <1>1, NoCallIsCall DEF InFlight, Call
    <2> QED
      BY <1>2, <2>1, <2>2 DEF BusyAgrees
  <1>15. ReservedLotIsChosen'
    BY <1>2 DEF ReservedLotIsChosen
  <1>16. TypeOK'
    BY <1>2, <1>5, <1>6 DEF TypeOK
  <1> QED
    BY <1>10, <1>12, <1>13, <1>14, <1>15, <1>16

(* What all steps of the page's own requests leave alone. *)
LEMMA FinallyTypes ==
  ASSUME TypeOK, NEW c \in Slots, Finally(c)
  PROVE  loadingList' \in BOOLEAN /\ busy' \in BOOLEAN
  BY DEF TypeOK, Finally

(* A request that ends, answered or not, gives busy back. *)
LEMMA EndFreesBusy ==
  ASSUME TypeOK, BusyAgrees, NEW c \in Slots, NEW q \in Call, Moved(c, q), Finally(c),
         calls[c].live, calls[c].kind # "none", q.live = FALSE, shared => shared',
         q.kind = "create" => shared'
  PROVE  BusyAgrees'
  <1> SUFFICES ASSUME ~shared' PROVE BusyAgrees'
    BY DEF BusyAgrees
  <1>1. /\ \A a, b \in Live(Setters) : a = b
        /\ Live(Setters) # {} => busy
        /\ \A d \in InFlight({"create"}) : calls[d].live
    BY DEF BusyAgrees
  <1>2. calls'[c] = q /\ \A d \in Slots \ {c} : calls'[d] = calls[d]
    BY DEF Moved
  <1>3. Live(Setters)' = Live(Setters) \ {c}
    BY <1>2 DEF Live, InFlight
  <1>4. Live(Setters)' # {} => busy'
    <2>1. CASE calls[c].kind = "list"
      BY <1>1, <1>3, <2>1 DEF Finally
    <2>2. CASE calls[c].kind # "list"
      <3>1. c \in Live(Setters)
        <4>1. calls[c] \in Call
          BY DEF TypeOK
        <4> QED
          BY <2>2, <4>1 DEF Call, Live, InFlight, Setters
      <3> QED
        BY <1>1, <1>3, <3>1
    <2> QED
      BY <2>1, <2>2
  <1>5. \A d \in InFlight({"create"})' : calls'[d].live
    BY <1>1, <1>2 DEF InFlight
  <1> QED
    BY <1>1, <1>3, <1>4, <1>5 DEF BusyAgrees

(* The answer of a creation or cancellation goes on to a new list. *)
LEMMA RelistKeeps ==
  ASSUME TabInv, NEW c \in Slots, Answered(c), calls[c].kind \in Writes, calls[c].at = "done"
  PROVE  TabInv'
  <1> USE DEF TabInv
  <1>1. /\ calls[c] \in Call /\ calls[c].live /\ calls[c].kind \notin Lists
        /\ calls[c].user = session
    BY DEF TypeOK, Answered, Lists, Writes, CallsAgree
  <1>2. /\ UNCHANGED <<owner, cancelled, session, stored, view, selectedLot, scope, list, busy>>
        /\ UNCHANGED <<parkingLots, loadingLots, parkingLotId, wanted, crossed, shared>>
        /\ UNCHANGED <<clicks, moves, failures>>
        /\ loadingList' = TRUE /\ Mounted' = Mounted
    BY <1>1 DEF Answered, Answers, table, shell, form, Progress, Mounted
  <1> DEFINE k == [calls[c] EXCEPT !.kind = "relist"]
             a == [k EXCEPT !.at = "sent"]
  <1>3. PICK q : q = [a EXCEPT !.row = {}]
    OBVIOUS
  <1>4. /\ q \in Call /\ q.kind = "relist" /\ q.at = "sent" /\ q.live = calls[c].live
        /\ q.user = calls[c].user /\ q.scope = calls[c].scope /\ q.result = calls[c].result
    <2>1. /\ k \in Call /\ k.kind = "relist" /\ k.live = calls[c].live
          /\ k.user = calls[c].user /\ k.scope = calls[c].scope /\ k.result = calls[c].result
      BY <1>1 DEF Call
    <2> HIDE DEF k
    <2>2. /\ a \in Call /\ a.kind = "relist" /\ a.at = "sent" /\ a.live = calls[c].live
          /\ a.user = calls[c].user /\ a.scope = calls[c].scope /\ a.result = calls[c].result
      BY <2>1 DEF Call
    <2> HIDE DEF a
    <2> QED
      BY <1>3, <2>2 DEF Call
  <1>5. /\ calls' \in [Slots -> Call] /\ calls'[c] = q
        /\ \A d \in Slots \ {c} : calls'[d] = calls[d]
    <2>1. calls' = [calls EXCEPT ![c] = q]
      BY <1>1, <1>3 DEF Answered, Answers
    <2> QED
      BY <1>4, <2>1, Replaced DEF Moved
  <1>6. PageAgrees'
    BY <1>1, <1>2 DEF PageAgrees
  <1>7. CallsAgree'
    BY <1>1, <1>2, <1>4, <1>5 DEF CallsAgree
  <1>8. CurrentAgrees'
    <2> SUFFICES ASSUME Mounted, ~crossed PROVE CurrentAgrees'
      BY <1>2 DEF CurrentAgrees
    <2>1. c \in InFlight(Lists \cup Writes)
      BY DEF InFlight
    <2>2. InFlight(Lists \cup Writes) = {c} /\ calls[c].scope = scope
      BY <2>1 DEF CurrentAgrees
    <2>3. InFlight(Lists \cup Writes)' = {c}
      BY <1>4, <1>5, <2>2 DEF InFlight, Lists
    <2> QED
      BY <1>1, <1>2, <1>4, <1>5, <2>2, <2>3 DEF CurrentAgrees, Writes
  <1>9. BusyAgrees'
    <2>1. Live(Setters)' = Live(Setters)
      BY <1>4, <1>5 DEF Live, InFlight, Setters, Writes
    <2>2. \A d \in InFlight({"create"})' : d \in InFlight({"create"}) /\ calls'[d] = calls[d]
      BY <1>4, <1>5 DEF InFlight
    <2> QED
      BY <1>2, <2>1, <2>2 DEF BusyAgrees
  <1>10. ReservedLotIsChosen'
    BY <1>2 DEF ReservedLotIsChosen
  <1>11. TypeOK'
    BY <1>2, <1>5 DEF TypeOK
  <1> QED
    BY <1>6, <1>7, <1>8, <1>9, <1>10, <1>11

(* The page takes an answer. *)
LEMMA AnsweredKeeps ==
  ASSUME TabInv, NEW c \in Slots, Answered(c)
  PROVE  TabInv'
  <1> USE DEF TabInv
  <1>1. CASE calls[c].kind \in Writes /\ calls[c].at = "done"
    BY <1>1, RelistKeeps
  <1>2. CASE ~(calls[c].kind \in Writes /\ calls[c].at = "done")
    <2>1. /\ calls[c] \in Call /\ calls[c].live /\ calls[c].at # "sent"
          /\ calls[c].kind # "none"
      BY DEF TypeOK, Answered, Answers, CallsAgree
    <2>2. /\ UNCHANGED <<owner, cancelled, session, stored, view, selectedLot, scope>>
          /\ UNCHANGED <<parkingLots, loadingLots, parkingLotId, wanted, crossed, shared>>
          /\ UNCHANGED <<clicks, moves, failures>>
          /\ Mounted' = Mounted /\ Finally(c)
          /\ list' = IF calls[c].kind \in Lists THEN calls[c].result ELSE list
      BY <1>2 DEF Answered, Answers, table, shell, form, Progress, Mounted
    <2>3. Moved(c, NoCall)
      BY <1>2, NoCallIsCall, Replaced DEF Answered, Answers
    <2>4. /\ calls' \in [Slots -> Call] /\ calls'[c] = NoCall
          /\ \A d \in Slots \ {c} : calls'[d] = calls[d]
      BY <2>3 DEF Moved
    <2>5. PageAgrees'
      <3>1. Mounted
        BY <2>1 DEF PageAgrees
      <3>2. \A card \in list' : owner[card.id] = session
        BY <2>1, <2>2 DEF PageAgrees, CallsAgree
      <3> QED
        BY <2>2, <3>1, <3>2 DEF PageAgrees
    <2>6. CallsAgree'
      BY <2>2, <2>4, NoCallIsCall DEF CallsAgree
    <2>7. CurrentAgrees'
      <3> SUFFICES ASSUME Mounted, ~crossed PROVE CurrentAgrees'
        BY <2>2 DEF CurrentAgrees
      <3>1. Listing(session, scope)' = Listing(session, scope)
        BY <2>2 DEF Listing
      <3>2. InFlight(Lists \cup Writes)' = InFlight(Lists \cup Writes) \ {c}
        BY <2>4, NoCallIsCall DEF InFlight, Lists, Writes
      <3>3. CASE c \in InFlight(Lists \cup Writes)
        <4>1. InFlight(Lists \cup Writes)' = {}
          BY <3>2, <3>3 DEF CurrentAgrees
        <4>2. list' = Listing(session, scope)
          BY <1>2, <2>1, <2>2, <3>3 DEF CurrentAgrees, InFlight, Lists, Writes
        <4> QED
          BY <3>1, <4>1, <4>2 DEF CurrentAgrees
      <3>4. CASE c \notin InFlight(Lists \cup Writes)
        <4>1. list' = list
          BY <2>2, <3>4 DEF InFlight
        <4>2. \A d \in InFlight(Lists \cup Writes) : calls'[d] = calls[d]
          BY <2>4, <3>4 DEF InFlight
        <4>3. InFlight(Lists \cup Writes)' = InFlight(Lists \cup Writes)
          BY <3>2, <3>4
        <4> QED
          BY <2>2, <3>1, <4>1, <4>2, <4>3 DEF CurrentAgrees
      <3> QED
        BY <3>3, <3>4
    <2>8. BusyAgrees'
      BY <2>1, <2>2, <2>3, NoCallIsCall, EndFreesBusy
    <2>9. ReservedLotIsChosen'
      BY <2>2 DEF ReservedLotIsChosen
    <2>10. TypeOK'
      <3>1. list' \subseteq Card /\ loadingList' \in BOOLEAN /\ busy' \in BOOLEAN
        BY <2>1, <2>2, FinallyTypes DEF TypeOK, Call
      <3> QED
        BY <2>2, <2>4, <3>1 DEF TypeOK
    <2> QED
      BY <2>5, <2>6, <2>7, <2>8, <2>9, <2>10
  <1> QED
    BY <1>1, <1>2

(* The page takes a failure. *)
LEMMA FailsKeeps ==
  ASSUME TabInv, NEW c \in Slots, Fails(c)
  PROVE  TabInv'
  <1> USE DEF TabInv
  <1>1. /\ calls[c] \in Call /\ calls[c].live /\ calls[c].kind # "none" /\ Finally(c)
        /\ crossed' = (crossed \/ calls[c].kind # "get")
        /\ shared' = (shared \/ calls[c].kind = "create")
    BY DEF TypeOK, Fails
  <1>2. /\ UNCHANGED <<owner, cancelled, session, stored, view, selectedLot, scope, list>>
        /\ UNCHANGED <<parkingLots, loadingLots, parkingLotId, wanted>>
        /\ Mounted' = Mounted
    BY DEF Fails, table, shell, form, Mounted
  <1>3. clicks' \in 0..MaxClicks /\ moves' \in 0..MaxMoves /\ failures' \in 0..MaxFailures
    <2>1. Fail
      BY DEF Fails
    <2>2. failures \in 0..MaxFailures /\ clicks \in 0..MaxClicks /\ moves \in 0..MaxMoves
      BY DEF TypeOK
    <2> QED
      BY <2>1, <2>2, TabAssumption DEF Fail
  <1>4. PICK q \in Call :
           /\ calls' = [calls EXCEPT ![c] = q]
           /\ q.live = FALSE
           /\ q.kind = "none" \/ (q.kind = calls[c].kind /\ q.kind \in Writes)
    <2>1. CASE calls[c].kind \in Writes /\ calls[c].at = "sent"
      <3> DEFINE q == [calls[c] EXCEPT !.live = FALSE]
      <3>1. q \in Call /\ q.live = FALSE /\ q.kind = calls[c].kind
        BY <1>1 DEF Call
      <3>2. calls' = [calls EXCEPT ![c] = q]
        BY <2>1 DEF Fails
      <3> QED
        BY <2>1, <3>1, <3>2
    <2>2. CASE ~(calls[c].kind \in Writes /\ calls[c].at = "sent")
      BY <2>2, NoCallIsCall DEF Fails
    <2> QED
      BY <2>1, <2>2
  <1>5. Moved(c, q)
    BY <1>4, Replaced
  <1>6. /\ calls' \in [Slots -> Call] /\ calls'[c] = q
        /\ \A d \in Slots \ {c} : calls'[d] = calls[d]
    BY <1>5 DEF Moved
  <1>7. PageAgrees'
    BY <1>1, <1>2 DEF PageAgrees
  <1>8. CallsAgree'
    BY <1>2, <1>4, <1>6 DEF CallsAgree
  <1>9. CurrentAgrees'
    <2> SUFFICES ASSUME Mounted, ~crossed' PROVE CurrentAgrees'
      BY <1>2 DEF CurrentAgrees
    <2>1. ~crossed /\ calls[c].kind = "get"
      BY <1>1
    <2>2. InFlight(Lists \cup Writes)' = InFlight(Lists \cup Writes)
      BY <1>4, <1>6, <2>1 DEF InFlight, Lists, Writes
    <2>3. \A d \in InFlight(Lists \cup Writes) : calls'[d] = calls[d]
      BY <1>6, <2>1 DEF InFlight, Lists, Writes
    <2>4. Listing(session, scope)' = Listing(session, scope)
      BY <1>2 DEF Listing
    <2> QED
      BY <1>2, <2>1, <2>2, <2>3, <2>4 DEF CurrentAgrees
  <1>10. BusyAgrees'
    BY <1>1, <1>4, <1>5, EndFreesBusy
  <1>11. ReservedLotIsChosen'
    BY <1>2 DEF ReservedLotIsChosen
  <1>12. TypeOK'
    <2>1. crossed' \in BOOLEAN /\ shared' \in BOOLEAN
      BY <1>1 DEF TypeOK
    <2> QED
      BY <1>1, <1>2, <1>3, <1>6, <2>1, FinallyTypes DEF TypeOK
  <1> QED
    BY <1>7, <1>8, <1>9, <1>10, <1>11, <1>12

(* A write nobody waits for is dropped. *)
LEMMA LostKeeps ==
  ASSUME TabInv, NEW c \in Slots, Lost(c)
  PROVE  TabInv'
  <1> USE DEF TabInv
  <1>1. /\ UNCHANGED <<owner, cancelled, session, stored, view, selectedLot, scope, list>>
        /\ UNCHANGED <<parkingLots, loadingLots, parkingLotId, wanted, crossed, shared>>
        /\ UNCHANGED <<clicks, moves, failures, loadingList, busy>>
        /\ Mounted' = Mounted
    BY DEF Lost, table, shell, mine, form, Progress, Mounted
  <1>2. /\ ~calls[c].live /\ calls[c].kind \in Writes
        /\ calls' \in [Slots -> Call] /\ calls'[c] = NoCall
        /\ \A d \in Slots \ {c} : calls'[d] = calls[d]
    BY NoCallIsCall, Replaced DEF Lost, Moved, CallsAgree
  <1>3. PageAgrees' /\ CallsAgree'
    BY <1>1, <1>2, NoCallIsCall DEF PageAgrees, CallsAgree
  <1>4. CurrentAgrees'
    <2>1. Mounted => crossed
      BY <1>2 DEF CurrentAgrees, InFlight
    <2> QED
      BY <1>1, <2>1 DEF CurrentAgrees
  <1>5. BusyAgrees'
    <2>1. Live(Setters)' = Live(Setters)
      BY <1>2, NoCallIsCall DEF Live, InFlight
    <2>2. \A d \in InFlight({"create"})' : d \in InFlight({"create"}) /\ calls'[d] = calls[d]
      BY <1>2, NoCallIsCall DEF InFlight
    <2> QED
      BY <1>1, <2>1, <2>2 DEF BusyAgrees
  <1>6. ReservedLotIsChosen' /\ TypeOK'
    BY <1>1, <1>2 DEF ReservedLotIsChosen, TypeOK
  <1> QED
    BY <1>3, <1>4, <1>5, <1>6

(* A page that is left waits for nothing. *)
LEMMA LeaveKeeps ==
  ASSUME TabInv, Leave, view' = "dashboard", {session', stored'} \subseteq Users \cup {NoUser},
         selectedLot' \in Lots \cup {NoLot}, clicks' \in 0..MaxClicks, moves' \in 0..MaxMoves,
         failures' \in 0..MaxFailures
  PROVE  TabInv'
  <1> USE DEF TabInv
  <1>1. /\ UNCHANGED <<owner, cancelled, crossed>>
        /\ scope' = "active" /\ list' = {} /\ busy' = FALSE /\ loadingList' = FALSE
        /\ parkingLots' = {} /\ loadingLots' = FALSE /\ parkingLotId' = NoLot
        /\ wanted' = NoLot
        /\ shared' = (shared \/ InFlight({"create"}) # {})
    BY DEF Leave, Fresh, table
  <1>2. ~Mounted'
    BY DEF Mounted
  <1>3. ASSUME NEW c \in Slots
        PROVE  /\ calls'[c] \in Call /\ ~calls'[c].live
               /\ calls'[c].kind = "none"
                  \/ (calls'[c].kind = calls[c].kind /\ calls'[c].kind \in Writes)
    <2>1. calls[c] \in Call
      BY DEF TypeOK
    <2>2. CASE calls[c].kind \in Writes /\ calls[c].at = "sent"
      <3>1. calls'[c] = [calls[c] EXCEPT !.live = FALSE]
        BY <2>2 DEF Leave, Abandoned
      <3> QED
        BY <2>1, <2>2, <3>1 DEF Call
    <2>3. CASE ~(calls[c].kind \in Writes /\ calls[c].at = "sent")
      <3>1. calls'[c] = NoCall
        BY <2>3 DEF Leave, Abandoned
      <3> QED
        BY <3>1, NoCallIsCall
    <2> QED
      BY <2>2, <2>3
  <1>4. calls' \in [Slots -> Call]
    <2>1. calls' = [c \in Slots |-> calls'[c]]
      BY DEF Leave, Abandoned
    <2> QED
      BY <1>3, <2>1
  <1>5. PageAgrees' /\ CallsAgree' /\ CurrentAgrees' /\ ReservedLotIsChosen'
    BY <1>1, <1>2, <1>3 DEF PageAgrees, CallsAgree, CurrentAgrees, ReservedLotIsChosen
  <1>6. BusyAgrees'
    <2> SUFFICES ASSUME ~shared' PROVE BusyAgrees'
      BY DEF BusyAgrees
    <2>1. InFlight({"create"}) = {}
      BY <1>1
    <2>2. InFlight({"create"})' = {} /\ Live(Setters)' = {}
      BY <1>3, <2>1 DEF InFlight, Live
    <2> QED
      BY <2>2 DEF BusyAgrees
  <1>7. TypeOK'
    <2>1. shared' \in BOOLEAN
      BY <1>1
    <2> QED
      BY <1>1, <1>4, <2>1 DEF TypeOK, Scopes
  <1> QED
    BY <1>5, <1>6, <1>7

(* A page that is mounted asks for the list of its user. *)
LEMMA OpenKeeps == TabInv /\ Open => TabInv'
  <1> SUFFICES ASSUME TabInv, Open PROVE TabInv'
    OBVIOUS
  <1> USE DEF TabInv
  <1>1. PICK lot \in Lots \cup {selectedLot} : Mount(lot)
    BY DEF Open
  <1>2. /\ UNCHANGED <<owner, cancelled, session, stored, shared>>
        /\ session # NoUser /\ view = "dashboard" /\ view' = "reservations"
        /\ selectedLot' = lot /\ parkingLotId' = lot /\ lot \in Lots \cup {NoLot}
        /\ scope' = "active" /\ list' = {} /\ busy' = FALSE /\ loadingList' = TRUE
        /\ parkingLots' = {} /\ loadingLots' = TRUE /\ wanted' = lot
        /\ crossed' = (InFlight(Writes) # {}) /\ Mounted'
    BY <1>1 DEF Open, Mount, Fresh, table, Mounted, TypeOK
  <1>3. clicks' \in 0..MaxClicks /\ moves' \in 0..MaxMoves /\ failures' \in 0..MaxFailures
    <2>1. Move
      BY DEF Open
    <2>2. failures \in 0..MaxFailures /\ clicks \in 0..MaxClicks /\ moves \in 0..MaxMoves
      BY DEF TypeOK
    <2> QED
      BY <2>1, <2>2, TabAssumption DEF Move
  <1>4. \A d \in Slots : ~calls[d].live /\ calls[d].kind \in {"none"} \cup Writes
    BY <1>2 DEF PageAgrees, CallsAgree, Mounted
  <1>5. PICK c \in Slots, q \in Call :
           Sent(calls, c, q) /\ q.kind = "list" /\ q.scope = "active"
    <2>1. calls \in [Slots -> Call] /\ Send(calls, "list", "active", {}) /\ "active" \in Scopes
      BY <1>1 DEF TypeOK, Mount, Scopes
    <2> QED
      BY <2>1, Sends
  <1>6. /\ q.live = TRUE /\ q.at = "sent" /\ q.result = {} /\ q.user = session
        /\ calls' \in [Slots -> Call] /\ calls'[c] = q
        /\ \A d \in Slots \ {c} : calls'[d] = calls[d]
    BY <1>5 DEF Sent
  <1>7. PageAgrees' /\ CallsAgree'
    BY <1>2, <1>4, <1>5, <1>6 DEF PageAgrees, CallsAgree
  <1>8. CurrentAgrees'
    <2> SUFFICES ASSUME ~crossed' PROVE CurrentAgrees'
      BY DEF CurrentAgrees
    <2>1. \A d \in Slots : calls[d].kind \notin Lists \cup Writes
      BY <1>2, <1>4 DEF InFlight, Lists, Writes
    <2>2. InFlight(Lists \cup Writes)' = {c}
      BY <1>5, <1>6, <2>1 DEF InFlight, Lists
    <2> QED
      BY <1>2, <1>5, <1>6, <2>2 DEF CurrentAgrees, Lists, Writes
  <1>9. BusyAgrees'
    <2>1. Live(Setters)' = {}
      BY <1>4, <1>5, <1>6 DEF Live, InFlight, Setters
    <2>2. ~shared => InFlight({"create"})' = {}
      BY <1>4, <1>5, <1>6 DEF BusyAgrees, InFlight
    <2> QED
      BY <1>2, <2>1, <2>2 DEF BusyAgrees
  <1>10. ReservedLotIsChosen'
    BY <1>2 DEF ReservedLotIsChosen
  <1>11. TypeOK'
    <2>1. crossed' \in BOOLEAN
      BY <1>2
    <2> QED
      BY <1>2, <1>3, <1>6, <2>1 DEF TypeOK, Scopes
  <1> QED
    BY <1>7, <1>8, <1>9, <1>10, <1>11

(* The lots of the form, and the sign-in of the shell, leave the list.     *)
LEMMA FormKeeps ==
  ASSUME TabInv,
         \/ LotsFail \/ RefreshLots
         \/ \E result \in SUBSET Lots : LotsAnswered(result)
         \/ \E l \in Lots \cup {NoLot} : ChooseLot(l)
  PROVE  TabInv'
  <1> USE DEF TabInv
  <1>1. /\ UNCHANGED <<owner, cancelled, session, stored, view, selectedLot>>
        /\ UNCHANGED <<scope, list, loadingList, busy, calls, crossed, shared>>
        /\ loadingLots' \in BOOLEAN
    BY DEF LotsFail, RefreshLots, LotsAnswered, ChooseLot, table, shell, mine, TypeOK
  <1>2. PageAgrees' /\ CallsAgree' /\ CurrentAgrees' /\ BusyAgrees'
    BY <1>1 DEF PageAgrees, CallsAgree, CurrentAgrees, BusyAgrees, Mounted, InFlight, Live, Listing
  <1>3. /\ ReservedLotIsChosen' /\ {parkingLotId', wanted'} \subseteq Lots \cup {NoLot}
        /\ parkingLots' \subseteq Lots
    <2>1. CASE LotsFail \/ RefreshLots
      BY <1>1, <2>1 DEF LotsFail, RefreshLots, ReservedLotIsChosen, Mounted, TypeOK
    <2>2. ASSUME NEW result \in SUBSET Lots, LotsAnswered(result)
          PROVE  /\ ReservedLotIsChosen' /\ {parkingLotId', wanted'} \subseteq Lots \cup {NoLot}
                 /\ parkingLots' \subseteq Lots
      <3>1. parkingLotId' \in Lots \cup {NoLot}
        BY <2>2 DEF LotsAnswered, Preferred
      <3>2. parkingLots' = result /\ wanted' = IF wanted \in result THEN wanted ELSE NoLot
        BY <2>2 DEF LotsAnswered
      <3>3. wanted' \in Lots \cup {NoLot}
        BY <3>2 DEF TypeOK
      <3>4. CASE wanted' = NoLot
        BY <3>1, <3>2, <3>3, <3>4 DEF ReservedLotIsChosen
      <3>5. CASE wanted' # NoLot
        <4>1. wanted \in result /\ wanted' = wanted /\ wanted # NoLot
          BY <3>2, <3>5
        <4>2. parkingLotId = wanted
          BY <2>2, <4>1 DEF ReservedLotIsChosen, LotsAnswered
        <4>3. parkingLotId' = wanted'
          BY <2>2, <4>1, <4>2 DEF LotsAnswered, Preferred
        <4> QED
          BY <3>1, <3>2, <3>3, <4>3 DEF ReservedLotIsChosen
      <3> QED
        BY <3>4, <3>5
    <2>3. ASSUME NEW l \in Lots \cup {NoLot}, ChooseLot(l)
          PROVE  /\ ReservedLotIsChosen' /\ {parkingLotId', wanted'} \subseteq Lots \cup {NoLot}
                 /\ parkingLots' \subseteq Lots
      BY <2>3 DEF ChooseLot, ReservedLotIsChosen, TypeOK
    <2> QED
      BY <2>1, <2>2, <2>3
  <1>4. clicks' \in 0..MaxClicks /\ moves' \in 0..MaxMoves /\ failures' \in 0..MaxFailures
    <2>1. Click \/ Progress \/ Fail
      BY DEF LotsFail, RefreshLots, LotsAnswered, ChooseLot
    <2>2. failures \in 0..MaxFailures /\ clicks \in 0..MaxClicks /\ moves \in 0..MaxMoves
      BY DEF TypeOK
    <2> QED
      BY <2>1, <2>2, TabAssumption DEF Click, Progress, Fail
  <1>5. TypeOK'
    BY <1>1, <1>3, <1>4 DEF TypeOK
  <1> QED
    BY <1>2, <1>3, <1>5

(* The shell leaves the page, or a user signs in. *)
LEMMA ShellKeeps ==
  ASSUME TabInv, Dashboard \/ Logout \/ Reload \/ \E u \in Users : SignIn(u)
  PROVE  TabInv'
  <1> USE DEF TabInv
  <1>1. clicks' \in 0..MaxClicks /\ moves' \in 0..MaxMoves /\ failures' \in 0..MaxFailures
    <2>1. Move
      BY DEF Dashboard, Logout, Reload, SignIn
    <2>2. failures \in 0..MaxFailures /\ clicks \in 0..MaxClicks /\ moves \in 0..MaxMoves
      BY DEF TypeOK
    <2> QED
      BY <2>1, <2>2, TabAssumption DEF Move
  <1>2. CASE Dashboard \/ Logout \/ Reload
    <2>1. /\ Leave /\ view' = "dashboard" /\ {session', stored'} \subseteq Users \cup {NoUser}
          /\ selectedLot' \in Lots \cup {NoLot}
      BY <1>2 DEF Dashboard, Logout, Reload, TypeOK
    <2> QED
      BY <1>1, <2>1, LeaveKeeps
  <1>3. ASSUME NEW u \in Users, SignIn(u) PROVE TabInv'
    <2>1. /\ UNCHANGED <<owner, cancelled, view, selectedLot, scope, list, loadingList, busy>>
          /\ UNCHANGED <<parkingLots, loadingLots, parkingLotId, wanted, calls, crossed,
                         shared>>
          /\ session = NoUser /\ session' = u /\ stored' = u
      BY <1>3 DEF SignIn, table, mine, form
    <2>2. ~Mounted /\ ~Mounted' /\ u # NoUser
      BY <2>1, TabAssumption DEF PageAgrees, Mounted
    <2>3. PageAgrees' /\ CallsAgree' /\ CurrentAgrees' /\ ReservedLotIsChosen'
      BY <2>1, <2>2 DEF PageAgrees, CallsAgree, CurrentAgrees, ReservedLotIsChosen
    <2>4. BusyAgrees' /\ TypeOK'
      BY <1>1, <2>1 DEF BusyAgrees, Live, InFlight, TypeOK
    <2> QED
      BY <2>3, <2>4
  <1> QED
    BY <1>2, <1>3

(* Every step preserves the invariant. *)
LEMMA StepInv == TabInv /\ [Next]_vars => TabInv'
  <1> SUFFICES ASSUME TabInv, [Next]_vars PROVE TabInv'
    OBVIOUS
  <1>1. CASE UNCHANGED vars
    BY <1>1 DEF vars, table, shell, mine, form, TabInv, TypeOK, PageAgrees, CallsAgree,
                CurrentAgrees, BusyAgrees, ReservedLotIsChosen, Mounted, Live, InFlight, Listing
  <1>2. CASE User
    BY <1>2, ClicksKeep, FormKeeps, OpenKeeps, ShellKeeps DEF User
  <1>3. CASE Replies
    BY <1>3, ServeKeeps, AnsweredKeeps, FormKeeps DEF Replies
  <1>4. CASE Failure
    BY <1>4, FailsKeeps, LostKeeps, FormKeeps DEF Failure
  <1> QED
    BY <1>1, <1>2, <1>3, <1>4 DEF Next

(* TabInv holds in every state of the tab. *)
THEOREM Invariant == Spec => []TabInv
  BY InitInv, StepInv, PTL DEF Spec

(* The tab keeps its types. *)
THEOREM TypeCorrect == Spec => []TypeOK
  <1>1. TabInv => TypeOK
    BY DEF TabInv
  <1> QED
    BY Invariant, <1>1, PTL

(***************************************************************************)
(* Whoever signs in, sees none of the reservations of whoever did before:  *)
(* App.tsx unmounts the page, and ReservationsApp.tsx lists for its user.  *)
(***************************************************************************)
THEOREM ListsAreOwn == Spec => []ListIsOwn
  <1>1. TabInv => ListIsOwn
    BY DEF TabInv, PageAgrees, ListIsOwn
  <1> QED
    BY Invariant, <1>1, PTL

(* A page whose requests neither overlapped nor failed shows the table as  *)
(* it is: every creation and cancellation loads the list again.            *)
THEOREM ListsAreCurrent == Spec => []ListIsCurrent
  <1>1. TabInv => ListIsCurrent
    BY DEF TabInv, CurrentAgrees, ListIsCurrent
  <1> QED
    BY Invariant, <1>1, PTL

(* The form creates one reservation at a time, as long as no two calls of  *)
(* the page shared the flag busy.                                          *)
THEOREM CreationsAreSingle == Spec => []OneCreation
  <1>1. ASSUME TabInv, ~shared
        PROVE  /\ Cardinality(InFlight({"create"})) <= 1
               /\ InFlight({"create"}) # {} => busy
    <2>1. InFlight({"create"}) \subseteq Live(Setters)
      BY <1>1 DEF TabInv, BusyAgrees, Live, InFlight, Setters
    <2>2. InFlight({"create"}) # {} => busy
      BY <1>1, <2>1 DEF TabInv, BusyAgrees
    <2>3. CASE InFlight({"create"}) = {}
      <3>1. Cardinality({}) = 0
        BY FS_EmptySet
      <3> QED
        BY <2>2, <2>3, <3>1
    <2>4. ASSUME NEW c \in InFlight({"create"}) PROVE Cardinality(InFlight({"create"})) = 1
      <3>1. InFlight({"create"}) = {c}
        BY <1>1, <2>1, <2>4 DEF TabInv, BusyAgrees
      <3> QED
        BY <3>1, FS_Singleton
    <2> QED
      BY <2>2, <2>3, <2>4
  <1>2. TabInv => OneCreation
    BY <1>1 DEF OneCreation
  <1> QED
    BY Invariant, <1>2, PTL

(* The form reserves the lot whose Reserve was clicked, or that was chosen *)
(* in it since, through every load of the lots that holds it (the updater  *)
(* of setParkingLotId).                                                    *)
THEOREM ReservedLotsAreChosen == Spec => []ReservedLotIsChosen
  <1>1. TabInv => ReservedLotIsChosen
    BY DEF TabInv
  <1> QED
    BY Invariant, <1>1, PTL

-----------------------------------------------------------------------------
(* The life of a reservation. *)

(* A write, live or abandoned, is some user's, and so is what is cancelled.*)
WritesAgree ==
  /\ \A c \in Slots : calls[c].kind \in Writes => calls[c].user # NoUser
  /\ \A r \in cancelled : owner[r] # NoUser

(* A request the page sends is its user's. *)
LEMMA SendNamesUser ==
  ASSUME TabInv, WritesAgree, session # NoUser, UNCHANGED table,
         NEW kind \in {"list", "create", "cancel", "get"}, NEW s \in Scopes,
         NEW row \in SUBSET Rows, Send(calls, kind, s, row)
  PROVE  WritesAgree'
  <1>1. calls \in [Slots -> Call]
    BY DEF TabInv, TypeOK
  <1>2. PICK c \in Slots, q \in Call : Sent(calls, c, q)
    BY <1>1, Sends DEF TabInv
  <1>3. calls'[c].user = session /\ \A d \in Slots \ {c} : calls'[d] = calls[d]
    BY <1>2 DEF Sent
  <1> QED
    BY <1>3 DEF WritesAgree, table

(* A step that sends no write keeps the users of those that go on. *)
LEMMA WritesGoOn ==
  ASSUME WritesAgree, UNCHANGED table,
         \A c \in Slots : calls'[c].kind \in Writes =>
                            calls[c].kind \in Writes /\ calls'[c].user = calls[c].user
  PROVE  WritesAgree'
  BY DEF WritesAgree, table

(* What the service stores and cancels for a request. *)
LEMMA ServeStep ==
  ASSUME TabInv, WritesAgree, NEW c \in Slots, Serve(c)
  PROVE  WritesAgree' /\ [Life!Next]_stageBar
  <1>1. TypeOK /\ calls[c] \in Call
    BY DEF TabInv, TypeOK
  <1>2. PICK result \in SUBSET Card, at \in {"done", "refused"} : Answer(c, result, at)
    <2>1. CASE ServeList(c)
      <3>1. Listing(calls[c].user, calls[c].scope) \in SUBSET Card
        BY <1>1, ListingIsCards DEF Call
      <3> QED
        BY <2>1, <3>1 DEF ServeList
    <2>2. CASE ServeCreate(c) \/ ServeCancel(c) \/ ServeGet(c)
      BY <2>2 DEF ServeCreate, ServeCancel, ServeGet
    <2> QED
      BY <2>1, <2>2 DEF Serve
  <1>3. PICK q \in Call :
           Moved(c, q) /\ (q = NoCall \/ (q.kind = calls[c].kind /\ q.user = calls[c].user))
    <2>1. PICK q \in Call :
             /\ Moved(c, q)
             /\ IF calls[c].live
                THEN /\ q.kind = calls[c].kind /\ q.user = calls[c].user
                     /\ q.scope = calls[c].scope
                     /\ q.live = TRUE /\ q.at = at /\ q.result = result
                ELSE q = NoCall
      BY <1>1, <1>2, AnswerMoves
    <2> QED
      BY <2>1
  <1>4. \A d \in Slots : calls'[d].kind \in Writes => calls'[d].user # NoUser
    BY <1>3, NoCallIsCall DEF Moved, WritesAgree, Writes
  <1>5. ASSUME UNCHANGED table PROVE WritesAgree' /\ [Life!Next]_stageBar
    BY <1>4, <1>5 DEF WritesAgree, table, stageBar, StageOf
  <1>6. ASSUME NEW r \in Unused, calls[c].kind = "create",
               owner' = [owner EXCEPT ![r] = calls[c].user], UNCHANGED cancelled
        PROVE  WritesAgree' /\ [Life!Next]_stageBar
    <2>1. r \in Rows /\ owner[r] = NoUser /\ r \notin cancelled
      BY DEF Unused, WritesAgree
    <2>2. owner'[r] # NoUser /\ \A x \in Rows \ {r} : owner'[x] = owner[x]
      BY <1>1, <1>6, <2>1 DEF TypeOK, WritesAgree, Writes
    <2>3. stageBar[r] = "none" /\ stageBar' = [stageBar EXCEPT ![r] = "active"]
      BY <1>6, <2>1, <2>2 DEF stageBar, StageOf
    <2>4. Life!Next
      BY <2>1, <2>3 DEF Life!Next, Life!Store
    <2>5. WritesAgree'
      BY <1>1, <1>4, <1>6, <2>2 DEF WritesAgree, TypeOK
    <2> QED
      BY <2>4, <2>5
  <1>7. ASSUME NEW r \in calls[c].row, calls[c].kind = "cancel", owner[r] = calls[c].user,
               r \notin cancelled, cancelled' = cancelled \cup {r}, UNCHANGED owner
        PROVE  WritesAgree' /\ [Life!Next]_stageBar
    <2>1. r \in Rows /\ owner[r] # NoUser
      BY <1>1, <1>7 DEF Call, WritesAgree, Writes
    <2>2. stageBar[r] = "active" /\ stageBar' = [stageBar EXCEPT ![r] = "cancelled"]
      BY <1>7, <2>1 DEF stageBar, StageOf
    <2>3. Life!Next
      BY <2>1, <2>2 DEF Life!Next, Life!End
    <2> QED
      BY <1>4, <1>7, <2>1, <2>3 DEF WritesAgree
  <1>8. CASE ServeList(c) \/ ServeGet(c)
    BY <1>5, <1>8 DEF ServeList, ServeGet
  <1>9. CASE ServeCreate(c)
    <2>1. CASE UNCHANGED owner
      BY <1>5, <1>9, <2>1 DEF ServeCreate, table
    <2>2. CASE /\ Unused # {}
               /\ owner' = [owner EXCEPT ![CHOOSE r \in Unused : TRUE] = calls[c].user]
      <3>1. (CHOOSE r \in Unused : TRUE) \in Unused
        BY <2>2
      <3> QED
        BY <1>6, <1>9, <2>2, <3>1 DEF ServeCreate
    <2> QED
      BY <1>9, <2>1, <2>2 DEF ServeCreate
  <1>10. CASE ServeCancel(c)
    BY <1>5, <1>7, <1>10 DEF ServeCancel, table
  <1> QED
    BY <1>8, <1>9, <1>10 DEF Serve

(* A request that is answered, fails or is left names the same user. *)
LEMMA RequestGoesOn ==
  ASSUME TabInv, WritesAgree,
         \/ \E c \in Slots : Answered(c) \/ Fails(c) \/ Lost(c)
         \/ Leave
  PROVE  WritesAgree'
  <1>1. calls \in [Slots -> Call]
    BY DEF TabInv, TypeOK
  <1>2. ASSUME NEW c \in Slots, Answered(c) PROVE WritesAgree'
    <2>1. UNCHANGED table
      BY <1>2 DEF Answered
    <2>2. calls'[c].kind \notin Writes /\ \A d \in Slots \ {c} : calls'[d] = calls[d]
      <3>1. CASE calls[c].kind \in Writes /\ calls[c].at = "done"
        <4>1. calls' = [calls EXCEPT ![c] =
                          [@ EXCEPT !.kind = "relist", !.at = "sent", !.row = {}]]
          BY <1>2, <3>1 DEF Answered, Answers
        <4>2. [calls[c] EXCEPT !.kind = "relist", !.at = "sent", !.row = {}].kind = "relist"
          BY <1>1 DEF Call
        <4> QED
          BY <1>1, <4>1, <4>2 DEF Writes
      <3>2. CASE ~(calls[c].kind \in Writes /\ calls[c].at = "done")
        BY <1>1, <1>2, <3>2, NoCallIsCall DEF Answered, Answers, Writes
      <3> QED
        BY <3>1, <3>2
    <2> QED
      BY <2>1, <2>2, WritesGoOn
  <1>3. ASSUME NEW c \in Slots, Fails(c) \/ Lost(c) PROVE WritesAgree'
    <2>1. UNCHANGED table
      BY <1>3 DEF Fails, Lost
    <2>2. \A d \in Slots \ {c} : calls'[d] = calls[d]
      BY <1>1, <1>3 DEF Fails, Lost
    <2>3. calls'[c].kind \in Writes =>
            calls[c].kind \in Writes /\ calls'[c].user = calls[c].user
      BY <1>1, <1>3, NoCallIsCall DEF Fails, Lost, Writes, Call
    <2> QED
      BY <2>1, <2>2, <2>3, WritesGoOn
  <1>4. CASE Leave
    <2>1. UNCHANGED table /\ calls' = Abandoned
      BY <1>4 DEF Leave, table
    <2>2. \A d \in Slots : calls'[d].kind \in Writes =>
            calls[d].kind \in Writes /\ calls'[d].user = calls[d].user
      BY <1>1, <2>1, NoCallIsCall DEF Abandoned, Writes, Call
    <2> QED
      BY <2>1, <2>2, WritesGoOn
  <1> QED
    BY <1>2, <1>3, <1>4

(* A step keeps the users of writes, and is one of a reservation's life.    *)
LEMMA LifeStep ==
  ASSUME TabInv, WritesAgree, [Next]_vars PROVE WritesAgree' /\ [Life!Next]_stageBar
  <1>1. ASSUME UNCHANGED table PROVE [Life!Next]_stageBar
    BY <1>1 DEF table, stageBar, StageOf
  <1>2. ASSUME UNCHANGED <<table, calls>> PROVE WritesAgree'
    BY <1>2 DEF WritesAgree, table
  <1>3. scope \in Scopes
    BY DEF TabInv, TypeOK
  <1>4. CASE \/ \E s \in Scopes : ShowScope(s)
             \/ Create \/ Get \/ \E card \in list : Cancel(card)
    <2>1. UNCHANGED table /\ session # NoUser
      BY <1>4 DEF ShowScope, Create, Get, Cancel, Mounted
    <2>2. ASSUME NEW s \in Scopes, ShowScope(s) PROVE WritesAgree'
      BY <2>1, <2>2, SendNamesUser DEF ShowScope
    <2>3. ASSUME Create PROVE WritesAgree'
      BY <1>3, <2>1, <2>3, SendNamesUser DEF Create
    <2>4. ASSUME Get PROVE WritesAgree'
      BY <1>3, <2>1, <2>4, SendNamesUser DEF Get
    <2>5. ASSUME NEW card \in list, Cancel(card) PROVE WritesAgree'
      <3>1. {card.id} \in SUBSET Rows
        BY DEF TabInv, TypeOK, Card
      <3> QED
        BY <1>3, <2>1, <2>5, <3>1, SendNamesUser DEF Cancel
    <2> QED
      BY <1>1, <1>4, <2>1, <2>2, <2>3, <2>4, <2>5
  <1>5. CASE Open
    <2>1. PICK lot \in Lots \cup {selectedLot} : Mount(lot)
      BY <1>5 DEF Open
    <2>2. UNCHANGED table /\ session # NoUser /\ Send(calls, "list", "active", {})
      BY <1>5, <2>1 DEF Open, Mount, table
    <2>3. WritesAgree'
      BY <2>2, SendNamesUser DEF Scopes
    <2> QED
      BY <1>1, <2>2, <2>3
  <1>6. CASE Dashboard \/ Logout \/ Reload
    <2>1. Leave /\ UNCHANGED table
      BY <1>6 DEF Dashboard, Logout, Reload, Leave, table
    <2> QED
      BY <1>1, <2>1, RequestGoesOn
  <1>7. CASE \E c \in Slots : Answered(c) \/ Fails(c) \/ Lost(c)
    <2>1. UNCHANGED table
      BY <1>7 DEF Answered, Fails, Lost
    <2> QED
      BY <1>1, <1>7, <2>1, RequestGoesOn
  <1>8. CASE \/ UNCHANGED vars \/ RefreshLots \/ LotsFail
             \/ \E l \in Lots \cup {NoLot} : ChooseLot(l)
             \/ \E result \in SUBSET Lots : LotsAnswered(result)
             \/ \E u \in Users : SignIn(u)
    <2>1. UNCHANGED <<table, calls>>
      BY <1>8 DEF vars, RefreshLots, LotsFail, ChooseLot, LotsAnswered, SignIn
    <2> QED
      BY <1>1, <1>2, <2>1
  <1>9. CASE \E c \in Slots : Serve(c)
    BY <1>9, ServeStep
  <1> QED
    BY <1>4, <1>5, <1>6, <1>7, <1>8, <1>9 DEF Next, User, Replies, Failure

(***************************************************************************)
(* Writes the page gave up, or was left with, may still reach the service, *)
(* and the user may ask again: a row is stored once and cancelled once     *)
(* (create_reservation and cancel_reservation behind ReservationsApp.tsx). *)
(***************************************************************************)
THEOREM OneLife == Spec => ImplementsReservationLife
  <1>1. Init => WritesAgree
    BY NoCallIsCall DEF Init, WritesAgree, Writes
  <1>2. Init => Life!Init
    <2> SUFFICES ASSUME Init PROVE stageBar \in [Rows -> {"none", "active"}]
      BY DEF Life!Init
    <2>1. \A r \in Rows : StageOf(r) \in {"none", "active"}
      BY DEF Init, StageOf
    <2> QED
      BY <2>1 DEF stageBar
  <1>3. TabInv /\ WritesAgree /\ [Next]_vars => WritesAgree' /\ [Life!Next]_stageBar
    BY LifeStep
  <1> QED
    BY <1>1, <1>2, <1>3, Invariant, PTL DEF Spec, ImplementsReservationLife, Life!Spec

=============================================================================
