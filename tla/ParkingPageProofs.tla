-------------------------- MODULE ParkingPageProofs --------------------------
(***************************************************************************)
(* Proofs about the parking page, for any lots, places, calls in flight    *)
(* and bounds.                                                             *)
(***************************************************************************)
EXTENDS ParkingPage, TLAPS

(* A lot is created in the one mode, and managed in the other. *)
ModesAgree ==
  /\ mode = "browse" => creating.at = "idle" /\ reverse = {}
  /\ mode = "create" => manage = {} /\ gone = {}
  /\ creating.at # "idle" => creating.lot \in born

(***************************************************************************)
(* A lot the page was told is deleted has no row, and what still names it, *)
(* a list on its way or the one call of the panel, is stale.               *)
(***************************************************************************)
GoneAgrees ==
  /\ gone \subseteq born \ stored
  /\ GhostsAreStale
  /\ \A k \in Loads : loads[k].result \cap gone \subseteq stale
  /\ \A m, n \in manage : m = n
  /\ manage # {} => manageBusy
  /\ \A m \in manage :
       /\ m.lot \in gone => m.lot \in stale
       /\ m.at = "read" => m.op = "update"
       /\ m.op = "delete" /\ m.at = "done" => m.lot \in born \ stored

(* The answer to the latest request is the address of the marked place.    *)
AddressAgrees ==
  /\ AddressOfLastPick
  /\ \A q \in reverse :
       q.id <= latest /\ (q.id = latest => place \in {q.place, NoPlace})

(* Each lot of the list is resolved, was missed, or is still the run's.    *)
RunAgrees ==
  /\ status = "idle" => lots = {}
  /\ status # "resolving" => run = NoRun
  /\ lots \subseteq coordinates \cup missed \cup run.todo \cup run.found \cup {run.waits}

(* As long as no lookups overlapped, the one under way has read every      *)
(* answer from the cache.                                                  *)
CacheAgrees ==
  ~overlapped =>
    /\ answered \subseteq cache
    /\ \A a, b \in orphans : a = b
    /\ \A a \in orphans : answered \subseteq a.snapshot
    /\ run.waits # NoLot => orphans = {} /\ answered \subseteq run.snapshot

(* The inductive invariant. *)
PageInv ==
  /\ TypeOK /\ SelectionListed /\ ModesAgree /\ GoneAgrees /\ AddressAgrees
  /\ RunAgrees /\ CacheAgrees

(* The types of the geocoding state, and of all the other state. *)
GeoTypes ==
  /\ {coordinates, cache, answered, missed} \subseteq SUBSET Lots
  /\ status \in {"idle", "resolving", "ready"}
  /\ run \in [todo : SUBSET Lots, found : SUBSET Lots, waits : Lots \cup {NoLot},
              snapshot : SUBSET Lots]
  /\ orphans \subseteq Lookup
  /\ overlapped \in BOOLEAN

Loading == [at : {"idle", "sent", "answered"}, result : SUBSET Lots,
            selected : Lots \cup {NoLot}, creates : BOOLEAN]
PanelCall == [op : {"refresh", "update", "delete"}, lot : Lots,
              at : {"sent", "read", "done", "refused"}]
Creation == [at : {"idle", "sent", "inserted", "done", "refused"},
             lot : Lots \cup {NoLot}, selected : Lots \cup {NoLot}]

ListTypes ==
  /\ lots \subseteq Lots /\ selected \in Lots \cup {NoLot}
  /\ loads \in [Loads -> Loading]
  /\ {loading, refreshing, error} \subseteq BOOLEAN

PanelTypes ==
  /\ manage \subseteq PanelCall /\ manageBusy \in BOOLEAN
  /\ {gone, stale} \subseteq SUBSET Lots

FormTypes ==
  /\ place \in Places \cup {NoPlace} /\ text \in Texts
  /\ reverse \subseteq [id : Nat, place : Places] /\ latest \in Nat
  /\ creating \in Creation
  /\ {reverseBusy, createBusy} \subseteq BOOLEAN

ServerTypes == stored \subseteq born /\ born \subseteq Lots

CountTypes ==
  mode \in Modes /\ clicks \in 0..MaxClicks[mode] /\ others \in 0..MaxOthers
                 /\ failures \in 0..MaxFailures

LEMMA TypeParts ==
  TypeOK <=> ServerTypes /\ ListTypes /\ PanelTypes /\ GeoTypes /\ FormTypes /\ CountTypes
  BY DEF TypeOK, ServerTypes, ListTypes, PanelTypes, GeoTypes, FormTypes, CountTypes, Loading,
         PanelCall, Creation

LEMMA InitInv == Init => PageInv
  <1> SUFFICES ASSUME Init PROVE PageInv
    OBVIOUS
  <1>1. ServerTypes
    BY PageAssumption DEF Init, ServerTypes
  <1>2. ASSUME NEW k \in Loads PROVE loads[k] \in Loading /\ loads[k].result = {}
    <2>1. Idle \in Loading /\ Idle.result = {}
      BY DEF Idle, Loading
    <2>2. [Idle EXCEPT !.at = "sent"] \in Loading /\ [Idle EXCEPT !.at = "sent"].result = {}
      BY DEF Idle, Loading
    <2> QED
      BY <2>1, <2>2 DEF Init
  <1>3. ListTypes
    <2>1. loads = [k \in Loads |-> loads[k]]
      BY DEF Init
    <2> QED
      BY <1>2, <2>1 DEF Init, ListTypes
  <1>4. PanelTypes
    BY DEF Init, PanelTypes
  <1>5. GeoTypes
    BY DEF Init, GeoTypes, NoRun
  <1>6. FormTypes
    BY DEF Init, FormTypes, Texts, Creation
  <1>7. CountTypes
    BY PageAssumption DEF Init, CountTypes
  <1>8. SelectionListed /\ ModesAgree /\ AddressAgrees
    BY DEF Init, SelectionListed, ModesAgree, AddressAgrees, AddressOfLastPick
  <1>9. GoneAgrees
    BY DEF Init, GoneAgrees, GhostsAreStale
  <1>10. RunAgrees /\ CacheAgrees
    BY DEF Init, RunAgrees, CacheAgrees, NoRun
  <1> QED
    BY <1>1, <1>3, <1>4, <1>5, <1>6, <1>7, <1>8, <1>9, <1>10, TypeParts DEF PageInv

(* A lookup drops no lot: it is found in the cache, or waited for. *)
LEMMA LookUpMoves ==
  ASSUME GeoTypes, NEW todo \in SUBSET Lots, NEW l \in todo, NEW found \in SUBSET Lots,
         NEW inFlight, LookUp(l, todo, found, inFlight)
  PROVE  /\ run' \in [todo : SUBSET Lots, found : SUBSET Lots, waits : Lots \cup {NoLot},
                      snapshot : SUBSET Lots]
         /\ todo \cup found \subseteq run'.todo \cup run'.found \cup {run'.waits}
         /\ overlapped' \in BOOLEAN
         /\ ~overlapped' =>
              ~overlapped /\ (run'.waits = NoLot \/ (inFlight = {} /\ run'.snapshot = cache))
  <1>1. overlapped \in BOOLEAN
    BY DEF GeoTypes
  <1>2. CASE l \in cache
    <2>1. /\ run' = [todo |-> todo \ {l}, found |-> found \cup {l}, waits |-> NoLot,
                     snapshot |-> {}]
          /\ overlapped' = overlapped
      BY <1>2 DEF LookUp
    <2> QED
      BY <1>1, <2>1
  <1>3. CASE l \notin cache
    <2>1. /\ run' = [todo |-> todo \ {l}, found |-> found, waits |-> l, snapshot |-> cache]
          /\ overlapped' = (overlapped \/ inFlight # {})
      BY <1>3 DEF LookUp
    <2>2. /\ overlapped' \in BOOLEAN
          /\ ~overlapped' => ~overlapped /\ inFlight = {}
      BY <1>1, <2>1
    <2> QED
      BY <2>1, <2>2 DEF GeoTypes
  <1> QED
    BY <1>2, <1>3

(* A change of the list: the run before is cancelled, and a new one has    *)
(* all the lots that have no coordinates.                                  *)
LEMMA GeocodeKeeps ==
  ASSUME GeoTypes, CacheAgrees, NEW newLots \in SUBSET Lots, NEW known \in SUBSET Lots,
         lots' = newLots, Geocode(newLots, known)
  PROVE  GeoTypes' /\ RunAgrees' /\ CacheAgrees'
  <1> DEFINE unresolved == newLots \ known
             todo == unresolved \ Placed
  <1>1. /\ orphans' = Cancelled /\ UNCHANGED <<cache, answered, missed>>
        /\ coordinates' = IF todo = {} THEN known \cup unresolved ELSE known
    BY DEF Geocode
  <1>2. Cancelled \subseteq Lookup
    BY DEF Cancelled, GeoTypes, Lookup
  <1>3. ~overlapped =>
          /\ answered \subseteq cache
          /\ \A a, b \in Cancelled : a = b
          /\ \A a \in Cancelled : answered \subseteq a.snapshot
    BY DEF Cancelled, CacheAgrees
  <1>4. CASE todo = {}
    <2>1. run' = NoRun /\ status' \in {"idle", "ready"} /\ (status' = "idle" => newLots = {})
          /\ overlapped' = overlapped
      BY <1>4 DEF Geocode
    <2>2. newLots \subseteq coordinates'
      BY <1>1, <1>4
    <2>3. GeoTypes'
      BY <1>1, <1>2, <2>1 DEF GeoTypes, NoRun
    <2>4. RunAgrees'
      BY <2>1, <2>2 DEF RunAgrees
    <2>5. CacheAgrees'
      BY <1>1, <1>3, <2>1 DEF CacheAgrees, NoRun
    <2> QED
      BY <2>3, <2>4, <2>5
  <1>5. CASE todo # {}
    <2>1. /\ status' = "resolving" /\ coordinates' = known
          /\ \E l \in todo : LookUp(l, todo, unresolved \cap Placed, Cancelled)
      BY <1>1, <1>5 DEF Geocode
    <2>2. /\ run' \in [todo : SUBSET Lots, found : SUBSET Lots, waits : Lots \cup {NoLot},
                       snapshot : SUBSET Lots]
          /\ todo \cup (unresolved \cap Placed) \subseteq
               run'.todo \cup run'.found \cup {run'.waits}
          /\ overlapped' \in BOOLEAN
          /\ ~overlapped' =>
               ~overlapped /\ (run'.waits = NoLot \/ (Cancelled = {} /\ run'.snapshot = cache))
      <3>1. PICK l \in todo : LookUp(l, todo, unresolved \cap Placed, Cancelled)
        BY <2>1
      <3>2. todo \in SUBSET Lots /\ unresolved \cap Placed \in SUBSET Lots
        OBVIOUS
      <3> HIDE DEF todo, unresolved
      <3> QED
        BY <3>1, <3>2, LookUpMoves
    <2>3. newLots \subseteq coordinates' \cup run'.todo \cup run'.found \cup {run'.waits}
      BY <2>1, <2>2
    <2>4. overlapped' \in BOOLEAN
      BY <2>2
    <2> HIDE DEF todo, unresolved
    <2>5. GeoTypes'
      BY <1>1, <1>2, <2>1, <2>2, <2>4 DEF GeoTypes
    <2>6. RunAgrees'
      BY <2>1, <2>3 DEF RunAgrees
    <2>7. CacheAgrees'
      <3> SUFFICES ASSUME ~overlapped' PROVE CacheAgrees'
        BY DEF CacheAgrees
      <3>1. ~overlapped /\ (run'.waits = NoLot \/ (Cancelled = {} /\ run'.snapshot = cache))
        BY <2>2
      <3> QED
        BY <1>1, <1>3, <3>1 DEF CacheAgrees
    <2> QED
      BY <2>5, <2>6, <2>7
  <1> QED
    BY <1>4, <1>5

(* The steps of the geocoding effect alone. *)
LEMMA GeocodingKeeps ==
  ASSUME GeoTypes, RunAgrees, CacheAgrees, lots \subseteq Lots, UNCHANGED lots, Geocoding
  PROVE  GeoTypes' /\ RunAgrees' /\ CacheAgrees'
  <1>1. CASE GeocodeNext
    <2>1. /\ status = "resolving" /\ run.waits = NoLot
          /\ UNCHANGED <<orphans, cache, answered, missed>>
      BY <1>1 DEF GeocodeNext
    <2>2. ASSUME NEW l \in run.todo, LookUp(l, run.todo, run.found, orphans),
                 UNCHANGED <<coordinates, status>>
          PROVE  GeoTypes' /\ RunAgrees' /\ CacheAgrees'
      <3>1. run.todo \in SUBSET Lots /\ run.found \in SUBSET Lots
        BY DEF GeoTypes
      <3>2. /\ run' \in [todo : SUBSET Lots, found : SUBSET Lots, waits : Lots \cup {NoLot},
                         snapshot : SUBSET Lots]
            /\ run.todo \cup run.found \subseteq run'.todo \cup run'.found \cup {run'.waits}
            /\ overlapped' \in BOOLEAN
            /\ ~overlapped' =>
                 ~overlapped /\ (run'.waits = NoLot \/ (orphans = {} /\ run'.snapshot = cache))
        BY <2>2, <3>1, LookUpMoves
      <3>3. overlapped' \in BOOLEAN
        BY <3>2
      <3>4. GeoTypes'
        BY <2>1, <2>2, <3>2, <3>3 DEF GeoTypes
      <3>5. lots \subseteq coordinates \cup missed \cup run.todo \cup run.found
        <4>1. NoLot \notin lots
          BY PageAssumption
        <4> QED
          BY <2>1, <4>1 DEF RunAgrees
      <3>6. RunAgrees'
        BY <2>1, <2>2, <3>2, <3>5 DEF RunAgrees
      <3>7. CacheAgrees'
        <4> SUFFICES ASSUME ~overlapped' PROVE CacheAgrees'
          BY DEF CacheAgrees
        <4>1. ~overlapped /\ (run'.waits = NoLot \/ (orphans = {} /\ run'.snapshot = cache))
          BY <3>2
        <4> QED
          BY <2>1, <4>1 DEF CacheAgrees
      <3> QED
        BY <3>4, <3>6, <3>7
    <2>3. ASSUME run.todo = {}, coordinates' = coordinates \cup run.found, status' = "ready",
                 run' = NoRun, UNCHANGED overlapped
          PROVE  GeoTypes' /\ RunAgrees' /\ CacheAgrees'
      <3>1. GeoTypes'
        BY <2>1, <2>3 DEF GeoTypes, NoRun
      <3>2. lots \subseteq coordinates' \cup missed
        <4>1. NoLot \notin lots
          BY PageAssumption
        <4> QED
          BY <2>1, <2>3, <4>1 DEF RunAgrees
      <3>3. RunAgrees'
        BY <2>1, <2>3, <3>2 DEF RunAgrees
      <3>4. CacheAgrees'
        BY <2>1, <2>3 DEF CacheAgrees, NoRun
      <3> QED
        BY <3>1, <3>3, <3>4
    <2> QED
      BY <1>1, <2>2, <2>3 DEF GeocodeNext
  <1>2. CASE GeocodeAnswer
    <2>1. /\ run.waits # NoLot /\ run.waits \in Lots
          /\ UNCHANGED <<coordinates, status, orphans, overlapped>>
          /\ status = "resolving"
      BY <1>2 DEF GeocodeAnswer, GeoTypes, RunAgrees, NoRun
    <2>2. ~overlapped => orphans = {} /\ answered \subseteq run.snapshot
                         /\ answered \subseteq cache
      BY <2>1 DEF CacheAgrees
    <2>3. CASE /\ LookedUp(run.waits, run.snapshot)
               /\ missed' = missed \ {run.waits}
               /\ run' = [run EXCEPT !.found = @ \cup {run.waits}, !.waits = NoLot, !.snapshot = {}]
      <3>1. /\ cache' = run.snapshot \cup {run.waits} /\ answered' = answered \cup {run.waits}
        BY <2>3 DEF LookedUp, Remember
      <3>2. /\ run'.todo = run.todo /\ run'.found = run.found \cup {run.waits}
            /\ run'.waits = NoLot /\ run'.snapshot = {}
            /\ run' \in [todo : SUBSET Lots, found : SUBSET Lots, waits : Lots \cup {NoLot},
                         snapshot : SUBSET Lots]
        <4> DEFINE f == [run EXCEPT !.found = @ \cup {run.waits}]
                   w == [f EXCEPT !.waits = NoLot]
        <4>1. /\ f \in [todo : SUBSET Lots, found : SUBSET Lots, waits : Lots \cup {NoLot},
                        snapshot : SUBSET Lots]
              /\ f.todo = run.todo /\ f.found = run.found \cup {run.waits}
          BY <2>1 DEF GeoTypes
        <4> HIDE DEF f
        <4>2. /\ w \in [todo : SUBSET Lots, found : SUBSET Lots, waits : Lots \cup {NoLot},
                        snapshot : SUBSET Lots]
              /\ w.todo = run.todo /\ w.found = run.found \cup {run.waits} /\ w.waits = NoLot
          BY <4>1
        <4> HIDE DEF w
        <4>3. run' = [w EXCEPT !.snapshot = {}]
          BY <2>3 DEF w, f
        <4> QED
          BY <4>2, <4>3
      <3>3. GeoTypes'
        BY <2>1, <2>3, <3>1, <3>2 DEF GeoTypes
      <3>4. RunAgrees'
        BY <2>1, <2>3, <3>2 DEF RunAgrees
      <3>5. CacheAgrees'
        BY <2>1, <2>2, <3>1, <3>2 DEF CacheAgrees
      <3> QED
        BY <3>3, <3>4, <3>5
    <2>4. CASE NotFound(run.waits) /\ run' = [run EXCEPT !.waits = NoLot, !.snapshot = {}]
      <3>1. missed' = missed \cup {run.waits} /\ UNCHANGED <<cache, answered>>
        BY <2>4 DEF NotFound
      <3>2. /\ run'.todo = run.todo /\ run'.found = run.found
            /\ run'.waits = NoLot /\ run'.snapshot = {}
            /\ run' \in [todo : SUBSET Lots, found : SUBSET Lots, waits : Lots \cup {NoLot},
                         snapshot : SUBSET Lots]
        <4> DEFINE w == [run EXCEPT !.waits = NoLot]
        <4>1. /\ w \in [todo : SUBSET Lots, found : SUBSET Lots, waits : Lots \cup {NoLot},
                        snapshot : SUBSET Lots]
              /\ w.todo = run.todo /\ w.found = run.found /\ w.waits = NoLot
          BY <2>1 DEF GeoTypes
        <4> HIDE DEF w
        <4>2. run' = [w EXCEPT !.snapshot = {}]
          BY <2>4 DEF w
        <4> QED
          BY <4>1, <4>2
      <3>3. GeoTypes'
        BY <2>1, <3>1, <3>2 DEF GeoTypes
      <3>4. RunAgrees'
        BY <2>1, <3>1, <3>2 DEF RunAgrees
      <3>5. CacheAgrees'
        BY <2>1, <2>2, <3>1, <3>2 DEF CacheAgrees
      <3> QED
        BY <3>3, <3>4, <3>5
    <2> QED
      BY <1>2, <2>3, <2>4 DEF GeocodeAnswer
  <1>3. ASSUME NEW o \in orphans, OrphanAnswer(o) PROVE GeoTypes' /\ RunAgrees' /\ CacheAgrees'
    <2>1. /\ orphans' = orphans \ {o} /\ UNCHANGED <<coordinates, status, run, overlapped, missed>>
          /\ o.lot \in Lots /\ o.snapshot \subseteq Lots
      BY <1>3 DEF OrphanAnswer, GeoTypes, Lookup
    <2>2. \/ cache' = o.snapshot \cup {o.lot} /\ answered' = answered \cup {o.lot}
          \/ UNCHANGED <<cache, answered>>
      BY <1>3 DEF OrphanAnswer, LookedUp, Remember
    <2>3. GeoTypes' /\ RunAgrees'
      BY <2>1, <2>2 DEF GeoTypes, RunAgrees
    <2>4. ASSUME ~overlapped
          PROVE  /\ orphans' = {} /\ run.waits = NoLot
                 /\ answered \subseteq cache /\ answered \subseteq o.snapshot
      BY <2>1, <2>4 DEF CacheAgrees
    <2>5. CacheAgrees'
      BY <2>1, <2>2, <2>4 DEF CacheAgrees
    <2> QED
      BY <2>3, <2>5
  <1> QED
    BY <1>1, <1>2, <1>3 DEF Geocoding

-----------------------------------------------------------------------------
(* The effect and its invariants, as one. *)
GeoInv == GeoTypes /\ RunAgrees /\ CacheAgrees

(* The parts a step is shown to keep, put together. *)
LEMMA Assembled ==
  ASSUME ServerTypes', ListTypes', PanelTypes', FormTypes', CountTypes', GeoInv',
         SelectionListed', ModesAgree', GoneAgrees', AddressAgrees'
  PROVE  PageInv'
  <1>1. TypeOK'
    BY DEF TypeOK, ServerTypes, ListTypes, PanelTypes, GeoTypes, FormTypes, CountTypes, Loading,
           PanelCall, Creation, GeoInv
  <1> QED
    BY <1>1 DEF PageInv, GeoInv

(* A step that leaves the list leaves the effect. *)
LEMMA GeoStays ==
  ASSUME GeoInv, UNCHANGED <<geo, lots>>
  PROVE  GeoInv'
  BY DEF GeoInv, GeoTypes, RunAgrees, CacheAgrees, geo

LEMMA Counts ==
  ASSUME TypeOK, Click \/ Fail \/ Progress, others' \in 0..MaxOthers
  PROVE  CountTypes' /\ mode' = mode
  <1>1. /\ mode \in Modes /\ clicks \in 0..MaxClicks[mode] /\ failures \in 0..MaxFailures
        /\ MaxClicks[mode] \in Nat
    BY PageAssumption DEF TypeOK
  <1>2. mode' = mode
    BY DEF Click, Fail, Progress
  <1>3. clicks' \in 0..MaxClicks[mode] /\ failures' \in 0..MaxFailures
    BY <1>1, PageAssumption DEF Click, Fail, Progress
  <1> QED
    BY <1>1, <1>2, <1>3 DEF CountTypes

LEMMA LoadMoves ==
  ASSUME TypeOK, NEW k \in Loads, NEW load \in Loading, loads' = [loads EXCEPT ![k] = load]
  PROVE  /\ loads' \in [Loads -> Loading] /\ loads'[k] = load
         /\ \A j \in Loads \ {k} : loads'[j] = loads[j]
  BY DEF TypeOK, Loading

(* What a step of the list has to keep. *)
LEMMA ListStep ==
  ASSUME PageInv, UNCHANGED <<server, panel, place, text, reverse, latest, creating, mode>>,
         ListTypes', CountTypes', GeoInv', SelectionListed',
         reverseBusy' \in BOOLEAN, createBusy' \in BOOLEAN, lots' \cap gone \subseteq stale,
         \A k \in Loads : loads'[k].result \cap gone \subseteq stale
  PROVE  PageInv'
  <1> USE DEF PageInv
  <1>1. UNCHANGED <<stored, born, others, manage, manageBusy, gone, stale>>
    BY DEF server, panel
  <1>2. ServerTypes /\ PanelTypes /\ FormTypes
    BY TypeParts
  <1>3. ServerTypes' /\ PanelTypes' /\ FormTypes'
    BY <1>1, <1>2 DEF ServerTypes, PanelTypes, FormTypes
  <1>4. ModesAgree' /\ AddressAgrees'
    BY <1>1 DEF ModesAgree, AddressAgrees, AddressOfLastPick
  <1>5. GoneAgrees'
    BY <1>1 DEF GoneAgrees, GhostsAreStale
  <1> QED
    BY <1>3, <1>4, <1>5, Assembled

(* A load is sent, or answered, with what parkirisca has. *)
LEMMA LoadsKeep ==
  ASSUME PageInv, NEW k \in Loads, Reload(k) \/ ListRows(k)
  PROVE  PageInv'
  <1> USE DEF PageInv
  <1>1. /\ UNCHANGED <<server, lots, selected, panel, geo, form>>
        /\ loading' \in BOOLEAN /\ refreshing' \in BOOLEAN /\ error' \in BOOLEAN
    BY DEF Reload, ListRows, TypeOK
  <1>2. CountTypes' /\ mode' = mode
    <2>1. others' \in 0..MaxOthers
      BY <1>1 DEF server, TypeOK
    <2> QED
      BY <2>1, Counts DEF Reload, ListRows
  <1>3. PICK load \in Loading :
           loads' = [loads EXCEPT ![k] = load] /\ (load.result = {} \/ load.result = stored)
    <2>1. CASE Reload(k)
      <3> DEFINE load == [at |-> "sent", result |-> {}, selected |-> selected, creates |-> FALSE]
      <3>1. load \in Loading /\ load.result = {}
        BY DEF Loading, TypeOK
      <3>2. loads' = [loads EXCEPT ![k] = load]
        BY <2>1 DEF Reload, Send
      <3> QED
        BY <3>1, <3>2
    <2>2. CASE ListRows(k)
      <3> DEFINE a == [loads[k] EXCEPT !.at = "answered"]
                 load == [a EXCEPT !.result = stored]
      <3>1. loads[k] \in Loading /\ loads \in [Loads -> Loading] /\ stored \subseteq Lots
        BY DEF TypeOK, Loading
      <3>2. a \in Loading
        BY <3>1 DEF Loading
      <3>3. loads' = [loads EXCEPT ![k] = load]
        BY <2>2, <3>1 DEF ListRows
      <3> HIDE DEF a
      <3>4. load \in Loading /\ load.result = stored
        BY <3>1, <3>2 DEF Loading
      <3> QED
        BY <3>3, <3>4
    <2> QED
      BY <2>1, <2>2
  <1>4. /\ loads' \in [Loads -> Loading] /\ loads'[k] = load
        /\ \A j \in Loads \ {k} : loads'[j] = loads[j]
    BY <1>3, LoadMoves
  <1>5. \A j \in Loads : loads'[j].result \cap gone \subseteq stale
    <2>1. stored \cap gone = {}
      BY DEF GoneAgrees
    <2> QED
      BY <1>3, <1>4, <2>1 DEF GoneAgrees
  <1>6. ListTypes'
    BY <1>1, <1>4 DEF ListTypes, TypeOK
  <1>7. GeoInv'
    BY <1>1, GeoStays DEF GeoInv, TypeOK, GeoTypes
  <1>8. SelectionListed' /\ lots' \cap gone \subseteq stale
    BY <1>1, <1>2 DEF SelectionListed, GoneAgrees, GhostsAreStale
  <1>9. reverseBusy' \in BOOLEAN /\ createBusy' \in BOOLEAN
    BY <1>1 DEF form, TypeOK
  <1> QED
    BY <1>1, <1>2, <1>5, <1>6, <1>7, <1>8, <1>9, ListStep DEF form

(* The page takes a list, or a failure to list. *)
LEMMA LoadEndsKeep ==
  ASSUME PageInv, NEW k \in Loads, Loaded(k) \/ LoadFails(k)
  PROVE  PageInv'
  <1> USE DEF PageInv
  <1>1. /\ UNCHANGED <<server, panel, place, text, reverse, latest, reverseBusy, creating>>
        /\ loading' = FALSE /\ refreshing' = FALSE /\ error' \in BOOLEAN
        /\ createBusy' \in BOOLEAN /\ loads' = [loads EXCEPT ![k] = Idle]
    BY DEF Loaded, LoadFails, LoadEnds, TypeOK
  <1>2. CountTypes' /\ mode' = mode
    <2>1. others' \in 0..MaxOthers
      BY <1>1 DEF server, TypeOK
    <2> QED
      BY <2>1, Counts DEF Loaded, LoadFails
  <1>3. Idle \in Loading /\ Idle.result = {}
    BY DEF Idle, Loading
  <1>4. /\ loads' \in [Loads -> Loading] /\ loads'[k] = Idle
        /\ \A j \in Loads \ {k} : loads'[j] = loads[j]
    BY <1>1, <1>3, LoadMoves
  <1>5. \A j \in Loads : loads'[j].result \cap gone \subseteq stale
    BY <1>3, <1>4 DEF GoneAgrees
  <1>6. reverseBusy' \in BOOLEAN
    BY <1>1 DEF TypeOK
  <1>7. CASE Loaded(k)
    <2>1. PICK result \in SUBSET Lots : result = loads[k].result
      BY DEF TypeOK
    <2>2. lots' = result /\ Geocode(result, coordinates)
          /\ selected' \in Chosen(result, loads[k].selected)
      BY <1>7, <2>1 DEF Loaded
    <2>3. GeoInv'
      <3>1. GeoTypes /\ coordinates \in SUBSET Lots
        BY TypeParts DEF GeoTypes
      <3> QED
        BY <2>2, <3>1, GeocodeKeeps DEF GeoInv
    <2>4. /\ SelectionListed' /\ selected' \in Lots \cup {NoLot}
      BY <2>2 DEF SelectionListed, Chosen
    <2>5. lots' \cap gone \subseteq stale
      BY <2>1, <2>2 DEF GoneAgrees
    <2>6. ListTypes'
      BY <1>1, <1>4, <2>2, <2>4 DEF ListTypes
    <2> QED
      BY <1>1, <1>2, <1>5, <1>6, <2>3, <2>4, <2>5, <2>6, ListStep
  <1>8. CASE LoadFails(k)
    <2>1. UNCHANGED <<lots, selected, geo>>
      BY <1>8 DEF LoadFails
    <2>2. GeoInv'
      BY <2>1, GeoStays, TypeParts DEF GeoInv
    <2>3. ListTypes' /\ SelectionListed' /\ lots' \cap gone \subseteq stale
      BY <1>1, <1>2, <1>4, <2>1 DEF ListTypes, TypeOK, SelectionListed, GoneAgrees, GhostsAreStale
    <2> QED
      BY <1>1, <1>2, <1>5, <1>6, <2>2, <2>3, ListStep
  <1> QED
    BY <1>7, <1>8

(* A click on a card or a marker. *)
LEMMA SelectKeeps ==
  ASSUME PageInv, NEW l \in Lots, Select(l)
  PROVE  PageInv'
  <1> USE DEF PageInv
  <1>1. /\ UNCHANGED <<server, lots, loads, loading, refreshing, error, panel, geo, form>>
        /\ l \in lots /\ selected' = l
    BY DEF Select
  <1>2. CountTypes' /\ mode' = mode
    <2>1. others' \in 0..MaxOthers
      BY <1>1 DEF server, TypeOK
    <2> QED
      BY <2>1, Counts DEF Select
  <1>3. GeoInv'
    BY <1>1, GeoStays, TypeParts DEF GeoInv
  <1>4. ListTypes' /\ SelectionListed' /\ lots' \cap gone \subseteq stale
    BY <1>1 DEF ListTypes, Loading, TypeOK, SelectionListed, GoneAgrees, GhostsAreStale
  <1>5. /\ reverseBusy' \in BOOLEAN /\ createBusy' \in BOOLEAN
        /\ \A k \in Loads : loads'[k].result \cap gone \subseteq stale
    BY <1>1 DEF form, TypeOK, GoneAgrees
  <1> QED
    BY <1>1, <1>2, <1>3, <1>4, <1>5, ListStep DEF form

-----------------------------------------------------------------------------
(* What a step of the panel, or of another client, has to keep. *)
LEMMA PanelStep ==
  ASSUME PageInv, UNCHANGED <<loads, loading, refreshing, error, form, mode>>,
         ServerTypes', PanelTypes', CountTypes', GeoInv', GoneAgrees', SelectionListed',
         lots' \subseteq Lots, selected' \in Lots \cup {NoLot}, born \subseteq born',
         mode = "create" => manage' = {} /\ gone' = {}
  PROVE  PageInv'
  <1> USE DEF PageInv
  <1>1. ListTypes /\ FormTypes
    BY TypeParts
  <1>2. ListTypes' /\ FormTypes'
    BY <1>1 DEF ListTypes, FormTypes, form
  <1>3. ModesAgree' /\ AddressAgrees'
    BY DEF ModesAgree, AddressAgrees, AddressOfLastPick, form
  <1> QED
    BY <1>2, <1>3, Assembled

(* The panel sends its one call, about a lot of the list. *)
LEMMA ManageKeeps ==
  ASSUME PageInv, NEW op \in {"refresh", "update", "delete"}, Manage(op)
  PROVE  PageInv'
  <1> USE DEF PageInv
  <1> DEFINE m == [op |-> op, lot |-> selected, at |-> "sent"]
  <1>1. /\ mode = "browse" /\ selected # NoLot /\ ~manageBusy
        /\ manage' = manage \cup {m} /\ manageBusy' = TRUE
        /\ UNCHANGED <<server, list, gone, stale, geo, form>>
    BY DEF Manage
  <1>2. CountTypes' /\ mode' = mode
    <2>1. others' \in 0..MaxOthers
      BY <1>1 DEF server, TypeOK
    <2> QED
      BY <2>1, Counts DEF Manage
  <1>3. manage = {} /\ selected \in lots
    BY <1>1 DEF GoneAgrees, SelectionListed
  <1>4. m \in PanelCall /\ m.op = op /\ m.lot = selected /\ m.at = "sent"
    BY <1>3 DEF PanelCall, TypeOK
  <1> HIDE DEF m
  <1>5. UNCHANGED <<stored, born, others, lots, selected, loads, loading, refreshing, error>>
    BY <1>1 DEF server, list
  <1>6. ServerTypes' /\ PanelTypes'
    BY <1>1, <1>3, <1>4, <1>5 DEF ServerTypes, PanelTypes, TypeOK
  <1>7. GoneAgrees'
    BY <1>1, <1>3, <1>4, <1>5 DEF GoneAgrees, GhostsAreStale
  <1>8. GeoInv'
    BY <1>1, <1>5, GeoStays, TypeParts DEF GeoInv
  <1>9. SelectionListed' /\ lots' \subseteq Lots /\ selected' \in Lots \cup {NoLot}
    BY <1>5, <1>2 DEF SelectionListed, TypeOK
  <1> QED
    BY <1>1, <1>2, <1>5, <1>6, <1>7, <1>8, <1>9, PanelStep

(* parkirisca serves the panel: a lot it deletes had a row. *)
LEMMA ServePanelKeeps ==
  ASSUME PageInv, NEW m \in manage, ServePanel(m)
  PROVE  PageInv'
  <1> USE DEF PageInv
  <1>1. UNCHANGED <<born, others, list, manageBusy, gone, stale, geo, form>>
    BY DEF ServePanel
  <1>2. CountTypes' /\ mode' = mode
    <2>1. others' \in 0..MaxOthers
      BY <1>1 DEF TypeOK
    <2> QED
      BY <2>1, Counts DEF ServePanel
  <1>3. /\ m \in PanelCall /\ manage = {m} /\ manageBusy /\ mode = "browse"
        /\ stored \subseteq born /\ born \subseteq Lots
    <2>1. mode \in {"browse", "create"}
      BY DEF TypeOK, Modes
    <2> QED
      BY <2>1 DEF GoneAgrees, ModesAgree, TypeOK, PanelCall
  <1>4. PICK at \in {"read", "done", "refused"} :
           /\ Becomes(m, at)
           /\ stored' = stored \/ stored' = stored \ {m.lot}
           /\ m.op = "delete" /\ at = "done" => m.lot \in stored /\ stored' = stored \ {m.lot}
           /\ at = "read" => m.op = "update"
    <2>1. CASE GetRow(m)
      BY <2>1 DEF GetRow
    <2>2. CASE UpdateRow(m)
      <3>1. m.op = "update"
        BY <2>2 DEF UpdateRow, GoneAgrees
      <3> QED
        BY <2>2, <3>1 DEF UpdateRow
    <2>3. CASE DeleteRow(m)
      BY <2>3 DEF DeleteRow
    <2> QED
      BY <2>1, <2>2, <2>3 DEF ServePanel
  <1>5. PICK n \in PanelCall : n.op = m.op /\ n.lot = m.lot /\ n.at = at /\ manage' = {n}
    <2> DEFINE n == [m EXCEPT !.at = at]
    <2>1. n \in PanelCall /\ n.op = m.op /\ n.lot = m.lot /\ n.at = at
      BY <1>3 DEF PanelCall
    <2>2. manage' = {n}
      BY <1>3, <1>4 DEF Becomes
    <2> QED
      BY <2>1, <2>2
  <1>6. UNCHANGED <<lots, selected, loads, loading, refreshing, error>>
    BY <1>1 DEF list
  <1>7. ServerTypes' /\ PanelTypes'
    BY <1>1, <1>3, <1>4, <1>5 DEF ServerTypes, PanelTypes, TypeOK
  <1>8. GoneAgrees'
    <2>1. gone \subseteq born \ stored'
      BY <1>4 DEF GoneAgrees
    <2>2. n.lot \in gone => n.lot \in stale
      BY <1>5 DEF GoneAgrees
    <2>3. /\ n.op = "delete" /\ n.at = "done" => n.lot \in born \ stored'
          /\ n.at = "read" => n.op = "update"
      BY <1>3, <1>4, <1>5
    <2> QED
      BY <1>1, <1>3, <1>5, <1>6, <2>1, <2>2, <2>3 DEF GoneAgrees, GhostsAreStale
  <1>9. GeoInv'
    BY <1>1, <1>6, GeoStays, TypeParts DEF GeoInv
  <1>10. SelectionListed' /\ lots' \subseteq Lots /\ selected' \in Lots \cup {NoLot}
    BY <1>6, <1>2 DEF SelectionListed, TypeOK
  <1> QED
    BY <1>1, <1>2, <1>3, <1>6, <1>7, <1>8, <1>9, <1>10, PanelStep

(* The panel takes its answer or its failure. *)
LEMMA PanelEndsKeep ==
  ASSUME PageInv, NEW m \in manage, PanelAnswer(m) \/ PanelFails(m)
  PROVE  PageInv'
  <1> USE DEF PageInv
  <1>1. /\ UNCHANGED <<server, loads, loading, refreshing, error, form>>
        /\ manage' = manage \ {m} /\ manageBusy' = FALSE
    BY DEF PanelAnswer, PanelFails, PanelEnds, list
  <1>2. CountTypes' /\ mode' = mode
    <2>1. others' \in 0..MaxOthers
      BY <1>1 DEF server, TypeOK
    <2> QED
      BY <2>1, Counts DEF PanelAnswer, PanelFails
  <1>3. /\ m.lot \in Lots /\ manage = {m} /\ mode = "browse" /\ manage' = {}
    <2>1. mode \in {"browse", "create"}
      BY DEF TypeOK, Modes
    <2> QED
      BY <1>1, <2>1 DEF GoneAgrees, ModesAgree, TypeOK
  <1>4. UNCHANGED <<stored, born, others>> /\ ServerTypes'
    BY <1>1 DEF server, ServerTypes, TypeOK
  <1>5. GeoTypes /\ CacheAgrees /\ GeoInv /\ lots \subseteq Lots /\ coordinates \subseteq Lots
    BY TypeParts DEF GeoInv, GeoTypes, ListTypes
  <1>6. CASE UNCHANGED <<lots, selected, geo, gone, stale>>
    <2>1. PanelTypes'
      BY <1>1, <1>3, <1>6 DEF PanelTypes, TypeOK
    <2>2. GoneAgrees'
      BY <1>1, <1>3, <1>4, <1>6 DEF GoneAgrees, GhostsAreStale
    <2>3. GeoInv'
      BY <1>5, <1>6, GeoStays
    <2>4. SelectionListed' /\ lots' \subseteq Lots /\ selected' \in Lots \cup {NoLot}
      BY <1>6, <1>2 DEF SelectionListed, TypeOK
    <2> QED
      BY <1>1, <1>2, <1>3, <1>4, <2>1, <2>2, <2>3, <2>4, PanelStep
  <1>7. CASE Upsert(m.lot)
    <2>1. PICK newLots \in SUBSET Lots : newLots = lots \cup {m.lot}
      BY <1>3, <1>5
    <2>2. /\ lots' = newLots /\ selected' = m.lot /\ UNCHANGED <<gone, stale>>
          /\ Geocode(newLots, coordinates)
      BY <1>7, <2>1 DEF Upsert
    <2>3. PanelTypes'
      BY <1>1, <1>3, <2>2 DEF PanelTypes, TypeOK
    <2>4. GoneAgrees'
      <3>1. newLots \cap gone \subseteq stale
        BY <2>1 DEF GoneAgrees, GhostsAreStale
      <3> QED
        BY <1>1, <1>3, <1>4, <2>2, <3>1 DEF GoneAgrees, GhostsAreStale
    <2>5. GeoInv'
      BY <1>5, <2>2, GeocodeKeeps DEF GeoInv
    <2>6. SelectionListed' /\ lots' \subseteq Lots /\ selected' \in Lots \cup {NoLot}
      BY <1>3, <2>1, <2>2 DEF SelectionListed
    <2> QED
      BY <1>1, <1>2, <1>3, <1>4, <2>3, <2>4, <2>5, <2>6, PanelStep
  <1>8. CASE m.at = "done" /\ m.op = "delete" /\ Forget(m.lot)
    <2>1. PICK newLots \in SUBSET Lots : newLots = lots \ {m.lot}
      BY <1>5
    <2>2. PICK known \in SUBSET Lots : known = coordinates \ {m.lot}
      BY <1>5
    <2>3. /\ lots' = newLots /\ Geocode(newLots, known)
          /\ selected' \in IF selected # m.lot THEN {selected}
                           ELSE IF newLots = {} THEN {NoLot} ELSE newLots
          /\ gone' = gone \cup {m.lot}
          /\ stale' = stale \cup {x \in {m.lot} : \E k \in Loads : x \in loads[k].result}
      BY <1>8, <2>1, <2>2 DEF Forget
    <2>4. PanelTypes'
      BY <1>1, <1>3, <2>3 DEF PanelTypes, TypeOK
    <2>5. GoneAgrees'
      <3>1. gone' \subseteq born \ stored
        BY <1>8, <2>3 DEF GoneAgrees
      <3>2. newLots \cap gone' \subseteq stale'
        BY <2>1, <2>3 DEF GoneAgrees, GhostsAreStale
      <3>3. \A k \in Loads : loads[k].result \cap gone' \subseteq stale'
        BY <2>3 DEF GoneAgrees
      <3> QED
        BY <1>1, <1>3, <1>4, <2>3, <3>1, <3>2, <3>3 DEF GoneAgrees, GhostsAreStale
    <2>6. GeoInv'
      BY <1>5, <2>3, GeocodeKeeps DEF GeoInv
    <2>7. selected' \in IF newLots = {} THEN {NoLot} ELSE newLots
      BY <1>3, <2>1, <2>3 DEF SelectionListed
    <2>8. SelectionListed' /\ lots' \subseteq Lots /\ selected' \in Lots \cup {NoLot}
      BY <2>3, <2>7 DEF SelectionListed
    <2> QED
      BY <1>1, <1>2, <1>3, <1>4, <2>4, <2>5, <2>6, <2>8, PanelStep
  <1> QED
    BY <1>6, <1>7, <1>8 DEF PanelAnswer, PanelFails, list

(* Another client: the rows of deleted lots stay gone, as ids are fresh.   *)
LEMMA OtherClientKeeps == PageInv /\ OtherClient => PageInv'
  <1> SUFFICES ASSUME PageInv, OtherClient PROVE PageInv'
    OBVIOUS
  <1> USE DEF PageInv
  <1>1. UNCHANGED <<list, panel, geo, form>>
    BY DEF OtherClient
  <1>2. CountTypes' /\ mode' = mode
    <2>1. others' \in 0..MaxOthers
      <3>1. others \in 0..MaxOthers
        BY DEF TypeOK
      <3> QED
        BY <3>1, PageAssumption DEF OtherClient
    <2> QED
      BY <2>1, Counts DEF OtherClient
  <1>3. /\ stored \subseteq born /\ born \subseteq Lots
        /\ born' \subseteq Lots /\ born \subseteq born' /\ stored' \subseteq born'
        /\ stored' \cap born \subseteq stored
    BY DEF OtherClient, TypeOK
  <1>4. UNCHANGED <<manage, manageBusy, gone, stale, lots, selected, loads, loading, refreshing,
                    error>>
    BY <1>1 DEF list, panel
  <1>5. ServerTypes' /\ PanelTypes'
    BY <1>3, <1>4 DEF ServerTypes, PanelTypes, PanelCall, TypeOK
  <1>6. GoneAgrees'
    BY <1>3, <1>4 DEF GoneAgrees, GhostsAreStale
  <1>7. GeoInv'
    BY <1>1, <1>4, GeoStays, TypeParts DEF GeoInv
  <1>8. SelectionListed' /\ lots' \subseteq Lots /\ selected' \in Lots \cup {NoLot}
    BY <1>2, <1>4 DEF SelectionListed, TypeOK
  <1>9. mode = "create" => manage' = {} /\ gone' = {}
    BY <1>4 DEF ModesAgree
  <1> QED
    BY <1>1, <1>2, <1>3, <1>4, <1>5, <1>6, <1>7, <1>8, <1>9, PanelStep

-----------------------------------------------------------------------------
(* What a step of the create mode, in which nothing is managed, has to     *)
(* keep.                                                                   *)
LEMMA FormStep ==
  ASSUME PageInv, mode = "create", mode' = mode, UNCHANGED <<lots, geo, panel, others>>,
         ServerTypes', ListTypes', FormTypes', CountTypes', AddressAgrees',
         creating'.at # "idle" => creating'.lot \in born'
  PROVE  PageInv'
  <1> USE DEF PageInv
  <1>1. UNCHANGED <<manage, manageBusy, gone, stale>> /\ manage = {} /\ gone = {}
    BY DEF panel, ModesAgree
  <1>2. PanelTypes'
    BY <1>1 DEF PanelTypes, TypeOK
  <1>3. GeoInv'
    BY GeoStays, TypeParts DEF GeoInv
  <1>4. SelectionListed' /\ ModesAgree'
    BY <1>1 DEF SelectionListed, ModesAgree
  <1>5. GoneAgrees'
    BY <1>1 DEF GoneAgrees, GhostsAreStale
  <1> QED
    BY <1>2, <1>3, <1>4, <1>5, Assembled

(* The steps of the form that leave the list and the service alone. *)
LEMMA TypingKeeps ==
  ASSUME PageInv,
         \/ Type \/ \E p \in Places : Pick(p)
         \/ \E q \in reverse : ReverseAnswer(q)
  PROVE  PageInv'
  <1> USE DEF PageInv
  <1>1. /\ UNCHANGED <<server, list, panel, geo, creating, createBusy>> /\ mode = "create"
        /\ reverseBusy' \in BOOLEAN
    <2>1. mode = "create"
      <3>1. mode \in {"browse", "create"}
        BY DEF TypeOK, Modes
      <3> QED
        BY <3>1 DEF Type, Pick, ModesAgree
    <2> QED
      BY <2>1 DEF Type, Pick, ReverseAnswer, AddressArrives, TypeOK
  <1>2. CountTypes' /\ mode' = mode
    <2>1. others' \in 0..MaxOthers
      BY <1>1 DEF server, TypeOK
    <2> QED
      BY <2>1, Counts DEF Type, Pick, ReverseAnswer
  <1>3. UNCHANGED <<stored, born, others, lots, selected, loads, loading, refreshing, error>>
    BY <1>1 DEF server, list
  <1>4. ServerTypes' /\ ListTypes'
    BY <1>3, TypeParts DEF ServerTypes, ListTypes
  <1>5. creating'.at # "idle" => creating'.lot \in born'
    BY <1>1, <1>3 DEF ModesAgree
  <1>6. /\ AddressAgrees' /\ place' \in Places \cup {NoPlace} /\ text' \in Texts
        /\ reverse' \subseteq [id : Nat, place : Places] /\ latest' \in Nat
    <2>1. CASE Type
      <3>1. /\ UNCHANGED <<place, reverse, latest>>
            /\ text' = [from |-> NoPlace, kind |-> "typed"]
        BY <2>1 DEF Type
      <3> QED
        BY <3>1 DEF AddressAgrees, AddressOfLastPick, Texts, TypeOK
    <2>2. ASSUME NEW p \in Places, Pick(p)
          PROVE  /\ AddressAgrees' /\ place' \in Places \cup {NoPlace} /\ text' \in Texts
                 /\ reverse' \subseteq [id : Nat, place : Places] /\ latest' \in Nat
      <3>1. /\ place' = p /\ text' = [from |-> p, kind |-> "numbers"] /\ latest' = latest + 1
            /\ reverse' = reverse \cup {[id |-> latest + 1, place |-> p]}
        BY <2>2 DEF Pick
      <3>2. latest \in Nat /\ reverse \subseteq [id : Nat, place : Places]
        BY DEF TypeOK
      <3>3. \A q \in reverse : q.id \in Nat /\ q.id < latest'
        BY <3>1, <3>2 DEF AddressAgrees
      <3>4. AddressAgrees'
        BY <3>1, <3>2, <3>3 DEF AddressAgrees, AddressOfLastPick
      <3> QED
        BY <3>1, <3>2, <3>4 DEF Texts
    <2>3. ASSUME NEW q \in reverse, ReverseAnswer(q)
          PROVE  /\ AddressAgrees' /\ place' \in Places \cup {NoPlace} /\ text' \in Texts
                 /\ reverse' \subseteq [id : Nat, place : Places] /\ latest' \in Nat
      <3>1. /\ UNCHANGED <<place, latest>> /\ reverse' = reverse \ {q} /\ q.place \in Places
            /\ \/ text' = text
               \/ q.id = latest /\ text' = [from |-> q.place, kind |-> "address"]
        BY <2>3 DEF ReverseAnswer, AddressArrives, TypeOK
      <3> QED
        BY <3>1 DEF AddressAgrees, AddressOfLastPick, Texts, TypeOK
    <2> QED
      BY <2>1, <2>2, <2>3
  <1>7. FormTypes'
    BY <1>1, <1>6, TypeParts DEF FormTypes
  <1> QED
    BY <1>1, <1>2, <1>3, <1>4, <1>5, <1>6, <1>7, FormStep

(* The call of handleCreateLot. *)
LEMMA CreatingKeeps ==
  ASSUME PageInv,
         \/ \E l \in Lots : Submit(l)
         \/ InsertRow \/ ReadBack \/ CreateRefused \/ CreateFails
         \/ \E k \in Loads : Created(k)
  PROVE  PageInv'
  <1> USE DEF PageInv
  <1>1. /\ UNCHANGED <<others, lots, panel, geo, text, reverse, latest, reverseBusy>>
        /\ mode = "create"
        /\ createBusy' \in BOOLEAN
        /\ place' = place \/ place' = NoPlace
    <2>1. mode = "create"
      <3>1. mode \in {"browse", "create"}
        BY DEF TypeOK, Modes
      <3> QED
        BY <3>1 DEF Submit, InsertRow, ReadBack, CreateRefused, CreateFails, Created, ModesAgree
    <2> QED
      BY <2>1 DEF Submit, InsertRow, ReadBack, CreateRefused, CreateFails, Created, CreateEnds,
                  server, list, TypeOK
  <1>2. CountTypes' /\ mode' = mode
    <2>1. others' \in 0..MaxOthers
      BY <1>1 DEF TypeOK
    <2> QED
      BY <2>1, Counts DEF Submit, InsertRow, ReadBack, CreateRefused, CreateFails, Created
  <1>3. ListTypes'
    <2>1. CASE ~\E k \in Loads : Created(k)
      <3>1. UNCHANGED <<lots, selected, loads, loading, refreshing, error>>
        BY <2>1 DEF Submit, InsertRow, ReadBack, CreateRefused, CreateFails, CreateEnds, list
      <3> QED
        BY <3>1, TypeParts DEF ListTypes
    <2>2. ASSUME NEW k \in Loads, Created(k) PROVE ListTypes'
      <3> DEFINE load == [at |-> "sent", result |-> {}, selected |-> creating.selected,
                          creates |-> TRUE]
      <3>1. load \in Loading
        BY DEF Loading, TypeOK
      <3>2. loads' = [loads EXCEPT ![k] = load]
        BY <2>2 DEF Created, Send
      <3>3. loads' \in [Loads -> Loading]
        BY <3>1, <3>2, LoadMoves
      <3>4. creating.lot \in Lots
        BY <2>2 DEF Created, ModesAgree, TypeOK
      <3> QED
        BY <2>2, <3>3, <3>4 DEF Created, ListTypes, TypeOK
    <2> QED
      BY <2>1, <2>2
  <1>4. /\ ServerTypes' /\ creating' \in Creation
        /\ creating'.at # "idle" => creating'.lot \in born'
    <2>1. /\ stored \subseteq born /\ born \subseteq Lots /\ creating \in Creation
          /\ selected \in Lots \cup {NoLot}
      BY DEF TypeOK, Creation
    <2>2. ASSUME NEW l \in Lots, Submit(l)
          PROVE  /\ ServerTypes' /\ creating' \in Creation
                 /\ creating'.at # "idle" => creating'.lot \in born'
      <3>1. /\ born' = born \cup {l} /\ stored' = stored
            /\ creating' = [at |-> "sent", lot |-> l, selected |-> selected]
        BY <2>2 DEF Submit
      <3> QED
        BY <2>1, <3>1 DEF ServerTypes, Creation
    <2>3. CASE InsertRow
      <3>1. /\ born' = born /\ stored' = stored \cup {creating.lot} /\ creating.lot \in born
            /\ creating' = [creating EXCEPT !.at = "inserted"]
        BY <2>3 DEF InsertRow, ModesAgree
      <3> QED
        BY <2>1, <3>1 DEF ServerTypes, Creation
    <2>4. CASE ReadBack
      <3>1. PICK at \in {"done", "refused"} : creating' = [creating EXCEPT !.at = at]
        BY <2>4 DEF ReadBack
      <3>2. UNCHANGED <<stored, born>> /\ creating.lot \in born
        BY <2>4 DEF ReadBack, server, ModesAgree
      <3> QED
        BY <2>1, <3>1, <3>2 DEF ServerTypes, Creation
    <2>5. CASE CreateRefused \/ CreateFails \/ \E k \in Loads : Created(k)
      <3>1. UNCHANGED <<stored, born>> /\ creating' = NotCreating
        BY <2>5 DEF CreateRefused, CreateFails, Created, CreateEnds, server
      <3> QED
        BY <2>1, <3>1 DEF ServerTypes, Creation, NotCreating
    <2> QED
      BY <2>2, <2>3, <2>4, <2>5
  <1>5. AddressAgrees'
    BY <1>1 DEF AddressAgrees, AddressOfLastPick
  <1>6. FormTypes'
    BY <1>1, <1>4, TypeParts DEF FormTypes
  <1> QED
    BY <1>1, <1>2, <1>3, <1>4, <1>5, <1>6, FormStep

-----------------------------------------------------------------------------
(* The effect alone. *)
LEMMA EffectKeeps == PageInv /\ Geocoding => PageInv'
  <1> SUFFICES ASSUME PageInv, Geocoding PROVE PageInv'
    OBVIOUS
  <1> USE DEF PageInv
  <1>1. UNCHANGED <<server, list, panel, form>>
    BY DEF Geocoding, GeocodeNext, GeocodeAnswer, OrphanAnswer
  <1>2. CountTypes' /\ mode' = mode
    <2>1. others' \in 0..MaxOthers
      BY <1>1 DEF server, TypeOK
    <2> QED
      BY <2>1, Counts DEF Geocoding, GeocodeNext, GeocodeAnswer, OrphanAnswer
  <1>3. UNCHANGED <<stored, born, others, lots, selected, loads, loading, refreshing, error,
                    manage, manageBusy, gone, stale>>
    BY <1>1 DEF server, list, panel
  <1>4. GeoInv'
    <2>1. GeoTypes /\ lots \subseteq Lots
      BY TypeParts DEF ListTypes
    <2> QED
      BY <1>3, <2>1, GeocodingKeeps DEF GeoInv
  <1>5. ServerTypes' /\ ListTypes' /\ PanelTypes' /\ FormTypes'
    BY <1>1, <1>3, TypeParts DEF ServerTypes, ListTypes, PanelTypes, FormTypes, form
  <1>6. SelectionListed' /\ ModesAgree' /\ GoneAgrees' /\ AddressAgrees'
    BY <1>1, <1>2, <1>3 DEF SelectionListed, ModesAgree, GoneAgrees, GhostsAreStale, AddressAgrees,
                            AddressOfLastPick, form
  <1> QED
    BY <1>2, <1>4, <1>5, <1>6, Assembled

(* Every step preserves the invariant. *)
LEMMA StepInv == PageInv /\ [Next]_vars => PageInv'
  <1> SUFFICES ASSUME PageInv, [Next]_vars PROVE PageInv'
    OBVIOUS
  <1>1. CASE UNCHANGED vars
    <2>1. UNCHANGED <<mode, clicks, failures, server, list, panel, geo, form>>
      BY <1>1 DEF vars
    <2>2. UNCHANGED <<stored, born, others, lots, selected, loads, loading, refreshing, error,
                      manage, manageBusy, gone, stale>>
      BY <2>1 DEF server, list, panel
    <2>3. GeoInv'
      BY <2>1, <2>2, GeoStays, TypeParts DEF GeoInv, PageInv
    <2>4. ServerTypes' /\ ListTypes' /\ PanelTypes' /\ FormTypes' /\ CountTypes'
      BY <2>1, <2>2, TypeParts DEF ServerTypes, ListTypes, PanelTypes, FormTypes, CountTypes, form,
                                   PageInv
    <2>5. SelectionListed' /\ ModesAgree' /\ GoneAgrees' /\ AddressAgrees'
      BY <2>1, <2>2 DEF PageInv, SelectionListed, ModesAgree, GoneAgrees, GhostsAreStale,
                        AddressAgrees, AddressOfLastPick, form
    <2> QED
      BY <2>3, <2>4, <2>5, Assembled
  <1>2. CASE User
    BY <1>2, LoadsKeep, SelectKeeps, CreatingKeeps, ManageKeeps, TypingKeeps DEF User
  <1>3. CASE Answer
    BY <1>3, LoadsKeep, LoadEndsKeep, CreatingKeeps, ServePanelKeeps, PanelEndsKeep, TypingKeeps
       DEF Answer
  <1>4. CASE Geocoding
    BY <1>4, EffectKeeps
  <1>5. CASE Failure
    BY <1>5, LoadEndsKeep, PanelEndsKeep, CreatingKeeps DEF Failure
  <1>6. CASE OtherClient
    BY <1>6, OtherClientKeeps
  <1> QED
    BY <1>1, <1>2, <1>3, <1>4, <1>5, <1>6 DEF Next

(* PageInv holds in every state of the page. *)
THEOREM Invariant == Spec => []PageInv
  BY InitInv, StepInv, PTL DEF Spec

(* The page and its calls keep their types. *)
THEOREM TypeCorrect == Spec => []TypeOK
  <1>1. PageInv => TypeOK
    BY DEF PageInv
  <1> QED
    BY Invariant, <1>1, PTL

(* The panel of ParkingApp.tsx never manages a lot that is not listed,     *)
(* whatever order lists, panel answers and clicks come in.                 *)
THEOREM SelectionsAreListed == Spec => []SelectionListed
  <1>1. PageInv => SelectionListed
    BY DEF PageInv
  <1> QED
    BY Invariant, <1>1, PTL

(***************************************************************************)
(* A deleted lot comes back only with a list parkirisca had sent before:   *)
(* neither upsertLot nor a later list of loadLots names it.                *)
(***************************************************************************)
THEOREM OnlyStaleListsShowGhosts == Spec => []GhostsAreStale
  <1>1. PageInv => GhostsAreStale
    BY DEF PageInv, GoneAgrees
  <1> QED
    BY Invariant, <1>1, PTL

(* No late answer of reverseGeocode names another place than the marked    *)
(* one: handleCreateMapPick compares the number of its request.            *)
THEOREM AddressesAreOfLastPick == Spec => []AddressOfLastPick
  <1>1. PageInv => AddressOfLastPick
    BY DEF PageInv, AddressAgrees
  <1> QED
    BY Invariant, <1>1, PTL

(***************************************************************************)
(* A geocoding effect that is ready has dropped no lot, however often the  *)
(* list changed and cancelled the run before.                              *)
(***************************************************************************)
THEOREM ReadyIsResolved == Spec => []ResolvedWhenReady
  <1>1. PageInv => ResolvedWhenReady
    <2> SUFFICES ASSUME PageInv PROVE ResolvedWhenReady
      OBVIOUS
    <2>1. NoLot \notin lots
      BY PageAssumption DEF PageInv, TypeOK
    <2> QED
      BY <2>1 DEF PageInv, RunAgrees, NoRun, ResolvedWhenReady
  <1> QED
    BY Invariant, <1>1, PTL

(* The cache in localStorage loses an answer only to lookups that overlap. *)
THEOREM CacheKeepsAnswers == Spec => []AnswersStayCached
  <1>1. PageInv => AnswersStayCached
    BY DEF PageInv, CacheAgrees, AnswersStayCached
  <1> QED
    BY Invariant, <1>1, PTL

=============================================================================
