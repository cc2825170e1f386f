\* An administrator overwrites counts while the other handlers run: two lots,
\* clamped requests, and the abstract specification as a property.
SPECIFICATION Spec
CONSTANTS
  Lots = {l1, l2}
  Reservations = {r1, r2}
  Cancellers = {c1}
  Crons = {x1}
  NoLot = NoLot
  NoReservation = NoReservation
  LotCapacity = 1
  Capacity <- MCCapacity
  Requests <- AnyRequest
  Patches = {0, 2}
  Offsets <- UTC
  PageSize = 1
  MaxTime = 0
  MaxFailures = 1
INVARIANTS TypeOK 
PROPERTIES ImplementsParkingSpots
CHECK_DEADLOCK FALSE
