\* Two overlapping creations of one user at the same time.
SPECIFICATION Spec
CONSTANTS
  Reservations = {r1, r2}
  Cancellers = {}
  Users = {u1}
  Slots <- OneSlot
  Offsets <- UTC
  Paddings <- Stripped
  NoReservation = NoReservation
  NoEvent = NoEvent
  BrokerRequired = TRUE
  MaxFailures = 0
INVARIANTS NoOverlap
