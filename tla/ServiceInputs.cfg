\* One creation after the other or at once, times in other zones, blanks.
SPECIFICATION Spec
CONSTANTS
  Reservations = {r1, r2}
  Cancellers = {}
  Users = {u1}
  Slots <- OneSlot
  Offsets <- Zones
  Paddings <- AnyBlanks
  NoReservation = NoReservation
  NoEvent = NoEvent
  BrokerRequired = TRUE
  MaxFailures = 0
INVARIANTS OnlyRacersOverlap
