\* Two cancellations of one reservation at the same time.
SPECIFICATION Spec
CONSTANTS
  Reservations = {r1}
  Cancellers = {c1, c2}
  Users = {u1}
  Slots <- OneSlot
  Offsets <- UTC
  Paddings <- Stripped
  NoReservation = NoReservation
  NoEvent = NoEvent
  BrokerRequired = TRUE
  MaxFailures = 0
INVARIANTS CancelledOnce
