\* Two creations of one user, a cancellation, and two failures of any kind.
SPECIFICATION FairSpec
CONSTANTS
  Reservations = {r1, r2}
  Cancellers = {c1}
  Users = {u1}
  Slots <- MCSlots
  Offsets <- UTC
  Paddings <- Stripped
  NoReservation = NoReservation
  NoEvent = NoEvent
  BrokerRequired = FALSE
  MaxFailures = 2
INVARIANTS EventsMatchRows OnlyRacersOverlap CreatedFirst
PROPERTIES EveryEventEnds StopDrains
