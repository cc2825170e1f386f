\* ActiveMQ goes down once and comes back.
SPECIFICATION FairSpec
CONSTANTS
  Reservations = {r1}
  Cancellers = {c1}
  Users = {u1}
  Slots <- OneSlot
  Offsets <- UTC
  Paddings <- Stripped
  NoReservation = NoReservation
  NoEvent = NoEvent
  BrokerRequired = TRUE
  MaxFailures = 1
PROPERTIES QueuedEventsAreSent
