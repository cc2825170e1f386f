\* Two people who claim one e-mail, at either account service; one
\* reservation with two files, or one and a failure; a breaker with three
\* overlapping calls.
SPECIFICATION MCSpec
CONSTANTS
  Persons = {p, q}
  Nobody = Nobody
  e = e
  f = f
  other = other
  Emails = {e, f}
  Spellings = {lower, upper, other}
  normalizeEmail <- TwoEmails
  Ids = {i1, i2}
  NoId = NoId
  Tabs = {t1, t2}
  NoTab = NoTab
  MaxRequests = 3
  MaxSubmits = 3
  MaxFaults = 1
  MaxCalls = 2
  MaxActs = 3
  Users = {p, q}
  Reservations = {r1}
  Owner <- OneOwner
  Times = {1, 2}
  BatchSize = 2
  QueueBatchSize = 2
  MaxRetries = 1
  MaxUploads = 2
  MaxFailures = 1
  NoKey = NoKey
  Calls = {c1, c2, c3}
  Threshold = 2
  RecoveryTimeout = 2
  MaxDropped = 1
CHECK_DEADLOCK FALSE
INVARIANTS
  ToldIsStored DuplicatesOnlyByRacers RegistrationsStay ProfileIsOwn
  AnnouncedAsItHappened EvidenceIsOwn CountsConsecutive
PROPERTIES
  SessionIsOwn OwnersAreLetIn ImplementsAccountBook ChangesAreLogged FilesBecomeEvidence
  EveryOpeningEnds ClosesWhenUp
