\* One reservation and one file, put by either of the two endpoints.
SPECIFICATION Spec
CONSTANTS
  Users = {p, q}
  Reservations = {r1}
  Owner <- OneOwner
  Times = {1}
  BatchSize = 1
  QueueBatchSize = 1
  MaxRetries = 0
  MaxUploads = 1
  MaxFailures = 0
  NoKey = NoKey
CHECK_DEADLOCK FALSE
INVARIANTS EvidenceIsSigned
