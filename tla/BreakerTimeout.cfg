\* The README's promise that an open circuit rejects until the timeout.
SPECIFICATION GBSpec
CONSTANTS
  Calls = {c1, c2, c3}
  Threshold = 2
  RecoveryTimeout = 2
  MaxDropped = 0
PROPERTIES RejectsUntilTimeout
