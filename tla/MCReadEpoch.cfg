\* One reader that may retry once, and writers that move each head once.
SPECIFICATION Spec
CONSTANTS
  None = None
  Readers = {reader1}
  MaximumCompleteAttempts = 2
  MaxHead = 1
CHECK_DEADLOCK FALSE
INVARIANTS
  EpochExisted
