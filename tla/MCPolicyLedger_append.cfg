\* Admissions that share a receipt, accesses that claim one identity and
\* settlements of it, through two crashes or power losses.
SPECIFICATION Spec
CONSTANTS
  None = None
  admission1 = admission1
  admission2 = admission2
  access1 = access1
  access2 = access2
  settlement1 = settlement1
  settlement2 = settlement2
  Requests = {admission1, admission2, access1, access2, settlement1, settlement2}
  Kind <- MCKind
  Owner <- MCOwner
  Consumes <- MCConsumes
  MaxFailures = 2
CHECK_DEADLOCK FALSE
INVARIANTS
  QuarantineOnlyIfTorn
  RecordedStays
PROPERTIES
  ResidueIsRecovered
