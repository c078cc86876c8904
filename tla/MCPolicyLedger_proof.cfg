\* A proof that is given out again after a crash need not be durable.
SPECIFICATION Spec
CONSTANTS
  None = None
  admission1 = admission1
  admission2 = admission2
  access1 = access1
  access2 = access2
  settlement1 = settlement1
  settlement2 = settlement2
  Requests = {admission1, admission2, access1, access2, settlement1, settlement2}
  Kind <- MCKind
  Owner <- MCOwner
  Consumes <- MCConsumes
  MaxFailures = 2
CHECK_DEADLOCK FALSE
INVARIANTS
  ProofsAreDurable
