\* The attempt: prepared with or without a reservation in every native
\* identity mode, no direct-human policy, then dispatched and observed.
SPECIFICATION Spec
CONSTANTS
  None = None
  Ops = {op1, op2}
  Places = {place1}
  TurnSequences = {1, 2}
  Operations = {"turn.consult", "turn.safe_retry"}
  Policies = {}
  Reservations = {reservation1}
  Natives = {native1, native2}
  Heads = {head1, head2}
  Responses = {response1, response2}
  TurnIds = {turn1, turn2}
  Nonces = {nonce1, nonce2}
  Topologies = {}
  Mutations = {}
  Incarnations = {}
  Records = {}
  Steps = {}
  CommandSequences = {}
  ResultStores = {}
  RecoveryOps = {}
  Links = {}
  Relationships = {}
  Registries = {}
SYMMETRY AttemptSymmetry
CHECK_DEADLOCK FALSE
INVARIANTS
  TypeOK
  SafeRetryOnlyWithoutEffect
  ReservationTracksPromotion
  ReleaseOnlyBySettlement
  HeadMovesWithResponse
  IdentityMatchesAdmission
  RedeliveryChangesNothing
PROPERTIES
  AuthorityNeverReplaced
  ProgressIsMonotone
  QuarantineLeftOnlyByNonStart
