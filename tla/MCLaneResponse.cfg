\* One attempt, two provider turns, two responses, one
\* of each observation, three failures.
SPECIFICATION Spec
CONSTANTS
  None = None
  head0 = head0
  response1 = response1
  response2 = response2
  turn1 = turn1
  turn2 = turn2
  Ops = {op1}
  Places = {place1}
  TurnSequences = {1}
  Operations = {"turn.consult"}
  Policies = {}
  Reservations = {}
  Natives = {native1}
  Heads <- MCHeads
  NewHead <- MCNewHead
  Responses = {response1, response2}
  TurnIds = {turn1, turn2}
  Nonces = {nonce1}
  Topologies = {}
  Mutations = {}
  Incarnations = {}
  Records = {}
  Steps = {}
  CommandSequences = {}
  ResultStores = {}
  RecoveryOps = {}
  Links = {}
  Relationships = {}
  Registries = {}
  Evidence = {evidence1}
  MaxFailures = 3
SYMMETRY MCSymmetry
CHECK_DEADLOCK FALSE
INVARIANTS
  ArtifactsFollowDispatch
  SettledResponseIsPublished
  PublishedStays
  InspectionFindsNoConflict
PROPERTIES
  ImplementsTurn
