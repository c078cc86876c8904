\* A first turn under a direct-human policy: topology claim, effects, command
\* effects, settlement and recovery anchors, around one dispatch life.
SPECIFICATION Spec
CONSTANTS
  None = None
  Ops = {op1}
  Places = {place1}
  TurnSequences = {1}
  Operations = {"turn.consult"}
  Policies = {policy1}
  Reservations = {}
  Natives = {native1}
  Heads = {head1, head2}
  Responses = {response1}
  TurnIds = {turn1}
  Nonces = {nonce1}
  Topologies = {topology1, topology2}
  Mutations = {mutation1}
  Incarnations = {incarnation1}
  Records = {record1, record2}
  Steps = {step1, step2}
  CommandSequences = {2, 3, 4}
  ResultStores = {results1}
  RecoveryOps = {recovery1, recovery2}
  Links = {link1, link2}
  Relationships = {relationship1, relationship2}
  Registries = {registry1}
SYMMETRY TopologySymmetry
CHECK_DEADLOCK FALSE
INVARIANTS
  DispatchUsesProvisionedTopology
  EffectsAccountedFor
  AnchorsBelongToProvisioning
PROPERTIES
  TopologyFrozenByDispatch
