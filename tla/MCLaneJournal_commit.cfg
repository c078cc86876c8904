\* Two lanes, one with an ordinary event and a dispatch, one with two events
\* that leave the same state and so share an index plan; two failures.
SPECIFICATION Spec
CONSTANTS
  None = None
  event1 = event1
  event2 = event2
  dispatch1 = dispatch1
  state1 = state1
  state2 = state2
  lane1 = lane1
  lane2 = lane2
  Lanes = {lane1, lane2}
  Events = {event1, event2, dispatch1}
  EventsOf <- MCEventsOf
  DispatchEvents = {dispatch1}
  StateAfter <- MCStateAfter
  Inodes = {inode1, inode2}
  MaxFailures = 2
SYMMETRY MCSymmetry
CHECK_DEADLOCK FALSE
INVARIANTS
  IndexTrailsJournals
  ResidueIsBacked
  AckedSurvives
  FailuresAreNotTampering
PROPERTIES
  ImplementsLedger
