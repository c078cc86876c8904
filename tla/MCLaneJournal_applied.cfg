\* The same two lanes: what is applied on top of a capsule that was never
\* synced. Two failures.
SPECIFICATION Spec
CONSTANTS
  None = None
  event1 = event1
  event2 = event2
  dispatch1 = dispatch1
  state1 = state1
  state2 = state2
  lane1 = lane1
  lane2 = lane2
  Lanes = {lane1, lane2}
  Events = {event1, event2, dispatch1}
  EventsOf <- MCEventsOf
  DispatchEvents = {dispatch1}
  StateAfter <- MCStateAfter
  Inodes = {inode1}
  MaxFailures = 2
CHECK_DEADLOCK FALSE
INVARIANTS
  AppliedCanBeRead
