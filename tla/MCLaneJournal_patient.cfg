\* Two lanes whose callers retry, an ordinary event and a dispatch each, one
\* failure. Callers run out of events, so the system may stop.
SPECIFICATION PatientSpec
CONSTANTS
  None = None
  event1 = event1
  event2 = event2
  dispatch1 = dispatch1
  state1 = state1
  state2 = state2
  lane1 = lane1
  lane2 = lane2
  Lanes = {lane1, lane2}
  Events = {event1, event2, dispatch1}
  EventsOf <- MCEventsOfBoth
  DispatchEvents = {dispatch1}
  StateAfter <- MCStateAfter
  Inodes = {inode1}
  MaxFailures = 1
CHECK_DEADLOCK FALSE
PROPERTIES
  PatientCallersFinish
