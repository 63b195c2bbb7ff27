SPECIFICATION Spec
CONSTANTS
  Ids = {a}
  Versions = {v1}
  Absent = Absent
  NoUpdate = NoUpdate
  QueueSize = 2
INVARIANTS
  SettlesOnCurrent
PROPERTIES
  ImplementsFeed
  StopEnds
CHECK_DEADLOCK FALSE
