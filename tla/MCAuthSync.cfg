SPECIFICATION SyncSpec
CONSTANTS
  Ids = {a, b}
  Disabled = Disabled
  Versions <- MCVersions
  Absent = Absent
  NoUpdate = NoUpdate
  Writers = {w1, w2}
  None = None
  MaxChanges = 3
CONSTRAINT Together
SYMMETRY Symmetry
INVARIANTS
  ManagerFollowsStore
PROPERTIES
  OwnWritesKept
CHECK_DEADLOCK FALSE
