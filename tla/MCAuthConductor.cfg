SPECIFICATION Spec
CONSTANTS
  Requests = {"q1"}
  Refreshers = {"r1", "r2"}
  Checkers = {"k1", "k2"}
  Background = {"rebuild", "catalog"}
  Pending = 2
  FailureBackoff = 2
  MaxOrders = 2
  MaxStores = 2
  MaxMarks = 1
  MaxNow = 3
CONSTRAINT Bounds
INVARIANTS
  LastOrderStands
  RefreshesApart
CHECK_DEADLOCK FALSE
