SPECIFICATION Spec
CONSTANTS
  MaxLogins = 2
  Account <- OneAccount
  MaxCallbacks = 2
  MaxStops = 1
INVARIANTS VerdictTrue ListenerAccounted
PROPERTY PortFreed
CHECK_DEADLOCK FALSE
