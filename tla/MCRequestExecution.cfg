SPECIFICATION Spec
CONSTANTS
  a1 = a1
  a2 = a2
  a3 = a3
  Auths = {a1, a2}
  Kinds = {"execute", "count", "stream"}
  RetryOf <- NoRetryForA2
  MaxRetryCredentials = 0
  MaxWait = 1
  BootstrapRetries = 1
  Passed = {FALSE}
  Converting = TRUE
  Validating = TRUE
  MaxCooling = 1
  MaxPayloads = 2
INVARIANTS CallsBounded VerdictMatchesEnd LateErrorsTold
PROPERTIES NoCallAfterPayload DisconnectStopsAll RequestEnds
CHECK_DEADLOCK FALSE
