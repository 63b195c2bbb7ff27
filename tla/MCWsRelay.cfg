SPECIFICATION RelaySpec
CONSTANTS
  s1 = s1
  s2 = s2
  r1 = r1
  r2 = r2
  None = None
  Sessions = {s1, s2}
  Requests = {r1}
  Kinds = {"nonstream", "stream"}
  Buffer = 1
  MaxChunks = 1
INVARIANTS LatestReachable
PROPERTY RequestsEnd
CHECK_DEADLOCK FALSE
