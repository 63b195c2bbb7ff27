SPECIFICATION ImpatientSpec
CONSTANTS
  r1 = r1
  r2 = r2
  c1 = c1
  c2 = c2
  c3 = c3
  o1 = o1
  o2 = o2
  a1 = a1
  a2 = a2
  None = None
  Requests = {r1, r2}
  Conns = {c1, c2}
  Objs = {o1}
  Auths = {a1}
  Kinds = {"stream"}
  Refusals = {"status", "upgrade"}
  Buffer = 1
  MaxDeltas = 1
INVARIANTS TypeOK ActiveHoldsLock ConnectionsKept
PROPERTY CancelledEnd
CONSTRAINTS InOrder FewDeltas
CHECK_DEADLOCK FALSE
