SPECIFICATION Spec
CONSTANTS
  c1 = c1
  c2 = c2
  m1 = m1
  p1 = p1
  p2 = p2
  i1 = i1
  i2 = i2
  openai = openai
  r1 = r1
  Clients = {c1, c2}
  Models = {m1}
  Providers = {p1, p2}
  Infos = {i1, i2}
  Handlers = {openai}
  Readers = {r1}
  NoProvider = NoProvider
  NoInfo = NoInfo
  MaxDup = 2
  QuotaWindow = 2
  MaxNow = 3
SYMMETRY Symmetry
INVARIANTS
  TypeOK
  CountExact
  ProvidersExact
PROPERTIES
  ReadIsFresh
