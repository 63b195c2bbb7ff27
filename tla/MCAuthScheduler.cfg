SPECIFICATION MCSpec
CONSTANTS
  plain = plain
  other = other
  Names <- PlainOnly
  Base <- BaseOf
  Orders <- TwoProviders
  Placements <- Moving
  Reports <- OneQuota
  MaxNow = 2
  Models <- TwoModels
  LastInstant = 4
  Auths = {1, 2}
  Strategies = {"round_robin", "fill_first"}
  RetryAfters = {0, 4}
  BackoffBase = 1
  BackoffMax = 3
  Transient = 1
  Rejected = 3
  NotFound = 3
INVARIANTS
  MCCoherent
  MCRoundServesAll
  MCPicksRight
  BackoffBounded
  AggregateExact
