SPECIFICATION ServiceSpec
CONSTANTS
  NULL = NULL
  Subjects = {x, y}
  Attempts = {t1, t2}
  Allowed = 2
  Window = 4
  CleanupLimit = 1
  MaxDelay = 1
  MaxClock = 7
  MaxHistory = 5
  Processes = {p1, p2}
  Revisions = {r1, r2}
  BatchSize = 2
  MaxSweeps = 3
  Requests = {q1, q2}
  Ids = {ours}
  Limit = 3
  ChunkSizes = {1, 2}
  MaxChunks = 3
CHECK_DEADLOCK FALSE
SYMMETRY Interchangeable
INVARIANTS ServiceTypeOK EveryAttemptCounted LiveWindowStays AtMostTwoWindows EveryExpirationCounted EndpointGetsBody CountedOnce CorrelationKept
PROPERTIES CountersGrow
