SPECIFICATION Spec
CONSTANTS
  NULL = NULL
  OMITTED_TTL = OMITTED_TTL
  a1 = a1 a2 = a2 a3 = a3 c1 = c1 c2 = c2 w1 = w1 w2 = w2 e1 = e1 e2 = e2
  root = root alice = alice k1 = k1 k2 = k2 k3 = k3
  Resources = {1}
  Principals = {alice, root}
  Admins = {root}
  Keys = {k1}
  Configs <- BothModes
  InitialConfigs <- FlexibleExclusive
  Transactions = {a1, e1}
  Acquirers = {a1}
  Changers = {}
  Workers = {}
  Editors = {e1}
  Requests <- BothBodies
  RenewalTtls = {1}
  BatchSize = 2
  Edits = {"update"}
  MaxVersion = 2
  MaxClock = 0
  MaxLeases = 2
SYMMETRY Interchangeable
INVARIANTS ExclusiveBlocks
