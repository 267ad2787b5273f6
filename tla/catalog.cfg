SPECIFICATION ScenarioSpec
CONSTANTS
  NULL = NULL
  OMITTED_TTL = OMITTED_TTL
  a1 = a1 a2 = a2 a3 = a3 c1 = c1 c2 = c2 w1 = w1 w2 = w2 e1 = e1 e2 = e2
  root = root alice = alice k1 = k1 k2 = k2 k3 = k3
  Resources = {1, 2}
  Principals = {alice, root}
  Admins = {root}
  Keys = {k1}
  Configs <- AllConfigs
  InitialConfigs <- FirstConfigs
  Transactions = {a1, a2, c1, e1, e2}
  Acquirers = {a1, a2}
  Changers = {c1}
  Workers = {}
  Editors = {e1, e2}
  Requests <- AllRequests
  RenewalTtls = {2}
  BatchSize = 2
  Edits = {"update", "archive", "disable", "enable", "quarantine", "recover", "grant", "revoke"}
  MaxVersion = 4
  MaxClock = 2
  MaxLeases = 2
SYMMETRY Twins
INVARIANTS ArchivedIsIdle SelectionHolds
PROPERTIES PolicyObeyed NoLostUpdate
