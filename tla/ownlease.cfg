SPECIFICATION ScenarioSpec
CONSTANTS
  NULL = NULL
  OMITTED_TTL = OMITTED_TTL
  h1 = h1 h2 = h2 c1 = c1 w1 = w1 e1 = e1
  root = root alice = alice key = key old = old new = new team = team
  Resources = {1, 2}
  Principals = {alice, root}
  Admins = {root}
  Keys = {key}
  Configs <- EitherVisibility
  Transactions = {h1, h2, c1, w1, e1}
  Readers = {h1, h2}
  Changers = {c1}
  Workers = {w1}
  Editors = {e1}
  RenewalTtls = {}
  BatchSize = 1
  Edits = {"archive", "update", "revoke"}
  MaxVersion = 2
  GroupIds = {team}
  SecretOps = {"create", "update", "delete", "list", "get", "access"}
  RingKeys = {old, new}
  MaxSecrets = 2
  MaxRevision = 2
  MaxClock = 1
  Beginnings <- AllBeginnings
  Scenarios = {"late"}
PROPERTIES OwnLeaseActive
