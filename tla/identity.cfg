SPECIFICATION ScenarioSpec
CONSTANTS
  NULL = NULL
  m1 = m1 m2 = m2 s1 = s1 s2 = s2 ann = ann bob = bob robot = robot team = team
  Users = {ann, bob}
  Services = {robot}
  Transactions = {m1, m2, s1, s2}
  Managers = {m1, m2}
  Sessions = {s1, s2}
  Operations = {"archive", "update", "create", "bootstrap"}
  NewRoles = {"Admin", "User", NULL}
  Uses = {"login", "change password", "create token", "revoke token", "reset password", "create service token", "revoke service token", "create group", "archive group", "remove member", "add member"}
  Groups = {team}
  MaxTokens = 4
  MaxPassword = 2
  Installations <- AllInstallations
CHECK_DEADLOCK FALSE
SYMMETRY Twins
INVARIANTS TypeOK ScanHolds NeverOrphaned BootstrapOnce
PROPERTIES TokensAreOwn LoginsAreActive ReplacedPasswordRejected
