SPECIFICATION FairSpec
CONSTANTS
  NULL = NULL
  m1 = m1 m2 = m2 s1 = s1 s2 = s2 ann = ann bob = bob robot = robot team = team
  Users = {ann, bob}
  Services = {}
  Transactions = {m1, m2, s1}
  Managers = {m1, m2}
  Sessions = {s1}
  Operations = {"archive", "update"}
  NewRoles = {"User"}
  Uses = {"login"}
  Groups = {team}
  MaxTokens = 3
  MaxPassword = 1
  Installations <- People
CHECK_DEADLOCK FALSE
PROPERTIES RequestsEnd
