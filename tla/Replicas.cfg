SPECIFICATION Spec
CONSTANTS
  Absent = Absent
  None = None
  c1 = c1
  c2 = c2
  s1 = s1
  policy = policy
  Creds = {c1, c2}
  SecretNames = {s1}
  PolicyName = policy
  Specs <- MCSpecs
  Policies <- MCPolicies
  Triggers = {"t1"}
  PasswordsA = {1, 2, 3}
  PasswordsB = {4, 5, 6}
  Endpoints = {"ws"}
  Unquotable = {"odd"}
  EnvEdits = {"Create", "Spec", "Delete"}
  Persistent = {}
  MaxEdits = 2
  MaxFaults = 2
  MaxLag = 1
  MaxTime = 0
INVARIANTS TypeOK LeaderKeepsPromises
ACTION_CONSTRAINT ResyncIfElect
CONSTRAINT Bounds
CHECK_DEADLOCK FALSE
PROPERTIES LeaderPublishesWorking SecretsKeepOwners Answered
