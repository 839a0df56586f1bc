SPECIFICATION OperatorSpec
CONSTANTS
  Absent = Absent
  None = None
  c1 = c1
  c2 = c2
  s1 = s1
  policy = policy
  root = root
  Creds = {c1}
  SecretNames = {s1}
  PolicyName = policy
  Specs <- OddSpecs
  Policies <- OnePolicy
  Triggers = {"t1"}
  Passwords = {1, 2, 3, 4, 5}
  Endpoints = {"ws", "wss"}
  Unquotable = {"odd"}
  EnvEdits = {"Create", "Delete", "Force", "Policy"}
  Providers = {"primary"}
  ProviderSecrets = {root}
  ProviderSpecs <- MCSpecs
  SecretData <- MCData
  Persistent = {"Provider", "SurrealDBUnavailable", "DeleteSecret"}
  MaxEdits = 3
  MaxPlatformEdits = 2
  MaxFaults = 1
  MaxLag = 0
  MaxTime = 0
PROPERTIES PasswordsWorkThere OperatorConverges CleanupIsNotForgotten ForceCleanupCompletes
CONSTRAINT Bounds
CHECK_DEADLOCK FALSE
