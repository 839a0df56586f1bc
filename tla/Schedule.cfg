SPECIFICATION FairSpec
CONSTANTS
  Absent = Absent
  None = None
  c1 = c1
  c2 = c2
  s1 = s1
  policy = policy
  Creds = {c1}
  SecretNames = {s1}
  PolicyName = policy
  Specs <- Periods
  Policies <- TwoPolicies
  Triggers = {"t1"}
  Passwords = {1, 2, 3, 4, 5}
  Endpoints = {"ws"}
  Unquotable = {"odd"}
  EnvEdits = {"Create", "Spec", "RotateAt", "BlankSecret", "DeleteSecret"}
  Persistent = {}
  MaxEdits = 2
  MaxFaults = 1
  MaxLag = 0
  MaxTime = 3
PROPERTIES Converges ReusesPassword RotationNotDelayed
CHECK_DEADLOCK FALSE
