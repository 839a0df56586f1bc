SPECIFICATION Spec
CONSTANTS
  Absent = Absent
  None = None
  c1 = c1
  c2 = c2
  s1 = s1
  policy = policy
  Creds = {c1}
  SecretNames = {s1}
  PolicyName = policy
  Specs <- OneSpec
  Policies <- OnePolicy
  Triggers = {"t1"}
  Passwords = {1, 2, 3, 4, 5}
  Endpoints = {"ws"}
  Unquotable = {"odd"}
  EnvEdits = {"Create"}
  Persistent = {}
  MaxEdits = 1
  MaxFaults = 1
  MaxLag = 0
  MaxTime = 0
INVARIANTS LastRotationRecorded
CHECK_DEADLOCK FALSE
