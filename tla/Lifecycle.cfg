SPECIFICATION Spec
CONSTANTS
  Absent = Absent
  None = None
  c1 = c1
  c2 = c2
  s1 = s1
  policy = policy
  Creds = {c1}
  SecretNames = {s1}
  PolicyName = policy
  Specs <- RoleSpecs
  Policies <- OnePolicy
  Triggers = {"t1"}
  Passwords = {1, 2, 3, 4, 5}
  Endpoints = {"ws"}
  Unquotable = {"odd"}
  EnvEdits = {"Create", "Spec", "RotateAt", "Delete", "BlankSecret", "DeleteSecret", "ForeignSecret", "Policy"}
  Persistent = {}
  MaxEdits = 3
  MaxFaults = 1
  MaxLag = 1
  MaxTime = 0
INVARIANTS TypeOK ReadyIsHonest NoOrphanUser
PROPERTIES OwnershipStable PublishedPasswordWorks ImplementsService
CHECK_DEADLOCK FALSE
