SPECIFICATION FairSpec
CONSTANTS
  Absent = Absent
  None = None
  p1 = p1
  t1 = t1
  s1 = s1
  s2 = s2
  Providers = {p1}
  TenantPolicies = {t1}
  SecretNames = {s1, s2}
  ProviderSpecs <- TwoSpecs
  SecretData <- MCData
  MaxEdits = 2
  MaxFaults = 0
PROPERTIES PoliciesTruthful
CHECK_DEADLOCK FALSE
