SPECIFICATION ResyncSpec
CONSTANTS
  Absent = Absent
  None = None
  p1 = p1
  t1 = t1
  s1 = s1
  s2 = s2
  Providers = {p1}
  TenantPolicies = {t1}
  SecretNames = {s1, s2}
  ProviderSpecs <- MCSpecs
  SecretData <- MCData
  MaxEdits = 4
  MaxFaults = 1
INVARIANTS TypeOK NothingForgotten
PROPERTIES ProvidersTruthful PoliciesTruthful
CHECK_DEADLOCK FALSE
