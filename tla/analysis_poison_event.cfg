SPECIFICATION FairSpec
CONSTANTS
  Workers = {w1}
  k1 = k1
  k2 = k2
  brand = brand
  NumTenants = 1
  MaxEvent = 2
  TenantOf <- OneTenant
  ContextOf <- EarlierContext
  Held = {1}
  Poison = {1}
  Keys = {k1, k2}
  NoKey = NoKey
  Credential = {k1, k2}
  TargetOf <- SameBrand
  Verdicts <- Promotions
  BatchSize = 2
  MaxOpened = 0
  MaxCase = 6
PROPERTIES
  QueueDrains
CHECK_DEADLOCK FALSE
