SPECIFICATION FairSpec
CONSTANTS
  Workers = {w1}
  k1 = k1
  k2 = k2
  brand = brand
  NumTenants = 2
  MaxEvent = 3
  TenantOf <- LastApart
  ContextOf <- EarlierContext
  Held = {1}
  Poison = {}
  Keys = {k1, k2}
  NoKey = NoKey
  Credential = {k1, k2}
  TargetOf <- SameBrand
  Verdicts <- TwoDays
  BatchSize = 2
  MaxOpened = 1
  MaxCase = 6
INVARIANTS
  TypeOK
  EvidenceListed
  OneAutoCase
PROPERTIES
  QueueDrains
CHECK_DEADLOCK FALSE
