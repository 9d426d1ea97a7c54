SPECIFICATION Spec
CONSTANTS
  Workers = {w1, w2}
  k1 = k1
  k2 = k2
  brand = brand
  NumTenants = 1
  MaxEvent = 3
  TenantOf <- OneTenant
  ContextOf <- EarlierContext
  Held = {}
  Poison = {}
  Keys = {k1, k2}
  NoKey = NoKey
  Credential = {k1, k2}
  TargetOf <- SameBrand
  Verdicts <- TwoDays
  BatchSize = 2
  MaxOpened = 1
  MaxCase = 6
SYMMETRY WorkerSymmetry
INVARIANTS
  OneHolder
  
  
  
PROPERTIES
  PurgedStaysUnread
CHECK_DEADLOCK FALSE
