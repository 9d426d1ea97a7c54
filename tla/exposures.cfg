SPECIFICATION MCSpec
CONSTANTS
  e1 = e1
  p1 = p1
  p2 = p2
  h1 = h1
  d1 = d1
  Emails = {e1}
  Records <- AllRecords
  Files <- SomeFiles
  Bad = Bad
  SurfaceKeys = {h1}
  Lookups = {d1}
  Triages <- SomeTriages
  Criticalities = {"medium", "critical"}
  Slots = {r1, r2}
  MaxRequests = 5
  NoRow = NoRow
SYMMETRY SlotSymmetry
INVARIANTS
  TypeOK
  BatchAccounts
  
PROPERTIES
  SightingsFallOnlyInARace
  LeaksCountedUnlessRaced
  
CHECK_DEADLOCK FALSE
