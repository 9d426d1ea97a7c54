SPECIFICATION MCSpec
CONSTANTS
  v1 = v1
  u1 = u1
  Observables = {v1, u1}
  Kind <- CveAndUrl
  Feeds <- SomeFeeds
  misp = misp
  lower = lower
  upper = upper
  mixed = mixed
  Connectors = {misp}
  NeedsSecret = {misp}
  Spellings = {lower, upper, mixed}
  Slots = {r1, r2}
  MaxRequests = 5
  NoRow = NoRow
SYMMETRY SlotSymmetry
INVARIANTS
  TypeOK
PROPERTIES
  ScoreExplainedUnlessRaced
  
  
CHECK_DEADLOCK FALSE
