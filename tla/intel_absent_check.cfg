SPECIFICATION Spec
CONSTANTS
  v1 = v1
  u1 = u1
  Observables = {u1}
  Kind <- UrlOnly
  Feeds <- NoFeeds
  misp = misp
  lower = lower
  upper = upper
  mixed = mixed
  Connectors = {}
  NeedsSecret = {}
  Spellings = {lower, upper}
  Slots = {r1, r2}
  MaxRequests = 3
  NoRow = NoRow
INVARIANTS
  AbsentCheckStaysUnknown
CHECK_DEADLOCK FALSE
