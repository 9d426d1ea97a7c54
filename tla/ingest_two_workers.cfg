SPECIFICATION Spec
CONSTANTS
  Workers = {w1, w2}
  c1 = c1
  c2 = c2
  s1 = s1
  s2 = s2
  r1 = r1
  Chats = {c1, c2}
  Sources = {s1}
  SourceRef <- OneSourceRef
  Requests = {}
  RequestSource <- NoRequests
  NoRequest = NoRequest
  Kinds = {"valid", "invalid", "fatal"}
  ExternalIds <- UpdateIdAsExternalId
  MaxUpdate = 2
  BatchSize = 2
SYMMETRY WorkerSymmetry
INVARIANTS
  CursorCovered
  BatchCovered
  OneRowPerUpdate
  DeactivationTakesEffect
PROPERTIES
  IntakeSpec
CHECK_DEADLOCK FALSE
