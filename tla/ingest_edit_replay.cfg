SPECIFICATION FairSpec
CONSTANTS
  Workers = {w1}
  c1 = c1
  c2 = c2
  s1 = s1
  s2 = s2
  r1 = r1
  Chats = {c1}
  Sources = {s1}
  SourceRef <- OneSourceRef
  Requests = {}
  RequestSource <- NoRequests
  NoRequest = NoRequest
  Kinds = {"valid"}
  ExternalIds <- EditsShareExternalId
  MaxUpdate = 3
  BatchSize = 1
PROPERTIES
  Progress
CHECK_DEADLOCK FALSE
