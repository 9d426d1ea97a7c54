SPECIFICATION FairSpec
CONSTANTS
  Workers = {w1}
  c1 = c1
  c2 = c2
  s1 = s1
  s2 = s2
  r1 = r1
  Chats = {c1}
  Sources = {s1, s2}
  SourceRef <- SameChatRef
  Requests = {r1}
  RequestSource <- OneRequest
  NoRequest = NoRequest
  Kinds = {"valid"}
  ExternalIds <- UpdateIdAsExternalId
  MaxUpdate = 2
  BatchSize = 2
INVARIANTS
  TypeOK
  RowsBehindCursor
  VerifiedByOneMessage
PROPERTIES
  CursorMonotone
  Progress
CHECK_DEADLOCK FALSE
