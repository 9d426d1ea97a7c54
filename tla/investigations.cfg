SPECIFICATION MCSpec
CONSTANTS
  d1 = d1
  own = own
  u1 = u1
  Domains = {d1, own}
  Officials <- OwnOrBoth
  Observations <- SeenAs
  Labels = {"dismissed"}
  Assignees = {u1}
  Patches <- SomePatches
  Unset = Unset
  ALERT_MIN_VERDICT = "suspicious"
  Slots = {r1, r2}
  MaxRequests = 6
  NoRow = NoRow
SYMMETRY SlotSymmetry
INVARIANTS
  TypeOK
  CustodyKept
PROPERTIES
  SecondCaseOnlyByReopen
  ClosedAtTornOnlyInARace
  EvidenceStored
  FindingsDroppedOnRequest
CHECK_DEADLOCK FALSE
