SPECIFICATION MCSpec
CONSTANTS
  o = o
  a = a
  b = b
  t1 = t1
  Emails = {o, a, b}
  Tenants = {t1}
  Roles = {"viewer", "admin"}
  OperatorRoles = {"platform_admin", "support_operator"}
  UserUpdates <- SomeUpdates
  Slots = {r1, r2}
  MaxRequests = 3
  Platform = Platform
  Keep = Keep
  NoRow = NoRow
  Gone = Gone
  Fresh = Fresh
SYMMETRY SlotSymmetry
INVARIANT AcceptanceSucceeds
CHECK_DEADLOCK FALSE
