\* Two super_admins and two requests.
CONSTANTS
  Admins = {a1, a2}
  Sessions = {s1}
  Requests = {r1, r2}
  IdleTicks = 1
  NoSession = NoSession
  OtherRoles = {"viewer"}
  NoAdmin = NoAdmin
SPECIFICATION Spec
INVARIANT SuperAdminRemains
CHECK_DEADLOCK FALSE
