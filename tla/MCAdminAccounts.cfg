\* Two administrators, one of them provisioned, and two requests; session ids
\* are reused when nobody holds them. Nothing happens any more once nobody is
\* active.
CONSTANTS
  Admins = {a1, a2}
  Sessions = {s1}
  Requests = {r1, r2}
  IdleTicks = 2
  NoSession = NoSession
  OtherRoles = {"viewer"}
  NoAdmin = NoAdmin
SPECIFICATION FairSpec
INVARIANT TypeOK
PROPERTIES
  LockoutNeedsOverlap
  RevivalNeedsOverlap
  SessionsEnd
CHECK_DEADLOCK FALSE
