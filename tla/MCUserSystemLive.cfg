\* Two users and one address, so that the unique index refuses writes; no
\* request dies. Ids run out, which stops a request for good.
CONSTANTS
  a = a
  b = b
  A = A
  Users = {u1, u2}
  Emails = {a}
  Norm <- Normalize
  Requests = {r1, r2}
  NoEmail = NoEmail
  Undefined = Undefined
  Tokens = {t1}
  NoToken = NoToken
  Suspensions = {s1}
  UnfreezeRequests = {q1}
  ApiKeys = {}
  None = None
SPECIFICATION UndisturbedSpec
PROPERTY ApprovalTakesEffect
CHECK_DEADLOCK FALSE
