\* Two administrators review one unfreeze request.
CONSTANTS
  a = a
  b = b
  A = A
  Users = {u1}
  Emails = {a}
  Norm <- Normalize
  Requests = {r1, r2}
  NoEmail = NoEmail
  Undefined = Undefined
  Tokens = {t1}
  NoToken = NoToken
  Suspensions = {s1}
  UnfreezeRequests = {q1}
  ApiKeys = {}
  None = None
SPECIFICATION Spec
PROPERTY DecisionIsFinal
