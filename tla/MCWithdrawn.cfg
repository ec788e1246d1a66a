\* Two confirmation links and a withdrawal; nobody moderates.
CONSTANTS
  a = a
  b = b
  A = A
  Users = {u1}
  Emails = {a}
  Norm <- Normalize
  Requests = {r1, r2}
  NoEmail = NoEmail
  Undefined = Undefined
  Tokens = {t1, t2}
  NoToken = NoToken
  Suspensions = {}
  UnfreezeRequests = {}
  ApiKeys = {}
  None = None
SPECIFICATION Spec
PROPERTY WithdrawnIsTerminal
