\* Two changes of address of one user: to another address, and to another
\* spelling of its own.
CONSTANTS
  a = a
  b = b
  A = A
  Users = {u1}
  Emails = {a, b, A}
  Norm <- Normalize
  Requests = {r1, r2}
  NoEmail = NoEmail
  Undefined = Undefined
  Tokens = {t1, t2}
  NoToken = NoToken
  Suspensions = {}
  UnfreezeRequests = {}
  ApiKeys = {}
  None = None
SPECIFICATION Spec
INVARIANT NormMatchesEmail
