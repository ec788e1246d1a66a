\* One user with two addresses, two requests and two links outstanding, one
\* suspension, unfreeze request and API key.
CONSTANTS
  a = a
  b = b
  A = A
  Users = {u1}
  Emails = {a, b}
  Norm <- Normalize
  Requests = {r1, r2}
  NoEmail = NoEmail
  Undefined = Undefined
  Tokens = {t1, t2}
  NoToken = NoToken
  Suspensions = {s1}
  UnfreezeRequests = {q1}
  ApiKeys = {k1}
  None = None
SPECIFICATION Spec
SYMMETRY Symmetry
INVARIANTS
  TypeOK
  VerifiedMatchesStatus
  EmailProven
PROPERTY OwnerStatusSpec
