\* Two requests in flight in every part; the parts run down where a bound is
\* reached or the user has left. One key of the rate limit, whose window is 3
\* ticks with a second of 2, so that rounding Retry-After up matters; one user
\* with two API keys; two browsers and session ids; three profiles, two edits
\* of them and pages of one or two.
CONSTANTS
  Keys = {k1}
  Requests = {r1, r2}
  Calls = {r1, r2}
  Window = 3
  SecondMs = 2
  Limits = {1, 2}
  DefaultLimit = 2
  MaxTime = 9
  MaxHits = 5
  Users = {u1}
  ApiKeys = {s1, s2}
  Browsers = {b1, b2}
  Sids = {s1, s2}
  Tokens = {t1}
  Passwords = {p1}
  Profiles = {1, 2, 3}
  Savers = {r1, r2}
  Visitors = {u1}
  PageSizes = {1, 2}
  SitePage = 1
  MaxClock = 2
  MaxEdits = 2
  NoSid = None
  NoKey = None
SPECIFICATION AccessSpec
SYMMETRY Symmetry
CHECK_DEADLOCK FALSE
INVARIANTS
  AccessTypeOK
  BlockOutlastsWindow
  NoServiceAfterLeaving
  RevokedForGood
  FreezeRevokesKeys
  LogoutHolds
  ResetLinkUsedOnce
  WithdrawnStaysOut
  EachShownOnce
PROPERTIES
  QuotaSpec
  RetryAfterHonoured
