\* Two requests in flight in every part; the parts run down where a bound is
\* reached. Two passkeys with three challenges, which is what two overlapping
\* logins need; two kinds of policy with three versions in all; one announcement
\* with one form, and three times, one of them not on the minute; two help
\* articles that compete for two addresses; two recipients of one notification.
CONSTANTS
  Requests = {r1, r2}
  Emails = {e1}
  Credentials = {x1, x2}
  MaxChallenges = 3
  MaxCount = 2
  Types = {x1, x2}
  Editors = {r1, r2}
  MaxRows = 3
  Notices = {n1}
  Tabs = {t1}
  Words = {w1, w2}
  Times = {2, 3, 4}
  ToMinute <- EvenTime
  Articles = {x1, x2}
  Slugs = {w1, w2}
  Inquiries = {i1}
  Reports = {c1}
  Notifications = {m1}
  Senders = {r1, r2}
  Users = {x1, x2}
  MaxMails = 2
  MaxChanges = 2
  None = None
  NoPasskey = None
SPECIFICATION Spec
SYMMETRY Symmetry
CHECK_DEADLOCK FALSE
INVARIANTS
  TypeOK
  ChallengeUsedOnce
  DeletedStaysDeleted
  LonePublicationTakesEffect
  LogTellsStatus
  MailedOnce
  SentMeansMailed
PROPERTIES
  CounterFallsOnlyToOverlap
  OnlyWhatWasAsked
  DeletedOnlyAsDraft
  EditsKeepTheRest
  OptOutsRespected
