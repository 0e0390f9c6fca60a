SPECIFICATION Spec
CONSTANTS
  t1 = t1
  s1 = s1
  x1 = x1
  d1 = d1
  d2 = d2
  Payer = {"ann", "ben"}
  Course = {"0.1", "1.1"}
  FreeCourse = "0.1"
  Tab = {t1}
  Session = {s1}
  Txn = {x1}
  MaxNews = 2
  MaxLost = 1
  Nobody = "nobody"
  Person = {"ann", "ben"}
  Identity = {"google-1", "github-1"}
  ResetAddress = "ann"
  MaxClicks = 2
  Desk = {d1, d2}
  FailLimit = 1
  MaxLogins = 2
  MaxResets = 2
  MaxCrashes = 1
INVARIANTS
  EnrollmentSound
  SessionBacked
  ResetEndsSessions
PROPERTIES
  PaidIsEnrolled
CHECK_DEADLOCK FALSE
