SPECIFICATION Spec
CONSTANTS
  t1 = t1
  s1 = s1
  x1 = x1
  d1 = d1
  d2 = d2
  Payer = {"ann"}
  Course = {"0.1"}
  FreeCourse = "0.1"
  Tab = {t1}
  Session = {s1}
  Txn = {x1}
  MaxNews = 2
  MaxLost = 0
  Nobody = "nobody"
  Person = {"ann"}
  Identity = {"google-1"}
  ResetAddress = "ann"
  MaxClicks = 2
  Desk = {d1}
  FailLimit = 1
  MaxLogins = 0
  MaxResets = 0
  MaxCrashes = 0
INVARIANTS Convergent
CHECK_DEADLOCK FALSE
