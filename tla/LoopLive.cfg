SPECIFICATION FairSpec
CONSTANTS
  r1 = r1
  r2 = r2
  w1 = w1
  w2 = w2
  k1 = k1
  Conn = {c1}
  Reader = {r1}
  Writer = {w1}
  Worker = {k1}
  None = None
  Scenario <- LiveScenarios
PROPERTIES AnsweredOrLeft ClosedFreed
CHECK_DEADLOCK FALSE
