SPECIFICATION Spec
CONSTANTS
  r1 = r1
  r2 = r2
  w1 = w1
  w2 = w2
  k1 = k1
  Conn = {c1}
  Reader = {r1, r2}
  Writer = {w1, w2}
  Worker = {k1}
  None = None
  Scenario <- SafetyScenarios
SYMMETRY PoolSymmetry
INVARIANTS FlushedWhenUnlocked WireFramed AnswersInOrder CloseIsLast ReadersSafe
CHECK_DEADLOCK FALSE
