SPECIFICATION FairSpec
CONSTANTS
  Thread = {t1, t2}
  Item = {i1, i2, i3}
  Ptr = {p1, p2}
  None = None
  MayBlock = TRUE
INVARIANTS TypeOK CountExact ExclusiveHold NoLostWakeup DrainSafe DrainedBlocked
PROPERTIES ReadyServed DrainEnds ImplementsWorkQueue
