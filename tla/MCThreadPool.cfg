SPECIFICATION Spec
CONSTANTS
  Workers = {w1, w2, w3}
  Producers = {owner, p2}
  Owner = owner
  Tasks = {t1, t2, t3}
  None = None
INVARIANTS TypeOK NoLostWakeup ExactlyOnce
PROPERTIES EveryTaskStarts DestructorReturns
CHECK_DEADLOCK FALSE
