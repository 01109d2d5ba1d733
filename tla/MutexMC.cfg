CONSTANTS
  t1 = t1
  t2 = t2
  t3 = t3
  t4 = t4
  Thread = {t1, t2, t3, t4}
  NULL = NULL
  MaxRepeat = 2
  IntrOn <- SafeLabels
SPECIFICATION FairSpec
INVARIANTS
  ReleaseAsserts
  NoLostWakeup
  WaitersLinked
PROPERTIES
  ImplementsLock
  SleeperWakes
