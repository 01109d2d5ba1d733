CONSTANTS
  t1 = t1
  t2 = t2
  t3 = t3
  t4 = t4
  Thread = {t1, t2, t3, t4}
CHECK_DEADLOCK FALSE
SPECIFICATION FairSpec
INVARIANTS
  CountHolds
  ReadyWriteMeant
  NoLostWakeup
PROPERTIES
  WritersFirst
  WriterWakes
  ImplementsLock
