CONSTANTS
  main = main
  idle = idle
  NULL = NULL
  t1 = t1
  t2 = t2
  t3 = t3
  w1 = w1
  Thread = {main, idle, t1, t2, t3}
  WaitList = {w1}
  Prio = 1
  MaxTicks = 1
  MAX_PID = 4
SPECIFICATION FairSpec
INVARIANTS
  TagLinkedOnce
  StateAgrees
  PidsUnique
PROPERTIES
  NoOvertaking
  ReadyRuns
