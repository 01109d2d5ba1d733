CONSTANTS
  r1 = r1
  r2 = r2
  r3 = r3
  a = a
  newline = newline
  NULL = NULL
  Thread = {r1, r2, r3}
  LineReader = {r1, r2}
  CharReader = {r2, r3}
  Char = {a, newline}
  NL = newline
  buf_size = 3
  Count = {1}
SPECIFICATION FairSpec
PROPERTIES
  ImplementsQueue
  LineServed
CHECK_DEADLOCK FALSE
