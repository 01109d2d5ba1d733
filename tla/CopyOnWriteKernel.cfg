CONSTANTS
  m1 = m1
  m2 = m2
  m3 = m3
  f1 = f1
  f2 = f2
  f3 = f3
  f4 = f4
  f5 = f5
  text = text
  stack = stack
  NULL = NULL
  Proc = {m1, m2, m3}
  Page = {text, stack}
  FilePage = {text}
  Stack = stack
  Frame = {f1, f2, f3, f4, f5}
  SharedBuffers = TRUE
SYMMETRY Symmetry
VIEW Meaningful
CHECK_DEADLOCK FALSE
SPECIFICATION Spec
PROPERTY ImplementsPrivate
