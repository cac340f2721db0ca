\* Three processes share a pipe of two bytes whose counters wrap at four.
CONSTANTS
  p1 = p1
  p2 = p2
  p3 = p3
  b1 = b1
  b2 = b2
  Proc = {p1, p2, p3}
  Byte = {b1, b2}
  None = None
  PIPESIZE = 2
  UINT = 4
  MAXN = 2
SPECIFICATION Spec
SYMMETRY Symm
VIEW Live
INVARIANTS NoUseAfterFree NoLostWakeup
PROPERTIES Refines
\* With all descriptors closed nothing is left to do.
CHECK_DEADLOCK FALSE
