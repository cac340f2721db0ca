\* Calls that log all the blocks begin_op() reserved for them.
CONSTANTS
  p1 = p1
  p2 = p2
  b1 = b1
  b2 = b2
  v1 = v1
  v2 = v2
  Proc = {p1, p2}
  InitProc = p1
  Block = {b1, b2}
  Val = {v1, v2}
  NoBuf = NoBuf
  NoBlock = NoBlock
  OPBLOCKS = 1
  MAXOPBLOCKS = 1
  LOGSIZE = 2
  NLOG = 3
SPECIFICATION Spec
INVARIANTS NoPanic
