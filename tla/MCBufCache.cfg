\* Two processes, three buffers and up to two pinned blocks: there may be no
\* buffer left.  With four blocks buffers are recycled all the time.
CONSTANTS
  p1 = p1
  p2 = p2
  k1 = k1
  k2 = k2
  k3 = k3
  k4 = k4
  v1 = v1
  v2 = v2
  b1 = b1
  b2 = b2
  b3 = b3
  Proc = {p1, p2}
  Block = {k1, k2, k3, k4}
  Val = {v1, v2}
  None = None
  Buf = {b1, b2, b3}
  MAXPIN = 2
SPECIFICATION Spec
SYMMETRY Symm
INVARIANTS CacheConsistent
PROPERTIES Refines
