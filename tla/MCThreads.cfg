\* Three processes on two CPUs.
CONSTANTS
  NPROC = 3
  c1 = c1
  c2 = c2
  a1 = a1
  a2 = a2
  v1 = v1
  v2 = v2
  CPU = {c1, c2}
  None = None
SPECIFICATION System
VIEW View
SYMMETRY Symm
INVARIANTS Exclusive NoPanic FreedOffStack ExitSeen DiskConsistent
