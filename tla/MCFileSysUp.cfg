CONSTANTS
  Proc = {p1, p2}
  InitProc = p1
  Inum = {root, i2, i3}
  Root = root
  Name = {"a", "b"}
  Call <- UpCalls
  NINODE = 3
  NFILE = 1
  NOFILE = 1
SYMMETRY Symm
SPECIFICATION Spec
INVARIANT NoPanic
