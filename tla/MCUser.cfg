CONSTANTS
  Proc = {p1, p2}
  FirstProc = p1
  NPAGE = 19
  FAN = 3
  PGSIZE = 4
  WORD = 128
  MAXPATH = 8
  MAXARG = 3
  Prog <- MCProg
  Args <- MCArgs
  Addr <- MCAddr
  Sbrk <- MCSbrk
  MAXPIPE = 1
  c1 = c1
  c2 = c2
  t1 = t1
  t2 = t2
  None = None
SPECIFICATION System
VIEW View
CHECK_DEADLOCK FALSE
INVARIANTS NeverPanics PageOwners UserResumes KernelResumes NoLostWakeup
PROPERTIES ImagesKept LinesKept
