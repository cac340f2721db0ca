\* Three slots: init, a parent and its child.
CONSTANTS
  NPROC = 3
  None = None
  c1 = c1
  c2 = c2
  p1 = p1
  p2 = p2
  b1 = b1
\* A pipe that nobody holds any more, or that its only reader also holds for
\* writing, leaves nothing to do.
CHECK_DEADLOCK FALSE
SPECIFICATION System
PROPERTIES KeepsRunning ZombiesReaped CallsEnd
