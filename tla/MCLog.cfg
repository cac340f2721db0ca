\* Two processes whose calls log up to two blocks each; a transaction holds two
\* or three calls, and at times the next call has to wait for a commit.
CONSTANTS
  p1 = p1
  p2 = p2
  b1 = b1
  b2 = b2
  v1 = v1
  v2 = v2
  Proc = {p1, p2}
  InitProc = p1
  Block = {b1, b2}
  Val = {v1, v2}
  NoBuf = NoBuf
  NoBlock = NoBlock
  OPBLOCKS = 2
  MAXOPBLOCKS = 3
  LOGSIZE = 7
  NLOG = 8
SPECIFICATION FairSpec
INVARIANTS NoPanic PinsMatchLog QuiescentDurable
PROPERTIES Refines CallsProceed
