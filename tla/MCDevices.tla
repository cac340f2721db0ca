----------------------------- MODULE MCDevices -----------------------------
(* The console's output, the clock and the disk driver share no state:     *)
(* each behaviour runs one of them, chosen at the start.                   *)
EXTENDS Integers, Sequences

CONSTANTS p1, p2, a1, a2, a3, None

VARIABLES which,
  txbuf, tx_r, tx_w, txlock, fifo, irq, txpc, left, next, echo, sent,
  ticks, ckpc, ckn, ticks0, ckkilled, elapsed, ret,
  free, desc, ops, info, avail, avail_idx, used, dev_used_idx, used_idx, busy,
  data, in_intr, dpc, write, idx0, disk, dev_idx, inflight, owed, dirq

Out == INSTANCE Uart WITH Writer <- {p1, p2}, Observed <- p1, SIZE <- 2, WRAP <- 4, MAXN <- 2,
                          MAXECHO <- 1, lock <- txlock, pc <- txpc
Clk == INSTANCE Clock WITH Proc <- {p1}, WRAP <- 4, MAXN <- 2, pc <- ckpc, n <- ckn, killed <- ckkilled
\* One request at a time, one descriptor left over for two others to quarrel
\* about; the indices wrap with the ring.
Dsk == INSTANCE VirtioDisk WITH Buf <- {a1, a2, a3}, Val <- {p1}, NUM <- 4, UINT16 <- 4,
                                pc <- dpc, irq <- dirq

outVars == <<txbuf, tx_r, tx_w, txlock, fifo, irq, txpc, left, next, echo, sent>>
clkVars == <<ticks, ckpc, ckn, ticks0, ckkilled, elapsed, ret>>
dskVars == <<free, desc, ops, info, avail, avail_idx, used, dev_used_idx, used_idx, busy,
             data, in_intr, dpc, write, idx0, disk, dev_idx, inflight, owed, dirq>>
vars == <<which, outVars, clkVars, dskVars>>

Init == /\ which \in {"output", "clock", "disk"}
        /\ Out!Init /\ Clk!Init /\ Dsk!Init

Next ==
  \/ which = "output" /\ Out!Next /\ UNCHANGED <<which, clkVars, dskVars>>
  \/ which = "clock" /\ Clk!Next /\ UNCHANGED <<which, outVars, dskVars>>
  \/ which = "disk" /\ Dsk!Next /\ UNCHANGED <<which, outVars, clkVars>>

Runs(x, A) == which = x /\ which' = x /\ A
cur == CASE which = "output" -> outVars [] which = "clock" -> clkVars [] which = "disk" -> dskVars

\* The fairness of each module.  As which never changes, one condition on a
\* disjunction stands for one on each part.  Of the disk less is assumed than
\* in VirtioDisk: that the device does not stop.
Spec ==
  /\ Init /\ [][Next]_vars
  /\ WF_cur(Runs("output", Out!Run) \/ Runs("disk", Dsk!Device))
  /\ SF_cur(Runs("clock", Clk!Tick) \/ Runs("disk", Dsk!Intr))
  /\ SF_cur(Runs("clock", Clk!Locks(p1)) \/ Runs("disk", Dsk!Step(a1)))
  /\ SF_cur(Runs("disk", Dsk!Step(a2))) /\ SF_cur(Runs("disk", Dsk!Step(a3)))
  /\ WF_cur(Runs("clock", Clk!Sleep(p1)))

\* The characters of a write() go out in order, once (uartputc(), uartstart()).
InOrder == Out!InOrder
\* Output drains and writers return once nothing is added (uartintr()).
OutputDrains == which = "output" => Out!OutputDrains
\* sleep() is never short, across the wrap of ticks (sys_sleep()).
SleepsLongEnough == Clk!SleepsLongEnough
\* A killed sleeper returns (sys_sleep(), clockintr()).
KilledReturns == which = "clock" => Clk!KilledReturns
\* A request returns (virtio_disk_rw(), virtio_disk_intr()); a2 and a3
\* are like a1.
RequestsReturn == which = "disk" => Dsk!RequestsReturn(a1)
=============================================================================
