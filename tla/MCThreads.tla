----------------------------- MODULE MCThreads -----------------------------
(* The scheduler, with a sleep-lock that processes contend for, the life   *)
(* of processes, and the disk driver.  They share no state: a behaviour    *)
(* runs one of them, chosen at the start.                                  *)
EXTENDS Sched, TLC

CONSTANTS c1, c2, a1, a2, v1, v2

VARIABLES which,
  pstate, parent, pkilled, pplock, wait_lock, ppc, np, pp, pwp, havekids,
  free, desc, ops, info, avail, avail_idx, used, dev_used_idx, used_idx, busy,
  data, in_intr, dpc, write, idx0, disk, dev_idx, inflight, owed, irq

lifeVars == <<pstate, parent, pkilled, pplock, wait_lock, ppc, np, pp, pwp, havekids>>
diskVars == <<free, desc, ops, info, avail, avail_idx, used, dev_used_idx, used_idx, busy,
              data, in_intr, dpc, write, idx0, disk, dev_idx, inflight, owed, irq>>

\* Four slots: init, a parent, its child and one more.
Life == INSTANCE ProcLife WITH NPROC <- 4, state <- pstate, killed <- pkilled, plock <- pplock,
                               pc <- ppc, wp <- pwp
\* The driver's eight descriptors and two requests, served in either order.
NUM == 8
UINT16 == 16
Disk == INSTANCE VirtioDisk WITH Buf <- {a1, a2}, Val <- {v1, v2}, pc <- dpc

Start == which \in {"sched", "life", "disk"} /\ Init /\ Life!Init /\ Disk!Init
Step == \/ which = "sched" /\ Next /\ UNCHANGED <<which, lifeVars, diskVars>>
        \/ which = "life" /\ Life!Next /\ UNCHANGED <<which, vars, diskVars>>
        \/ which = "disk" /\ Disk!Next /\ UNCHANGED <<which, vars, lifeVars>>
System == Start /\ [][Step]_<<which, vars, lifeVars, diskVars>>

\* The CPUs are interchangeable, so are the buffers and the contents of blocks.
Symm == Permutations(CPU) \cup Permutations({a1, a2}) \cup Permutations({v1, v2})

\* The positions of a ring from k up to, not including, l.
Window(k, l) == {j % NUM : j \in k..(IF k <= l THEN l ELSE l + UINT16) - 1}

\* The driver's state without what nobody reads again: ring entries that
\* have been consumed, the command header and status of a free descriptor,
\* and the locals of calls that have returned.  States that differ in these
\* alone have the same successors up to these.
View == IF which # "disk" THEN <<which, vars, lifeVars>>
        ELSE <<which, free, desc, busy, data, disk, in_intr, dpc, inflight, owed, irq,
               avail_idx, dev_idx, dev_used_idx, used_idx,
               [k \in Window(dev_idx, avail_idx) |-> avail[k]],
               [k \in Window(used_idx, dev_used_idx) |-> used[k]],
               [d \in Disk!Desc \ free |-> <<ops[d], info[d]>>],
               [b \in Disk!Submitted |-> idx0[b]],
               [b \in {c \in {a1, a2} : dpc[c] \in {"alloc", "wait_free"}} |-> write[b]]>>

\* wait() frees no stack that is in use (exit(), freeproc()).
FreedOffStack == Life!FreedOffStack
\* Every exit reaches a parent that is awake (exit(), reparent(), wait()).
ExitSeen == Life!ExitSeen
\* Rings, descriptors, requests and interrupts agree (virtio_disk.c:213-327).
DiskConsistent == which = "disk" => Disk!DiskConsistent
=============================================================================
