---------------------------- MODULE MCProgress -----------------------------
(* What has to happen in the end: the life of processes, the scheduler     *)
(* with its sleep-lock, and pipes.  They share no state: a behaviour runs  *)
(* one of them, chosen at the start.                                       *)
EXTENDS ProcLife

CONSTANTS c1, c2, p1, p2, b1

VARIABLES which,
  sstate, chan, skilled, splock, lk, holder, spc, ret, swp, on, cproc, sp,
  pdata, nread, nwrite, readopen, writeopen, lock, freed, fd, closing, ppc, n, i, pkilled, stranded

schedVars == <<sstate, chan, skilled, splock, lk, holder, spc, ret, swp, on, cproc, sp>>
pipeVars == <<pdata, nread, nwrite, readopen, writeopen, lock, freed, fd, closing, ppc, n, i,
              pkilled, stranded>>
allVars == <<which, vars, schedVars, pipeVars>>
cur == CASE which = "life" -> vars [] which = "sched" -> schedVars [] which = "pipe" -> pipeVars

\* Two processes on two CPUs.
Sch == INSTANCE Sched WITH NPROC <- 2, CPU <- {c1, c2}, state <- sstate, killed <- skilled,
                           plock <- splock, pc <- spc, wp <- swp
\* Two processes; the contents of the bytes do not matter.
Pip == INSTANCE Pipe WITH Proc <- {p1, p2}, Byte <- {b1}, PIPESIZE <- 1, UINT <- 2, MAXN <- 2,
                          data <- pdata, pc <- ppc, killed <- pkilled

Start == /\ Init /\ Sch!Init /\ Pip!Init
         /\ which \in {"pipe"} \cup IF fd[p2] = {} THEN {"life", "sched"} ELSE {}

OnLife(A) == which = "life" /\ A /\ UNCHANGED <<which, schedVars, pipeVars>>
OnSched(A) == which = "sched" /\ A /\ UNCHANGED <<which, vars, pipeVars>>
OnPipe(A) == which = "pipe" /\ A /\ UNCHANGED <<which, vars, schedVars>>

Step == \/ OnLife(Next) \/ OnSched(Sch!Next) \/ OnPipe(Pip!Next)

\* The fairness of the three modules.  As which never changes, one condition
\* on the disjunction stands for one on each.
Strong(k) ==
  \/ OnLife(IF k = 4 THEN wait(initproc) ELSE Kernel(k))
  \/ OnSched(IF k <= 2 THEN Sch!Timer(k) ELSE Sch!Interruptible(k - 2))
  \/ OnPipe(CASE k = 1 -> Pip!Step(p1) [] k = 2 -> Pip!Step(p2)
              [] k = 3 -> Pip!pipeclose("r") [] k = 4 -> Pip!pipeclose("w"))
Weak(k) ==
  OnSched(CASE k = 1 -> Sch!scheduler(c1) [] k = 2 -> Sch!scheduler(c2)
            [] k = 3 -> Sch!scheduler_back(c1) [] k = 4 -> Sch!scheduler_back(c2)
            [] OTHER -> Sch!Kernel(k - 4))

System == /\ Start /\ [][Step]_allVars
          /\ \A k \in 1..4 : SF_cur(Strong(k))
          /\ \A k \in 1..6 : WF_cur(Weak(k))

\* Sleepers for the sleep-lock are woken and who is runnable gets a CPU
\* (releasesleep(), scheduler()).
KeepsRunning == which = "sched" => Sch!KeepsRunning
\* init frees every zombie, and wait_lock is always released (wait(), exit()).
ZombiesReaped == which = "life" => InitReaps /\ WaitLockReleased
\* Calls on a pipe end once the other end is closed (pipeclose()).  p2 is
\* like p1.
CallsEnd == which = "pipe" => Pip!CallsEnd(p1)
=============================================================================
