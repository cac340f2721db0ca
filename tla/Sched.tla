------------------------------- MODULE Sched -------------------------------
(***************************************************************************)
(* Processes, CPUs and locks of kernel/proc.c and kernel/sleeplock.c: the  *)
(* per-CPU scheduler(), swtch() through sched(), sleep(), wakeup(),        *)
(* yield() and kill(), used by processes that take and give back one       *)
(* sleep-lock.                                                             *)
(*                                                                         *)
(* A CPU runs either its scheduler or the kernel thread of a process.  A   *)
(* critical section that acquires and releases one p->lock is one action;  *)
(* wherever a lock stays held over a swtch() or while another lock is      *)
(* taken or given back, every acquire() and release() is a step.           *)
(***************************************************************************)
EXTENDS Integers, FiniteSets

CONSTANTS NPROC,  \* process slots
          CPU,    \* harts
          None    \* no process, or no CPU: a null pointer

ASSUME SchedAssumption == NPROC \in Nat \ {0} /\ None \notin CPU /\ None \notin Nat

Proc == 1..NPROC

VARIABLES
  state,   \* p->state
  chan,    \* p->chan is the sleep-lock
  killed,  \* p->killed
  plock,   \* p->lock: the CPU that holds it
  lk,      \* lk->lk, the spin-lock inside the sleep-lock
  holder,  \* lk->locked and lk->pid: the process that has the sleep-lock
  pc,      \* where each process's kernel thread is
  ret,     \* where its sched() returns to
  wp,      \* the loop variable of its wakeup()
  on,      \* whose stack each CPU is on; None is the scheduler's own
  cproc,   \* c->proc
  sp       \* the loop variable of its scheduler()

pvars == <<state, chan, killed>>
lvars == <<plock, lk, holder>>
tvars == <<pc, ret, wp>>
cvars == <<on, cproc, sp>>
vars  == <<pvars, lvars, tvars, cvars>>

Init == /\ state = [p \in Proc |-> "RUNNABLE"]
        /\ chan = [p \in Proc |-> FALSE]
        /\ killed = [p \in Proc |-> FALSE]
        /\ plock = [p \in Proc |-> None]
        /\ lk = None
        /\ holder = None
        /\ pc = [p \in Proc |-> "resume"]
        /\ ret = [p \in Proc |-> "user"]
        /\ wp = [p \in Proc |-> 1]
        /\ on = [c \in CPU |-> None]
        /\ cproc = [c \in CPU |-> None]
        /\ sp = [c \in CPU |-> 1]

\* CPU c executes the kernel thread of p, which is at l.
At(c, p, l) == on[c] = p /\ pc[p] = l

Goto(p, l) == pc' = [pc EXCEPT ![p] = l]
-----------------------------------------------------------------------------
(* scheduler() on CPU c.                                                   *)

\* Mutations: the loop runs off the table, or stays at its end.
NextSlot_NoWrap(p) == p + 1
NextSlot_Stay(p) == IF p = NPROC THEN p ELSE p + 1
NextSlot(p) == IF p = NPROC THEN 1 ELSE p + 1

\* Take p->lock; run p with the lock held, or go on to the next slot.
scheduler(c) ==
  /\ on[c] = None
  /\ cproc[c] = None
  /\ LET p == sp[c]
     IN /\ plock[p] = None
        /\ IF state[p] = "RUNNABLE"
           THEN /\ plock' = [plock EXCEPT ![p] = c]
                /\ state' = [state EXCEPT ![p] = "RUNNING"]
                /\ cproc' = [cproc EXCEPT ![c] = p]
                /\ on' = [on EXCEPT ![c] = p]
                /\ UNCHANGED sp
           ELSE /\ sp' = [sp EXCEPT ![c] = NextSlot(p)]
                /\ UNCHANGED <<plock, state, cproc, on>>
  /\ UNCHANGED <<chan, killed, lk, holder, tvars>>

\* Mutation: p->lock is not released.
scheduler_back_Locked(c) ==
  /\ on[c] = None
  /\ cproc[c] # None
  /\ cproc' = [cproc EXCEPT ![c] = None]
  /\ sp' = [sp EXCEPT ![c] = NextSlot(sp[c])]
  /\ UNCHANGED <<pvars, lvars, tvars, on>>

\* Back from the process: c->proc = 0; release(&p->lock).
scheduler_back(c) ==
  /\ on[c] = None
  /\ cproc[c] # None
  /\ cproc' = [cproc EXCEPT ![c] = None]
  /\ plock' = [plock EXCEPT ![sp[c]] = None]
  /\ sp' = [sp EXCEPT ![c] = NextSlot(sp[c])]
  /\ UNCHANGED <<pvars, lk, holder, tvars, on>>
-----------------------------------------------------------------------------
(* Kernel threads.                                                         *)

\* swtch(&p->context, &mycpu()->context)
sched(c, p) ==
  /\ At(c, p, "sched")
  /\ on' = [on EXCEPT ![c] = None]
  /\ Goto(p, "resume")
  /\ UNCHANGED <<pvars, lvars, ret, wp, cproc, sp>>

\* After sched() the caller, yield(), forkret() or sleep(), gives p->lock
\* back; sleep() then acquires lk again.
resume(c, p) ==
  /\ At(c, p, "resume")
  /\ plock' = [plock EXCEPT ![p] = None]
  /\ IF ret[p] = "sleep"
     THEN chan' = [chan EXCEPT ![p] = FALSE] /\ Goto(p, "acquire")
     ELSE UNCHANGED chan /\ Goto(p, ret[p])
  /\ UNCHANGED <<state, killed, lk, holder, ret, wp, cvars>>

\* Mutation: the state changes without p->lock.
yield_Unlocked(c, p) ==
  /\ on[c] = p /\ pc[p] \in {"user", "crit", "acquire"}
  /\ plock[p] = None
  /\ state' = [state EXCEPT ![p] = "RUNNABLE"]
  /\ ret' = [ret EXCEPT ![p] = pc[p]]
  /\ Goto(p, "sched")
  /\ UNCHANGED <<chan, killed, lvars, wp, cvars>>

\* A timer interrupt where interrupts are on, that is, no lock is held.
yield(c, p) ==
  /\ on[c] = p /\ pc[p] \in {"user", "crit", "acquire"}
  /\ plock[p] = None
  /\ plock' = [plock EXCEPT ![p] = c]
  /\ state' = [state EXCEPT ![p] = "RUNNABLE"]
  /\ ret' = [ret EXCEPT ![p] = pc[p]]
  /\ Goto(p, "sched")
  /\ UNCHANGED <<chan, killed, lk, holder, wp, cvars>>

\* acquiresleep(): acquire(&lk->lk)
acquiresleep(c, p) ==
  /\ \/ At(c, p, "user")
     \/ At(c, p, "acquire")
  /\ lk = None
  /\ lk' = c
  /\ Goto(p, "test")
  /\ UNCHANGED <<pvars, plock, holder, ret, wp, cvars>>

\* Mutation: the lock is not tested again after sleep().
Free_Once(p) == holder = None \/ ret[p] = "sleep"

\* lk->locked == 0
Free(p) == holder = None

\* acquiresleep(): take a free lock, or sleep(lk, &lk->lk).
acquiresleep_test(c, p) ==
  /\ At(c, p, "test")
  /\ IF Free(p)
     THEN holder' = p /\ lk' = None /\ Goto(p, "crit")
     ELSE Goto(p, "sleep") /\ UNCHANGED <<holder, lk>>
  /\ UNCHANGED <<pvars, plock, ret, wp, cvars>>

\* Mutation: lk is released before p->lock is taken.
sleep_LockLate(c, p) ==
  /\ At(c, p, "sleep")
  /\ lk' = None
  /\ Goto(p, "asleep")
  /\ UNCHANGED <<pvars, plock, holder, ret, wp, cvars>>

\* sleep(): acquire(&p->lock), while lk is still held.
sleep(c, p) ==
  /\ At(c, p, "sleep")
  /\ plock[p] = None
  /\ plock' = [plock EXCEPT ![p] = c]
  /\ Goto(p, "asleep")
  /\ UNCHANGED <<pvars, lk, holder, ret, wp, cvars>>

\* sleep(): release(lk); p->chan = chan; p->state = SLEEPING.
sleep_release(c, p) ==
  /\ At(c, p, "asleep")
  /\ lk' = None
  /\ chan' = [chan EXCEPT ![p] = TRUE]
  /\ state' = [state EXCEPT ![p] = "SLEEPING"]
  /\ ret' = [ret EXCEPT ![p] = "sleep"]
  /\ Goto(p, "sched")
  /\ UNCHANGED <<killed, plock, holder, wp, cvars>>

\* releasesleep(): acquire(&lk->lk); lk->locked = 0
releasesleep(c, p) ==
  /\ At(c, p, "crit")
  /\ lk = None
  /\ lk' = c
  /\ holder' = None
  /\ Goto(p, "wakeup")
  /\ wp' = [wp EXCEPT ![p] = 1]
  /\ UNCHANGED <<pvars, plock, ret, cvars>>

\* Mutation: the loop stops before the last slot.
Woken_NotLast(q) == IF state[q] = "SLEEPING" /\ chan[q] /\ q < NPROC
                    THEN [state EXCEPT ![q] = "RUNNABLE"] ELSE state
Woken(q) == IF state[q] = "SLEEPING" /\ chan[q]
            THEN [state EXCEPT ![q] = "RUNNABLE"] ELSE state

\* wakeup(lk): one slot of the process table; then release(&lk->lk).
wakeup(c, p) ==
  /\ At(c, p, "wakeup")
  /\ LET q == wp[p]
     IN \/ /\ q <= NPROC /\ q # p
           /\ plock[q] = None
           /\ state' = Woken(q)
           /\ wp' = [wp EXCEPT ![p] = q + 1]
           /\ UNCHANGED <<lk, pc>>
        \/ /\ q <= NPROC /\ q = p
           /\ wp' = [wp EXCEPT ![p] = q + 1]
           /\ UNCHANGED <<state, lk, pc>>
        \/ /\ q > NPROC
           /\ lk' = None
           /\ Goto(p, "user")
           /\ UNCHANGED <<state, wp>>
  /\ UNCHANGED <<chan, killed, plock, holder, ret, cvars>>

\* kill(pid of q): a sleeper runs again although nobody called wakeup().
kill(c, p, q) ==
  /\ At(c, p, "user")
  /\ plock[q] = None
  /\ killed' = [killed EXCEPT ![q] = TRUE]
  /\ state' = IF state[q] = "SLEEPING" THEN [state EXCEPT ![q] = "RUNNABLE"] ELSE state
  /\ UNCHANGED <<chan, lvars, tvars, cvars>>

Thread(c, p) == \/ sched(c, p) \/ resume(c, p) \/ yield(c, p)
                \/ acquiresleep(c, p) \/ acquiresleep_test(c, p)
                \/ sleep(c, p) \/ sleep_release(c, p)
                \/ releasesleep(c, p) \/ wakeup(c, p)

Next == \E c \in CPU : \/ scheduler(c)
                       \/ scheduler_back(c)
                       \/ \E p \in Proc : \/ Thread(c, p)
                                          \/ \E q \in Proc : kill(c, p, q)

Spec == Init /\ [][Next]_vars

\* Steps of p in the kernel with interrupts off, and those that a timer
\* interrupt may come before.
Kernel(p) == \E c \in CPU : \/ sched(c, p) \/ resume(c, p) \/ acquiresleep_test(c, p)
                           \/ sleep(c, p) \/ sleep_release(c, p) \/ wakeup(c, p)
Interruptible(p) ==
  \E c \in CPU : \/ pc[p] = "acquire" /\ acquiresleep(c, p)
                \/ releasesleep(c, p)
Timer(p) == \E c \in CPU : yield(c, p)

\* Every CPU keeps executing and its timer keeps interrupting it, and a
\* process that is interrupted again and again still gets on.
Fairness ==
  /\ \A c \in CPU : WF_vars(scheduler(c)) /\ WF_vars(scheduler_back(c))
  /\ \A p \in Proc : WF_vars(Kernel(p)) /\ SF_vars(Timer(p)) /\ SF_vars(Interruptible(p))

FairSpec == Spec /\ Fairness
-----------------------------------------------------------------------------
(* Properties.                                                             *)

PCs == {"resume", "user", "acquire", "test", "sleep", "asleep", "sched",
        "crit", "wakeup"}

\* The types of the process table, the locks, the CPUs and the threads' locals.
TypeOK == /\ state \in [Proc -> {"RUNNABLE", "RUNNING", "SLEEPING"}]
          /\ chan \in [Proc -> BOOLEAN]
          /\ killed \in [Proc -> BOOLEAN]
          /\ plock \in [Proc -> CPU \cup {None}]
          /\ lk \in CPU \cup {None}
          /\ holder \in Proc \cup {None}
          /\ pc \in [Proc -> PCs]
          /\ ret \in [Proc -> {"user", "crit", "acquire", "sleep"}]
          /\ wp \in [Proc -> 1..NPROC + 1]
          /\ on \in [CPU -> Proc \cup {None}]
          /\ cproc \in [CPU -> Proc \cup {None}]
          /\ sp \in [CPU -> Proc]

\* p->lock, held from the change of p->state to the other side of swtch(),
\* keeps two CPUs from running on one kernel stack, and myproc() is right.
OneCpuPerStack ==
  \A c \in CPU : on[c] # None =>
    /\ cproc[c] = on[c]
    /\ \A d \in CPU : on[d] = on[c] => d = c

\* At most one process is between acquiresleep() and releasesleep(), also
\* when kill() has ended its sleep early.
SleepLockExclusive ==
  \A p \in Proc :
    (pc[p] = "crit" \/ (pc[p] \in {"sched", "resume"} /\ ret[p] = "crit"))
      => holder = p

\* Locks that the CPU holds: mycpu()->noff.
Noff(c) == Cardinality({p \in Proc : plock[p] = c}) + (IF lk = c THEN 1 ELSE 0)

\* The panics of sched() (proc.c:496-501) and of release() (spinlock.c:49)
\* cannot happen, and no CPU spins for a lock it holds (spinlock.c:25).
NoPanic ==
  \A c \in CPU :
    /\ on[c] = None => Noff(c) = IF cproc[c] = None THEN 0 ELSE 1
    /\ on[c] = None /\ cproc[c] # None => plock[sp[c]] = c
    /\ \A p \in Proc : on[c] = p =>
         /\ pc[p] = "sched" => plock[p] = c /\ Noff(c) = 1 /\ state[p] # "RUNNING"
         /\ pc[p] = "resume" => plock[p] = c
         /\ pc[p] \in {"test", "sleep", "asleep", "wakeup"} => lk = c
         /\ pc[p] \in {"user", "crit", "acquire"} => Noff(c) = 0

\* What a CPU or a process takes to be its own, its stack or the sleep-lock,
\* is nobody else's (proc.c:491-519, sleeplock.c:21-41).
Exclusive == OneCpuPerStack /\ SleepLockExclusive

\* A process sleeps on a free lock only while the wakeup() of the process
\* that freed it has yet to reach its slot: no wakeup is lost between the
\* test in acquiresleep() and the sleep.
NoLostWakeup ==
  \A p \in Proc : (state[p] = "SLEEPING" /\ holder = None) =>
    \E q \in Proc : pc[q] = "wakeup" /\ wp[q] <= p

\* Every process that sleeps for the lock is woken in the end, and no runnable
\* process waits for a CPU for ever (scheduler(), releasesleep()).
KeepsRunning == \A p \in Proc : []<>(state[p] = "RUNNING")
=============================================================================
