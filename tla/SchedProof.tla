----------------------------- MODULE SchedProof -----------------------------
(***************************************************************************)
(* Proofs about Sched, for any number of process slots and CPUs: IInv is   *)
(* inductive (one lemma per action), and exclusion, the absence of panics  *)
(* and of lost wakeups follow from it.                                     *)
(***************************************************************************)
EXTENDS Sched, FiniteSetTheorems, TLAPS

\* Where a thread holds the spin-lock of the sleep-lock.
Locked == {"test", "sleep", "asleep", "wakeup"}

\* A CPU on a process's stack knows it as c->proc, and c->proc is the slot
\* that its scheduler() is at and no other CPU's.
StackInv ==
  /\ \A c \in CPU : on[c] # None => cproc[c] = on[c]
  /\ \A c \in CPU : cproc[c] # None => cproc[c] = sp[c]
  /\ \A c, d \in CPU : cproc[c] # None /\ cproc[c] = cproc[d] => c = d

\* Between the two swtch() calls of scheduler() the process is RUNNING, unless
\* it is on its way back; a process on no stack is inside swtch().
StateInv ==
  /\ \A c \in CPU : on[c] # None => state[on[c]] = "RUNNING" \/ pc[on[c]] = "sched"
  /\ \A p \in Proc : pc[p] = "sched" => state[p] # "RUNNING"
  /\ \A p \in Proc : pc[p] # "resume" => \E c \in CPU : on[c] = p

\* Who holds p->lock: the CPU that switches to or from p, or that p sleeps on.
PlockInv ==
  /\ \A c \in CPU : on[c] # None /\ pc[on[c]] \in {"sched", "resume", "asleep"}
                      => plock[on[c]] = c
  /\ \A c \in CPU : on[c] = None /\ cproc[c] # None => plock[cproc[c]] = c
  /\ \A p \in Proc, c \in CPU : plock[p] = c =>
       /\ cproc[c] = p
       /\ on[c] # None => pc[p] \in {"sched", "resume", "asleep"}

\* Who holds the spin-lock inside the sleep-lock.
LkInv ==
  \A c \in CPU : lk = c <=> on[c] # None /\ pc[on[c]] \in Locked

\* Who sleeps has set its channel, and the lock was taken when it decided to.
SleepInv ==
  /\ \A p \in Proc : state[p] = "SLEEPING" => chan[p]
  /\ \A p \in Proc : pc[p] \in {"sleep", "asleep"} => holder # None

\* The inductive invariant.
IInv == TypeOK /\ StackInv /\ StateInv /\ PlockInv /\ LkInv
        /\ SleepLockExclusive /\ SleepInv /\ NoLostWakeup

USE DEF At, Goto, pvars, lvars, tvars, cvars, PCs

\* The null pointer is neither a process nor a CPU.
LEMMA Nones == None \notin Proc /\ None \notin CPU
BY SchedAssumption DEF Proc

\* The loop of scheduler() stays in the process table.
LEMMA NextSlotType == ASSUME NEW p \in Proc PROVE NextSlot(p) \in Proc
BY SchedAssumption DEF NextSlot, Proc

\* What a CPU on the stack of p may rely on.
LEMMA OnStack ==
  ASSUME IInv, NEW c \in CPU, NEW p \in Proc, on[c] = p
  PROVE  /\ p # None /\ cproc[c] = p
         /\ \A d \in CPU : on[d] = p => d = c
         /\ pc[p] # "sched" => state[p] = "RUNNING"
         /\ lk = c <=> pc[p] \in Locked
BY Nones DEF IInv, StackInv, StateInv, LkInv

\* Nobody runs on, or switches from, the stack of a RUNNABLE process whose
\* lock is free.
LEMMA OffStack ==
  ASSUME IInv, NEW p \in Proc, plock[p] = None, state[p] = "RUNNABLE"
  PROVE  \A d \in CPU : cproc[d] # p /\ on[d] # p
<1> SUFFICES ASSUME NEW d \in CPU, cproc[d] = p \/ on[d] = p
             PROVE  FALSE
  OBVIOUS
<1>1. cproc[d] = p /\ on[d] = p
  BY Nones DEF IInv, StackInv, PlockInv
<1> QED
  BY <1>1, Nones DEF IInv, StateInv, PlockInv

\* scheduler() takes p->lock: no CPU is on the stack of a RUNNABLE process
\* whose lock is free.
LEMMA SchedulerStep ==
  ASSUME IInv, NEW c \in CPU, scheduler(c)
  PROVE  IInv'
<1>0. on[c] = None /\ cproc[c] = None /\ plock[sp[c]] = None /\ sp[c] \in Proc
  BY DEF scheduler, IInv, TypeOK
<1>1. CASE state[sp[c]] = "RUNNABLE"
  <2>0. /\ plock' = [plock EXCEPT ![sp[c]] = c]
        /\ state' = [state EXCEPT ![sp[c]] = "RUNNING"]
        /\ cproc' = [cproc EXCEPT ![c] = sp[c]]
        /\ on' = [on EXCEPT ![c] = sp[c]]
        /\ \A d \in CPU : cproc[d] # sp[c] /\ on[d] # sp[c]
        /\ pc[sp[c]] = "resume"
        /\ UNCHANGED <<sp, chan, killed, lk, holder, pc, ret, wp>>
    BY <1>0, <1>1, OffStack DEF scheduler, IInv, StateInv
  <2>1. TypeOK'
    BY <2>0 DEF IInv, TypeOK
  <2>2. StackInv'
    BY <2>0 DEF IInv, TypeOK, StackInv
  <2>3. StateInv'
    BY <1>0, <2>0, Nones DEF IInv, TypeOK, StateInv
  <2>4. PlockInv'
    BY <1>0, <2>0, Nones DEF IInv, TypeOK, PlockInv
  <2>5. LkInv'
    BY <1>0, <2>0 DEF IInv, LkInv, Locked
  <2>6. SleepLockExclusive'
    BY <2>0 DEF IInv, SleepLockExclusive
  <2>7. SleepInv'
    BY <2>0 DEF IInv, SleepInv
  <2>8. NoLostWakeup'
    BY <2>0 DEF IInv, NoLostWakeup
  <2> QED
    BY <2>1, <2>2, <2>3, <2>4, <2>5, <2>6, <2>7, <2>8 DEF IInv
<1>2. CASE state[sp[c]] # "RUNNABLE"
  <2>0. /\ sp' = [sp EXCEPT ![c] = NextSlot(sp[c])]
        /\ UNCHANGED <<plock, state, cproc, on, chan, killed, lk, holder, pc, ret, wp>>
    BY <1>2 DEF scheduler
  <2>1. TypeOK'
    BY <2>0, NextSlotType DEF IInv, TypeOK
  <2>2. StackInv'
    BY <1>0, <2>0 DEF IInv, StackInv
  <2>3. StateInv'
    BY <2>0 DEF IInv, StateInv
  <2>4. PlockInv'
    BY <2>0 DEF IInv, PlockInv
  <2>5. LkInv'
    BY <2>0 DEF IInv, LkInv
  <2>6. SleepLockExclusive'
    BY <2>0 DEF IInv, SleepLockExclusive
  <2>7. SleepInv'
    BY <2>0 DEF IInv, SleepInv
  <2>8. NoLostWakeup'
    BY <2>0 DEF IInv, NoLostWakeup
  <2> QED
    BY <2>1, <2>2, <2>3, <2>4, <2>5, <2>6, <2>7, <2>8 DEF IInv
<1> QED
  BY <1>1, <1>2

\* Back on its own stack, scheduler() gives the lock back.
LEMMA SchedulerBackStep ==
  ASSUME IInv, NEW c \in CPU, scheduler_back(c)
  PROVE  IInv'
<1> USE Nones DEF scheduler_back
<1>1. TypeOK'
  BY NextSlotType DEF IInv, TypeOK
<1>2. StackInv'
  BY DEF IInv, TypeOK, StackInv
<1>3. StateInv'
  BY DEF IInv, StateInv
<1>4. PlockInv'
  BY DEF IInv, TypeOK, StackInv, PlockInv
<1>5. LkInv'
  BY DEF IInv, LkInv
<1>6. SleepLockExclusive'
  BY DEF IInv, SleepLockExclusive
<1>7. SleepInv'
  BY DEF IInv, SleepInv
<1>8. NoLostWakeup'
  BY DEF IInv, NoLostWakeup
<1> QED
  BY <1>1, <1>2, <1>3, <1>4, <1>5, <1>6, <1>7, <1>8 DEF IInv

\* swtch() to the scheduler: p keeps its lock.
LEMMA SchedStep ==
  ASSUME IInv, NEW c \in CPU, NEW p \in Proc, sched(c, p)
  PROVE  IInv'
<1> USE OnStack, Nones DEF sched
<1>1. TypeOK'
  BY DEF IInv, TypeOK
<1>2. StackInv'
  BY DEF IInv, StackInv
<1>3. StateInv'
  BY DEF IInv, TypeOK, StateInv
<1>4. PlockInv'
  BY DEF IInv, PlockInv
<1>5. LkInv'
  BY DEF IInv, LkInv, Locked
<1>6. SleepLockExclusive'
  BY DEF IInv, SleepLockExclusive
<1>7. SleepInv'
  BY DEF IInv, SleepInv
<1>8. NoLostWakeup'
  BY DEF IInv, NoLostWakeup
<1> QED
  BY <1>1, <1>2, <1>3, <1>4, <1>5, <1>6, <1>7, <1>8 DEF IInv

\* The other side of swtch().
LEMMA ResumeStep ==
  ASSUME IInv, NEW c \in CPU, NEW p \in Proc, resume(c, p)
  PROVE  IInv'
<1>0. /\ on[c] = p /\ pc[p] = "resume" /\ p # None /\ state[p] = "RUNNING" /\ cproc[c] = p
      /\ \A d \in CPU : on[d] = p => d = c
  BY OnStack DEF resume
<1>1. CASE ret[p] = "sleep"
  <2>0. /\ plock' = [plock EXCEPT ![p] = None]
        /\ chan' = [chan EXCEPT ![p] = FALSE] /\ pc' = [pc EXCEPT ![p] = "acquire"]
        /\ UNCHANGED <<state, killed, lk, holder, ret, wp, on, cproc, sp>>
    BY <1>1 DEF resume
  <2>1. TypeOK'
    BY <2>0 DEF IInv, TypeOK
  <2>2. StackInv'
    BY <2>0 DEF IInv, StackInv
  <2>3. StateInv'
    BY <1>0, <2>0 DEF IInv, StateInv
  <2>4. PlockInv'
    BY <1>0, <2>0, Nones DEF IInv, TypeOK, PlockInv
  <2>5. LkInv'
    BY <1>0, <2>0 DEF IInv, LkInv, Locked
  <2>6. SleepLockExclusive'
    BY <2>0 DEF IInv, SleepLockExclusive
  <2>7. SleepInv'
    BY <1>0, <2>0 DEF IInv, SleepInv
  <2>8. NoLostWakeup'
    BY <1>0, <2>0 DEF IInv, NoLostWakeup
  <2> QED
    BY <2>1, <2>2, <2>3, <2>4, <2>5, <2>6, <2>7, <2>8 DEF IInv
<1>2. CASE ret[p] # "sleep"
  <2>0. /\ plock' = [plock EXCEPT ![p] = None]
        /\ pc' = [pc EXCEPT ![p] = ret[p]]
        /\ ret[p] \in {"user", "crit", "acquire"}
        /\ UNCHANGED <<chan, state, killed, lk, holder, ret, wp, on, cproc, sp>>
    BY <1>2 DEF resume, IInv, TypeOK
  <2>1. TypeOK'
    BY <2>0 DEF IInv, TypeOK
  <2>2. StackInv'
    BY <2>0 DEF IInv, StackInv
  <2>3. StateInv'
    BY <1>0, <2>0 DEF IInv, StateInv
  <2>4. PlockInv'
    BY <1>0, <2>0, Nones DEF IInv, TypeOK, PlockInv
  <2>5. LkInv'
    BY <1>0, <2>0 DEF IInv, LkInv, Locked
  <2>6. SleepLockExclusive'
    BY <1>0, <2>0 DEF IInv, SleepLockExclusive
  <2>7. SleepInv'
    BY <2>0 DEF IInv, SleepInv
  <2>8. NoLostWakeup'
    BY <1>0, <2>0 DEF IInv, NoLostWakeup
  <2> QED
    BY <2>1, <2>2, <2>3, <2>4, <2>5, <2>6, <2>7, <2>8 DEF IInv
<1> QED
  BY <1>1, <1>2

\* A timer interrupt.
LEMMA YieldStep ==
  ASSUME IInv, NEW c \in CPU, NEW p \in Proc, yield(c, p)
  PROVE  IInv'
<1> USE OnStack, Nones DEF yield
<1>1. TypeOK'
  BY DEF IInv, TypeOK
<1>2. StackInv'
  BY DEF IInv, StackInv
<1>3. StateInv'
  BY DEF IInv, TypeOK, StateInv
<1>4. PlockInv'
  BY DEF IInv, TypeOK, PlockInv
<1>5. LkInv'
  BY DEF IInv, LkInv, Locked
<1>6. SleepLockExclusive'
  BY DEF IInv, TypeOK, SleepLockExclusive
<1>7. SleepInv'
  BY DEF IInv, SleepInv
<1>8. NoLostWakeup'
  BY DEF IInv, NoLostWakeup
<1> QED
  BY <1>1, <1>2, <1>3, <1>4, <1>5, <1>6, <1>7, <1>8 DEF IInv

\* The spin-lock inside the sleep-lock is taken.
LEMMA AcquiresleepStep ==
  ASSUME IInv, NEW c \in CPU, NEW p \in Proc, acquiresleep(c, p)
  PROVE  IInv'
<1> USE OnStack, Nones DEF acquiresleep
<1>1. TypeOK'
  BY DEF IInv, TypeOK
<1>2. StackInv'
  BY DEF IInv, StackInv
<1>3. StateInv'
  BY DEF IInv, StateInv
<1>4. PlockInv'
  BY DEF IInv, PlockInv
<1>5. LkInv'
  BY DEF IInv, TypeOK, LkInv, Locked
<1>6. SleepLockExclusive'
  BY DEF IInv, SleepLockExclusive
<1>7. SleepInv'
  BY DEF IInv, SleepInv
<1>8. NoLostWakeup'
  BY DEF IInv, NoLostWakeup
<1> QED
  BY <1>1, <1>2, <1>3, <1>4, <1>5, <1>6, <1>7, <1>8 DEF IInv

\* The test of lk->locked.
LEMMA AcquiresleepTestStep ==
  ASSUME IInv, NEW c \in CPU, NEW p \in Proc, acquiresleep_test(c, p)
  PROVE  IInv'
<1>0. /\ on[c] = p /\ pc[p] = "test" /\ p # None /\ state[p] = "RUNNING" /\ cproc[c] = p /\ lk = c
      /\ \A d \in CPU : on[d] = p => d = c
  BY OnStack DEF acquiresleep_test, Locked
<1>1. CASE holder = None
  <2>0. /\ holder' = p /\ lk' = None /\ pc' = [pc EXCEPT ![p] = "crit"]
        /\ UNCHANGED <<state, chan, killed, plock, ret, wp, on, cproc, sp>>
    BY <1>1 DEF acquiresleep_test, Free
  <2>1. TypeOK'
    BY <2>0 DEF IInv, TypeOK
  <2>2. StackInv'
    BY <2>0 DEF IInv, StackInv
  <2>3. StateInv'
    BY <1>0, <2>0 DEF IInv, StateInv
  <2>4. PlockInv'
    BY <1>0, <2>0 DEF IInv, PlockInv
  <2>5. LkInv'
    BY <1>0, <2>0, Nones DEF IInv, TypeOK, LkInv, Locked
  <2>6. SleepLockExclusive'
    BY <1>1, <2>0, Nones DEF IInv, SleepLockExclusive
  <2>7. SleepInv'
    BY <2>0, Nones DEF IInv, SleepInv
  <2>8. NoLostWakeup'
    BY <2>0, Nones DEF NoLostWakeup
  <2> QED
    BY <2>1, <2>2, <2>3, <2>4, <2>5, <2>6, <2>7, <2>8 DEF IInv
<1>2. CASE holder # None
  <2>0. /\ pc' = [pc EXCEPT ![p] = "sleep"]
        /\ UNCHANGED <<state, chan, killed, plock, holder, lk, ret, wp, on, cproc, sp>>
    BY <1>2 DEF acquiresleep_test, Free
  <2>1. TypeOK'
    BY <2>0 DEF IInv, TypeOK
  <2>2. StackInv'
    BY <2>0 DEF IInv, StackInv
  <2>3. StateInv'
    BY <1>0, <2>0 DEF IInv, StateInv
  <2>4. PlockInv'
    BY <1>0, <2>0 DEF IInv, PlockInv
  <2>5. LkInv'
    BY <1>0, <2>0 DEF IInv, LkInv, Locked
  <2>6. SleepLockExclusive'
    BY <2>0 DEF IInv, SleepLockExclusive
  <2>7. SleepInv'
    BY <1>2, <2>0 DEF IInv, SleepInv
  <2>8. NoLostWakeup'
    BY <1>2, <2>0 DEF NoLostWakeup
  <2> QED
    BY <2>1, <2>2, <2>3, <2>4, <2>5, <2>6, <2>7, <2>8 DEF IInv
<1> QED
  BY <1>1, <1>2

\* sleep() takes p->lock while it holds the spin-lock.
LEMMA SleepStep ==
  ASSUME IInv, NEW c \in CPU, NEW p \in Proc, sleep(c, p)
  PROVE  IInv'
<1> USE OnStack, Nones DEF sleep
<1>1. TypeOK'
  BY DEF IInv, TypeOK
<1>2. StackInv'
  BY DEF IInv, StackInv
<1>3. StateInv'
  BY DEF IInv, StateInv
<1>4. PlockInv'
  BY DEF IInv, TypeOK, PlockInv
<1>5. LkInv'
  BY DEF IInv, LkInv, Locked
<1>6. SleepLockExclusive'
  BY DEF IInv, SleepLockExclusive
<1>7. SleepInv'
  BY DEF IInv, SleepInv
<1>8. NoLostWakeup'
  BY DEF IInv, NoLostWakeup
<1> QED
  BY <1>1, <1>2, <1>3, <1>4, <1>5, <1>6, <1>7, <1>8 DEF IInv

\* sleep() gives the spin-lock back and changes the state.
LEMMA SleepReleaseStep ==
  ASSUME IInv, NEW c \in CPU, NEW p \in Proc, sleep_release(c, p)
  PROVE  IInv'
<1> USE OnStack, Nones DEF sleep_release
<1>1. TypeOK'
  BY DEF IInv, TypeOK
<1>2. StackInv'
  BY DEF IInv, StackInv
<1>3. StateInv'
  BY DEF IInv, TypeOK, StateInv
<1>4. PlockInv'
  BY DEF IInv, PlockInv
<1>5. LkInv'
  BY DEF IInv, TypeOK, LkInv, Locked
<1>6. SleepLockExclusive'
  BY DEF IInv, TypeOK, SleepLockExclusive
<1>7. SleepInv'
  BY DEF IInv, TypeOK, SleepInv
<1>8. NoLostWakeup'
  BY DEF IInv, NoLostWakeup, SleepInv
<1> QED
  BY <1>1, <1>2, <1>3, <1>4, <1>5, <1>6, <1>7, <1>8 DEF IInv

\* The sleep-lock is free; the wakeup() of everyone who waits is still to come.
LEMMA ReleasesleepStep ==
  ASSUME IInv, NEW c \in CPU, NEW p \in Proc, releasesleep(c, p)
  PROVE  IInv'
<1> USE OnStack, Nones DEF releasesleep
<1>1. TypeOK'
  BY SMTT(30), SchedAssumption DEF IInv, TypeOK
<1>2. StackInv'
  BY DEF IInv, StackInv
<1>3. StateInv'
  BY DEF IInv, StateInv
<1>4. PlockInv'
  BY DEF IInv, PlockInv
<1>5. LkInv'
  BY DEF IInv, TypeOK, LkInv, Locked
<1>6. SleepLockExclusive'
  BY DEF IInv, TypeOK, SleepLockExclusive
<1>7. SleepInv'
  <2>1. \A r \in Proc : pc[r] \notin {"sleep", "asleep"}
    BY DEF IInv, StateInv, Locked
  <2> QED
    BY <2>1 DEF IInv, SleepInv
<1>8. NoLostWakeup'
  BY DEF IInv, TypeOK, NoLostWakeup, Proc
<1> QED
  BY SMTT(30), <1>1, <1>2, <1>3, <1>4, <1>5, <1>6, <1>7, <1>8 DEF IInv

\* wakeup() looks at one slot, passes over its own, or is done.
LEMMA WakeupStep ==
  ASSUME IInv, NEW c \in CPU, NEW p \in Proc, wakeup(c, p)
  PROVE  IInv'
<1> USE DEF Woken
<1>0. /\ on[c] = p /\ pc[p] = "wakeup" /\ p # None /\ state[p] = "RUNNING" /\ cproc[c] = p /\ lk = c
      /\ \A d \in CPU : on[d] = p => d = c
      /\ wp[p] \in 1..NPROC + 1
  BY OnStack DEF wakeup, Locked, IInv, TypeOK
<1>1. CASE wp[p] <= NPROC /\ wp[p] # p
  <2>0. /\ plock[wp[p]] = None /\ wp[p] \in Proc
        /\ state' = Woken(wp[p])
        /\ wp' = [wp EXCEPT ![p] = wp[p] + 1]
        /\ wp[p] + 1 \in 1..NPROC + 1
        /\ UNCHANGED <<chan, killed, plock, holder, lk, pc, ret, on, cproc, sp>>
    BY <1>0, <1>1, SchedAssumption DEF wakeup, Proc
  <2>1. TypeOK'
    BY <2>0 DEF IInv, TypeOK
  <2>2. StackInv'
    BY <2>0 DEF IInv, StackInv
  <2>3. StateInv'
    BY <2>0 DEF IInv, StateInv
  <2>4. PlockInv'
    BY <2>0 DEF IInv, PlockInv
  <2>5. LkInv'
    BY <2>0 DEF IInv, LkInv
  <2>6. SleepLockExclusive'
    BY <2>0 DEF IInv, SleepLockExclusive
  <2>7. SleepInv'
    BY <2>0 DEF IInv, SleepInv
  <2>8. NoLostWakeup'
    <3> SUFFICES ASSUME NEW r \in Proc, state'[r] = "SLEEPING", holder' = None
                 PROVE  \E q \in Proc : pc'[q] = "wakeup" /\ wp'[q] <= r
      BY DEF NoLostWakeup
    <3>1. state[r] = "SLEEPING" /\ holder = None
      BY <2>0
    <3>2. PICK q \in Proc : pc[q] = "wakeup" /\ wp[q] <= r
      BY <3>1 DEF IInv, NoLostWakeup
    <3>3. CASE q # p
      BY <2>0, <3>2, <3>3
    <3>4. CASE q = p
      <4>1. r # wp[p]
        BY <2>0 DEF IInv, TypeOK, SleepInv
      <4> QED
        BY <2>0, <3>2, <4>1 DEF Proc
    <3> QED
      BY <3>3, <3>4
  <2> QED
    BY <2>1, <2>2, <2>3, <2>4, <2>5, <2>6, <2>7, <2>8 DEF IInv
<1>2. CASE wp[p] <= NPROC /\ wp[p] = p
  <2>0. /\ wp' = [wp EXCEPT ![p] = wp[p] + 1]
        /\ wp[p] + 1 \in 1..NPROC + 1
        /\ UNCHANGED <<state, chan, killed, plock, holder, lk, pc, ret, on, cproc, sp>>
    BY <1>0, <1>2, SchedAssumption DEF wakeup
  <2>1. TypeOK'
    BY <2>0 DEF IInv, TypeOK
  <2>2. StackInv'
    BY <2>0 DEF IInv, StackInv
  <2>3. StateInv'
    BY <2>0 DEF IInv, StateInv
  <2>4. PlockInv'
    BY <2>0 DEF IInv, PlockInv
  <2>5. LkInv'
    BY <2>0 DEF IInv, LkInv
  <2>6. SleepLockExclusive'
    BY <2>0 DEF IInv, SleepLockExclusive
  <2>7. SleepInv'
    BY <2>0 DEF IInv, SleepInv
  <2>8. NoLostWakeup'
    <3> SUFFICES ASSUME NEW r \in Proc, state'[r] = "SLEEPING", holder' = None
                 PROVE  \E q \in Proc : pc'[q] = "wakeup" /\ wp'[q] <= r
      BY DEF NoLostWakeup
    <3>1. state[r] = "SLEEPING" /\ holder = None
      BY <2>0
    <3>2. PICK q \in Proc : pc[q] = "wakeup" /\ wp[q] <= r
      BY <3>1 DEF IInv, NoLostWakeup
    <3>3. CASE q # p
      BY <2>0, <3>2, <3>3
    <3>4. CASE q = p
      <4>1. r # p
        BY <1>0, <3>1
      <4> QED
        BY <1>2, <2>0, <3>2, <4>1 DEF Proc
    <3> QED
      BY <3>3, <3>4
  <2> QED
    BY <2>1, <2>2, <2>3, <2>4, <2>5, <2>6, <2>7, <2>8 DEF IInv
<1>3. CASE wp[p] > NPROC
  <2>0. /\ lk' = None
        /\ pc' = [pc EXCEPT ![p] = "user"]
        /\ UNCHANGED <<state, chan, killed, plock, holder, wp, ret, on, cproc, sp>>
    BY <1>0, <1>3, SchedAssumption DEF wakeup
  <2>1. TypeOK'
    BY <2>0 DEF IInv, TypeOK
  <2>2. StackInv'
    BY <2>0 DEF IInv, StackInv
  <2>3. StateInv'
    BY <1>0, <2>0 DEF IInv, StateInv
  <2>4. PlockInv'
    BY <1>0, <2>0 DEF IInv, PlockInv
  <2>5. LkInv'
    BY <1>0, <2>0, Nones DEF IInv, TypeOK, LkInv, Locked
  <2>6. SleepLockExclusive'
    BY <2>0 DEF IInv, SleepLockExclusive
  <2>7. SleepInv'
    BY <2>0 DEF IInv, SleepInv
  <2>8. NoLostWakeup'
    <3> SUFFICES ASSUME NEW r \in Proc, state'[r] = "SLEEPING", holder' = None
                 PROVE  \E q \in Proc : pc'[q] = "wakeup" /\ wp'[q] <= r
      BY DEF NoLostWakeup
    <3>1. state[r] = "SLEEPING" /\ holder = None
      BY <2>0
    <3>2. PICK q \in Proc : pc[q] = "wakeup" /\ wp[q] <= r
      BY <3>1 DEF IInv, NoLostWakeup
    <3>3. CASE q # p
      BY <2>0, <3>2, <3>3
    <3>4. CASE q = p
      BY <1>0, <1>3, <3>2, <3>4, SchedAssumption DEF Proc
    <3> QED
      BY <3>3, <3>4
  <2> QED
    BY <2>1, <2>2, <2>3, <2>4, <2>5, <2>6, <2>7, <2>8 DEF IInv
<1> QED
  BY <1>0, <1>1, <1>2, <1>3, SchedAssumption

\* kill() ends a sleep from outside.
LEMMA KillStep ==
  ASSUME IInv, NEW c \in CPU, NEW p \in Proc, NEW q \in Proc, kill(c, p, q)
  PROVE  IInv'
<1> USE OnStack, Nones DEF kill
<1>1. TypeOK'
  BY DEF IInv, TypeOK
<1>2. StackInv'
  BY DEF IInv, TypeOK, StackInv
<1>3. StateInv'
  BY DEF IInv, StateInv
<1>4. PlockInv'
  BY SMTT(30) DEF IInv, PlockInv
<1>5. LkInv'
  BY DEF IInv, LkInv
<1>6. SleepLockExclusive'
  BY DEF IInv, SleepLockExclusive
<1>7. SleepInv'
  BY DEF IInv, SleepInv
<1>8. NoLostWakeup'
  BY DEF IInv, NoLostWakeup
<1> QED
  BY <1>1, <1>2, <1>3, <1>4, <1>5, <1>6, <1>7, <1>8 DEF IInv

\* A process table of RUNNABLE processes and idle CPUs.
LEMMA InitStep == ASSUME Init PROVE IInv
<1> USE Nones DEF Init
<1>1. TypeOK
  BY SchedAssumption DEF TypeOK, Proc
<1>2. StackInv /\ StateInv /\ PlockInv /\ LkInv /\ SleepLockExclusive /\ SleepInv /\ NoLostWakeup
  BY DEF StackInv, StateInv, PlockInv, LkInv, SleepLockExclusive, SleepInv, NoLostWakeup
<1> QED
  BY <1>1, <1>2 DEF IInv

\* The invariant is inductive.
THEOREM Invariant == Spec => []IInv
<1>1. IInv /\ [Next]_vars => IInv'
  <2> SUFFICES ASSUME IInv, [Next]_vars
               PROVE  IInv'
    BY Zenon
  <2>1. ASSUME NEW c \in CPU, scheduler(c) \/ scheduler_back(c)
        PROVE  IInv'
    BY Zenon, <2>1, SchedulerStep, SchedulerBackStep
  <2>2. ASSUME NEW c \in CPU, NEW p \in Proc, Thread(c, p)
        PROVE  IInv'
    BY Zenon, <2>2, SchedStep, ResumeStep, YieldStep, AcquiresleepStep, AcquiresleepTestStep,
       SleepStep, SleepReleaseStep, ReleasesleepStep, WakeupStep DEF Thread
  <2>3. ASSUME NEW c \in CPU, NEW p \in Proc, NEW q \in Proc, kill(c, p, q)
        PROVE  IInv'
    BY Zenon, <2>3, KillStep
  <2>4. CASE UNCHANGED vars
    BY <2>4 DEF vars, IInv, TypeOK, StackInv, StateInv, PlockInv, LkInv, SleepLockExclusive,
                SleepInv, NoLostWakeup
  <2> QED
    BY Zenon, <2>1, <2>2, <2>3, <2>4 DEF Next
<1> QED
  BY InitStep, <1>1, PTL DEF Spec

\* One CPU at a time is on a kernel stack and knows whose it is, and one
\* process at a time is between acquiresleep() and releasesleep(), however
\* timer interrupts, wakeups and kill() interleave.
THEOREM NeverShared == Spec => []Exclusive
<1>1. IInv => Exclusive
  <2> SUFFICES ASSUME IInv
               PROVE  OneCpuPerStack
    BY SMTT(30) DEF Exclusive, IInv
  <2> QED
    BY DEF OneCpuPerStack, IInv, StackInv
<1> QED
  BY <1>1, Invariant, PTL

\* The locks that CPU c holds: p->lock of the process it switches to or from,
\* and the spin-lock of the sleep-lock.
LEMMA LocksHeld ==
  ASSUME IInv, NEW c \in CPU
  PROVE  /\ {p \in Proc : plock[p] = c} =
              IF cproc[c] # None /\ (on[c] # None => pc[on[c]] \in {"sched", "resume", "asleep"})
              THEN {cproc[c]} ELSE {}
         /\ on[c] = None => lk # c
<1>1. cproc[c] # None => cproc[c] \in Proc
  BY Zenon DEF IInv, TypeOK
<1>2. /\ on[c] # None => cproc[c] = on[c]
      /\ on[c] # None /\ pc[on[c]] \in {"sched", "resume", "asleep"} => plock[on[c]] = c
      /\ on[c] = None /\ cproc[c] # None => plock[cproc[c]] = c
      /\ \A p \in Proc : plock[p] = c => /\ cproc[c] = p
                                         /\ on[c] # None => pc[p] \in {"sched", "resume", "asleep"}
  BY Zenon DEF IInv, StackInv, PlockInv
<1>3. \A p \in Proc : plock[p] = c =>
        /\ cproc[c] # None /\ p = cproc[c]
        /\ on[c] # None => pc[on[c]] \in {"sched", "resume", "asleep"}
  BY Zenon, <1>2, Nones
<1>4. cproc[c] # None /\ (on[c] # None => pc[on[c]] \in {"sched", "resume", "asleep"})
        => plock[cproc[c]] = c
  BY Zenon, <1>2
<1>5. on[c] = None => lk # c
  BY Zenon DEF IInv, LkInv
<1> QED
  BY <1>1, <1>3, <1>4, <1>5

\* sched() is entered with p->lock held and no other, the scheduler holds the
\* lock of the process it comes back from, every release() is by the holder,
\* and no CPU spins for a lock that is its own.
THEOREM NeverPanics == Spec => []NoPanic
<1>1. IInv => NoPanic
  <2> SUFFICES ASSUME IInv, NEW c \in CPU
               PROVE  /\ on[c] = None => Noff(c) = IF cproc[c] = None THEN 0 ELSE 1
                      /\ on[c] = None /\ cproc[c] # None => plock[sp[c]] = c
                      /\ \A p \in Proc : on[c] = p =>
                           /\ pc[p] = "sched" => plock[p] = c /\ Noff(c) = 1 /\ state[p] # "RUNNING"
                           /\ pc[p] = "resume" => plock[p] = c
                           /\ pc[p] \in {"test", "sleep", "asleep", "wakeup"} => lk = c
                           /\ pc[p] \in {"user", "crit", "acquire"} => Noff(c) = 0
    BY Zenon DEF NoPanic
  <2> DEFINE held == {p \in Proc : plock[p] = c}
  <2>1. Noff(c) = Cardinality(held) + (IF lk = c THEN 1 ELSE 0)
    BY DEF Noff
  <2>2. /\ held = {} => Noff(c) = IF lk = c THEN 1 ELSE 0
        /\ \A p : held = {p} => Noff(c) = IF lk = c THEN 2 ELSE 1
    <3> HIDE DEF held
    <3> QED
      BY <2>1, FS_EmptySet, FS_Singleton
  <2>3. on[c] = None => Noff(c) = IF cproc[c] = None THEN 0 ELSE 1
    BY <2>2, LocksHeld
  <2>4. on[c] = None /\ cproc[c] # None => plock[sp[c]] = c
    BY DEF IInv, StackInv, PlockInv
  <2>5. ASSUME NEW p \in Proc, on[c] = p
        PROVE  /\ pc[p] = "sched" => plock[p] = c /\ Noff(c) = 1 /\ state[p] # "RUNNING"
               /\ pc[p] = "resume" => plock[p] = c
               /\ pc[p] \in {"test", "sleep", "asleep", "wakeup"} => lk = c
               /\ pc[p] \in {"user", "crit", "acquire"} => Noff(c) = 0
    <3>1. lk = c <=> pc[p] \in Locked
      BY <2>5, OnStack
    <3>2. p # None /\ cproc[c] = p
      BY <2>5, OnStack
    <3>3. pc[p] = "sched" => held = {p}
      BY <2>5, <3>2, LocksHeld
    <3>4. pc[p] \in {"user", "crit", "acquire"} => held = {}
      BY <2>5, <3>2, LocksHeld
    <3>5. pc[p] \in {"sched", "resume"} => plock[p] = c
      BY <2>5, <3>2 DEF IInv, PlockInv
    <3>6. pc[p] = "sched" => state[p] # "RUNNING"
      BY DEF IInv, StateInv
    <3> HIDE DEF held
    <3> QED
      BY <2>2, <3>1, <3>3, <3>4, <3>5, <3>6 DEF Locked
  <2> QED
    BY <2>3, <2>4, <2>5
<1> QED
  BY <1>1, Invariant, PTL

\* A wakeup() is never lost: whoever sleeps on the free sleep-lock is still
\* ahead of the wakeup() that releasesleep() is making.
THEOREM WakeupsKept == Spec => []NoLostWakeup
<1>1. IInv => NoLostWakeup
  BY DEF IInv
<1> QED
  BY <1>1, Invariant, PTL
=============================================================================
