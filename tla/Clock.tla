------------------------------- MODULE Clock -------------------------------
(***************************************************************************)
(* The tick counter of kernel/trap.c and sys_sleep() and sys_kill() of     *)
(* kernel/sysproc.c.  ticks is unsigned and wraps at WRAP (2^32).          *)
(***************************************************************************)
EXTENDS Integers

CONSTANTS Proc,
          WRAP,  \* modulus of ticks
          MAXN   \* longest sleep(), in ticks

VARIABLES ticks,
          pc, n, ticks0,  \* callers of sys_sleep()
          killed,
          elapsed,        \* ticks since the call began, at most MAXN
          ret             \* how the last sleep() ended

vars == <<ticks, pc, n, ticks0, killed, elapsed, ret>>

Init ==
  /\ ticks = 0
  /\ pc = [p \in Proc |-> "idle"]
  /\ n = [p \in Proc |-> 0] /\ ticks0 = [p \in Proc |-> 0]
  /\ killed = [p \in Proc |-> FALSE]
  /\ elapsed = [p \in Proc |-> 0]
  /\ ret = "slept"

Goto(p, l) == pc' = [pc EXCEPT ![p] = l]

\* Mutation: the tick is counted and nobody is woken.
Woken_Not == pc
\* wakeup(&ticks)
Woken == [p \in Proc |-> IF pc[p] = "sleep" THEN "test" ELSE pc[p]]

\* clockintr() on CPU 0: tickslock, one tick, wakeup(&ticks).
clockintr ==
  /\ ticks' = (ticks + 1) % WRAP
  /\ pc' = Woken
  /\ elapsed' = [p \in Proc |-> IF pc[p] # "idle" /\ elapsed[p] < MAXN
                                THEN elapsed[p] + 1 ELSE elapsed[p]]
  /\ UNCHANGED <<n, ticks0, killed, ret>>

\* sys_sleep() up to its loop; a negative argument counts as 0.
sys_sleep(p, k) ==
  /\ pc[p] = "idle" /\ ~killed[p]
  /\ n' = [n EXCEPT ![p] = IF k < 0 THEN 0 ELSE k]
  /\ ticks0' = [ticks0 EXCEPT ![p] = ticks]
  /\ elapsed' = [elapsed EXCEPT ![p] = 0]
  /\ Goto(p, "test")
  /\ UNCHANGED <<ticks, killed, ret>>

\* Mutation: the end is computed, and wraps, before it is compared.
Early_Wraps(p) == ticks < (ticks0[p] + n[p]) % WRAP
\* sys_sleep()'s condition, in unsigned arithmetic.
Early(p) == (ticks - ticks0[p] + WRAP) % WRAP < n[p]

Return(p, v) ==
  /\ ret' = IF v = -1 THEN "killed" ELSE IF elapsed[p] >= n[p] THEN "slept" ELSE "short"
  /\ Goto(p, "idle")
  /\ n' = [n EXCEPT ![p] = 0] /\ ticks0' = [ticks0 EXCEPT ![p] = 0]
  /\ elapsed' = [elapsed EXCEPT ![p] = 0]

\* The loop: return, give up if killed, or sleep.  kill() does not take
\* tickslock and may come between the test and the sleep.
Test(p) ==
  /\ pc[p] = "test"
  /\ IF ~Early(p) THEN Return(p, 0)
     ELSE IF killed[p] THEN Return(p, -1)
     ELSE Goto(p, "tosleep") /\ UNCHANGED <<n, ticks0, elapsed, ret>>
  /\ UNCHANGED <<ticks, killed>>

Sleep(p) ==
  /\ pc[p] = "tosleep"
  /\ Goto(p, "sleep")
  /\ UNCHANGED <<ticks, n, ticks0, killed, elapsed, ret>>

kill(p) ==
  /\ pc[p] # "idle" /\ ~killed[p]
  /\ killed' = [killed EXCEPT ![p] = TRUE]
  /\ pc' = [pc EXCEPT ![p] = IF @ = "sleep" THEN "test" ELSE @]
  /\ UNCHANGED <<ticks, n, ticks0, elapsed, ret>>

\* The killed process exits and its slot is used again.
Exit(p) ==
  /\ pc[p] = "idle" /\ killed[p]
  /\ killed' = [killed EXCEPT ![p] = FALSE]
  /\ UNCHANGED <<ticks, pc, n, ticks0, elapsed, ret>>

\* tickslock is held from the test to the sleep.
Locked == \E p \in Proc : pc[p] = "tosleep"

Tick == ~Locked /\ clockintr
Locks(p) == ~Locked /\ Test(p)

Next ==
  \/ Tick
  \/ \E p \in Proc : \/ ~Locked /\ \E k \in -1..MAXN : sys_sleep(p, k)
                     \/ Locks(p) \/ Sleep(p) \/ kill(p) \/ Exit(p)

\* The timer ticks, a process that can run does, and a spinning acquire()
\* of tickslock succeeds in the end.
Spec == /\ Init /\ [][Next]_vars
        /\ SF_vars(Tick)
        /\ \A p \in Proc : SF_vars(Locks(p)) /\ WF_vars(Sleep(p))
-----------------------------------------------------------------------------
(* Properties                                                              *)

\* A sleep() that returns 0 has lasted for at least the ticks asked for, also
\* across the wrap of ticks and with wakeups that come too early.
SleepsLongEnough == ret # "short"

\* A killed sleeper returns, even if the kill() came between its test and its
\* sleep and woke nobody.
KilledReturns == \A p \in Proc : killed[p] ~> pc[p] = "idle"
=============================================================================
