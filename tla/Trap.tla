-------------------------------- MODULE Trap --------------------------------
(***************************************************************************)
(* Traps: kernel/trap.c, trampoline.S, kernelvec.S, push_off() and         *)
(* pop_off() of spinlock.c, and the way sched() and scheduler() move a     *)
(* kernel thread that was interrupted to another CPU.                      *)
(*                                                                         *)
(* A thread is a process or the scheduler of a CPU; loc is where it is in  *)
(* the code.  The general registers are one value, except tp, which the    *)
(* kernel uses for the CPU's number.  The user program is a counter upc,   *)
(* and its registers are <<p, upc>>; upc is kept beside the hardware's     *)
(* copies to compare with.                                                 *)
(***************************************************************************)
EXTENDS Integers, FiniteSets

CONSTANTS CPU, Proc, None

VARIABLES cpu,     \* per CPU: cur (c->proc), the control registers and bits,
                   \* satp, tp, regs, noff, intena; user and pc in user mode
          loc,     \* where each thread is
          state,   \* RUNNABLE, RUNNING, SLEEPING or ZOMBIE
          killed,  \* p->killed
          plock,   \* CPU that holds p->lock for a switch, or None
          tf,      \* p->trapframe: epc, regs, hartid
          frame,   \* what kernelvec and kerneltrap() saved on the stack
          intena,  \* sched()'s local
          upc,     \* where the user program should find itself
          panicked

vars == <<cpu, loc, state, killed, plock, tf, frame, intena, upc, panicked>>

\* The user program is a loop of two instructions.
After(pc) == IF pc = "first" THEN "second" ELSE "first"

Thread == CPU \cup Proc
T(c) == IF cpu[c].cur = None THEN c ELSE cpu[c].cur
NoFrame == [regs |-> None, tp |-> None, sepc |-> None, spp |-> FALSE, spie |-> FALSE, from |-> None]

Goto(t, l) == loc' = [loc EXCEPT ![t] = l]
At(c, l) == loc[T(c)] = l /\ ~cpu[c].user
Hart(c, h) == cpu' = [cpu EXCEPT ![c] = h]
Panic == panicked' = TRUE /\ UNCHANGED <<cpu, loc, state, killed, plock, tf, frame, intena, upc>>

\* forkret() follows the first switch to a process; schedulers start idle.
Init ==
  /\ cpu = [c \in CPU |-> [cur |-> None, user |-> FALSE, pc |-> "first", sie |-> FALSE,
        spp |-> FALSE, spie |-> FALSE, sepc |-> "first", scause |-> None, stvec |-> "kernelvec",
        satp |-> None, tp |-> c, regs |-> c, noff |-> 0, intena |-> FALSE]]
  /\ loc = [t \in Thread |-> IF t \in CPU THEN "scheduler" ELSE "forkret"]
  /\ state = [p \in Proc |-> "RUNNABLE"]
  /\ killed = [p \in Proc |-> FALSE]
  /\ plock = [p \in Proc |-> None]
  /\ tf = [p \in Proc |-> [epc |-> "first", regs |-> <<p, "first">>, hartid |-> None]]
  /\ frame = [t \in Thread |-> NoFrame]
  /\ intena = [p \in Proc |-> FALSE]
  /\ upc = [p \in Proc |-> "first"]
  /\ panicked = FALSE
-----------------------------------------------------------------------------
(* The hardware                                                            *)

\* The user program executes an instruction.
UserStep(c) ==
  /\ cpu[c].user
  /\ LET p == cpu[c].cur
         pc == After(cpu[c].pc)
     IN /\ upc' = [upc EXCEPT ![p] = pc]
        /\ Hart(c, [cpu[c] EXCEPT !.pc = pc, !.regs = <<p, pc>>])
  /\ UNCHANGED <<loc, state, killed, plock, tf, frame, intena, panicked>>

\* A trap: sstatus, sepc and scause are set, interrupts go off, stvec is next.
Take(c, cause) ==
  /\ LET h == cpu[c] IN
       Hart(c, [h EXCEPT !.sepc = IF h.user THEN h.pc ELSE loc[T(c)], !.spp = ~h.user,
                         !.spie = h.sie, !.sie = FALSE, !.scause = cause, !.user = FALSE])
  /\ Goto(T(c), cpu[c].stvec)
  /\ UNCHANGED <<state, killed, plock, tf, frame, intena, upc, panicked>>

\* ecall and page faults come from user code, interrupts also from the
\* kernel where they are enabled.
Exception(c) == cpu[c].user /\ \E cause \in {"ecall", "fault"} : Take(c, cause)
Interrupt(c) == (cpu[c].user \/ cpu[c].sie) /\ \E cause \in {"timer", "device"} : Take(c, cause)

\* sret
Sret(h) == [h EXCEPT !.user = ~h.spp, !.pc = IF h.spp THEN h.pc ELSE h.sepc,
                     !.sie = h.spie, !.spie = TRUE, !.spp = FALSE]
-----------------------------------------------------------------------------
(* spinlock.c                                                              *)

push_off(h) == [h EXCEPT !.intena = IF h.noff = 0 THEN h.sie ELSE @,
                         !.sie = FALSE, !.noff = @ + 1]
PopOK(h) == ~h.sie /\ h.noff >= 1
\* Mutation: interrupts go on again before the outermost pop_off().
pop_off_Nested(h) == [h EXCEPT !.noff = @ - 1, !.sie = h.intena]
pop_off(h) == [h EXCEPT !.noff = @ - 1, !.sie = h.noff = 1 /\ h.intena]
-----------------------------------------------------------------------------
(* trampoline.S and trap.c, from user space and back                       *)

\* uservec: the user's registers go to the trapframe, the kernel's tp and
\* page table come from there.
uservec(c) ==
  /\ At(c, "uservec")
  /\ LET p == cpu[c].cur IN
       /\ tf' = [tf EXCEPT ![p].regs = cpu[c].regs]
       /\ Hart(c, [cpu[c] EXCEPT !.tp = tf[p].hartid, !.satp = None, !.regs = c])
  /\ Goto(T(c), "usertrap")
  /\ UNCHANGED <<state, killed, plock, frame, intena, upc, panicked>>

\* Mutation: interrupts are enabled before sepc has been saved.
Entered_On(h) == [h EXCEPT !.stvec = "kernelvec", !.sie = TRUE]
\* usertrap() up to the assignment of epc.
Entered(h) == [h EXCEPT !.stvec = "kernelvec"]

usertrap(c) ==
  /\ At(c, "usertrap")
  /\ IF cpu[c].spp THEN Panic
     ELSE /\ Hart(c, Entered(cpu[c]))
          /\ Goto(T(c), "usertrap_epc")
          /\ UNCHANGED <<state, killed, plock, tf, frame, intena, upc, panicked>>

\* usertrap() by cause: a system call steps over the ecall and enables
\* interrupts; devintr() returns 2 for the timer; any other cause kills.  A
\* killed process goes to exit() instead.
usertrap_cause(c) ==
  /\ At(c, "usertrap_epc")
  /\ LET p == cpu[c].cur
         cause == cpu[c].scause
         call == cause = "ecall" /\ ~killed[p]
     IN /\ tf' = [tf EXCEPT ![p].epc = IF call THEN After(cpu[c].sepc) ELSE cpu[c].sepc]
        /\ upc' = IF call THEN [upc EXCEPT ![p] = After(@)] ELSE upc
        /\ killed' = [killed EXCEPT ![p] = @ \/ cause = "fault"]
        /\ Hart(c, [cpu[c] EXCEPT !.sie = call])
        /\ Goto(p, CASE killed'[p] -> "exit" [] call -> "syscall"
                     [] cause = "timer" -> "yield" [] OTHER -> "usertrapret")
  /\ UNCHANGED <<state, plock, frame, intena, panicked>>

\* syscall(): kernel code takes and releases locks, then a0 is
\* stored and killed() tested.
Acquire(c) ==
  /\ At(c, "syscall")
  /\ Hart(c, push_off(cpu[c]))
  /\ Goto(T(c), "locked")
  /\ UNCHANGED <<state, killed, plock, tf, frame, intena, upc, panicked>>

Release(c) ==
  /\ At(c, "locked")
  /\ IF ~PopOK(cpu[c]) THEN Panic
     ELSE /\ Hart(c, pop_off(cpu[c]))
          /\ Goto(T(c), "syscall")
          /\ UNCHANGED <<state, killed, plock, tf, frame, intena, upc, panicked>>

syscall(c) ==
  /\ At(c, "syscall")
  /\ LET p == cpu[c].cur IN
       /\ tf' = [tf EXCEPT ![p].regs = <<p, tf[p].epc>>]
       /\ Goto(p, IF killed[p] THEN "exit" ELSE "usertrapret")
  /\ UNCHANGED <<cpu, state, killed, plock, frame, intena, upc, panicked>>

\* usertrapret(): interrupts go off before stvec and sepc are for the user.
usertrapret(c) ==
  /\ At(c, "usertrapret")
  /\ Hart(c, [cpu[c] EXCEPT !.sie = FALSE])
  /\ Goto(T(c), "usertrapret_stvec")
  /\ UNCHANGED <<state, killed, plock, tf, frame, intena, upc, panicked>>

usertrapret_stvec(c) ==
  /\ At(c, "usertrapret_stvec")
  /\ Hart(c, [cpu[c] EXCEPT !.stvec = "uservec"])
  /\ tf' = [tf EXCEPT ![cpu[c].cur].hartid = cpu[c].tp]
  /\ Goto(T(c), "usertrapret_sepc")
  /\ UNCHANGED <<state, killed, plock, frame, intena, upc, panicked>>

usertrapret_sepc(c) ==
  /\ At(c, "usertrapret_sepc")
  /\ Hart(c, [cpu[c] EXCEPT !.spp = FALSE, !.spie = TRUE, !.sepc = tf[cpu[c].cur].epc])
  /\ Goto(T(c), "userret")
  /\ UNCHANGED <<state, killed, plock, tf, frame, intena, upc, panicked>>

\* userret: the user's page table and registers, tp included, then sret.
userret(c) ==
  /\ At(c, "userret")
  /\ LET p == cpu[c].cur
     IN Hart(c, Sret([cpu[c] EXCEPT !.satp = p, !.regs = tf[p].regs, !.tp = None]))
  /\ UNCHANGED <<loc, state, killed, plock, tf, frame, intena, upc, panicked>>
-----------------------------------------------------------------------------
(* kernelvec.S and kerneltrap()                                            *)

\* kernelvec pushes the registers; from is where the thread was.
kernelvec(c) ==
  /\ At(c, "kernelvec")
  /\ frame' = [frame EXCEPT ![T(c)] = [NoFrame EXCEPT !.regs = cpu[c].regs, !.tp = cpu[c].tp,
                                                      !.from = cpu[c].sepc]]
  /\ Hart(c, [cpu[c] EXCEPT !.regs = None])
  /\ Goto(T(c), "kerneltrap")
  /\ UNCHANGED <<state, killed, plock, tf, intena, upc, panicked>>

\* kerneltrap(): sepc and sstatus are kept across a yield().
kerneltrap(c) ==
  /\ At(c, "kerneltrap")
  /\ LET h == cpu[c] IN
       IF ~h.spp \/ h.sie THEN Panic
       ELSE /\ frame' = [frame EXCEPT ![T(c)] = [@ EXCEPT !.sepc = h.sepc, !.spp = h.spp,
                                                          !.spie = h.spie]]
            /\ Goto(T(c), IF h.scause = "timer" /\ h.cur # None THEN "kyield" ELSE "kreturn")
            /\ UNCHANGED <<cpu, state, killed, plock, tf, intena, upc, panicked>>

\* Mutation: sepc and sstatus are not written back after the yield().
Written_Not(h, f) == h
\* The end of kerneltrap(): w_sepc() and w_sstatus().
Written(h, f) == [h EXCEPT !.sepc = f.sepc, !.spp = f.spp, !.spie = f.spie]

\* Mutation: tp is restored like the other registers.
Restored_Tp(h, f) == [h EXCEPT !.regs = f.regs, !.tp = f.tp]
\* The end of kernelvec: every register but tp, the thread may have moved.
Restored(h, f) == [h EXCEPT !.regs = f.regs]

kreturn(c) ==
  /\ At(c, "kreturn")
  /\ LET h == Restored(Written(cpu[c], frame[T(c)]), frame[T(c)])
     IN Hart(c, Sret(h)) /\ Goto(T(c), h.sepc)
  /\ frame' = [frame EXCEPT ![T(c)] = NoFrame]
  /\ UNCHANGED <<state, killed, plock, tf, intena, upc, panicked>>
-----------------------------------------------------------------------------
(* proc.c: the switches                                                    *)

\* The thread is back at l after swtch(); st is its state until then.
sched(c, h, l, st) ==
  LET p == cpu[c].cur IN
  IF h.noff # 1 \/ h.sie THEN Panic
  ELSE /\ intena' = [intena EXCEPT ![p] = h.intena]
       /\ state' = [state EXCEPT ![p] = st]
       /\ plock' = [plock EXCEPT ![p] = c]
       /\ Hart(c, [h EXCEPT !.regs = c, !.cur = None])
       /\ loc' = [loc EXCEPT ![p] = l, ![c] = "switched"]
       /\ UNCHANGED <<killed, tf, frame, upc, panicked>>

\* yield() in usertrap() and in kerneltrap()
yield(c) == At(c, "yield") /\ sched(c, push_off(cpu[c]), "yielded", "RUNNABLE")
kyield(c) == At(c, "kyield") /\ sched(c, push_off(cpu[c]), "kyielded", "RUNNABLE")

\* sleep() by a thread that holds a lock: p->lock replaces it.
sleep(c) ==
  /\ At(c, "locked")
  /\ sched(c, pop_off(push_off(cpu[c])), "slept", "SLEEPING")

exit(c) == At(c, "exit") /\ sched(c, push_off(cpu[c]), "exited", "ZOMBIE")

wakeup(p) ==
  /\ state[p] = "SLEEPING" /\ plock[p] = None
  /\ state' = [state EXCEPT ![p] = "RUNNABLE"]
  /\ UNCHANGED <<killed, cpu, loc, plock, tf, frame, intena, upc, panicked>>

kill(p) ==
  /\ state[p] # "ZOMBIE" /\ plock[p] = None
  /\ killed' = [killed EXCEPT ![p] = TRUE]
  /\ state' = [state EXCEPT ![p] = IF @ = "SLEEPING" THEN "RUNNABLE" ELSE @]
  /\ UNCHANGED <<cpu, loc, plock, tf, frame, intena, upc, panicked>>

\* scheduler() enables interrupts, then takes the lock of a process to run.
scheduler(c) ==
  /\ At(c, "scheduler")
  /\ Hart(c, [cpu[c] EXCEPT !.sie = TRUE])
  /\ Goto(c, "pick")
  /\ UNCHANGED <<state, killed, plock, tf, frame, intena, upc, panicked>>

Pick(c, p) ==
  /\ At(c, "pick") /\ state[p] = "RUNNABLE" /\ plock[p] = None
  /\ state' = [state EXCEPT ![p] = "RUNNING"]
  /\ plock' = [plock EXCEPT ![p] = c]
  /\ Hart(c, [push_off(cpu[c]) EXCEPT !.cur = p, !.regs = p])
  /\ UNCHANGED <<killed, loc, tf, frame, intena, upc, panicked>>

\* The scheduler releases the lock of the process that gave up the CPU.  The
\* scan goes on with interrupts as that process left them, or has ended.
Switched(c) ==
  /\ At(c, "switched")
  /\ IF ~PopOK(cpu[c]) THEN Panic
     ELSE /\ plock' = [p \in Proc |-> IF plock[p] = c THEN None ELSE plock[p]]
          /\ Hart(c, pop_off(cpu[c]))
          /\ \E l \in {"pick", "scheduler"} : Goto(c, l)
          /\ UNCHANGED <<state, killed, tf, frame, intena, upc, panicked>>

\* The end of sched() and the release of p->lock.  forkret() does not pass
\* through sched(); sleep() takes the caller's lock again.
Resumed(c, l) ==
  CASE l = "forkret" -> pop_off(cpu[c])
    [] l = "slept" -> push_off(pop_off([cpu[c] EXCEPT !.intena = intena[cpu[c].cur]]))
    [] OTHER -> pop_off([cpu[c] EXCEPT !.intena = intena[cpu[c].cur]])

Resume(c) ==
  \E l \in {"forkret", "yielded", "kyielded", "slept"} :
    /\ At(c, l)
    /\ IF ~PopOK(cpu[c]) THEN Panic
       ELSE /\ Hart(c, Resumed(c, l))
            /\ plock' = [plock EXCEPT ![cpu[c].cur] = None]
            /\ Goto(T(c), CASE l = "kyielded" -> "kreturn" [] l = "slept" -> "locked"
                            [] OTHER -> "usertrapret")
            /\ UNCHANGED <<state, killed, tf, frame, intena, upc, panicked>>

Next ==
  \/ \E c \in CPU :
       \/ UserStep(c) \/ Exception(c) \/ Interrupt(c)
       \/ uservec(c) \/ usertrap(c) \/ usertrap_cause(c)
       \/ Acquire(c) \/ Release(c) \/ syscall(c)
       \/ usertrapret(c) \/ usertrapret_stvec(c) \/ usertrapret_sepc(c) \/ userret(c)
       \/ kernelvec(c) \/ kerneltrap(c) \/ kreturn(c)
       \/ yield(c) \/ kyield(c) \/ sleep(c) \/ exit(c)
       \/ scheduler(c) \/ Switched(c) \/ Resume(c)
       \/ \E p \in Proc : Pick(c, p)
  \/ \E p \in Proc : wakeup(p) \/ kill(p)

Spec == Init /\ [][Next]_vars
-----------------------------------------------------------------------------
(* Properties                                                              *)

\* None of usertrap()'s, kerneltrap()'s, pop_off()'s and sched()'s panics is
\* reached, however interrupts nest and threads move between CPUs.
NoPanic == ~panicked

\* In user mode a CPU runs its process with the process's page table, at the
\* instruction and with the registers it had (after a system call: the next
\* instruction and the result), and traps will go to uservec.
UserResumes ==
  \A c \in CPU : cpu[c].user =>
    LET p == cpu[c].cur IN
      /\ cpu[c].pc = upc[p] /\ cpu[c].regs = <<p, upc[p]>>
      /\ cpu[c].satp = p /\ cpu[c].stvec = "uservec"
      /\ tf[p].hartid = c

\* In the kernel tp is the number of the CPU (cpuid() is right even after the
\* thread was interrupted and moved), an interrupt that is enabled would go
\* to kernelvec, and an interrupted thread resumes where it was.
KernelResumes ==
  \A c \in CPU : ~cpu[c].user =>
    /\ ~At(c, "uservec") => cpu[c].tp = c /\ cpu[c].satp = None
    /\ cpu[c].sie => cpu[c].stvec = "kernelvec"
    /\ At(c, "kreturn") => Written(cpu[c], frame[T(c)]).sepc = frame[T(c)].from
=============================================================================
