------------------------------ MODULE ProcLife ------------------------------
(***************************************************************************)
(* The life of processes in kernel/proc.c: fork(), exit(), wait(), kill()  *)
(* and their helpers, with wait_lock and every p->lock.                    *)
(*                                                                         *)
(* What Sched shows of sleep() and swtch() is used here: sleep() is one    *)
(* action, and a process that is neither asleep nor waiting for a CPU runs *)
(* on a CPU of its own.  A critical section that takes and gives back one  *)
(* p->lock is one action; a lock held longer is a variable.                *)
(***************************************************************************)
EXTENDS Integers

CONSTANTS NPROC,  \* process slots
          None    \* a null pointer

ASSUME ProcAssumption == NPROC \in Nat \ {0} /\ None \notin Nat

Slot == 1..NPROC
initproc == 1

VARIABLES
  state,      \* p->state
  parent,     \* p->parent
  killed,     \* p->killed
  plock,      \* p->lock: the process whose code holds it
  wait_lock,  \* wait_lock, likewise
  pc,         \* where the process's kernel thread is; "none" if off its stack
  np,         \* fork()'s np; the locals are reset when they go out of scope
  pp,         \* the loop variable of wait() and reparent()
  wp,         \* the loop variable of wakeup()
  havekids    \* wait()'s havekids

vars == <<state, parent, killed, plock, wait_lock, pc, np, pp, wp, havekids>>

States == {"UNUSED", "USED", "SLEEPING", "RUNNABLE", "RUNNING", "ZOMBIE"}

\* userinit() has made the first process.
Init == /\ state = [p \in Slot |-> IF p = initproc THEN "RUNNING" ELSE "UNUSED"]
        /\ parent = [p \in Slot |-> None]
        /\ killed = [p \in Slot |-> FALSE]
        /\ plock = [p \in Slot |-> None]
        /\ wait_lock = None
        /\ pc = [p \in Slot |-> IF p = initproc THEN "user" ELSE "none"]
        /\ np = [p \in Slot |-> None]
        /\ pp = [p \in Slot |-> 1]
        /\ wp = [p \in Slot |-> 1]
        /\ havekids = [p \in Slot |-> FALSE]

Goto(p, l) == pc' = [pc EXCEPT ![p] = l]

\* The process returns from a system call or makes one: usertrap() sends a
\* killed process to exit() instead.
InUser(p) == pc[p] = "user" /\ state[p] = "RUNNING"
MayCall(p) == InUser(p) /\ ~killed[p]

freeproc(q) == /\ state' = [state EXCEPT ![q] = "UNUSED"]
               /\ parent' = [parent EXCEPT ![q] = None]
               /\ killed' = [killed EXCEPT ![q] = FALSE]

\* scheduler() picks p; sleep() and forkret() give p->lock back.
run(p) ==
  /\ state[p] = "RUNNABLE"
  /\ plock[p] = None
  /\ state' = [state EXCEPT ![p] = "RUNNING"]
  /\ UNCHANGED <<parent, killed, plock, wait_lock, pc, np, pp, wp, havekids>>

\* swtch() to the scheduler, which releases p->lock.
swtch(p) ==
  /\ pc[p] \in {"sleep_swtch", "exit_swtch"}
  /\ plock' = [plock EXCEPT ![p] = None]
  /\ Goto(p, IF pc[p] = "sleep_swtch" THEN "wait" ELSE "none")
  /\ UNCHANGED <<state, parent, killed, wait_lock, np, pp, wp, havekids>>
-----------------------------------------------------------------------------
(* fork()                                                                  *)

\* allocproc() takes an UNUSED slot q and keeps its lock.
allocproc(p, q) ==
  /\ MayCall(p)
  /\ state[q] = "UNUSED"
  /\ plock[q] = None
  /\ state' = [state EXCEPT ![q] = "USED"]
  /\ plock' = [plock EXCEPT ![q] = p]
  /\ np' = [np EXCEPT ![p] = q]
  /\ Goto(p, "fork")
  /\ UNCHANGED <<parent, killed, wait_lock, pp, wp, havekids>>

\* kalloc(), proc_pagetable() or uvmcopy() has failed.
fork_fail(p) ==
  /\ pc[p] = "fork"
  /\ freeproc(np[p])
  /\ plock' = [plock EXCEPT ![np[p]] = None]
  /\ np' = [np EXCEPT ![p] = None]
  /\ Goto(p, "user")
  /\ UNCHANGED <<wait_lock, pp, wp, havekids>>

\* The copy is complete: release(&np->lock).
fork_copy(p) ==
  /\ pc[p] = "fork"
  /\ plock' = [plock EXCEPT ![np[p]] = None]
  /\ Goto(p, "fork_parent")
  /\ UNCHANGED <<state, parent, killed, wait_lock, np, pp, wp, havekids>>

fork_parent(p) ==
  /\ pc[p] = "fork_parent"
  /\ wait_lock = None
  /\ parent' = [parent EXCEPT ![np[p]] = p]
  /\ Goto(p, "fork_runnable")
  /\ UNCHANGED <<state, killed, plock, wait_lock, np, pp, wp, havekids>>

fork_runnable(p) ==
  /\ pc[p] = "fork_runnable"
  /\ plock[np[p]] = None
  /\ state' = [state EXCEPT ![np[p]] = "RUNNABLE"]
  /\ pc' = [pc EXCEPT ![p] = "user", ![np[p]] = "user"]
  /\ np' = [np EXCEPT ![p] = None]
  /\ UNCHANGED <<parent, killed, plock, wait_lock, pp, wp, havekids>>
-----------------------------------------------------------------------------
(* exit()                                                                  *)

\* exit() by choice or after kill(): acquire(&wait_lock).
exit(p) ==
  /\ InUser(p)
  /\ p # initproc
  /\ wait_lock = None
  /\ wait_lock' = p
  /\ Goto(p, "reparent")
  /\ UNCHANGED <<state, parent, killed, plock, np, pp, wp, havekids>>

\* One slot of reparent(): init, which may be asleep in wait(), inherits it.
reparent(p) ==
  /\ pc[p] = "reparent"
  /\ pp[p] <= NPROC
  /\ IF parent[pp[p]] = p
     THEN /\ parent' = [parent EXCEPT ![pp[p]] = initproc]
          /\ Goto(p, "reparent_wakeup")
          /\ UNCHANGED pp
     ELSE pp' = [pp EXCEPT ![p] = @ + 1] /\ UNCHANGED <<parent, pc>>
  /\ UNCHANGED <<state, killed, plock, wait_lock, np, wp, havekids>>

\* reparent() calls wakeup(initproc); after its loop comes wakeup(p->parent).
Waking(p) == pc[p] = "reparent_wakeup" \/ (pc[p] = "reparent" /\ pp[p] > NPROC)
\* Mutation: exit() wakes the channel that its own children would use.
Chan_Self(p) == IF pc[p] = "reparent_wakeup" THEN initproc ELSE p
Chan(p) == IF pc[p] = "reparent_wakeup" THEN initproc ELSE parent[p]

\* The state of slot q after kill() or wakeup() has found a sleeper there.
Woken(q) == IF state[q] = "SLEEPING" THEN [state EXCEPT ![q] = "RUNNABLE"] ELSE state

\* wakeup() at slot q: a process in wait() sleeps on its own slot.
WakeSlot(p, q) == IF q = Chan(p) THEN Woken(q) ELSE state

\* wakeup() takes the lock of one slot after the other, but for its own,
\* while exit() holds wait_lock.
wakeup(p) ==
  /\ Waking(p)
  /\ wp[p] # p => plock[wp[p]] = None
  /\ state' = WakeSlot(p, wp[p])
  /\ wp' = [wp EXCEPT ![p] = IF @ = NPROC THEN 1 ELSE @ + 1]
  /\ IF wp[p] < NPROC THEN UNCHANGED <<pc, pp>>
     ELSE IF pc[p] = "reparent_wakeup" THEN Goto(p, "reparent") /\ pp' = [pp EXCEPT ![p] = @ + 1]
     ELSE Goto(p, "exit") /\ pp' = [pp EXCEPT ![p] = 1]
  /\ UNCHANGED <<parent, killed, plock, wait_lock, np, havekids>>

\* Mutation: the state is set without p->lock, which sched() holds to the end.
exit_zombie_NoLock(p) ==
  /\ pc[p] = "exit"
  /\ plock[p] = None
  /\ state' = [state EXCEPT ![p] = "ZOMBIE"]
  /\ wait_lock' = None
  /\ Goto(p, "exit_swtch")
  /\ UNCHANGED <<parent, killed, plock, np, pp, wp, havekids>>

\* acquire(&p->lock); p->state = ZOMBIE; release(&wait_lock)
exit_zombie(p) ==
  /\ pc[p] = "exit"
  /\ plock[p] = None
  /\ plock' = [plock EXCEPT ![p] = p]
  /\ state' = [state EXCEPT ![p] = "ZOMBIE"]
  /\ wait_lock' = None
  /\ Goto(p, "exit_swtch")
  /\ UNCHANGED <<parent, killed, np, pp, wp, havekids>>
-----------------------------------------------------------------------------
(* wait()                                                                  *)

\* acquire(&wait_lock), on entry and after sleep().
wait(p) ==
  /\ MayCall(p) \/ (pc[p] = "wait" /\ state[p] = "RUNNING")
  /\ wait_lock = None
  /\ wait_lock' = p
  /\ Goto(p, "scan")
  /\ UNCHANGED <<state, parent, killed, plock, np, pp, wp, havekids>>

\* A slot that holds no zombie child.
wait_next(p) ==
  /\ pc[p] = "scan"
  /\ pp[p] <= NPROC
  /\ \/ parent[pp[p]] # p /\ UNCHANGED havekids
     \/ /\ parent[pp[p]] = p
        /\ plock[pp[p]] = None
        /\ state[pp[p]] # "ZOMBIE"
        /\ havekids' = [havekids EXCEPT ![p] = TRUE]
  /\ pp' = [pp EXCEPT ![p] = @ + 1]
  /\ UNCHANGED <<state, parent, killed, plock, wait_lock, pc, np, wp>>

\* release(&wait_lock) at the end of a scan.
EndScan(p) == /\ wait_lock' = None
              /\ pp' = [pp EXCEPT ![p] = 1]
              /\ havekids' = [havekids EXCEPT ![p] = FALSE]

\* Mutation: the lock of the child is not released when copyout() fails.
wait_found_NoRelease(p) ==
  /\ pc[p] = "scan"
  /\ pp[p] <= NPROC
  /\ parent[pp[p]] = p
  /\ plock[pp[p]] = None
  /\ state[pp[p]] = "ZOMBIE"
  /\ \/ freeproc(pp[p]) /\ UNCHANGED plock
     \/ /\ p # initproc
        /\ plock' = [plock EXCEPT ![pp[p]] = p]
        /\ UNCHANGED <<state, parent, killed>>
  /\ EndScan(p)
  /\ Goto(p, "user")
  /\ UNCHANGED <<np, wp>>

\* A zombie child: free it, unless its status cannot be copied out.
wait_found(p) ==
  /\ pc[p] = "scan"
  /\ pp[p] <= NPROC
  /\ parent[pp[p]] = p
  /\ plock[pp[p]] = None
  /\ state[pp[p]] = "ZOMBIE"
  /\ \/ freeproc(pp[p])
     \/ p # initproc /\ UNCHANGED <<state, parent, killed>>
  /\ EndScan(p)
  /\ Goto(p, "user")
  /\ UNCHANGED <<plock, np, wp>>

\* The end of the table: no point in waiting for a process without children
\* or a killed one (killed() takes and releases p->lock).
wait_check(p) ==
  /\ pc[p] = "scan"
  /\ pp[p] > NPROC
  /\ plock[p] = None
  /\ IF ~havekids[p] \/ killed[p]
     THEN EndScan(p) /\ Goto(p, "user")
     ELSE Goto(p, "sleep") /\ UNCHANGED <<wait_lock, pp, havekids>>
  /\ UNCHANGED <<state, parent, killed, plock, np, wp>>

\* sleep(p, &wait_lock): p->lock is taken before wait_lock is released.
wait_sleep(p) ==
  /\ pc[p] = "sleep"
  /\ plock[p] = None
  /\ EndScan(p)
  /\ plock' = [plock EXCEPT ![p] = p]
  /\ state' = [state EXCEPT ![p] = "SLEEPING"]
  /\ Goto(p, "sleep_swtch")
  /\ UNCHANGED <<parent, killed, np, wp>>

\* kill(pid of q) by p; kill() of init ends in exit()'s panic.
kill(p, q) ==
  /\ MayCall(p)
  /\ q # initproc
  /\ state[q] # "UNUSED"
  /\ plock[q] = None
  /\ killed' = [killed EXCEPT ![q] = TRUE]
  /\ state' = Woken(q)
  /\ UNCHANGED <<parent, plock, wait_lock, pc, np, pp, wp, havekids>>

\* Steps inside a system call, and the calls themselves.
Kernel(p) == \/ run(p) \/ swtch(p)
             \/ fork_fail(p) \/ fork_copy(p) \/ fork_parent(p) \/ fork_runnable(p)
             \/ reparent(p) \/ wakeup(p) \/ exit_zombie(p)
             \/ (pc[p] = "wait" /\ wait(p))
             \/ wait_next(p) \/ wait_found(p) \/ wait_check(p)
             \/ wait_sleep(p)

Next == \E p \in Slot : \/ Kernel(p) \/ exit(p) \/ wait(p)
                        \/ \E q \in Slot : allocproc(p, q) \/ kill(p, q)

Spec == Init /\ [][Next]_vars

\* Every process in the kernel gets CPU time, a lock that is free again and
\* again is taken in the end, and init calls wait() over and over
\* (user/init.c:39-52).
Fairness == /\ \A p \in Slot : SF_vars(Kernel(p))
            /\ SF_vars(wait(initproc))

FairSpec == Spec /\ Fairness
-----------------------------------------------------------------------------
(* Properties.                                                             *)

\* The types of the process table, the locks and the locals of the calls.
TypeOK == /\ state \in [Slot -> States]
          /\ parent \in [Slot -> Slot \cup {None}]
          /\ killed \in [Slot -> BOOLEAN]
          /\ plock \in [Slot -> Slot \cup {None}]
          /\ wait_lock \in Slot \cup {None}
          /\ pc \in [Slot -> {"none", "user", "fork", "fork_parent", "fork_runnable",
                              "reparent", "reparent_wakeup", "exit", "exit_swtch", "wait", "scan", "sleep",
                              "sleep_swtch"}]
          /\ np \in [Slot -> Slot \cup {None}]
          /\ pp \in [Slot -> 1..NPROC + 1]
          /\ wp \in [Slot -> Slot]
          /\ havekids \in [Slot -> BOOLEAN]

\* wait() frees a child's stack, page table and slot only when the child has
\* switched away from them for the last time (proc.c:404).
FreedOffStack == \A p \in Slot : state[p] \in {"UNUSED", "USED"} => pc[p] = "none"

\* Outside of wait_lock's critical sections, every process but init has a
\* parent that is still able to wait for it.
ParentAlive ==
  wait_lock = None =>
    \A p \in Slot \ {initproc} : state[p] \notin {"UNUSED", "USED"} =>
      /\ parent[p] # None
      /\ state[parent[p]] \notin {"UNUSED", "USED", "ZOMBIE"}

\* A parent does not sleep in wait() while it has a zombie child: neither the
\* child's exit() nor its adoption by init comes too late or too early.
NoMissedExit ==
  wait_lock = None =>
    \A p \in Slot : state[p] = "ZOMBIE" => state[parent[p]] # "SLEEPING"

\* A child's exit reaches a parent that can wait for it and is awake to see
\* it, its own or init (reparent() and exit()).
ExitSeen == ParentAlive /\ NoMissedExit

\* Once no process forks any more, init frees every zombie that is or becomes
\* its child.  (While others fork, exit and get a lower slot over and over,
\* wait() may always find those first.)
InitReaps ==
  <>[][~\E p, q \in Slot : allocproc(p, q)]_vars =>
    \A p \in Slot \ {initproc} :
      (state[p] = "ZOMBIE" /\ parent[p] = initproc) ~> state[p] = "UNUSED"

\* The chain wait_lock, p->lock is never a circle: exit(), wait() and fork()
\* always get to the end of their critical sections.
WaitLockReleased == wait_lock # None ~> wait_lock = None
=============================================================================
