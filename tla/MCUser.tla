------------------------------ MODULE MCUser -------------------------------
(* What user programs rest on: memory, on a machine of NPAGE pages with a  *)
(* few programs, traps, and the input of the console.  They share no       *)
(* state: a behaviour runs one of them, chosen at the start.               *)
EXTENDS Memory

CONSTANTS c1, c2, t1, t2, None

VARIABLES which, cpu, loc, state, killed, plock, tf, frame, intena, upc, panicked,
          buf, r, w, e, lock, pc, left, target, ckilled

trapVars == <<cpu, loc, state, killed, plock, tf, frame, intena, upc, panicked>>
conVars == <<buf, r, w, e, lock, pc, left, target, ckilled>>

\* A process that moves between CPUs, and two that share one.
Move == INSTANCE Trap WITH CPU <- {c1, c2}, Proc <- {t1}
Share == INSTANCE Trap WITH CPU <- {c1}, Proc <- {t1, t2}

\* Two readers; a line of two characters beside one that is committed.
Con == INSTANCE Console WITH Reader <- {t1, t2}, SIZE <- 4, WRAP <- 8, MAXN <- 2,
                             n <- left, killed <- ckilled

Start == /\ Init /\ Con!Init
         /\ \/ which = "share" /\ Share!Init
            \/ which \in {"memory", "move", "input"} /\ Move!Init
Step == \/ which = "memory" /\ Next /\ UNCHANGED <<which, trapVars, conVars>>
        \/ which = "move" /\ Move!Next /\ UNCHANGED <<which, vars, conVars>>
        \/ which = "share" /\ Share!Next /\ UNCHANGED <<which, vars, conVars>>
        \/ which = "input" /\ Con!Next /\ UNCHANGED <<which, vars, trapVars>>
System == Start /\ [][Step]_<<which, vars, trapVars, conVars>>

\* No panic of kfree(), of the page tables or of loadseg(), and none of
\* usertrap(), kerneltrap(), sched() and pop_off().
NeverPanics == NoPanic /\ ~panicked
\* Every physical page has one owner.
PageOwners == which = "memory" => PagesOwnedOnce
\* Nobody else's image changes, a failed call keeps the caller's.
ImagesKept == ImageKept
\* A user program goes on where it was, with its registers (userret).
UserResumes == IF which = "share" THEN Share!UserResumes ELSE Move!UserResumes
\* So does an interrupted kernel thread, on whatever CPU (kernelvec).
KernelResumes == IF which = "share" THEN Share!KernelResumes ELSE Move!KernelResumes
\* The console's input ring implements LineBuffer.
LinesKept == Con!LinesKept
\* No reader sleeps while there is a committed line (consoleread()).
NoLostWakeup == Con!NoLostWakeup
-----------------------------------------------------------------------------

Seg(va, memsz, filesz, avail, perm) ==
  [read |-> TRUE, load |-> TRUE, vaddr |-> va, memsz |-> memsz, filesz |-> filesz,
   avail |-> avail, perm |-> perm]
Short == [Seg(0, 0, 0, 0, {}) EXCEPT !.read = FALSE]
Note == [Seg(0, 0, 0, 0, {}) EXCEPT !.load = FALSE]
Text == Seg(0, 4, 4, 4, {"X"})

MCProg == {[elf |-> FALSE, ph |-> <<>>],
           [elf |-> TRUE, ph |-> <<Note, Text>>],
           [elf |-> TRUE, ph |-> <<Text, Seg(4, 5, 2, 2, {"W"})>>],
           [elf |-> TRUE, ph |-> <<Text, Seg(8, 4, 4, 2, {"W"})>>],
           [elf |-> TRUE, ph |-> <<Text, Seg(8, WORD - 8, 0, 0, {"W"}), Short>>]}

Arg(path, uargv, uarg, n) == [path |-> path, uargv |-> uargv, uarg |-> uarg, n |-> n]
MCArgs == {Arg(0, 0, 0, 0), Arg(9, 9, 9, 1), Arg(9, 9, 9, 2), Arg(9, 9, 9, 3), Arg(9, 9, 5, 1)}
MCAddr == {2, 9}
MCSbrk == {6, -6}

\* The code compares a page's address with nothing but NULL, so states that
\* differ in the names of pages only are one state.
RECURSIVE Shape(_, _)
Shape(pt, level) ==
  [i \in 0..FAN - 1 |->
     LET pte == m.con[pt][i]
     IN IF pte.flags = {} THEN <<>>
        ELSE IF level > 0 THEN <<Shape(pte.pa, level - 1)>>
        ELSE <<pte.flags, IF pte.pa \in Page THEN m.con[pte.pa] ELSE Junk>>]

\* The trap registers matter until the handler has saved or used them.
Csr(c) ==
  IF loc[Move!T(c)] \in {"uservec", "usertrap", "usertrap_epc", "kernelvec", "kerneltrap", "userret"}
  THEN cpu[c]
  ELSE [cpu[c] EXCEPT !.sepc = "first", !.scause = None, !.spp = FALSE, !.spie = FALSE,
                      !.pc = IF cpu[c].user THEN @ ELSE "first"]

\* Places of the ring outside of r..e are written before they are read.
View ==
  CASE which = "input" ->
         <<Con!Ring(r, e), r, w, e, lock, pc, left, target, ckilled, buf = buf>>
    [] which = "memory" ->
         IF m.panic THEN <<>>
         ELSE <<Len(m.free), sz, Cardinality(pipes),
                [p \in Proc |-> IF pagetable[p] = NULL THEN <<>> ELSE Shape(pagetable[p], 2)]>>
    [] OTHER -> <<which, [c \in DOMAIN cpu |-> Csr(c)], loc, state, killed, plock, tf, frame,
                  intena, upc, panicked>>
=============================================================================
