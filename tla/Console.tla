------------------------------ MODULE Console ------------------------------
(***************************************************************************)
(* Console input: the ring cons.buf of kernel/console.c, filled by         *)
(* consoleintr() and emptied by consoleread().                             *)
(*                                                                         *)
(* A call holds cons.lock from one sleep() to the next; a step is one turn *)
(* of its loop.  The indices are unsigned and wrap at WRAP, a multiple of  *)
(* SIZE as 2^32 is of 128.  Echoing does not touch this state (see Uart).  *)
(***************************************************************************)
EXTENDS Integers, Sequences

CONSTANTS Reader,
          SIZE,   \* INPUT_BUF_SIZE
          WRAP,   \* modulus of cons.r, cons.w and cons.e
          MAXN    \* longest read

VARIABLES buf, r, w, e,
          lock,   \* the reader that holds cons.lock, or "none"
          pc,     \* where each reader is
          n, target,  \* consoleread()'s locals
          killed

vars == <<buf, r, w, e, lock, pc, n, target, killed>>

Char == {"x", "nl", "eof"}
Enders == {"nl", "eof"}

Init ==
  /\ buf = [i \in 0..SIZE - 1 |-> "x"]
  /\ r = 0 /\ w = 0 /\ e = 0
  /\ lock = "none"
  /\ pc = [p \in Reader |-> "idle"]
  /\ n = [p \in Reader |-> 0] /\ target = [p \in Reader |-> 0]
  /\ killed = [p \in Reader |-> FALSE]

Sub(a, b) == (a - b + WRAP) % WRAP
Goto(p, l) == pc' = [pc EXCEPT ![p] = l]

\* wakeup(&cons.r)
Woken == [p \in Reader |-> IF pc[p] = "sleep" THEN "woken" ELSE pc[p]]

\* consoleintr()'s test for room.
Room == Sub(e, r) < SIZE

\* A whole line has arrived, counting c.
Whole(c) == c \in Enders \/ Sub((e + 1) % WRAP, r) = SIZE

\* consoleintr(), default: store the character, commit a whole line.
Store(c) ==
  /\ lock = "none" /\ Room
  /\ buf' = [buf EXCEPT ![e % SIZE] = c]
  /\ e' = (e + 1) % WRAP
  /\ IF Whole(c) THEN w' = e' /\ pc' = Woken ELSE UNCHANGED <<w, pc>>
  /\ UNCHANGED <<r, lock, n, target, killed>>

\* consoleintr(), backspace or delete
Backspace ==
  /\ lock = "none" /\ e # w
  /\ e' = Sub(e, 1)
  /\ UNCHANGED <<buf, r, w, lock, pc, n, target, killed>>

\* The number of characters that control-U erases, at most max: those after
\* the last newline.
Erased(max) ==
  CHOOSE k \in 0..max : /\ k = max \/ buf[Sub(e, k + 1) % SIZE] = "nl"
                        /\ \A j \in 0..k - 1 : buf[Sub(e, j + 1) % SIZE] # "nl"

\* Mutation: the loop stops at the first unread character.
KillLine_ToRead ==
  /\ lock = "none"
  /\ e' = Sub(e, Erased(Sub(e, r)))
  /\ UNCHANGED <<buf, r, w, lock, pc, n, target, killed>>

\* consoleintr(), control-U: back to w or to the last newline.
KillLine ==
  /\ lock = "none"
  /\ e' = Sub(e, Erased(Sub(e, w)))
  /\ UNCHANGED <<buf, r, w, lock, pc, n, target, killed>>

\* consoleread(): the call takes cons.lock.
consoleread(p, k) ==
  /\ pc[p] = "idle" /\ lock = "none"
  /\ lock' = p
  /\ n' = [n EXCEPT ![p] = k] /\ target' = [target EXCEPT ![p] = k]
  /\ Goto(p, "loop")
  /\ UNCHANGED <<buf, r, w, e, killed>>

\* sleep(&cons.r, &cons.lock) returns with the lock.
Wake(p) ==
  /\ pc[p] = "woken" /\ lock = "none"
  /\ lock' = p
  /\ Goto(p, "loop")
  /\ UNCHANGED <<buf, r, w, e, n, target, killed>>

Return(p) ==
  /\ lock' = "none"
  /\ Goto(p, "idle")
  /\ n' = [n EXCEPT ![p] = 0] /\ target' = [target EXCEPT ![p] = 0]

\* Mutation: cons.lock is released between the test and the sleep.
TestKilled_Unlocked(p) ==
  /\ pc[p] = "loop" /\ r = w
  /\ IF killed[p] THEN Return(p)
     ELSE Goto(p, "tosleep") /\ lock' = "none" /\ UNCHANGED <<n, target>>
  /\ UNCHANGED <<buf, r, w, e, killed>>

\* Nothing to read: return if killed, else sleep.
TestKilled(p) ==
  /\ pc[p] = "loop" /\ r = w
  /\ IF killed[p] THEN Return(p) ELSE Goto(p, "tosleep") /\ UNCHANGED <<lock, n, target>>
  /\ UNCHANGED <<buf, r, w, e, killed>>

\* sleep() takes p->lock and releases cons.lock; a kill() that came after
\* the test is not seen before the next wakeup.
Sleep(p) ==
  /\ pc[p] = "tosleep"
  /\ lock' = "none"
  /\ Goto(p, "sleep")
  /\ UNCHANGED <<buf, r, w, e, n, target, killed>>

\* A character: end-of-file is left for the next call if this one has read
\* something; a newline, a failed copy (ok) or a full request end the call.
Read(p, ok) ==
  /\ pc[p] = "loop" /\ r # w
  /\ LET c == buf[r % SIZE]
         left == IF c = "eof" \/ ~ok THEN n[p] ELSE n[p] - 1
     IN /\ r' = IF c = "eof" /\ n[p] < target[p] THEN r ELSE (r + 1) % WRAP
        /\ IF c \in Enders \/ ~ok \/ left = 0 THEN Return(p)
           ELSE n' = [n EXCEPT ![p] = left] /\ UNCHANGED <<lock, pc, target>>
  /\ UNCHANGED <<buf, w, e, killed>>

\* kill(): the flag, and a sleeping process is made runnable.
kill(p) ==
  /\ pc[p] # "idle" /\ ~killed[p]
  /\ killed' = [killed EXCEPT ![p] = TRUE]
  /\ pc' = [pc EXCEPT ![p] = IF @ = "sleep" THEN "woken" ELSE @]
  /\ UNCHANGED <<buf, r, w, e, lock, n, target>>

\* A killed process never calls again: another takes its place.
Exit(p) ==
  /\ pc[p] = "idle" /\ killed[p]
  /\ killed' = [killed EXCEPT ![p] = FALSE]
  /\ UNCHANGED <<buf, r, w, e, lock, pc, n, target>>

Next ==
  \/ \E c \in Char : Store(c)
  \/ Backspace \/ KillLine
  \/ \E p \in Reader : \/ \E k \in 1..MAXN : consoleread(p, k)
                       \/ Wake(p) \/ TestKilled(p) \/ Sleep(p)
                       \/ \E ok \in BOOLEAN : Read(p, ok)
                       \/ kill(p) \/ Exit(p)

Spec == Init /\ [][Next]_vars
-----------------------------------------------------------------------------
(* Properties                                                              *)

Ring(from, to) == [i \in 1..Sub(to, from) |-> buf[(from + i - 1) % SIZE]]

\* The ring with its wrapping indices implements LineBuffer: nothing typed is
\* lost, overwritten or read twice, erasing never reaches a committed line,
\* and control-U erases exactly the line being edited.
Lines == INSTANCE LineBuffer WITH lines <- Ring(r, w), edit <- Ring(w, e)
LinesKept == Lines!Spec

\* A reader sleeps only while there is no committed input: consoleintr()'s
\* wakeup cannot fall between the test and the sleep.
NoLostWakeup == \A p \in Reader : pc[p] = "sleep" => r = w
=============================================================================
