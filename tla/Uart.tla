-------------------------------- MODULE Uart --------------------------------
(***************************************************************************)
(* Console output: the transmit ring of kernel/uart.c, filled by           *)
(* consolewrite() through uartputc(), emptied by uartstart() from both     *)
(* halves, and uartputc_sync(), which echoes input around the ring.        *)
(*                                                                         *)
(* The 16550 has a transmit FIFO; LSR_TX_IDLE says that it is empty, and   *)
(* its becoming empty raises an interrupt that reading ISR or writing THR  *)
(* withdraws.  The PLIC delivers it to one CPU until plic_complete().      *)
(* Character k of the writer that is observed is k % 3; those of the other *)
(* writers, which are like it, and echoes are Other.                       *)
(***************************************************************************)
EXTENDS Integers, Sequences

CONSTANTS Writer,
          Observed, \* the writer whose characters are numbered
          SIZE,   \* UART_TX_BUF_SIZE
          WRAP,   \* modulus of uart_tx_r and uart_tx_w (2^64)
          MAXN,   \* longest write
          MAXECHO \* most characters echoed by one interrupt

VARIABLES txbuf, tx_r, tx_w,
          lock,   \* thread that holds uart_tx_lock, or "none"
          fifo, irq,      \* the device
          pc, left, \* writers; "intr" is the interrupt handler
          next,   \* number of the observed writer's next character
          echo,   \* echoes the handler has still to send
          sent    \* number of its last character on the line

vars == <<txbuf, tx_r, tx_w, lock, fifo, irq, pc, left, next, echo, sent>>

Other == 3

Init ==
  /\ txbuf = [i \in 0..SIZE - 1 |-> Other]
  /\ tx_r = 0 /\ tx_w = 0
  /\ lock = "none"
  /\ fifo = <<>> /\ irq = FALSE
  /\ pc = [t \in Writer \cup {"intr"} |-> "idle"]
  /\ left = [p \in Writer |-> 0] /\ next = 0
  /\ echo = 0
  /\ sent = 2

Goto(t, l) == pc' = [pc EXCEPT ![t] = l]
Idle == fifo = <<>>

\* The device puts a character on the line; irq when the FIFO is empty again.
Transmit ==
  /\ fifo # <<>>
  /\ fifo' = Tail(fifo)
  /\ irq' = (irq \/ Len(fifo) = 1)
  /\ sent' = IF Head(fifo) = Other THEN sent ELSE Head(fifo)
  /\ UNCHANGED <<txbuf, tx_r, tx_w, lock, pc, left, next, echo>>

\* consolewrite(): k characters, each by a call of uartputc().
consolewrite(p, k) ==
  /\ pc[p] = "idle"
  /\ left' = [left EXCEPT ![p] = k]
  /\ Goto(p, "putc")
  /\ UNCHANGED <<txbuf, tx_r, tx_w, lock, fifo, irq, next, echo, sent>>

\* Mutation: the writer that finds the ring full by one is let through.
Full_OffByOne == tx_w = (tx_r + SIZE + 1) % WRAP
Full == tx_w = (tx_r + SIZE) % WRAP

\* uartputc() up to uartstart(): sleep while the ring is full.
uartputc(p) ==
  /\ pc[p] = "putc" /\ lock = "none"
  /\ IF Full THEN Goto(p, "sleep") /\ UNCHANGED <<txbuf, tx_w, lock, left, next>>
     ELSE /\ txbuf' = [txbuf EXCEPT ![tx_w % SIZE] = IF p = Observed THEN next ELSE Other]
          /\ tx_w' = (tx_w + 1) % WRAP
          /\ next' = IF p = Observed THEN (next + 1) % 3 ELSE next
          /\ left' = [left EXCEPT ![p] = @ - 1]
          /\ lock' = p /\ Goto(p, "start")
  /\ UNCHANGED <<tx_r, fifo, irq, echo, sent>>

Leave(t) ==
  /\ lock' = "none"
  /\ Goto(t, IF t = "intr" THEN "idle" ELSE IF left[t] > 0 THEN "putc" ELSE "idle")

\* uartstart(), one turn of its loop by the holder t of the lock: the ring
\* is empty, the device is busy, or a character is sent and space is freed.
uartstart_Empty(t) ==
  /\ pc[t] = "start" /\ tx_w = tx_r
  /\ irq' = FALSE
  /\ Leave(t)
  /\ UNCHANGED <<txbuf, tx_r, tx_w, fifo, left, next, echo, sent>>

uartstart_Busy(t) ==
  /\ pc[t] = "start" /\ tx_w # tx_r /\ ~Idle
  /\ Leave(t)
  /\ UNCHANGED <<txbuf, tx_r, tx_w, fifo, irq, left, next, echo, sent>>

\* Mutation: uartstart() frees the slot without waking the writers.
Freed_NoWake == pc
\* wakeup(&uart_tx_r)
Freed == [t \in DOMAIN pc |-> IF pc[t] = "sleep" THEN "putc" ELSE pc[t]]

uartstart_Send(t) ==
  /\ pc[t] = "start" /\ tx_w # tx_r /\ Idle
  /\ tx_r' = (tx_r + 1) % WRAP
  /\ pc' = [Freed EXCEPT ![t] = "thr"]
  /\ UNCHANGED <<txbuf, tx_w, lock, fifo, irq, left, next, echo, sent>>

\* WriteReg(THR, c); an echo may have been written since LSR was read.
uartstart_THR(t) ==
  /\ pc[t] = "thr"
  /\ fifo' = Append(fifo, txbuf[(tx_r + WRAP - 1) % SIZE])
  /\ irq' = FALSE
  /\ Goto(t, "start")
  /\ UNCHANGED <<txbuf, tx_r, tx_w, lock, left, next, echo, sent>>

\* uartintr(), because of irq or of input: consoleintr() echoes k characters.
uartintr(k) ==
  /\ pc["intr"] = "idle" /\ (irq \/ k > 0)
  /\ echo' = k
  /\ Goto("intr", "echo")
  /\ UNCHANGED <<txbuf, tx_r, tx_w, lock, fifo, irq, left, next, sent>>

\* uartputc_sync(): spin until the device is idle, then write.
uartputc_sync ==
  /\ pc["intr"] = "echo" /\ echo > 0 /\ Idle
  /\ echo' = echo - 1
  /\ Goto("intr", "sync")
  /\ UNCHANGED <<txbuf, tx_r, tx_w, lock, fifo, irq, left, next, sent>>

uartputc_sync_THR ==
  /\ pc["intr"] = "sync"
  /\ fifo' = Append(fifo, Other)
  /\ irq' = FALSE
  /\ Goto("intr", "echo")
  /\ UNCHANGED <<txbuf, tx_r, tx_w, lock, left, next, echo, sent>>

\* uartintr() sends buffered characters.
uartintr_Start ==
  /\ pc["intr"] = "echo" /\ echo = 0 /\ lock = "none"
  /\ lock' = "intr" /\ Goto("intr", "start")
  /\ UNCHANGED <<txbuf, tx_r, tx_w, fifo, irq, left, next, echo, sent>>

Start(t) == \/ uartstart_Empty(t) \/ uartstart_Busy(t)
            \/ uartstart_Send(t) \/ uartstart_THR(t)
Handler == uartputc_sync \/ uartputc_sync_THR \/ uartintr_Start \/ Start("intr")

Run == \/ Transmit \/ uartintr(0) \/ Handler
       \/ \E p \in Writer : uartputc(p) \/ Start(p)
Input == \/ \E k \in 1..MAXECHO : uartintr(k)
         \/ \E p \in Writer, k \in 1..MAXN : consolewrite(p, k)
Next == Run \/ Input

\* The device and the CPUs do not stop while one of them has a step to take.
Spec == Init /\ [][Next]_vars /\ WF_vars(Run)
-----------------------------------------------------------------------------
(* Properties                                                              *)

\* The characters of a writer go out in order, none lost, overwritten in
\* the ring or repeated, whatever is echoed in between.
InOrder == fifo # <<>> => Head(fifo) \in {Other, (sent + 1) % 3}

\* Once the keyboard rests and nobody calls write() again, every write() ends,
\* also of a writer that found the ring full, and no character is left in
\* the ring or the device: no transmit interrupt is lost.  (Others can starve a writer:
\* an echo may take the device just before uartintr() looks at it, and
\* another writer the slot just before the one that was woken for it.)
OutputDrains ==
  <>[][~Input]_vars =>
    <>[](tx_r = tx_w /\ fifo = <<>> /\ \A p \in Writer : pc[p] = "idle")
=============================================================================
