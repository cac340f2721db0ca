-------------------------------- MODULE Pipe --------------------------------
(***************************************************************************)
(* One pipe of kernel/pipe.c, from pipealloc() to kfree(), between the     *)
(* processes that share its two files.                                     *)
(*                                                                         *)
(* pi->lock is released only at sleep() and at the end of a call, so a     *)
(* variable holds it and the copying of one byte is one action; sleep()    *)
(* and wakeup() are atomic (Sched).  A process closes its descriptor of an *)
(* end in two steps: fileclose() drops the reference to the file and, if   *)
(* that was the last one, calls pipeclose().                               *)
(***************************************************************************)
EXTENDS Integers, FiniteSets, Sequences

CONSTANTS Proc,      \* processes
          Byte,      \* contents of a byte
          None,      \* nobody holds the lock
          PIPESIZE,  \* capacity of the ring
          UINT,      \* number of values of a uint: nread and nwrite wrap
          MAXN       \* bound on the n of a read() or write()

ASSUME PipeAssumption ==
  /\ PIPESIZE \in Nat \ {0}
  /\ MAXN \in Nat \ {0}
  /\ None \notin Proc
  \* 512 divides 2^32, and the wrapped difference tells full from empty.
  /\ UINT \in Nat
  /\ UINT > PIPESIZE
  /\ \E c \in 1..UINT : UINT = c * PIPESIZE

VARIABLES
  data, nread, nwrite, readopen, writeopen,  \* struct pipe
  lock,     \* pi->lock: its holder
  freed,    \* how often the pipe has been passed to kfree()
  fd,       \* fd[p]: the ends ("r", "w") that p has open
  closing,  \* ends whose file has lost its last reference before pipeclose()
  pc, n, i, \* where a process is, and the locals of its call
  killed,   \* p->killed
  stranded  \* history: a killed writer left bytes and told no reader since

pipevars == <<data, nread, nwrite, readopen, writeopen>>
filevars == <<freed, fd, closing>>
callvars == <<n, i>>
vars == <<pipevars, lock, filevars, pc, callvars, killed, stranded>>

Ends == {"r", "w"}
\* Mutation: a counter that is wider than the modulus of the comparison.
Inc_NoWrap(x) == x + 1
Inc(x) == (x + 1) % UINT
Empty == nread = nwrite
Full == nwrite = (nread + PIPESIZE) % UINT

\* sys_pipe() has succeeded and fork() has shared the two files.
Init == /\ \E b \in Byte : data = [k \in 0..PIPESIZE - 1 |-> b]
        /\ nread = 0 /\ nwrite = 0
        /\ readopen = TRUE /\ writeopen = TRUE
        /\ lock = None
        /\ freed = 0
        /\ fd \in [Proc -> SUBSET Ends]
        /\ \A e \in Ends : \E p \in Proc : e \in fd[p]
        /\ closing = {}
        /\ pc = [p \in Proc |-> "user"]
        /\ n = [p \in Proc |-> 0]
        /\ i = [p \in Proc |-> 0]
        /\ killed = [p \in Proc |-> FALSE]
        /\ stranded = FALSE

Goto(p, l) == pc' = [pc EXCEPT ![p] = l]

\* wakeup(chan): the sleepers on it compete for the lock again.  l is where
\* the calling process goes.
Woken(chan, p, l) ==
  [q \in Proc |-> IF q = p THEN l
                  ELSE IF chan = "nread" /\ pc[q] = "rsleep" THEN "rlock"
                  ELSE IF chan = "nwrite" /\ pc[q] = "wsleep" THEN "wlock"
                  ELSE pc[q]]

\* Release the lock and return from the call.
Return(p, w) == /\ lock' = None
                /\ pc' = w
                /\ n' = [n EXCEPT ![p] = 0]
                /\ i' = [i EXCEPT ![p] = 0]

\* The system call; a killed process exits instead.
call(p, e, k) ==
  /\ pc[p] = "user"
  /\ ~killed[p]
  /\ e \in fd[p]
  /\ n' = [n EXCEPT ![p] = k]
  /\ Goto(p, IF e = "r" THEN "rlock" ELSE "wlock")
  /\ UNCHANGED <<pipevars, lock, filevars, i, killed, stranded>>

\* acquire(&pi->lock), on entry and at the end of sleep().
acquire(p) ==
  /\ pc[p] \in {"rlock", "wlock"}
  /\ lock = None
  /\ lock' = p
  /\ Goto(p, IF pc[p] = "rlock" THEN "rtest" ELSE "write")
  /\ UNCHANGED <<pipevars, filevars, callvars, killed, stranded>>
-----------------------------------------------------------------------------
(* pipewrite()                                                             *)

write_abort(p) ==
  /\ pc[p] = "write"
  /\ i[p] < n[p]
  /\ ~readopen \/ killed[p]
  /\ Return(p, [pc EXCEPT ![p] = "user"])
  /\ stranded' = (stranded \/ i[p] > 0)
  /\ UNCHANGED <<pipevars, filevars, killed>>

\* wakeup(&pi->nread), and on to sleep(&pi->nwrite, &pi->lock).
write_full(p) ==
  /\ pc[p] = "write"
  /\ i[p] < n[p]
  /\ readopen /\ ~killed[p]
  /\ Full
  /\ pc' = Woken("nread", p, "wsleepy")
  /\ stranded' = FALSE
  /\ UNCHANGED <<pipevars, lock, filevars, callvars, killed>>

\* Mutation: one byte too many.
Room_OffByOne == nwrite # (nread + PIPESIZE + 1) % UINT
Room == ~Full

write_byte(p, b) ==
  /\ pc[p] = "write"
  /\ i[p] < n[p]
  /\ readopen /\ ~killed[p]
  /\ Room
  /\ data' = [data EXCEPT ![nwrite % PIPESIZE] = b]
  /\ nwrite' = Inc(nwrite)
  /\ i' = [i EXCEPT ![p] = @ + 1]
  /\ UNCHANGED <<nread, readopen, writeopen, lock, filevars, pc, n, killed, stranded>>

\* All written, or copyin() has failed: wakeup(&pi->nread), release.
write_end(p) ==
  /\ pc[p] = "write"
  /\ i[p] = n[p] \/ (Room /\ readopen /\ ~killed[p])
  /\ Return(p, Woken("nread", p, "user"))
  /\ stranded' = FALSE
  /\ UNCHANGED <<pipevars, filevars, killed>>
-----------------------------------------------------------------------------
(* piperead()                                                              *)

\* The loop test and the killed() test.
read_test(p) ==
  /\ pc[p] = "rtest"
  /\ \/ /\ ~(Empty /\ writeopen)
        /\ Goto(p, "read")
        /\ UNCHANGED <<lock, callvars>>
     \/ /\ Empty /\ writeopen /\ killed[p]
        /\ Return(p, [pc EXCEPT ![p] = "user"])
     \/ /\ Empty /\ writeopen /\ ~killed[p]
        /\ Goto(p, "rsleepy")
        /\ UNCHANGED <<lock, callvars>>
  /\ UNCHANGED <<pipevars, filevars, killed, stranded>>

\* sleep(); a kill() since the last test goes unnoticed.
sleep(p) ==
  /\ pc[p] \in {"rsleepy", "wsleepy"}
  /\ lock' = None
  /\ Goto(p, IF pc[p] = "rsleepy" THEN "rsleep" ELSE "wsleep")
  /\ UNCHANGED <<pipevars, filevars, callvars, killed, stranded>>

read_byte(p) ==
  /\ pc[p] = "read"
  /\ i[p] < n[p]
  /\ ~Empty
  /\ nread' = Inc(nread)
  /\ \/ i' = [i EXCEPT ![p] = @ + 1] /\ UNCHANGED <<pc, n>>
     \* copyout() has failed: the byte is lost and the loop ends.
     \/ Goto(p, "rend") /\ UNCHANGED callvars
  /\ UNCHANGED <<data, nwrite, readopen, writeopen, lock, filevars, n, killed, stranded>>

\* Mutation: a read that has emptied the pipe wakes nobody.
read_end_Quiet(p) ==
  /\ \/ pc[p] = "rend"
     \/ pc[p] = "read" /\ (i[p] = n[p] \/ Empty)
  /\ Return(p, IF Empty THEN [pc EXCEPT ![p] = "user"] ELSE Woken("nwrite", p, "user"))
  /\ UNCHANGED <<pipevars, filevars, killed, stranded>>

read_end(p) ==
  /\ \/ pc[p] = "rend"
     \/ pc[p] = "read" /\ (i[p] = n[p] \/ Empty)
  /\ Return(p, Woken("nwrite", p, "user"))
  /\ UNCHANGED <<pipevars, filevars, killed, stranded>>
-----------------------------------------------------------------------------
(* The files: fork(), close() and exit(), kill().                          *)

\* A process without descriptors stands for a slot that fork() fills.
fork(p, q) ==
  /\ pc[p] = "user" /\ ~killed[p]
  /\ fd[q] = {} /\ q # p /\ pc[q] = "user"
  /\ fd' = [fd EXCEPT ![q] = fd[p]]
  /\ killed' = [killed EXCEPT ![q] = FALSE]
  /\ UNCHANGED <<pipevars, lock, freed, closing, pc, callvars, stranded>>

LastRef(p, e) == \A q \in Proc \ {p} : e \notin fd[q]

\* fileclose() under ftable.lock.
fileclose(p, e) ==
  /\ pc[p] = "user"
  /\ e \in fd[p]
  /\ fd' = [fd EXCEPT ![p] = @ \ {e}]
  /\ closing' = IF LastRef(p, e) THEN closing \cup {e} ELSE closing
  /\ UNCHANGED <<pipevars, lock, freed, pc, callvars, killed, stranded>>

Sleepers(e) == IF e = "w" THEN "nread" ELSE "nwrite"

\* Mutation: no wakeup for the other side.
pipeclose_Quiet(e) ==
  /\ e \in closing
  /\ lock = None
  /\ closing' = closing \ {e}
  /\ writeopen' = (writeopen /\ e # "w")
  /\ readopen' = (readopen /\ e # "r")
  /\ freed' = IF readopen' \/ writeopen' THEN freed ELSE freed + 1
  /\ UNCHANGED <<data, nread, nwrite, lock, fd, pc, callvars, killed, stranded>>

\* Mutation: the pipe is freed with its write end, as if it were the last.
pipeclose_Free(e) ==
  /\ e \in closing
  /\ lock = None
  /\ closing' = closing \ {e}
  /\ writeopen' = (writeopen /\ e # "w")
  /\ readopen' = (readopen /\ e # "r")
  /\ freed' = IF writeopen' THEN freed ELSE freed + 1
  /\ pc' = Woken(Sleepers(e), None, "user")
  /\ stranded' = (stranded /\ e # "w")
  /\ UNCHANGED <<data, nread, nwrite, lock, fd, callvars, killed>>

pipeclose(e) ==
  /\ e \in closing
  /\ lock = None
  /\ closing' = closing \ {e}
  /\ writeopen' = (writeopen /\ e # "w")
  /\ readopen' = (readopen /\ e # "r")
  /\ freed' = IF readopen' \/ writeopen' THEN freed ELSE freed + 1
  /\ pc' = Woken(Sleepers(e), None, "user")
  /\ stranded' = (stranded /\ e # "w")
  /\ UNCHANGED <<data, nread, nwrite, lock, fd, callvars, killed>>

\* kill() also ends a sleep.
kill(p) ==
  /\ fd[p] # {}
  /\ ~killed[p]
  /\ killed' = [killed EXCEPT ![p] = TRUE]
  /\ Goto(p, CASE pc[p] = "rsleep" -> "rlock"
               [] pc[p] = "wsleep" -> "wlock"
               [] OTHER -> pc[p])
  /\ UNCHANGED <<pipevars, lock, filevars, callvars, stranded>>

\* The steps of a call that is under way.
Step(p) == \/ acquire(p) \/ sleep(p)
           \/ write_abort(p) \/ write_full(p) \/ write_end(p)
           \/ \E b \in Byte : write_byte(p, b)
           \/ read_test(p) \/ read_byte(p) \/ read_end(p)

Next == \/ \E p \in Proc : \/ Step(p) \/ kill(p)
                           \/ \E e \in Ends, k \in 1..MAXN : call(p, e, k)
                           \/ \E e \in Ends : fileclose(p, e)
                           \/ \E q \in Proc : fork(p, q)
        \/ \E e \in Ends : pipeclose(e)

Spec == Init /\ [][Next]_vars

\* The scheduler runs every process that is in the kernel, and who competes
\* for the lock gets it in the end.
Fairness == /\ \A p \in Proc : SF_vars(Step(p))
            /\ \A e \in Ends : SF_vars(pipeclose(e))
FairSpec == Spec /\ Fairness
-----------------------------------------------------------------------------
(* Properties.                                                             *)

\* The types of the pipe, its files and the calls' locals.
TypeOK == /\ data \in [0..PIPESIZE - 1 -> Byte]
          /\ nread \in 0..UINT - 1
          /\ nwrite \in 0..UINT - 1
          /\ readopen \in BOOLEAN /\ writeopen \in BOOLEAN
          /\ lock \in Proc \cup {None}
          /\ freed \in 0..1
          /\ fd \in [Proc -> SUBSET Ends]
          /\ closing \subseteq Ends
          /\ pc \in [Proc -> {"user", "rlock", "rtest", "rsleepy", "rsleep", "read",
                              "rend", "wlock", "write", "wsleepy", "wsleep"}]
          /\ n \in [Proc -> 0..MAXN]
          /\ i \in [Proc -> 0..MAXN]
          /\ killed \in [Proc -> BOOLEAN]
          /\ stranded \in BOOLEAN

\* The bytes in the ring, oldest first.
Count == (nwrite - nread) % UINT
Queue == [k \in 1..Count |-> data[(nread + k - 1) % PIPESIZE]]

PQ == INSTANCE ByteQueue WITH queue <- Queue, capacity <- PIPESIZE

\* The ring with its wrapping counters is a bounded queue: no byte is
\* overwritten before it is read, duplicated or reordered.
Refines == PQ!Spec

\* The pipe is freed at most once, when no process has a descriptor of either
\* end or is inside a call on it.
NoUseAfterFree ==
  /\ freed <= 1
  /\ freed > 0 => \A p \in Proc : fd[p] = {} /\ pc[p] = "user"

\* While the lock is free a reader sleeps only on an empty pipe with a write
\* end, and a writer only on a full pipe with a read end.  The exception is a
\* killed writer: pipewrite() then returns without the wakeup() for the bytes
\* it has written (pipe.c:84), and a reader may sleep beside them until the
\* next write or close.
NoLostWakeup ==
  lock = None =>
    \A p \in Proc : /\ pc[p] = "rsleep" => (Empty \/ stranded) /\ writeopen
                    /\ pc[p] = "wsleep" => Full /\ readopen

\* When the write end is shut, every read() comes to its end, and when the
\* read end is shut every write() does.
CallsEnd(p) ==
  ( \/ ~writeopen /\ pc[p] \in {"rlock", "rtest", "rsleepy", "rsleep", "read", "rend"}
    \/ ~readopen /\ pc[p] \in {"wlock", "write", "wsleepy", "wsleep"} )
  ~> pc[p] = "user"
=============================================================================
