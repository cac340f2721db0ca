------------------------------ MODULE PipeProof ------------------------------
(***************************************************************************)
(* Proofs about Pipe, for any number of processes, any capacity and any    *)
(* width of the counters that PipeAssumption admits.                       *)
(***************************************************************************)
EXTENDS Pipe, TLAPS

\* Where a process holds pi->lock, and the places of a read() and a write().
Inside == {"rtest", "rsleepy", "read", "rend", "write", "wsleepy"}
Reading == {"rlock", "rtest", "rsleepy", "rsleep", "read", "rend"}
Writing == {"wlock", "write", "wsleepy", "wsleep"}

\* lock names the process inside.
LockInv == \A p \in Proc : pc[p] \in Inside <=> lock = p

\* A call holds a descriptor, an end with a descriptor or with a pipeclose()
\* to come is open, and the memory goes with the second end.
FileInv == /\ \A p \in Proc : /\ pc[p] \in Reading => "r" \in fd[p]
                              /\ pc[p] \in Writing => "w" \in fd[p]
           /\ \A p \in Proc : \A e \in fd[p] : e \notin closing
           /\ (\E p \in Proc : "r" \in fd[p]) \/ "r" \in closing => readopen
           /\ (\E p \in Proc : "w" \in fd[p]) \/ "w" \in closing => writeopen
           /\ freed = (IF readopen \/ writeopen THEN 0 ELSE 1)

\* Why a reader sleeps: nothing to read, or nobody has told it yet.
ReadersInv ==
  \A p \in Proc :
    /\ pc[p] = "rsleepy" => Empty /\ writeopen
    /\ pc[p] = "rsleep" => /\ writeopen
                           /\ \/ Empty \/ stranded
                              \/ \E q \in Proc : pc[q] = "write" /\ i[q] > 0

\* Why a writer sleeps: no room, or a reader that has yet to tell it.
WritersInv ==
  \A p \in Proc :
    /\ pc[p] = "wsleepy" => Full /\ readopen
    /\ pc[p] = "wsleep" => /\ readopen
                           /\ Full \/ \E q \in Proc : pc[q] \in {"read", "rend"}

\* The counters are at most the capacity apart.
RingInv == Count <= PIPESIZE

\* The inductive invariant.
IInv == TypeOK /\ LockInv /\ FileInv /\ ReadersInv /\ WritersInv /\ RingInv

USE DEF pipevars, filevars, callvars, Goto

\* None is no process.
LEMMA Nones == None \notin Proc
BY PipeAssumption

\* The sizes.
LEMMA Consts == /\ PIPESIZE \in Nat \ {0} /\ MAXN \in Nat \ {0}
                /\ UINT \in Nat /\ UINT > PIPESIZE
BY PipeAssumption

\* The places of a process.
Place == {"user", "rlock", "rtest", "rsleepy", "rsleep", "read", "rend", "wlock", "write", "wsleepy",
          "wsleep"}

\* wakeup() leaves every process at a place.
LEMMA WokenType ==
  ASSUME TypeOK, NEW chan, NEW p, NEW l \in Place
  PROVE  Woken(chan, p, l) \in [Proc -> Place]
BY DEF TypeOK, Woken, Place

\* read() or write() is called.
LEMMA CallStep ==
  ASSUME IInv, NEW p \in Proc, NEW e \in Ends, NEW k \in 1..MAXN, call(p, e, k)
  PROVE  IInv'
<1>1. TypeOK'
  BY Consts DEF IInv, TypeOK, Ends, call, Ends
<1>2. LockInv'
  BY Nones DEF IInv, TypeOK, LockInv, Inside, call, Ends
<1>3. FileInv'
  BY DEF IInv, TypeOK, FileInv, Reading, Writing, call, Ends
<1>4. Empty' = Empty /\ Full' = Full
  BY DEF Empty, Full, call, Ends
<1>5. ReadersInv'
  BY <1>4, Nones DEF IInv, TypeOK, LockInv, ReadersInv, Inside, call, Ends
<1>6. WritersInv'
  BY Zenon, <1>4, Nones DEF IInv, TypeOK, LockInv, WritersInv, Inside, call, Ends
<1>7. RingInv'
  BY DEF IInv, RingInv, Count, call, Ends
<1> QED
  BY <1>1, <1>2, <1>3, <1>5, <1>6, <1>7 DEF IInv

\* pi->lock is taken.
LEMMA AcquireStep ==
  ASSUME IInv, NEW p \in Proc, acquire(p)
  PROVE  IInv'
<1>1. TypeOK'
  BY Consts DEF IInv, TypeOK, Ends, acquire
<1>2. LockInv'
  BY Nones DEF IInv, TypeOK, LockInv, Inside, acquire
<1>3. FileInv'
  BY DEF IInv, TypeOK, FileInv, Reading, Writing, acquire
<1>4. Empty' = Empty /\ Full' = Full
  BY DEF Empty, Full, acquire
<1>5. ReadersInv'
  BY <1>4, Nones DEF IInv, TypeOK, LockInv, ReadersInv, Inside, acquire
<1>6. WritersInv'
  BY <1>4, Nones DEF IInv, TypeOK, LockInv, WritersInv, Inside, acquire
<1>7. RingInv'
  BY DEF IInv, RingInv, Count, acquire
<1> QED
  BY <1>1, <1>2, <1>3, <1>5, <1>6, <1>7 DEF IInv

\* pipewrite() gives up.
LEMMA WriteAbortStep ==
  ASSUME IInv, NEW p \in Proc, write_abort(p)
  PROVE  IInv'
<1>1. TypeOK'
  BY Consts DEF IInv, TypeOK, Ends, write_abort, Return
<1>2. LockInv'
  BY Nones DEF IInv, TypeOK, LockInv, Inside, write_abort, Return
<1>3. FileInv'
  BY DEF IInv, TypeOK, FileInv, Reading, Writing, write_abort, Return
<1>4. Empty' = Empty /\ Full' = Full
  BY DEF Empty, Full, write_abort, Return
<1>5. ReadersInv'
  BY <1>4, Nones DEF IInv, TypeOK, LockInv, ReadersInv, Inside, write_abort, Return
<1>6. WritersInv'
  BY Zenon, <1>4, Nones DEF IInv, TypeOK, LockInv, WritersInv, Inside, write_abort, Return
<1>7. RingInv'
  BY DEF IInv, RingInv, Count, write_abort, Return
<1> QED
  BY <1>1, <1>2, <1>3, <1>5, <1>6, <1>7 DEF IInv

\* pipewrite() finds the ring full and wakes the readers.
LEMMA WriteFullStep ==
  ASSUME IInv, NEW p \in Proc, write_full(p)
  PROVE  IInv'
<1>1. TypeOK'
  BY Zenon, Consts DEF IInv, TypeOK, Ends, write_full, Woken
<1>2. LockInv'
  BY Nones DEF IInv, TypeOK, LockInv, Inside, write_full, Woken
<1>3. FileInv'
  BY DEF IInv, TypeOK, FileInv, Reading, Writing, write_full, Woken
<1>4. Empty' = Empty /\ Full' = Full
  BY DEF Empty, Full, write_full, Woken
<1>5. ReadersInv'
  BY <1>4, Nones DEF IInv, TypeOK, LockInv, ReadersInv, Inside, write_full, Woken
<1>6. WritersInv'
  BY <1>4, Nones DEF IInv, TypeOK, LockInv, WritersInv, Inside, write_full, Woken
<1>7. RingInv'
  BY DEF IInv, RingInv, Count, write_full, Woken
<1> QED
  BY <1>1, <1>2, <1>3, <1>5, <1>6, <1>7 DEF IInv

\* pipewrite() returns and wakes the readers.
LEMMA WriteEndStep ==
  ASSUME IInv, NEW p \in Proc, write_end(p)
  PROVE  IInv'
<1>1. TypeOK'
  <2>0. lock' = None /\ n' = [n EXCEPT ![p] = 0] /\ i' = [i EXCEPT ![p] = 0] /\ stranded' = FALSE
        /\ UNCHANGED <<pipevars, filevars, killed>>
    BY DEF write_end, Return
  <2>1. pc' \in [Proc -> Place]
    BY WokenType DEF write_end, Return, IInv, Place
  <2>2. n' \in [Proc -> 0..MAXN] /\ i' \in [Proc -> 0..MAXN]
    BY <2>0, Consts DEF IInv, TypeOK
  <2> QED
    BY Zenon, <2>0, <2>1, <2>2 DEF IInv, TypeOK, Place
<1>2. LockInv'
  BY Nones DEF IInv, TypeOK, LockInv, Inside, write_end, Return, Woken
<1>3. FileInv'
  BY DEF IInv, TypeOK, FileInv, Reading, Writing, write_end, Return, Woken
<1>4. Empty' = Empty /\ Full' = Full
  BY DEF Empty, Full, write_end, Return, Woken
<1>5. ReadersInv'
  BY <1>4, Nones DEF IInv, TypeOK, LockInv, ReadersInv, Inside, write_end, Return, Woken
<1>6. WritersInv'
  BY Zenon, <1>4, Nones DEF IInv, TypeOK, LockInv, WritersInv, Inside, write_end, Return, Woken
<1>7. RingInv'
  BY DEF IInv, RingInv, Count, write_end, Return, Woken
<1> QED
  BY <1>1, <1>2, <1>3, <1>5, <1>6, <1>7 DEF IInv

\* piperead()'s loop of tests.
LEMMA ReadTestStep ==
  ASSUME IInv, NEW p \in Proc, read_test(p)
  PROVE  IInv'
<1> DEFINE Stays == pc' \in {[pc EXCEPT ![p] = "read"], [pc EXCEPT ![p] = "rsleepy"]} /\ UNCHANGED <<lock, callvars>>
<1>0. pc[p] = "rtest" /\ (Stays \/ Return(p, [pc EXCEPT ![p] = "user"]))
      /\ UNCHANGED <<pipevars, filevars, killed, stranded>>
  BY DEF read_test
<1>1. TypeOK'
  <2>1. CASE Stays
    BY Zenon, <1>0, <2>1 DEF IInv, TypeOK
  <2>2. CASE Return(p, [pc EXCEPT ![p] = "user"])
    BY <1>0, <2>2, Consts DEF IInv, TypeOK, Return
  <2> QED
    BY <1>0, <2>1, <2>2
<1>2. LockInv'
  <2>1. CASE Stays
    BY <1>0, <2>1 DEF IInv, TypeOK, LockInv, Inside
  <2>2. CASE Return(p, [pc EXCEPT ![p] = "user"])
    BY <1>0, <2>2, Nones DEF IInv, TypeOK, LockInv, Inside, Return
  <2> QED
    BY <1>0, <2>1, <2>2
<1>3. FileInv'
  BY DEF IInv, TypeOK, FileInv, Reading, Writing, read_test, Return
<1>4. Empty' = Empty /\ Full' = Full
  BY DEF Empty, Full, read_test, Return
<1>5. ReadersInv'
  BY <1>4, Nones DEF IInv, TypeOK, LockInv, ReadersInv, Inside, read_test, Return
<1>6. WritersInv'
  BY ZenonT(30), <1>4, Nones DEF IInv, TypeOK, LockInv, WritersInv, Inside, read_test, Return
<1>7. RingInv'
  BY DEF IInv, RingInv, Count, read_test, Return
<1> QED
  BY <1>1, <1>2, <1>3, <1>5, <1>6, <1>7 DEF IInv

\* sleep() releases pi->lock.
LEMMA SleepStep ==
  ASSUME IInv, NEW p \in Proc, sleep(p)
  PROVE  IInv'
<1>1. TypeOK'
  BY Consts DEF IInv, TypeOK, Ends, sleep
<1>2. LockInv'
  BY Nones DEF IInv, TypeOK, LockInv, Inside, sleep
<1>3. FileInv'
  BY DEF IInv, TypeOK, FileInv, Reading, Writing, sleep
<1>4. Empty' = Empty /\ Full' = Full
  BY DEF Empty, Full, sleep
<1>5. ReadersInv'
  BY <1>4, Nones DEF IInv, TypeOK, LockInv, ReadersInv, Inside, sleep
<1>6. WritersInv'
  BY <1>4, Nones DEF IInv, TypeOK, LockInv, WritersInv, Inside, sleep
<1>7. RingInv'
  BY DEF IInv, RingInv, Count, sleep
<1> QED
  BY <1>1, <1>2, <1>3, <1>5, <1>6, <1>7 DEF IInv

\* piperead() returns and wakes the writers.
LEMMA ReadEndStep ==
  ASSUME IInv, NEW p \in Proc, read_end(p)
  PROVE  IInv'
<1>1. TypeOK'
  BY Consts DEF IInv, TypeOK, Ends, read_end, Return, Woken
<1>2. LockInv'
  BY Nones DEF IInv, TypeOK, LockInv, Inside, read_end, Return, Woken
<1>3. FileInv'
  BY DEF IInv, TypeOK, FileInv, Reading, Writing, read_end, Return, Woken
<1>4. Empty' = Empty /\ Full' = Full
  BY DEF Empty, Full, read_end, Return, Woken
<1>5. ReadersInv'
  BY <1>4, Nones DEF IInv, TypeOK, LockInv, ReadersInv, Inside, read_end, Return, Woken
<1>6. WritersInv'
  BY <1>4, Nones DEF IInv, TypeOK, LockInv, WritersInv, Inside, read_end, Return, Woken
<1>7. RingInv'
  BY DEF IInv, RingInv, Count, read_end, Return, Woken
<1> QED
  BY <1>1, <1>2, <1>3, <1>5, <1>6, <1>7 DEF IInv

\* fork() shares the descriptors.
LEMMA ForkStep ==
  ASSUME IInv, NEW p \in Proc, NEW q \in Proc, fork(p, q)
  PROVE  IInv'
<1>1. TypeOK'
  BY Consts DEF IInv, TypeOK, Ends, fork
<1>2. LockInv'
  BY Nones DEF IInv, TypeOK, LockInv, Inside, fork
<1>3. FileInv'
  BY DEF IInv, TypeOK, FileInv, Reading, Writing, fork
<1>4. Empty' = Empty /\ Full' = Full
  BY DEF Empty, Full, fork
<1>5. ReadersInv'
  BY <1>4, Nones DEF IInv, TypeOK, LockInv, ReadersInv, Inside, fork
<1>6. WritersInv'
  BY <1>4, Nones DEF IInv, TypeOK, LockInv, WritersInv, Inside, fork
<1>7. RingInv'
  BY DEF IInv, RingInv, Count, fork
<1> QED
  BY <1>1, <1>2, <1>3, <1>5, <1>6, <1>7 DEF IInv

\* fileclose() drops a descriptor.
LEMMA FilecloseStep ==
  ASSUME IInv, NEW p \in Proc, NEW e \in Ends, fileclose(p, e)
  PROVE  IInv'
<1>1. TypeOK'
  BY Consts DEF IInv, TypeOK, Ends, fileclose, LastRef
<1>2. LockInv'
  BY Nones DEF IInv, TypeOK, LockInv, Inside, fileclose, LastRef
<1>3. FileInv'
  BY DEF IInv, TypeOK, FileInv, Reading, Writing, fileclose, LastRef
<1>4. Empty' = Empty /\ Full' = Full
  BY DEF Empty, Full, fileclose, LastRef
<1>5. ReadersInv'
  BY <1>4, Nones DEF IInv, TypeOK, LockInv, ReadersInv, Inside, fileclose, LastRef
<1>6. WritersInv'
  BY <1>4, Nones DEF IInv, TypeOK, LockInv, WritersInv, Inside, fileclose, LastRef
<1>7. RingInv'
  BY DEF IInv, RingInv, Count, fileclose, LastRef
<1> QED
  BY <1>1, <1>2, <1>3, <1>5, <1>6, <1>7 DEF IInv

\* pipeclose() shuts an end and wakes the other side.
LEMMA PipecloseStep ==
  ASSUME IInv, NEW e \in Ends, pipeclose(e)
  PROVE  IInv'
<1>1. TypeOK'
  <2>1. pc' \in [Proc -> Place]
    BY WokenType, Nones DEF pipeclose, IInv, Place
  <2>2. freed' \in 0..1
    BY DEF pipeclose, IInv, TypeOK, FileInv, Ends
  <2> QED
    BY <2>1, <2>2 DEF IInv, TypeOK, Place, pipeclose
<1>2. LockInv'
  BY Nones DEF IInv, TypeOK, LockInv, Inside, pipeclose, Woken, Sleepers, Ends
<1>3. FileInv'
  BY DEF IInv, TypeOK, FileInv, Reading, Writing, pipeclose, Woken, Sleepers, Ends
<1>4. Empty' = Empty /\ Full' = Full
  BY DEF Empty, Full, pipeclose, Woken, Sleepers, Ends
<1>5. ReadersInv'
  BY <1>4, Nones DEF IInv, TypeOK, LockInv, ReadersInv, Inside, pipeclose, Woken, Sleepers, Ends
<1>6. WritersInv'
  BY <1>4, Nones DEF IInv, TypeOK, LockInv, WritersInv, Inside, pipeclose, Woken, Sleepers, Ends
<1>7. RingInv'
  BY DEF IInv, RingInv, Count, pipeclose, Woken, Sleepers, Ends
<1> QED
  BY <1>1, <1>2, <1>3, <1>5, <1>6, <1>7 DEF IInv

\* kill() ends a sleep.
LEMMA KillStep ==
  ASSUME IInv, NEW p \in Proc, kill(p)
  PROVE  IInv'
<1>1. TypeOK'
  BY Consts DEF IInv, TypeOK, Ends, kill
<1>2. LockInv'
  BY Nones DEF IInv, TypeOK, LockInv, Inside, kill
<1>3. FileInv'
  BY DEF IInv, TypeOK, FileInv, Reading, Writing, kill
<1>4. Empty' = Empty /\ Full' = Full
  BY DEF Empty, Full, kill
<1>5. ReadersInv'
  BY <1>4, Nones DEF IInv, TypeOK, LockInv, ReadersInv, Inside, kill
<1>6. WritersInv'
  BY <1>4, Nones DEF IInv, TypeOK, LockInv, WritersInv, Inside, kill
<1>7. RingInv'
  BY DEF IInv, RingInv, Count, kill
<1> QED
  BY <1>1, <1>2, <1>3, <1>5, <1>6, <1>7 DEF IInv

\* The remainder is the one of division.
LEMMA ModIs ==
  ASSUME NEW d \in Nat \ {0}, NEW q \in Int, NEW x \in 0..d - 1
  PROVE  (d * q + x) % d = x
<1>1. PICK a \in Int : a = d * q + x
  OBVIOUS
<1>2. a % d = x
  BY <1>1
<1> QED
  BY <1>1, <1>2

\* Every number has a quotient and a remainder.
LEMMA DivMod ==
  ASSUME NEW d \in Nat \ {0}, NEW a \in Nat
  PROVE  \E q \in Nat, x \in 0..d - 1 : a = d * q + x /\ a % d = x
<1>1. a \div d \in Int /\ a % d \in 0..d - 1
  OBVIOUS
<1>2. a = d * (a \div d) + (a % d)
  OBVIOUS
<1>3. PICK q \in Int, x \in 0..d - 1 : a = d * q + x /\ a % d = x
  BY Zenon, <1>1, <1>2
<1>4. q \in Nat
  BY <1>3
<1> QED
  BY Zenon, <1>3, <1>4

\* Going round the ring ends at the same slot ...
LEMMA ModShift ==
  ASSUME NEW d \in Nat \ {0}, NEW a \in Nat, NEW c \in Nat
  PROVE  (a + c * d) % d = a % d
<1>1. PICK q \in Nat, x \in 0..d - 1 : a = d * q + x /\ a % d = x
  BY DivMod
<1>2. d * (q + c) = d * q + c * d /\ q + c \in Int
  OBVIOUS
<1>3. PICK y \in Int, z \in Int : y = d * q /\ z = c * d
  OBVIOUS
<1>4. a + c * d = d * (q + c) + x
  BY <1>1, <1>2, <1>3
<1>5. (d * (q + c) + x) % d = x
  BY <1>2, ModIs
<1> QED
  BY <1>1, <1>4, <1>5

\* ... and less than a round at another.
LEMMA ModApart ==
  ASSUME NEW d \in Nat \ {0}, NEW a \in Nat, NEW b \in Nat, a < b, b < a + d
  PROVE  a % d # b % d
<1> SUFFICES ASSUME a % d = b % d
             PROVE  FALSE
  OBVIOUS
<1>1. PICK q \in Nat, x \in 0..d - 1 : a = d * q + x /\ a % d = x
  BY Zenon, DivMod
<1>2. PICK t \in Nat : b = d * t + x
  <2>1. PICK t \in Nat, y \in 0..d - 1 : b = d * t + y /\ b % d = y
    BY Zenon, DivMod
  <2> QED
    BY Zenon, <1>1, <2>1
<1>4. b - a = d * (t - q)
  BY <1>1, <1>2
<1>5. t - q >= 1
  <2> SUFFICES ASSUME t - q <= 0
               PROVE  FALSE
    OBVIOUS
  <2>1. d * (t - q) <= 0
    OBVIOUS
  <2> QED
    BY <1>4, <2>1
<1>6. d * (t - q) >= d
  BY <1>5
<1> QED
  BY <1>4, <1>6

\* The counters go round the ring a whole number of times before they wrap.
LEMMA Wraps == \E c \in Nat : UINT = c * PIPESIZE
BY PipeAssumption

\* The difference of two counters in ordinary arithmetic.
LEMMA Diff ==
  ASSUME NEW a \in 0..UINT - 1, NEW b \in 0..UINT - 1
  PROVE  (a - b) % UINT = IF a >= b THEN a - b ELSE a - b + UINT
<1>1. CASE a >= b
  BY <1>1, Consts
<1>2. CASE a < b
  BY <1>2, Consts
<1> QED
  BY <1>1, <1>2

\* A counter plus the capacity, as in the test for a full ring.
LEMMA Ahead ==
  ASSUME NEW a \in 0..UINT - 1
  PROVE  (a + PIPESIZE) % UINT = IF a + PIPESIZE < UINT THEN a + PIPESIZE ELSE a + PIPESIZE - UINT
<1>1. CASE a + PIPESIZE < UINT
  BY <1>1, Consts
<1>2. CASE a + PIPESIZE >= UINT
  BY <1>2, Consts
<1> QED
  BY <1>1, <1>2, Consts

\* The number of bytes in the ring.
LEMMA CountIs ==
  ASSUME TypeOK
  PROVE  Count = IF nwrite >= nread THEN nwrite - nread ELSE nwrite - nread + UINT
<1>1. nread \in 0..UINT - 1 /\ nwrite \in 0..UINT - 1
  BY DEF TypeOK
<1> QED
  BY <1>1, Diff DEF Count

\* The same after a step.
LEMMA CountIsNext ==
  ASSUME TypeOK'
  PROVE  Count' = IF nwrite' >= nread' THEN nwrite' - nread' ELSE nwrite' - nread' + UINT
<1>1. nread' \in 0..UINT - 1 /\ nwrite' \in 0..UINT - 1
  BY DEF TypeOK
<1> QED
  BY <1>1, Diff DEF Count

\* The code's ++.
LEMMA IncIs ==
  ASSUME NEW x \in 0..UINT - 1
  PROVE  Inc(x) = (IF x = UINT - 1 THEN 0 ELSE x + 1) /\ Inc(x) \in 0..UINT - 1
BY Consts DEF Inc

\* The tests of the code, in terms of the number of bytes.
LEMMA Tests ==
  ASSUME IInv
  PROVE  Count \in 0..PIPESIZE /\ (Full <=> Count = PIPESIZE) /\ (Empty <=> Count = 0)
<1>1. (nread + PIPESIZE) % UINT = IF nread + PIPESIZE < UINT THEN nread + PIPESIZE
                                  ELSE nread + PIPESIZE - UINT
  BY Ahead DEF IInv, TypeOK
<1>2. nread \in 0..UINT - 1 /\ nwrite \in 0..UINT - 1 /\ Count <= PIPESIZE
  BY DEF IInv, TypeOK, RingInv
<1>3. Count = IF nwrite >= nread THEN nwrite - nread ELSE nwrite - nread + UINT
  BY CountIs DEF IInv
<1> QED
  BY <1>1, <1>2, <1>3, Consts DEF Full, Empty

\* The number of bytes after a byte is written or read.
LEMMA CountSteps ==
  ASSUME IInv, TypeOK'
  PROVE  /\ ~Full /\ nwrite' = Inc(nwrite) /\ nread' = nread => Count' = Count + 1
         /\ ~Empty /\ nread' = Inc(nread) /\ nwrite' = nwrite => Count' = Count - 1
<1>1. nread \in 0..UINT - 1 /\ nwrite \in 0..UINT - 1
  BY DEF IInv, TypeOK
<1>2. TypeOK
  BY DEF IInv
<1> QED
  BY <1>1, <1>2, Consts, Tests, CountIs, CountIsNext, IncIs

\* pipewrite() copies a byte.
LEMMA WriteByteStep ==
  ASSUME IInv, NEW p \in Proc, NEW b \in Byte, write_byte(p, b)
  PROVE  IInv'
<1>0. /\ pc[p] = "write" /\ i[p] < n[p] /\ ~Full /\ nwrite' = Inc(nwrite) /\ lock = p
      /\ data' = [data EXCEPT ![nwrite % PIPESIZE] = b] /\ i' = [i EXCEPT ![p] = i[p] + 1]
      /\ UNCHANGED <<nread, readopen, writeopen, lock, filevars, pc, n, killed, stranded>>
  BY DEF write_byte, Room, IInv, LockInv, Inside
<1>1. TypeOK'
  <2>1. nwrite' \in 0..UINT - 1
    BY <1>0, IncIs DEF IInv, TypeOK
  <2>2. data' \in [0..PIPESIZE - 1 -> Byte]
    BY Zenon, <1>0 DEF IInv, TypeOK
  <2>3. i' \in [Proc -> 0..MAXN]
    BY <1>0, Consts DEF IInv, TypeOK
  <2> QED
    BY <1>0, <2>1, <2>2, <2>3 DEF IInv, TypeOK
<1>2. LockInv' /\ FileInv'
  BY <1>0 DEF IInv, LockInv, FileInv
<1>3. ReadersInv'
  <2>1. i'[p] > 0
    BY <1>0 DEF IInv, TypeOK
  <2> QED
    BY <1>0, <2>1 DEF IInv, LockInv, ReadersInv, Inside
<1>4. WritersInv'
  BY <1>0 DEF IInv, LockInv, WritersInv, Inside
<1>5. RingInv'
  BY <1>0, <1>1, CountSteps, Tests, Consts DEF RingInv
<1> QED
  BY <1>1, <1>2, <1>3, <1>4, <1>5 DEF IInv

\* piperead() copies a byte.
LEMMA ReadByteStep ==
  ASSUME IInv, NEW p \in Proc, read_byte(p)
  PROVE  IInv'
<1>0. /\ pc[p] = "read" /\ i[p] < n[p] /\ ~Empty /\ nread' = Inc(nread) /\ lock = p
      /\ \/ i' = [i EXCEPT ![p] = i[p] + 1] /\ pc' = pc
         \/ i' = i /\ pc' = [pc EXCEPT ![p] = "rend"]
      /\ UNCHANGED <<data, nwrite, readopen, writeopen, lock, filevars, n, killed, stranded>>
  BY DEF read_byte, IInv, LockInv, Inside
<1>1. TypeOK'
  <2>1. nread' \in 0..UINT - 1
    BY <1>0, IncIs DEF IInv, TypeOK
  <2>2. i' \in [Proc -> 0..MAXN]
    BY <1>0, Consts DEF IInv, TypeOK
  <2> QED
    BY Zenon, <1>0, <2>1, <2>2 DEF IInv, TypeOK
<1>2. LockInv' /\ FileInv'
  BY <1>0 DEF IInv, TypeOK, LockInv, FileInv, Inside, Reading, Writing
<1>3. ReadersInv'
  BY <1>0 DEF IInv, TypeOK, LockInv, ReadersInv, Inside
<1>4. WritersInv'
  BY <1>0 DEF IInv, TypeOK, LockInv, WritersInv, Inside
<1>5. RingInv'
  BY <1>0, <1>1, CountSteps, Tests, Consts DEF RingInv
<1> QED
  BY <1>1, <1>2, <1>3, <1>4, <1>5 DEF IInv

\* A freshly made pipe.
LEMMA InitStep == ASSUME Init PROVE IInv
<1>1. TypeOK
  <2>1. data \in [0..PIPESIZE - 1 -> Byte]
    BY DEF Init
  <2>2. 0 \in 0..UINT - 1 /\ 0 \in 0..MAXN
    BY Consts
  <2>3. n \in [Proc -> 0..MAXN] /\ i \in [Proc -> 0..MAXN] /\ nread \in 0..UINT - 1 /\ nwrite \in 0..UINT - 1
    BY <2>2 DEF Init
  <2>4. /\ readopen \in BOOLEAN /\ writeopen \in BOOLEAN /\ stranded \in BOOLEAN
        /\ killed \in [Proc -> BOOLEAN]
    BY Zenon DEF Init
  <2>6. lock \in Proc \cup {None} /\ freed \in 0..1
    BY DEF Init
  <2>5. fd \in [Proc -> SUBSET Ends] /\ closing \subseteq Ends /\ pc \in [Proc -> Place]
    BY DEF Init, Place
  <2> QED
    BY Zenon, <2>1, <2>3, <2>4, <2>5, <2>6 DEF TypeOK, Place
<1>2. Count = 0
  BY <1>1, CountIs, Consts DEF Init
<1>3. RingInv
  BY <1>2, Consts DEF RingInv
<1>4. LockInv
  BY Nones DEF Init, LockInv, Inside
<1>5. FileInv
  BY DEF Init, FileInv, Reading, Writing
<1>6. ReadersInv /\ WritersInv
  BY DEF Init, ReadersInv, WritersInv
<1> QED
  BY <1>1, <1>3, <1>4, <1>5, <1>6 DEF IInv

\* The invariant is inductive.
THEOREM Invariant == Spec => []IInv
<1>1. IInv /\ [Next]_vars => IInv'
  <2> SUFFICES ASSUME IInv, [Next]_vars
               PROVE  IInv'
    BY Zenon
  <2>1. ASSUME NEW p \in Proc, Step(p)
        PROVE  IInv'
    <3>1. ASSUME NEW b \in Byte, write_byte(p, b)
          PROVE  IInv'
      BY Zenon, <3>1, WriteByteStep
    <3> QED
      BY Zenon, <2>1, <3>1, AcquireStep, SleepStep, WriteAbortStep, WriteFullStep, WriteEndStep,
         ReadTestStep, ReadByteStep, ReadEndStep DEF Step
  <2>2. ASSUME NEW p \in Proc, NEW e \in Ends, NEW k \in 1..MAXN, call(p, e, k)
        PROVE  IInv'
    BY Zenon, <2>2, CallStep
  <2>3. ASSUME NEW p \in Proc, NEW e \in Ends, fileclose(p, e)
        PROVE  IInv'
    BY Zenon, <2>3, FilecloseStep
  <2>4. ASSUME NEW p \in Proc, NEW q \in Proc, fork(p, q)
        PROVE  IInv'
    BY Zenon, <2>4, ForkStep
  <2>5. ASSUME NEW p \in Proc, kill(p)
        PROVE  IInv'
    BY Zenon, <2>5, KillStep
  <2>6. ASSUME NEW e \in Ends, pipeclose(e)
        PROVE  IInv'
    BY Zenon, <2>6, PipecloseStep
  <2>7. CASE UNCHANGED vars
    <3>1. UNCHANGED <<data, nread, nwrite, readopen, writeopen, lock, freed, fd, closing, pc, n, i,
                      killed, stranded>>
      BY <2>7 DEF vars
    <3> QED
      BY <3>1 DEF IInv, TypeOK, LockInv, FileInv, ReadersInv, WritersInv, RingInv, Count, Empty, Full
  <2> QED
    BY Zenon, <2>1, <2>2, <2>3, <2>4, <2>5, <2>6, <2>7 DEF Next
<1> QED
  BY InitStep, <1>1, PTL DEF Spec

\* kfree() comes once, when nobody can use the pipe any more.
THEOREM FreedLast == Spec => []NoUseAfterFree
<1>1. IInv => NoUseAfterFree
  <2>0. IInv => freed <= 1
    BY DEF IInv, FileInv
  <2> SUFFICES ASSUME IInv, freed > 0, NEW p \in Proc
               PROVE  fd[p] = {} /\ pc[p] = "user"
    BY <2>0 DEF NoUseAfterFree
  <2>1. ~readopen /\ ~writeopen
    BY DEF IInv, FileInv
  <2>2. fd[p] = {}
    BY Zenon, <2>1 DEF IInv, TypeOK, FileInv, Ends
  <2> QED
    BY <2>2 DEF IInv, TypeOK, FileInv, Reading, Writing
<1> QED
  BY <1>1, Invariant, PTL

\* While the lock is free nobody sleeps beside what it waits for, but for
\* the bytes of a killed writer.
THEOREM WakeupsKept == Spec => []NoLostWakeup
<1>1. IInv => NoLostWakeup
  BY Nones DEF IInv, LockInv, Inside, ReadersInv, WritersInv, NoLostWakeup
<1> QED
  BY <1>1, Invariant, PTL

\* A sequence with one more element is an Append.
LEMMA AppendIs ==
  ASSUME NEW m \in Nat, NEW b \in Byte, NEW s \in [1..m -> Byte], NEW t \in [1..m + 1 -> Byte],
         t[m + 1] = b, \A k \in 1..m : t[k] = s[k]
  PROVE  Len(s) = m /\ t = Append(s, b)
<1>1. s \in Seq(Byte) /\ Len(s) = m
  OBVIOUS
<1>2. /\ Append(s, b) \in Seq(Byte) /\ Len(Append(s, b)) = m + 1
      /\ \A k \in 1..m : Append(s, b)[k] = s[k]
      /\ Append(s, b)[m + 1] = b
  BY <1>1
<1>3. t \in Seq(Byte) /\ Len(t) = m + 1
  OBVIOUS
<1>4. \A k \in 1..m + 1 : t[k] = Append(s, b)[k]
  BY <1>2
<1> QED
  BY <1>1, <1>2, <1>3, <1>4

\* The rest of a sequence, likewise.
LEMMA TailIs ==
  ASSUME NEW m \in Nat \ {0}, NEW s \in [1..m -> Byte], NEW t \in [1..m - 1 -> Byte],
         \A k \in 1..m - 1 : t[k] = s[k + 1]
  PROVE  s # <<>> /\ t = Tail(s)
<1>1. s \in Seq(Byte) /\ Len(s) = m
  OBVIOUS
<1>2. s # <<>>
  BY <1>1
<1>3. /\ Tail(s) \in Seq(Byte) /\ Len(Tail(s)) = m - 1
      /\ \A k \in 1..m - 1 : Tail(s)[k] = s[k + 1]
  BY <1>1, <1>2
<1>4. t \in Seq(Byte) /\ Len(t) = m - 1
  OBVIOUS
<1> QED
  BY <1>2, <1>3, <1>4

\* The contents of the ring as a sequence.
LEMMA RingType ==
  ASSUME NEW d \in [0..PIPESIZE - 1 -> Byte], NEW x \in Nat, NEW m \in Nat
  PROVE  [k \in 1..m |-> d[(x + k - 1) % PIPESIZE]] \in [1..m -> Byte]
<1> SUFFICES ASSUME NEW k \in 1..m
             PROVE  d[(x + k - 1) % PIPESIZE] \in Byte
  BY Zenon
<1>1. x + k - 1 \in Nat
  OBVIOUS
<1>2. (x + k - 1) % PIPESIZE \in 0..PIPESIZE - 1
  BY <1>1, Consts, DivMod
<1> QED
  BY <1>2

\* The queue is a sequence of Count bytes ...
LEMMA QueueType ==
  ASSUME IInv
  PROVE  Count \in Nat /\ Queue \in [1..Count -> Byte]
<1>1. Count \in Nat /\ nread \in Nat /\ data \in [0..PIPESIZE - 1 -> Byte]
  BY Tests DEF IInv, TypeOK
<1> QED
  BY Zenon, <1>1, RingType DEF Queue

\* ... also after a step.
LEMMA QueueTypeNext ==
  ASSUME IInv'
  PROVE  Count' \in Nat /\ Queue' \in [1..Count' -> Byte]
<1>1. TypeOK'
  BY DEF IInv
<1>2. nread' \in 0..UINT - 1 /\ nwrite' \in 0..UINT - 1 /\ data' \in [0..PIPESIZE - 1 -> Byte]
  BY <1>1 DEF TypeOK
<1>3. Count' \in Nat /\ nread' \in Nat
  BY <1>1, <1>2, CountIsNext, Consts
<1> QED
  BY Zenon, <1>2, <1>3, RingType DEF Queue

\* A written byte goes behind the others, into a slot that none of them has.
LEMMA WriteByteQueue ==
  ASSUME IInv, IInv', NEW p \in Proc, NEW b \in Byte, write_byte(p, b)
  PROVE  Len(Queue) < PIPESIZE /\ Queue' = Append(Queue, b)
<1>0. /\ ~Full /\ nwrite' = Inc(nwrite) /\ nread' = nread
      /\ data' = [data EXCEPT ![nwrite % PIPESIZE] = b]
  BY DEF write_byte, Room
<1>1. Count' = Count + 1 /\ Count \in Nat /\ Count < PIPESIZE
  BY <1>0, CountSteps, Tests, Consts DEF IInv
<1>2. nread \in Nat /\ nwrite \in Nat
  BY DEF IInv, TypeOK
<1>3. nwrite % PIPESIZE = (nread + Count) % PIPESIZE /\ nwrite % PIPESIZE \in 0..PIPESIZE - 1
  <2>1. PICK c \in Nat : UINT = c * PIPESIZE
    BY Wraps
  <2>2. (nwrite + c * PIPESIZE) % PIPESIZE = nwrite % PIPESIZE
    BY Zenon, <1>2, Consts, ModShift
  <2>3. nread + Count = nwrite \/ nread + Count = nwrite + c * PIPESIZE
    <3>1. Count = IF nwrite >= nread THEN nwrite - nread ELSE nwrite - nread + UINT
      BY CountIs DEF IInv
    <3> QED
      BY <1>2, <2>1, <3>1, Consts
  <2>4. nwrite % PIPESIZE \in 0..PIPESIZE - 1
    BY <1>2, Consts, DivMod
  <2> QED
    BY <2>2, <2>3, <2>4
<1>4. \A k \in 1..Count : Queue'[k] = Queue[k]
  <2> SUFFICES ASSUME NEW k \in 1..Count
               PROVE  Queue'[k] = Queue[k]
    OBVIOUS
  <2>1. nread + k - 1 \in Nat /\ nread + Count \in Nat
    BY <1>1, <1>2
  <2>2. (nread + k - 1) % PIPESIZE # (nread + Count) % PIPESIZE
    <3>1. nread + k - 1 < nread + Count /\ nread + Count < nread + k - 1 + PIPESIZE
      BY <1>1, <1>2, Consts
    <3> QED
      BY <2>1, <3>1, Consts, ModApart
  <2>3. (nread + k - 1) % PIPESIZE \in 0..PIPESIZE - 1
    BY <2>1, Consts, DivMod
  <2>4. data'[(nread + k - 1) % PIPESIZE] = data[(nread + k - 1) % PIPESIZE]
    BY <1>0, <1>3, <2>2, <2>3 DEF IInv, TypeOK
  <2>5. k \in 1..Count'
    BY <1>1
  <2> QED
    BY <1>0, <2>4, <2>5 DEF Queue
<1>5. Queue'[Count + 1] = b
  <2>1. Count + 1 \in 1..Count'
    BY <1>1
  <2>2. Queue'[Count + 1] = data'[(nread' + (Count + 1) - 1) % PIPESIZE]
    BY <2>1 DEF Queue
  <2>3. nread' + (Count + 1) - 1 = nread + Count
    BY <1>0, <1>1, <1>2
  <2>4. data'[nwrite % PIPESIZE] = b
    BY <1>0, <1>3 DEF IInv, TypeOK
  <2> QED
    BY <1>3, <2>2, <2>3, <2>4
<1>6. Queue \in [1..Count -> Byte] /\ Queue' \in [1..Count + 1 -> Byte]
  BY <1>1, QueueType, QueueTypeNext
<1> HIDE DEF Queue, Count
<1> QED
  BY <1>1, <1>4, <1>5, <1>6, AppendIs

\* A read takes the first byte, and the others move up.
LEMMA ReadByteQueue ==
  ASSUME IInv, IInv', NEW p \in Proc, read_byte(p)
  PROVE  Queue # <<>> /\ Queue' = Tail(Queue)
<1>0. ~Empty /\ nread' = Inc(nread) /\ UNCHANGED <<nwrite, data>>
  BY DEF read_byte
<1>1. Count' = Count - 1 /\ Count \in Nat \ {0}
  BY <1>0, CountSteps, Tests, Consts DEF IInv
<1>2. nread \in 0..UINT - 1
  BY DEF IInv, TypeOK
<1>3. \A k \in 1..Count - 1 : Queue'[k] = Queue[k + 1]
  <2> SUFFICES ASSUME NEW k \in 1..Count - 1
               PROVE  Queue'[k] = Queue[k + 1]
    OBVIOUS
  <2>1. (nread' + k - 1) % PIPESIZE = (nread + k) % PIPESIZE
    <3>1. CASE nread # UINT - 1
      <4>1. nread' + k - 1 = nread + k
        BY <1>0, <1>1, <1>2, <3>1, IncIs
      <4> QED
        BY <4>1
    <3>2. CASE nread = UINT - 1
      <4>1. PICK c \in Nat : UINT = c * PIPESIZE
        BY Wraps
      <4>2. k - 1 \in Nat
        BY <1>1
      <4>3. (k - 1 + c * PIPESIZE) % PIPESIZE = (k - 1) % PIPESIZE
        BY Zenon, <4>2, Consts, ModShift
      <4>4. nread' + k - 1 = k - 1 /\ nread + k = k - 1 + c * PIPESIZE
        BY <1>0, <1>1, <1>2, <3>2, <4>1, IncIs, Consts
      <4> QED
        BY <4>3, <4>4
    <3> QED
      BY <3>1, <3>2
  <2>2. k \in 1..Count' /\ k + 1 \in 1..Count
    BY <1>1
  <2>3. Queue'[k] = data[(nread' + k - 1) % PIPESIZE]
    BY <1>0, <2>2 DEF Queue
  <2>4. Queue[k + 1] = data[(nread + (k + 1) - 1) % PIPESIZE] /\ nread + (k + 1) - 1 = nread + k
    BY <1>1, <1>2, <2>2 DEF Queue
  <2> QED
    BY <2>1, <2>3, <2>4
<1>4. Queue \in [1..Count -> Byte] /\ Queue' \in [1..Count - 1 -> Byte]
  BY <1>1, QueueType, QueueTypeNext
<1> HIDE DEF Queue, Count
<1> QED
  BY <1>1, <1>3, <1>4, TailIs

\* The pipe implements a bounded queue of bytes, with wrapping counters and a
\* ring for any number of readers and writers.
THEOREM Refinement == Spec => Refines
<1>1. Init => PQ!Init
  <2> SUFFICES ASSUME Init
               PROVE  Queue = <<>>
    BY DEF PQ!Init
  <2>1. Count = 0
    <3>1. IInv /\ Empty
      BY Zenon, InitStep DEF Init, Empty
    <3> QED
      BY <3>1, Tests
  <2> QED
    BY <2>1 DEF Queue
<1>2. IInv /\ IInv' /\ [Next]_vars => [PQ!Next]_Queue
  <2> SUFFICES ASSUME IInv, IInv', [Next]_vars
               PROVE  PQ!Next \/ Queue' = Queue
    BY Zenon
  <2>1. ASSUME NEW p \in Proc, NEW b \in Byte, write_byte(p, b)
        PROVE  PQ!Next
    BY <2>1, WriteByteQueue DEF PQ!Next, PQ!Put
  <2>2. ASSUME NEW p \in Proc, read_byte(p)
        PROVE  PQ!Next
    BY <2>2, ReadByteQueue DEF PQ!Next, PQ!Get
  <2>3. ASSUME UNCHANGED <<data, nread, nwrite>>
        PROVE  Queue' = Queue
    BY <2>3 DEF Queue, Count
  <2>4. ASSUME NEW p \in Proc, acquire(p) \/ sleep(p) \/ write_abort(p) \/ write_full(p)
                               \/ write_end(p) \/ read_test(p) \/ read_end(p) \/ kill(p)
        PROVE  Queue' = Queue
    <3>1. UNCHANGED <<data, nread, nwrite>>
      BY <2>4 DEF acquire, sleep, write_abort, write_full, write_end, read_test, read_end, kill
    <3> QED
      BY <2>3, <3>1
  <2>5. ASSUME NEW p \in Proc, NEW e \in Ends, fileclose(p, e) \/ \E k \in 1..MAXN : call(p, e, k)
        PROVE  Queue' = Queue
    <3>1. UNCHANGED <<data, nread, nwrite>>
      BY <2>5 DEF fileclose, call
    <3> QED
      BY <2>3, <3>1
  <2>6. ASSUME NEW p \in Proc, NEW q \in Proc, fork(p, q)
        PROVE  Queue' = Queue
    BY <2>3, <2>6 DEF fork
  <2>7. ASSUME NEW e \in Ends, pipeclose(e)
        PROVE  Queue' = Queue
    BY <2>3, <2>7 DEF pipeclose
  <2>8. CASE UNCHANGED vars
    BY <2>3, <2>8 DEF vars
  <2> QED
    BY Zenon, <2>1, <2>2, <2>4, <2>5, <2>6, <2>7, <2>8 DEF Next, Step
<1> QED
  BY <1>1, <1>2, Invariant, PTL DEF Spec, Refines, PQ!Spec
=============================================================================
