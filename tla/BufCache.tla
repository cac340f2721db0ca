------------------------------ MODULE BufCache ------------------------------
(***************************************************************************)
(* The buffer cache of kernel/bio.c under processes that use blocks the    *)
(* way fs.c and log.c do: bread(), changes to b->data followed by          *)
(* log_write() or bwrite(), install_trans()'s bwrite() and bunpin(),       *)
(* brelse().  Code that has two buffers at once (bmap() and balloc(),      *)
(* write_log(), install_trans()) is two members of Proc.                   *)
(*                                                                         *)
(* Each section under bcache.lock is one action.  A disk transfer is one   *)
(* action (VirtioDisk shows why it may be).                                *)
(***************************************************************************)
EXTENDS Integers, FiniteSets, FiniteSetsExt, Functions

CONSTANTS Proc,    \* processes
          Block,   \* block numbers
          Val,     \* block contents
          None,    \* no block, buffer or process
          Buf,     \* the buffers bcache.buf[0..NBUF-1]
          MAXPIN   \* most blocks that are pinned at once (LOGSIZE in log.c)

ASSUME CacheAssumption ==
  /\ IsFiniteSet(Proc) /\ IsFiniteSet(Buf)
  /\ MAXPIN \in Nat
  /\ None \notin Block \cup Buf \cup Proc

VARIABLES
  blockno, valid, refcnt, data,  \* fields of struct buf
  lock,     \* b->lock: its holder
  order,    \* the list bcache.head, most recently used first
  pinned,   \* the buffers of the blocks in the log
  disk,     \* the blocks on the disk
  pc, want, \* where a process is and the block it asked for
  buf       \* the buffer bget() gave it

bufvars == <<blockno, valid, refcnt, data, lock, order>>
vars == <<bufvars, pinned, disk, pc, want, buf>>

\* binit(): the list holds every buffer, in an order that does not matter.
Init == /\ blockno = [b \in Buf |-> None]
        /\ valid = [b \in Buf |-> FALSE]
        /\ refcnt = [b \in Buf |-> 0]
        /\ \E v \in Val : data = [b \in Buf |-> v]
        /\ lock = [b \in Buf |-> None]
        /\ order \in Bijection(1..Cardinality(Buf), Buf)
        /\ pinned = {}
        /\ disk \in [Block -> Val]
        /\ pc = [p \in Proc |-> "user"]
        /\ want = [p \in Proc |-> None]
        /\ buf = [p \in Proc |-> None]

Goto(p, l) == pc' = [pc EXCEPT ![p] = l]

Cached(k) == {b \in Buf : blockno[b] = k}

\* Mutation: the least recently used buffer, in use or not.
Recyclable_Any(b) == TRUE
Recyclable(b) == refcnt[b] = 0

\* The scan of the list from its old end.
Oldest == order[Max({i \in DOMAIN order : Recyclable(order[i])})]

\* When every buffer is in use bget() panics and the machine stops.
bget(p, k) ==
  /\ pc[p] = "user"
  /\ \/ \E b \in Cached(k) :
          /\ refcnt' = [refcnt EXCEPT ![b] = @ + 1]
          /\ buf' = [buf EXCEPT ![p] = b]
          /\ UNCHANGED <<blockno, valid>>
     \/ /\ Cached(k) = {}
        /\ \E b \in Buf : Recyclable(b)
        /\ LET b == Oldest
           IN /\ blockno' = [blockno EXCEPT ![b] = k]
              /\ valid' = [valid EXCEPT ![b] = FALSE]
              /\ refcnt' = [refcnt EXCEPT ![b] = 1]
              /\ buf' = [buf EXCEPT ![p] = b]
  /\ want' = [want EXCEPT ![p] = k]
  /\ Goto(p, "lock")
  /\ UNCHANGED <<data, lock, order, pinned, disk>>

\* bget()'s acquiresleep(&b->lock)
acquiresleep(p) ==
  /\ pc[p] = "lock"
  /\ lock[buf[p]] = None
  /\ lock' = [lock EXCEPT ![buf[p]] = p]
  /\ Goto(p, "bread")
  /\ UNCHANGED <<blockno, valid, refcnt, data, order, pinned, disk, want, buf>>

\* Mutation: valid is set before the buffer was ever read.
bread_NoRead(p) ==
  /\ pc[p] = "bread"
  /\ valid' = [valid EXCEPT ![buf[p]] = TRUE]
  /\ Goto(p, "have")
  /\ UNCHANGED <<blockno, refcnt, data, lock, order, pinned, disk, want, buf>>

bread(p) ==
  /\ pc[p] = "bread"
  /\ data' = IF valid[buf[p]] THEN data
             ELSE [data EXCEPT ![buf[p]] = disk[blockno[buf[p]]]]
  /\ valid' = [valid EXCEPT ![buf[p]] = TRUE]
  /\ Goto(p, "have")
  /\ UNCHANGED <<blockno, refcnt, lock, order, pinned, disk, want, buf>>

\* fs.c changes the contents and owes a log_write() or bwrite().
modify(p, v) ==
  /\ pc[p] \in {"have", "dirty"}
  /\ data' = [data EXCEPT ![buf[p]] = v]
  /\ Goto(p, "dirty")
  /\ UNCHANGED <<blockno, valid, refcnt, lock, order, pinned, disk, want, buf>>

Pins(b) == b \notin pinned

\* log_write(): bpin() unless the block is in the log already.  begin_op()
\* has made sure of the room.
log_write(p) ==
  /\ pc[p] = "dirty"
  /\ buf[p] \in pinned \/ Cardinality(pinned) < MAXPIN
  /\ refcnt' = IF Pins(buf[p]) THEN [refcnt EXCEPT ![buf[p]] = @ + 1] ELSE refcnt
  /\ pinned' = pinned \cup {buf[p]}
  /\ Goto(p, "have")
  /\ UNCHANGED <<blockno, valid, data, lock, order, disk, want, buf>>

bwrite(p) ==
  /\ pc[p] \in {"have", "dirty"}
  /\ disk' = [disk EXCEPT ![blockno[buf[p]]] = data[buf[p]]]
  /\ Goto(p, "written")
  /\ UNCHANGED <<bufvars, pinned, want, buf>>

\* install_trans() has written the block home.
bunpin(p) ==
  /\ pc[p] = "written"
  /\ buf[p] \in pinned
  /\ refcnt' = [refcnt EXCEPT ![buf[p]] = @ - 1]
  /\ pinned' = pinned \ {buf[p]}
  /\ Goto(p, "have")
  /\ UNCHANGED <<blockno, valid, data, lock, order, disk, want, buf>>

\* brelse(): first releasesleep(&b->lock) ...
brelse(p) ==
  /\ pc[p] \in {"have", "written"}
  /\ lock' = [lock EXCEPT ![buf[p]] = None]
  /\ Goto(p, "brelse")
  /\ UNCHANGED <<blockno, valid, refcnt, data, order, pinned, disk, want, buf>>

\* b moves to the front of the list, those before it back by one.
MoveToHead(b) ==
  LET at == CHOOSE i \in DOMAIN order : order[i] = b
  IN [i \in DOMAIN order |-> IF i = 1 THEN b ELSE IF i <= at THEN order[i - 1] ELSE order[i]]

Drop(b) == refcnt[b] - 1

\* ... then the reference, under bcache.lock.
brelse_unref(p) ==
  /\ pc[p] = "brelse"
  /\ LET b == buf[p]
     IN /\ refcnt' = [refcnt EXCEPT ![b] = Drop(b)]
        /\ order' = IF Drop(b) = 0 THEN MoveToHead(b) ELSE order
  /\ buf' = [buf EXCEPT ![p] = None]
  /\ want' = [want EXCEPT ![p] = None]
  /\ Goto(p, "user")
  /\ UNCHANGED <<blockno, valid, data, lock, pinned, disk>>

Next == \E p \in Proc : \/ \E k \in Block : bget(p, k)
                        \/ acquiresleep(p) \/ bread(p)
                        \/ \E v \in Val : modify(p, v)
                        \/ log_write(p) \/ bwrite(p) \/ bunpin(p)
                        \/ brelse(p) \/ brelse_unref(p)

Spec == Init /\ [][Next]_vars
-----------------------------------------------------------------------------
(* Properties.                                                             *)

\* The types of the buffers and the processes' locals; the list holds every
\* buffer once.
TypeOK == /\ blockno \in [Buf -> Block \cup {None}]
          /\ valid \in [Buf -> BOOLEAN]
          /\ refcnt \in [Buf -> Nat]
          /\ data \in [Buf -> Val]
          /\ lock \in [Buf -> Proc \cup {None}]
          /\ order \in Surjection(1..Cardinality(Buf), Buf)
          /\ pinned \subseteq Buf
          /\ disk \in [Block -> Val]
          /\ pc \in [Proc -> {"user", "lock", "bread", "have", "dirty", "written", "brelse"}]
          /\ want \in [Proc -> Block \cup {None}]
          /\ buf \in [Proc -> Buf \cup {None}]

\* b->refcnt counts the processes between bget() and the end of brelse(), and
\* one for a block in the log: a buffer is neither recycled in use nor lost
\* to the cache.
RefCount ==
  \A b \in Buf :
    refcnt[b] = Cardinality({p \in Proc : buf[p] = b}) + (IF b \in pinned THEN 1 ELSE 0)

\* A process between bget() and brelse() has the buffer of the block it asked
\* for, and no other buffer claims that block, even if it slept for the lock.
RightBuffer ==
  \A p \in Proc : buf[p] # None => Cached(want[p]) = {buf[p]}

\* The facts together, with the types: bget() gives each process the one
\* buffer of its block and recycles none that is in use.
CacheConsistent == TypeOK /\ RefCount /\ RightBuffer

\* The contents of a block: its buffer's if valid, else the disk's.
View(k) == IF \E b \in Cached(k) : valid[b]
           THEN data[CHOOSE b \in Cached(k) : valid[b]]
           ELSE disk[k]
User(k) == IF \E p \in Proc : pc[p] \in {"have", "dirty", "written"} /\ want[p] = k
           THEN CHOOSE p \in Proc : pc[p] \in {"have", "dirty", "written"} /\ want[p] = k
           ELSE None

BS == INSTANCE BlockStore WITH mem <- [k \in Block |-> View(k)],
                               user <- [k \in Block |-> User(k)]

\* The cache implements one register per block: recycling, re-reading and
\* writing back never change what a block's next user finds, and users of a
\* block exclude each other.  This is what Log takes the cache to be.
Refines == BS!Spec
=============================================================================
