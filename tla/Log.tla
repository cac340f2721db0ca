-------------------------------- MODULE Log --------------------------------
(***************************************************************************)
(* The redo log of kernel/log.c over the buffer cache of kernel/bio.c and  *)
(* a disk that survives crashes.                                           *)
(*                                                                         *)
(* A critical section under log.lock or bcache.lock is one action, and so  *)
(* is one disk write: the machine may crash between any two of them.       *)
(* begin_op() and end_op() are called by concurrent system calls; commit() *)
(* runs in the process whose end_op() was the last; recover_from_log()     *)
(* runs in the first process before any other exists (proc.c:531).         *)
(*                                                                         *)
(* Buffers of the log area are written through in the step that changes    *)
(* them, so only home blocks need a cached copy that may differ from disk. *)
(***************************************************************************)
EXTENDS Integers, Sequences, FiniteSets

CONSTANTS Proc,         \* processes
          InitProc,     \* the first process, which runs fsinit()
          Block,        \* home block numbers
          Val,          \* block contents
          NoBuf,        \* the block has no valid buffer in the cache
          NoBlock,      \* the process holds no buffer
          OPBLOCKS,     \* most different blocks a system call really logs
          MAXOPBLOCKS,  \* blocks begin_op() reserves for a call (param.h:9)
          LOGSIZE,      \* most blocks in a transaction (param.h:10)
          NLOG          \* sb.nlog: header and data blocks of the log area

ASSUME LogAssumption ==
  /\ InitProc \in Proc
  /\ IsFiniteSet(Proc)
  /\ NoBuf \notin Val
  /\ NoBlock \notin Block
  /\ MAXOPBLOCKS \in Nat
  /\ OPBLOCKS \in 0..MAXOPBLOCKS
  /\ LOGSIZE \in Nat
  /\ NLOG \in Nat
  /\ MAXOPBLOCKS <= LOGSIZE
  /\ LOGSIZE < NLOG

VARIABLES
  disk,         \* home blocks on disk
  dlog,         \* data blocks of the log area on disk
  hdr,          \* header block on disk: the first n entries of block[]
  cache,        \* b->data of the buffer caching each home block
  pin,          \* references bpin() took on that buffer
  lh,           \* log.lh in memory
  outstanding,  \* log.outstanding
  committing,   \* log.committing
  pc,           \* where each process is
  tail,         \* the loop variable of write_log() and install_trans()
  buf,          \* the locked buffer a process has modified and not logged
  wset          \* the blocks the process's current system call has logged

stable   == <<disk, dlog, hdr>>
logvars  == <<lh, outstanding, committing>>
procvars == <<pc, tail, buf, wset>>
vars     == <<stable, cache, pin, logvars, procvars>>

Booting == {"read_head", "recover", "recover_clear"}
PCs == Booting \cup {"unused", "user", "begin", "sleep", "op", "commit",
                     "write_log", "write_head", "install", "clear",
                     "committed"}

Up == pc[InitProc] \notin Booting

Entries(s) == {s[i] : i \in 1..Len(s)}
Logged == Entries(lh)

\* What bread() returns for b: the buffer if valid, else the disk's contents.
View(b) == IF cache[b] = NoBuf THEN disk[b] ELSE cache[b]

\* The buffer's sleep-lock is free.
Unlocked(b) == \A q \in Proc : buf[q] # b

Boot == [p \in Proc |-> IF p = InitProc THEN "read_head" ELSE "unused"]

Init == /\ disk \in [Block -> Val]
        /\ \E v \in Val : dlog = [i \in 1..LOGSIZE |-> v]
        /\ hdr = <<>>
        /\ cache = [b \in Block |-> NoBuf]
        /\ pin = [b \in Block |-> 0]
        /\ lh = <<>>
        /\ outstanding = 0
        /\ committing = FALSE
        /\ pc = Boot
        /\ tail = [p \in Proc |-> 1]
        /\ buf = [p \in Proc |-> NoBlock]
        /\ wset = [p \in Proc |-> {}]
-----------------------------------------------------------------------------
(* Buffer cache: any process may bread() a block, and a buffer nobody      *)
(* references may be recycled for another block.                           *)

Load(b) == /\ Up
           /\ cache[b] = NoBuf
           /\ cache' = [cache EXCEPT ![b] = disk[b]]
           /\ UNCHANGED <<stable, pin, logvars, procvars>>

Recycle(b) == /\ cache[b] # NoBuf
              /\ pin[b] = 0
              /\ Unlocked(b)
              /\ cache' = [cache EXCEPT ![b] = NoBuf]
              /\ UNCHANGED <<stable, pin, logvars, procvars>>
-----------------------------------------------------------------------------
(* System calls.                                                           *)

\* Mutation: no wakeup at all.
wakeup_Lost(f) == f

\* wakeup(&log): every process asleep in begin_op() tests again.
wakeup(f) == [q \in Proc |-> IF f[q] = "sleep" THEN "begin" ELSE f[q]]

\* The test of begin_op(): room for this call and for all that are under way.
LogSpace == Len(lh) + (outstanding + 1) * MAXOPBLOCKS <= LOGSIZE

\* Mutation: a call may begin during a commit.
Admit_InCommit == LogSpace
Admit == ~committing /\ LogSpace

syscall(p) == /\ pc[p] = "user"
              /\ pc' = [pc EXCEPT ![p] = "begin"]
              /\ UNCHANGED <<stable, cache, pin, logvars, tail, buf, wset>>

begin_op(p) ==
  /\ pc[p] = "begin"
  /\ \/ /\ Admit
        /\ outstanding' = outstanding + 1
        /\ pc' = [pc EXCEPT ![p] = "op"]
     \/ /\ ~Admit
        /\ pc' = [pc EXCEPT ![p] = "sleep"]
        /\ UNCHANGED outstanding
  /\ UNCHANGED <<stable, cache, pin, lh, committing, tail, buf, wset>>

\* bp = bread(b), then new contents for bp->data.  A system call writes at
\* most OPBLOCKS different blocks.
modify(p, b, v) ==
  /\ pc[p] = "op"
  /\ buf[p] = NoBlock
  /\ Unlocked(b)
  /\ Cardinality(wset[p] \cup {b}) <= OPBLOCKS
  /\ buf' = [buf EXCEPT ![p] = b]
  /\ cache' = [cache EXCEPT ![b] = v]
  /\ UNCHANGED <<stable, pin, logvars, pc, tail, wset>>

TooBig == Len(lh) >= LOGSIZE \/ Len(lh) >= NLOG - 1

\* Mutation: the buffer is not pinned.
bpin_None(b) == pin
bpin(b) == [pin EXCEPT ![b] = @ + 1]

\* log_write(bp); brelse(bp)
log_write(p) ==
  /\ pc[p] = "op"
  /\ buf[p] # NoBlock
  /\ ~TooBig
  /\ outstanding >= 1
  /\ IF buf[p] \in Logged
     THEN UNCHANGED <<lh, pin>>
     ELSE /\ lh' = Append(lh, buf[p])
          /\ pin' = bpin(buf[p])
  /\ buf' = [buf EXCEPT ![p] = NoBlock]
  /\ wset' = [wset EXCEPT ![p] = @ \cup {buf[p]}]
  /\ UNCHANGED <<stable, cache, outstanding, committing, pc, tail>>

end_op(p) ==
  /\ pc[p] = "op"
  /\ buf[p] = NoBlock
  /\ ~committing
  /\ outstanding' = outstanding - 1
  /\ IF outstanding' = 0
     THEN /\ committing' = TRUE
          /\ pc' = [pc EXCEPT ![p] = "commit"]
     ELSE /\ pc' = wakeup([pc EXCEPT ![p] = "user"])
          /\ UNCHANGED committing
  /\ wset' = [wset EXCEPT ![p] = {}]
  /\ UNCHANGED <<stable, cache, pin, lh, tail, buf>>

\* Mutation: committing stays set.
end_commit_NoReset(p) ==
  /\ pc[p] = "committed"
  /\ pc' = wakeup([pc EXCEPT ![p] = "user"])
  /\ UNCHANGED <<stable, cache, pin, logvars, tail, buf, wset>>

\* The end of the end_op() that committed.
end_commit(p) ==
  /\ pc[p] = "committed"
  /\ committing' = FALSE
  /\ pc' = wakeup([pc EXCEPT ![p] = "user"])
  /\ UNCHANGED <<stable, cache, pin, lh, outstanding, tail, buf, wset>>
-----------------------------------------------------------------------------
(* commit() and recover_from_log().                                        *)

Goto(p, l) == pc' = [pc EXCEPT ![p] = l]

\* Mutation: the header is written before the log blocks.
commit_HeadFirst(p) ==
  /\ pc[p] = "commit"
  /\ IF Len(lh) > 0 THEN Goto(p, "write_head") ELSE Goto(p, "committed")
  /\ tail' = [tail EXCEPT ![p] = 1]
  /\ UNCHANGED <<stable, cache, pin, logvars, buf, wset>>

\* Mutation: a transaction of one block is taken for an empty one.
commit_OffByOne(p) ==
  /\ pc[p] = "commit"
  /\ IF Len(lh) > 1 THEN Goto(p, "write_log") ELSE Goto(p, "committed")
  /\ tail' = [tail EXCEPT ![p] = 1]
  /\ UNCHANGED <<stable, cache, pin, logvars, buf, wset>>

commit(p) ==
  /\ pc[p] = "commit"
  /\ IF Len(lh) > 0 THEN Goto(p, "write_log") ELSE Goto(p, "committed")
  /\ tail' = [tail EXCEPT ![p] = 1]
  /\ UNCHANGED <<stable, cache, pin, logvars, buf, wset>>

\* Mutation: tail++ has slipped under the test of recovering.
NextTail_Recovering(p, l) ==
  IF tail[p] < Len(lh)
  THEN /\ tail' = [tail EXCEPT ![p] = IF pc[p] = "recover" THEN @ ELSE @ + 1]
       /\ UNCHANGED pc
  ELSE /\ tail' = [tail EXCEPT ![p] = 1]
       /\ Goto(p, l)

\* One iteration of a loop over the log; l is where the last one leads.
NextTail(p, l) ==
  IF tail[p] < Len(lh)
  THEN /\ tail' = [tail EXCEPT ![p] = @ + 1]
       /\ UNCHANGED pc
  ELSE /\ tail' = [tail EXCEPT ![p] = 1]
       /\ Goto(p, l)

write_log(p) ==
  /\ pc[p] = "write_log"
  /\ LET b == lh[tail[p]]
     IN /\ Unlocked(b)
        /\ cache' = [cache EXCEPT ![b] = View(b)]
        /\ dlog' = [dlog EXCEPT ![tail[p]] = View(b)]
  /\ NextTail(p, "write_head")
  /\ UNCHANGED <<disk, hdr, pin, logvars, buf, wset>>

bunpin(b) == [pin EXCEPT ![b] = @ - 1]

\* Mutation: recovery drops pins too.
Unpinned_Always(p, b) == bunpin(b)
\* The pin is dropped only when recovering == 0.
Unpinned(p, b) == IF pc[p] = "install" THEN bunpin(b) ELSE pin

\* After the last block log.lh.n is cleared.
install_trans(p) ==
  /\ pc[p] \in {"install", "recover"}
  /\ LET b == lh[tail[p]]
     IN /\ Unlocked(b)
        /\ cache' = [cache EXCEPT ![b] = dlog[tail[p]]]
        /\ disk' = [disk EXCEPT ![b] = dlog[tail[p]]]
        /\ pin' = Unpinned(p, b)
  /\ lh' = IF tail[p] < Len(lh) THEN lh ELSE <<>>
  /\ NextTail(p, IF pc[p] = "install" THEN "clear" ELSE "recover_clear")
  /\ UNCHANGED <<dlog, hdr, outstanding, committing, buf, wset>>

\* Once the log is clear after a boot, the first process starts the others.
write_head(p) ==
  /\ pc[p] \in {"write_head", "clear", "recover_clear"}
  /\ hdr' = lh
  /\ \/ pc[p] = "write_head" /\ Goto(p, "install")
     \/ pc[p] = "clear" /\ Goto(p, "committed")
     \/ pc[p] = "recover_clear" /\ pc' = [q \in Proc |-> "user"]
  /\ UNCHANGED <<disk, dlog, cache, pin, logvars, tail, buf, wset>>

read_head(p) ==
  /\ pc[p] = "read_head"
  /\ lh' = hdr
  /\ IF Len(hdr) > 0 THEN Goto(p, "recover") ELSE Goto(p, "recover_clear")
  /\ UNCHANGED <<stable, cache, pin, outstanding, committing, tail, buf, wset>>

\* Power failure: only the disk survives.
Crash ==
  /\ cache' = [b \in Block |-> NoBuf]
  /\ pin' = [b \in Block |-> 0]
  /\ lh' = <<>>
  /\ outstanding' = 0
  /\ committing' = FALSE
  /\ pc' = Boot
  /\ tail' = [p \in Proc |-> 1]
  /\ buf' = [p \in Proc |-> NoBlock]
  /\ wset' = [p \in Proc |-> {}]
  /\ UNCHANGED stable

\* Steps a process takes on its own, once it is in the kernel.
Step(p) == \/ begin_op(p) \/ log_write(p) \/ end_op(p) \/ end_commit(p)
           \/ commit(p) \/ write_log(p) \/ install_trans(p) \/ write_head(p)
           \/ read_head(p)

Next == \/ \E b \in Block : Load(b) \/ Recycle(b)
        \/ \E p \in Proc : \/ syscall(p)
                           \/ Step(p)
                           \/ \E b \in Block, v \in Val : modify(p, b, v)
        \/ Crash

Spec == Init /\ [][Next]_vars

\* The scheduler gives every runnable process the CPU, and a system call
\* logs boundedly many blocks before its end_op().
Fairness == \A p \in Proc : WF_vars(Step(p)) /\ SF_vars(end_op(p))
FairSpec == Spec /\ Fairness
-----------------------------------------------------------------------------
(* Properties.                                                             *)

\* The types of the disk, the cache, the log and the processes' locals.
TypeOK == /\ disk \in [Block -> Val]
          /\ dlog \in [1..LOGSIZE -> Val]
          /\ hdr \in Seq(Block)
          /\ cache \in [Block -> Val \cup {NoBuf}]
          /\ pin \in [Block -> Nat]
          /\ lh \in Seq(Block)
          /\ outstanding \in Nat
          /\ committing \in BOOLEAN
          /\ pc \in [Proc -> PCs]
          /\ tail \in [Proc -> Nat \ {0}]
          /\ buf \in [Proc -> Block \cup {NoBlock}]
          /\ wset \in [Proc -> SUBSET Block]

\* None of the panics of log.c can happen: log_write() finds room and an open
\* transaction (log.c:220-223) and no end_op() meets a commit (log.c:153),
\* because begin_op() reserved MAXOPBLOCKS blocks for every call.
NoPanic == \A p \in Proc : pc[p] = "op" =>
              /\ ~committing
              /\ outstanding >= 1
              /\ buf[p] # NoBlock => ~TooBig

\* The logged blocks that this system call or commit has yet to install;
\* recovery installs blocks that nobody pinned.
Waiting == {lh[i] : i \in {j \in 1..Len(lh) :
                             \A p \in Proc : /\ pc[p] = "install" => tail[p] <= j
                                             /\ pc[p] # "recover"}}

\* bpin() in log_write() and bunpin() in install_trans() balance: a block has
\* one pin while it waits in the log for its installation, and no other, so
\* no buffer is recycled with unlogged contents or pinned for ever.
PinsMatchLog == \A b \in Block : pin[b] = IF b \in Waiting THEN 1 ELSE 0

Overlay(d, h, l) ==
  [b \in Block |-> IF b \in Entries(h)
                   THEN l[CHOOSE i \in 1..Len(h) : h[i] = b]
                   ELSE d[b]]

\* What a crash now would leave after recovery, and what the system sees.
Durable == Overlay(disk, hdr, dlog)
Mem == IF Up THEN [b \in Block |-> View(b)] ELSE Durable
Active == {p \in Proc : pc[p] = "op"}

TD == INSTANCE TxnDisk WITH mem <- Mem, durable <- Durable, active <- Active

\* The log implements a disk with atomic group commit: whatever the
\* interleaving of system calls, buffer recycling, disk writes and crashes,
\* recovery finds all the updates of a group of whole calls or none of them.
Refines == TD!Spec

\* When the last end_op() has returned, all it and its group wrote is durable.
QuiescentDurable ==
  (Up /\ outstanding = 0 /\ ~committing) => Durable = Mem

\* A process sleeps in begin_op() only while some call or commit is under way
\* whose end_op() will wake it up.
NoLostWakeup ==
  (\E p \in Proc : pc[p] = "sleep") => (committing \/ outstanding > 0)

\* A process asleep in begin_op() is eventually woken.
SleeperWoken == \A p \in Proc : pc[p] = "sleep" ~> pc[p] # "sleep"

\* Every commit ends, by end_op() or by a crash, and begin_op() opens again.
CommitEnds == committing ~> ~committing

\* recover_from_log() ends unless the machine keeps crashing in it.
RecoveryEnds == []<>Up \/ []<><<Crash>>_vars

\* Nothing in begin_op(), end_op(), commit() and recover_from_log() waits
\* for ever: the three facts above.
CallsProceed == SleeperWoken /\ CommitEnds /\ RecoveryEnds
-----------------------------------------------------------------------------
(* The inductive invariant behind the safety properties.                   *)

Committing == {"commit", "write_log", "write_head", "install", "clear",
               "committed"}
Reserved == {r \in Active \X (1..MAXOPBLOCKS) : Cardinality(wset[r[1]]) < r[2]}

\* One process boots; one process commits, and then no system call is open.
PhaseInv ==
  /\ \A p \in Proc : p # InitProc => pc[p] \notin Booting
  /\ ~Up => \A p \in Proc : p # InitProc => pc[p] = "unused"
  /\ Up => \A p \in Proc : pc[p] # "unused"
  /\ committing <=> \E p \in Proc : pc[p] \in Committing
  /\ \A p, q \in Proc : pc[p] \in Committing /\ pc[q] \in Committing => p = q
  /\ committing => Active = {}
  /\ outstanding = Cardinality(Active)

\* Only an open call holds a modified buffer, and no two the same one.
OpInv ==
  /\ \A p \in Proc : pc[p] # "op" => buf[p] = NoBlock /\ wset[p] = {}
  /\ \A p, q \in Proc : buf[p] # NoBlock /\ buf[p] = buf[q] => p = q
  /\ \A p \in Proc : wset[p] \subseteq Logged
  /\ \A p \in Proc : buf[p] # NoBlock => Cardinality(wset[p] \cup {buf[p]}) <= OPBLOCKS
  /\ \A p \in Proc : IsFiniteSet(wset[p]) /\ Cardinality(wset[p]) <= OPBLOCKS

\* What begin_op() promised to the open calls still fits in the log.
SpaceInv == Len(lh) + Cardinality(Reserved) <= LOGSIZE

\* The log lists a block once, on disk and in memory.
LogInv ==
  /\ \A i, j \in 1..Len(lh) : lh[i] = lh[j] => i = j
  /\ \A i, j \in 1..Len(hdr) : hdr[i] = hdr[j] => i = j
  /\ Len(hdr) <= LOGSIZE
  /\ \A p \in Proc : pc[p] \in {"write_log", "write_head", "install", "recover"} => tail[p] <= Len(lh)
  /\ \A p \in Proc : pc[p] \in {"read_head", "write_head"} => tail[p] = 1
  /\ \A p \in Proc : pc[p] \in {"install", "recover"} => hdr = lh
  /\ \A p \in Proc : pc[p] \in {"clear", "committed", "read_head", "recover_clear"} => lh = <<>>
  /\ (Up /\ \A p \in Proc : pc[p] \notin {"install", "clear"}) => hdr = <<>>
  /\ (Up /\ outstanding = 0 /\ ~committing) => lh = <<>>

\* A buffer differs from its home block only while it is modified or waits
\* for its installation, and then it stays in the cache.
CacheInv ==
  \A b \in Block :
    /\ b \in Waiting => cache[b] # NoBuf
    /\ ~Unlocked(b) => cache[b] # NoBuf
    /\ b \notin Waiting /\ Unlocked(b) => cache[b] \in {NoBuf, disk[b]}

\* How far the copies to the log and from the log have come.
CopyInv ==
  /\ \A p \in Proc : \A i \in 1..Len(lh) :
       /\ pc[p] = "write_log" /\ i < tail[p] => dlog[i] = View(lh[i])
       /\ pc[p] \in {"write_head", "install"} => dlog[i] = View(lh[i])
       /\ pc[p] \in {"install", "recover"} /\ i < tail[p] => disk[lh[i]] = dlog[i]
  /\ \A p \in Proc : pc[p] \in {"clear", "recover_clear"} =>
       \A i \in 1..Len(hdr) : disk[hdr[i]] = dlog[i]

IInv == /\ TypeOK /\ PhaseInv /\ OpInv /\ SpaceInv
        /\ LogInv /\ PinsMatchLog /\ CacheInv /\ CopyInv
=============================================================================
