----------------------------- MODULE LogProof -----------------------------
(***************************************************************************)
(* Proofs about Log for every set of processes, blocks and values and      *)
(* every size of the log: the invariant IInv is inductive (one lemma per   *)
(* action), the safety properties follow from it, and under it every step  *)
(* of Log is a step of TxnDisk or leaves its variables alone.              *)
(***************************************************************************)
EXTENDS LogCommit

USE DEF stable, logvars, procvars, Goto

\* The invariant is inductive: the initial states satisfy it and every step
\* of a process, of the buffer cache and of the power supply keeps it.
THEOREM Invariant == Spec => []IInv
<1>1. Init => IInv
  BY Zenon, Booted
<1>2. IInv /\ [Next]_vars => IInv'
  <2> SUFFICES ASSUME IInv, [Next]_vars
               PROVE  IInv'
    BY Zenon
  <2>1. ASSUME NEW b \in Block, Load(b) \/ Recycle(b)
        PROVE  IInv'
    BY Zenon, <2>1, LoadStep, RecycleStep
  <2>2. ASSUME NEW p \in Proc, Step(p)
        PROVE  IInv'
    <3>1. CASE install_trans(p)
      <4>1. pc[p] = "install" \/ pc[p] = "recover"
        BY Zenon, <3>1 DEF install_trans
      <4> QED
        BY Zenon, <3>1, <4>1, InstallCommit, InstallRecover
    <3>2. CASE write_head(p)
      <4>1. pc[p] \in {"write_head", "clear"} \/ pc[p] = "recover_clear"
        BY Zenon, <3>2 DEF write_head
      <4> QED
        BY Zenon, <3>2, <4>1, WriteHeadCommit, WriteHeadRecover
    <3>3. CASE ~install_trans(p) /\ ~write_head(p)
      BY Zenon, <2>2, <3>3, BeginOp, LogWrite, EndOp, EndCommit, CommitStep, WriteLog, ReadHead DEF Step
    <3> QED
      BY Zenon, <3>1, <3>2, <3>3
  <2>3. ASSUME NEW p \in Proc, syscall(p) \/ \E b \in Block, v \in Val : modify(p, b, v)
        PROVE  IInv'
    BY Zenon, <2>3, Syscall, Modify
  <2>4. CASE Crash
    BY <2>4, CrashStep
  <2>5. CASE UNCHANGED vars
    BY <2>5 DEF vars, IInv, TypeOK, PhaseInv, OpInv, SpaceInv, LogInv, PinsMatchLog, CacheInv, CopyInv,
                Up, Active, Logged, Reserved, Waiting, Unlocked, View
  <2> QED
    BY Zenon, <2>1, <2>2, <2>3, <2>4, <2>5 DEF Next
<1> QED
  BY <1>1, <1>2, PTL DEF Spec

\* Every variable of log.c and bio.c keeps its type.
THEOREM TypeCorrect == Spec => []TypeOK
<1>1. IInv => TypeOK
  BY Zenon DEF IInv
<1> QED
  BY <1>1, Invariant, PTL

\* If no system call logs all the blocks reserved for it, log.c never panics,
\* for any number of processes and any size of the log.
THEOREM NeverPanics == OPBLOCKS < MAXOPBLOCKS => (Spec => []NoPanic)
<1> SUFFICES ASSUME OPBLOCKS < MAXOPBLOCKS
             PROVE  Spec => []NoPanic
  BY Zenon
<1>1. IInv => NoPanic
  <2> SUFFICES ASSUME IInv, NEW p \in Proc, pc[p] = "op"
               PROVE  ~committing /\ outstanding >= 1 /\ ~TooBig
    BY Zenon DEF NoPanic
  <2>1. ~committing
    BY Zenon, OpenCall DEF IInv
  <2>2. p \in Active
    BY Zenon DEF Active
  <2>3. outstanding >= 1
    BY <2>2, ActiveFinite, FS_EmptySet DEF IInv, PhaseInv
  <2>4. <<p, MAXOPBLOCKS>> \in Reserved
    <3>1. Cardinality(wset[p]) \in Nat /\ Cardinality(wset[p]) <= OPBLOCKS
      BY Zenon, FS_CardinalityType DEF IInv, OpInv
    <3> QED
      BY <2>2, <3>1, LogAssumption DEF Reserved
  <2>5. Cardinality(Reserved) >= 1
    BY <2>4, ActiveFinite, FS_EmptySet
  <2>6. Len(lh) \in Nat
    BY DEF IInv, TypeOK
  <2>7. ~TooBig
    BY <2>5, <2>6, ActiveFinite, LogAssumption DEF TooBig, IInv, SpaceInv
  <2> QED
    BY Zenon, <2>1, <2>3, <2>7
<1> QED
  BY <1>1, Invariant, PTL

\* bpin() and bunpin() balance.
THEOREM PinsBalance == Spec => []PinsMatchLog
<1>1. IInv => PinsMatchLog
  BY Zenon DEF IInv
<1> QED
  BY <1>1, Invariant, PTL

\* A process sleeps in begin_op() only while somebody will wake it up.
THEOREM WakeupsKept == Spec => []NoLostWakeup
<1>1. Init => NoLostWakeup
  BY Zenon DEF Init, NoLostWakeup, Boot
<1>2. IInv /\ NoLostWakeup /\ [Next]_vars => NoLostWakeup'
  <2> SUFFICES ASSUME IInv, NoLostWakeup, [Next]_vars,
                      NEW q \in Proc, pc'[q] = "sleep"
               PROVE  committing' \/ outstanding' > 0
    BY Zenon DEF NoLostWakeup
  <2>1. outstanding \in Nat /\ pc \in [Proc -> PCs]
    BY Zenon DEF IInv, TypeOK
  <2>2. ASSUME NEW p \in Proc, begin_op(p)
        PROVE  committing' \/ outstanding' > 0
    <3>1. CASE Admit
      BY <2>1, <2>2, <3>1 DEF begin_op
    <3>2. CASE ~Admit /\ (committing \/ outstanding > 0)
      BY Zenon, <2>2, <3>2 DEF begin_op
    <3>3. CASE ~committing /\ outstanding = 0
      <4>1. Up
        <5>1. p # InitProc /\ ~Up => pc[p] = "unused"
          BY Zenon DEF IInv, PhaseInv
        <5> QED
          BY Zenon, <2>2, <5>1 DEF begin_op, Up, Booting
      <4>2. lh = <<>>
        BY Zenon, <3>3, <4>1 DEF IInv, LogInv
      <4>3. Admit
        BY <3>3, <4>2, LogAssumption DEF Admit, LogSpace
      <4> QED
        BY Zenon, <3>1, <4>3
    <3> QED
      BY <2>1, <3>1, <3>2, <3>3
  <2>3. ASSUME NEW p \in Proc, end_op(p)
        PROVE  committing' \/ outstanding' > 0
    <3>1. outstanding >= 1
      <4>1. Active # {}
        BY Zenon, <2>3 DEF end_op, Active
      <4> QED
        BY <4>1, ActiveFinite, FS_EmptySet DEF IInv, PhaseInv
    <3> QED
      BY <2>1, <2>3, <3>1 DEF end_op
  <2>4. ASSUME NEW p \in Proc, end_commit(p)
        PROVE  FALSE
    BY Zenon, <2>4, <2>1 DEF end_commit, wakeup
  <2>5. ASSUME NEW p \in Proc,
               log_write(p) \/ commit(p) \/ write_log(p) \/ install_trans(p) \/ write_head(p) \/ read_head(p)
        PROVE  committing' \/ outstanding' > 0
    <3>1. pc[q] = "sleep"
      BY Zenon, <2>1, <2>5 DEF log_write, commit, write_log, install_trans, write_head, read_head, NextTail
    <3>2. UNCHANGED <<committing, outstanding>>
      BY Zenon, <2>5 DEF log_write, commit, write_log, install_trans, write_head, read_head
    <3> QED
      BY Zenon, <3>1, <3>2 DEF NoLostWakeup
  <2>6. ASSUME NEW p \in Proc, syscall(p) \/ \E b \in Block, v \in Val : modify(p, b, v)
        PROVE  committing' \/ outstanding' > 0
    BY Zenon, <2>1, <2>6 DEF syscall, modify, NoLostWakeup
  <2>7. CASE Crash
    BY Zenon, <2>7 DEF Crash, Boot
  <2>8. CASE UNCHANGED vars \/ \E b \in Block : Load(b) \/ Recycle(b)
    BY Zenon, <2>8 DEF vars, Load, Recycle, NoLostWakeup
  <2> QED
    BY Zenon, <2>2, <2>3, <2>4, <2>5, <2>6, <2>7, <2>8 DEF Next, Step
<1> QED
  BY <1>1, <1>2, Invariant, PTL DEF Spec

-----------------------------------------------------------------------------
(* The log implements TxnDisk.                                             *)

\* What recovery makes of a block that the header lists, or does not list.
LEMMA OverlayAt ==
  ASSUME NEW d, NEW l, NEW h \in Seq(Block),
         \A i, j \in 1..Len(h) : h[i] = h[j] => i = j
  PROVE  /\ \A i \in 1..Len(h) : Overlay(d, h, l)[h[i]] = l[i]
         /\ \A b \in Block \ Entries(h) : Overlay(d, h, l)[b] = d[b]
<1>1. ASSUME NEW i \in 1..Len(h)
      PROVE  Overlay(d, h, l)[h[i]] = l[i]
  <2>1. h[i] \in Block /\ h[i] \in Entries(h)
    BY DEF Entries
  <2>2. Overlay(d, h, l)[h[i]] = l[CHOOSE j \in 1..Len(h) : h[j] = h[i]]
    BY Zenon, <2>1 DEF Overlay
  <2>3. (CHOOSE j \in 1..Len(h) : h[j] = h[i]) = i
    BY Zenon
  <2> QED
    BY Zenon, <2>2, <2>3
<1> QED
  BY Zenon, <1>1 DEF Overlay

\* Two recoveries agree when they agree on every block.
LEMMA OverlayEq ==
  ASSUME NEW d, NEW l, NEW h, NEW f, \A b \in Block : f[b] = Overlay(d, h, l)[b],
         f = [b \in Block |-> f[b]]
  PROVE  f = Overlay(d, h, l)
BY Zenon DEF Overlay

\* An empty header leaves the disk alone.
LEMMA OverlayEmpty ==
  ASSUME NEW d \in [Block -> Val], NEW l
  PROVE  Overlay(d, <<>>, l) = d
BY DEF Overlay, Entries

\* What the system sees of a block that no open call holds and that does not
\* wait for its installation is what is on disk.
LEMMA ViewClean ==
  ASSUME IInv, NEW b \in Block, b \notin Waiting, Unlocked(b)
  PROVE  View(b) = disk[b]
BY Zenon DEF IInv, CacheInv, View

\* The initial states are those of TxnDisk.
LEMMA RefineInit ==
  ASSUME Init
  PROVE  TD!Init
<1>1. Durable = disk /\ disk \in [Block -> Val]
  BY Zenon, OverlayEmpty DEF Init, Durable
<1>2. ~Up /\ Active = {}
  BY Zenon, LogAssumption DEF Init, Boot, Up, Booting, Active
<1> QED
  BY Zenon, <1>1, <1>2 DEF TD!Init, Mem

\* Steps that change neither the contents the system sees nor the disk.
LEMMA RefineStutter ==
  ASSUME Durable' = Durable, Mem' = Mem, Active' = Active
  PROVE  UNCHANGED TD!vars
BY Zenon DEF TD!vars

\* The buffer cache is invisible to TxnDisk.
LEMMA RefineCache ==
  ASSUME IInv, NEW b \in Block, Load(b) \/ Recycle(b)
  PROVE  UNCHANGED TD!vars
<1>1. UNCHANGED <<disk, dlog, hdr, pc>>
  BY Zenon DEF Load, Recycle
<1>2. Durable' = Durable /\ Active' = Active /\ (Up' <=> Up)
  BY Zenon, <1>1 DEF Durable, Active, Up
<1>3. ASSUME NEW c \in Block
      PROVE  View(c)' = View(c)
  <2>1. CASE Load(b)
    BY Zenon, <1>1, <2>1 DEF Load, View, IInv, TypeOK
  <2>2. CASE Recycle(b)
    <3>1. View(b) = disk[b]
      BY <2>2, ViewClean DEF Recycle, IInv, PinsMatchLog
    <3> QED
      BY Zenon, <1>1, <2>2, <3>1 DEF Recycle, View, IInv, TypeOK
  <2> QED
    BY Zenon, <2>1, <2>2
<1>4. Mem' = Mem
  BY Zenon, <1>2, <1>3 DEF Mem
<1> QED
  BY Zenon, <1>2, <1>4, RefineStutter

\* begin_op() and end_op() open and close a call of TxnDisk.
LEMMA RefineCall ==
  ASSUME IInv, NEW p \in Proc,
         syscall(p) \/ begin_op(p) \/ log_write(p) \/ end_op(p) \/ end_commit(p) \/ commit(p)
  PROVE  TD!Begin(p) \/ TD!End(p) \/ UNCHANGED TD!vars
<1>1. UNCHANGED <<disk, dlog, hdr, cache>>
  BY Zenon DEF syscall, begin_op, log_write, end_op, end_commit, commit
<1>2. pc \in [Proc -> PCs]
  BY Zenon DEF IInv, TypeOK
<1>3. \A q \in Proc : pc'[q] \in Booting <=> pc[q] \in Booting
  BY Zenon, <1>2 DEF syscall, begin_op, log_write, end_op, end_commit, commit, wakeup, Booting
<1>4. Durable' = Durable /\ (Up' <=> Up)
  BY Zenon, <1>1, <1>3, LogAssumption DEF Durable, Up
<1>5. \A b \in Block : View(b)' = View(b)
  BY Zenon, <1>1 DEF View
<1>6. Mem' = Mem
  BY Zenon, <1>4, <1>5 DEF Mem
<1>7. CASE Active' = Active
  BY Zenon, <1>4, <1>6, <1>7, RefineStutter
<1>8. CASE begin_op(p) /\ pc' = [pc EXCEPT ![p] = "op"]
  <2>1. Active' = Active \cup {p} /\ p \notin Active
    BY Zenon, <1>2, <1>8 DEF begin_op, Active
  <2> QED
    BY Zenon, <1>4, <1>6, <2>1 DEF TD!Begin
<1>9. CASE end_op(p)
  <2>1. Active' = Active \ {p} /\ p \in Active
    BY Zenon, <1>2, <1>9 DEF end_op, Active, wakeup
  <2> QED
    BY Zenon, <1>4, <1>6, <2>1 DEF TD!End
<1>10. Active' = Active \/ (begin_op(p) /\ pc' = [pc EXCEPT ![p] = "op"]) \/ end_op(p)
  BY Zenon, <1>2 DEF syscall, begin_op, log_write, end_commit, commit, wakeup, Active
<1> QED
  BY Zenon, <1>7, <1>8, <1>9, <1>10

\* Changing a buffer is a write of TxnDisk.
LEMMA RefineModify ==
  ASSUME IInv, NEW p \in Proc, NEW b \in Block, NEW v \in Val, modify(p, b, v)
  PROVE  TD!Write(p, b, v)
<1>1. UNCHANGED <<disk, dlog, hdr, pc>> /\ cache' = [cache EXCEPT ![b] = v] /\ pc[p] = "op"
  BY Zenon DEF modify
<1>2. Up /\ Up' /\ Active' = Active /\ p \in Active /\ Durable' = Durable
  BY Zenon, <1>1, OpenCall DEF IInv, Up, Active, Durable
<1>3. \A c \in Block : View(c)' = IF c = b THEN v ELSE View(c)
  BY Zenon, <1>1, LogAssumption DEF View, IInv, TypeOK
<1>4. Mem' = [Mem EXCEPT ![b] = v]
  BY Zenon, <1>2, <1>3 DEF Mem
<1> QED
  BY Zenon, <1>2, <1>4 DEF TD!Write

\* write_log() is invisible to TxnDisk: the header is still empty.
LEMMA RefineWriteLog ==
  ASSUME IInv, NEW p \in Proc, write_log(p)
  PROVE  UNCHANGED TD!vars
<1> DEFINE b == lh[tail[p]]
<1>1. /\ pc[p] = "write_log" /\ pc[p] \in Committing
      /\ cache' = [cache EXCEPT ![b] = View(b)] /\ UNCHANGED <<disk, hdr>>
  BY Zenon DEF write_log, Committing
<1>2. /\ Up /\ Active = {}
      /\ \A q \in Proc : pc[q] \notin Booting /\ pc[q] # "op"
      /\ \A q \in Proc : q # p => pc[q] \notin Committing
  BY Zenon, <1>1, Committer DEF IInv
<1>3. hdr = <<>>
  BY Zenon, <1>1, <1>2 DEF IInv, LogInv, Committing
<1>4. Durable' = Durable
  <2>1. disk \in [Block -> Val]
    BY Zenon DEF IInv, TypeOK
  <2>2. Durable = disk /\ Durable' = disk
    BY Zenon, <1>1, <1>3, <2>1, OverlayEmpty DEF Durable
  <2> QED
    BY Zenon, <2>2
<1>5. Up' /\ Active' = Active
  <2>1. \A q \in Proc : pc'[q] = pc[q] \/ pc'[q] = "write_head"
    BY Zenon DEF write_log, NextTail, IInv, TypeOK
  <2> QED
    BY Zenon, <1>2, <2>1, LogAssumption DEF Up, Active, Booting
<1>6. \A c \in Block : View(c)' = View(c)
  BY Zenon, <1>1 DEF View, IInv, TypeOK
<1>7. Mem' = Mem
  BY Zenon, <1>2, <1>5, <1>6 DEF Mem
<1> QED
  BY Zenon, <1>4, <1>5, <1>7, RefineStutter

\* Installing a block changes neither what recovery would find, since the
\* header lists it, nor what the system sees.
LEMMA RefineInstall ==
  ASSUME IInv, NEW p \in Proc, install_trans(p)
  PROVE  UNCHANGED TD!vars
<1> DEFINE t == tail[p]
           b == lh[t]
<1>1. /\ pc[p] \in {"install", "recover"}
      /\ cache' = [cache EXCEPT ![b] = dlog[t]]
      /\ disk' = [disk EXCEPT ![b] = dlog[t]]
      /\ UNCHANGED <<dlog, hdr>>
  BY Zenon DEF install_trans
<1>2. /\ t \in 1..Len(hdr) /\ b = hdr[t] /\ hdr \in Seq(Block) /\ b \in Block /\ Len(hdr) <= LOGSIZE
      /\ \A i, j \in 1..Len(hdr) : hdr[i] = hdr[j] => i = j
  BY <1>1 DEF IInv, LogInv, TypeOK
<1>3. /\ disk \in [Block -> Val] /\ cache \in [Block -> Val \cup {NoBuf}]
      /\ dlog[t] \in Val /\ pc \in [Proc -> PCs]
  BY <1>2, LogAssumption DEF IInv, TypeOK
<1>4. Durable' = Durable
  <2>1. \A c \in Block : c # b => disk'[c] = disk[c]
    BY Zenon, <1>1, <1>3
  <2>2. b \in Entries(hdr)
    BY Zenon, <1>2 DEF Entries
  <2> QED
    BY <1>1, <2>1, <2>2 DEF Durable, Overlay
<1>5. \A q \in Proc : q # p => pc'[q] = pc[q]
  BY Zenon, <1>3 DEF install_trans, NextTail
<1>6. CASE pc[p] = "install"
  <2>1. pc[p] \in Committing
    BY Zenon, <1>6 DEF Committing
  <2>2. Up
    BY Zenon, <2>1, Committer DEF IInv
  <2>3. pc'[p] \in {"install", "clear"}
    BY Zenon, <1>3, <1>6 DEF install_trans, NextTail
  <2>4. Up' /\ Active' = Active
    BY Zenon, <1>5, <1>6, <2>2, <2>3, LogAssumption DEF Up, Active, Booting
  <2>5. dlog[t] = View(b)
    BY Zenon, <1>2, <1>6 DEF IInv, CopyInv, LogInv
  <2>6. \A c \in Block : View(c)' = View(c)
    BY Zenon, <1>1, <1>2, <1>3, <2>5, LogAssumption DEF View
  <2>7. Mem' = Mem
    BY Zenon, <2>2, <2>4, <2>6 DEF Mem
  <2> QED
    BY <1>4, <2>4, <2>7, RefineStutter
<1>7. CASE pc[p] = "recover"
  <2>1. p = InitProc /\ ~Up
    BY Zenon, <1>7, Booter DEF IInv, Booting
  <2>2. pc'[p] \in {"recover", "recover_clear"}
    BY Zenon, <1>3, <1>7 DEF install_trans, NextTail
  <2>3. ~Up' /\ Active' = Active
    BY Zenon, <1>5, <1>7, <2>1, <2>2 DEF Up, Active, Booting
  <2>4. Mem' = Mem
    BY Zenon, <1>4, <2>1, <2>3 DEF Mem
  <2> QED
    BY Zenon, <1>4, <2>3, <2>4, RefineStutter
<1> QED
  BY Zenon, <1>1, <1>6, <1>7

\* Writing the header is the commit: from here on recovery finds what the
\* system saw.  Clearing it afterwards changes nothing any more.
LEMMA RefineWriteHead ==
  ASSUME IInv, NEW p \in Proc, write_head(p)
  PROVE  TD!Commit \/ UNCHANGED TD!vars
<1>1. /\ pc[p] \in {"write_head", "clear", "recover_clear"}
      /\ hdr' = lh /\ UNCHANGED <<disk, dlog, cache>>
  BY Zenon DEF write_head
<1>2. /\ disk \in [Block -> Val] /\ lh \in Seq(Block) /\ hdr \in Seq(Block) /\ pc \in [Proc -> PCs]
      /\ \A i, j \in 1..Len(lh) : lh[i] = lh[j] => i = j
      /\ \A i, j \in 1..Len(hdr) : hdr[i] = hdr[j] => i = j
  BY Zenon DEF IInv, TypeOK, LogInv
<1>3. \A c \in Block : View(c)' = View(c)
  BY Zenon, <1>1 DEF View
<1>4. CASE pc[p] = "write_head"
  <2>1. pc[p] \in Committing
    BY Zenon, <1>4 DEF Committing
  <2>2. /\ Up /\ Active = {} /\ \A c \in Block : Unlocked(c)
        /\ \A q \in Proc : pc[q] \notin Booting /\ pc[q] # "op"
        /\ \A q \in Proc : q # p => pc[q] \notin Committing
    BY Zenon, <2>1, Committer DEF IInv
  <2>3. pc' = [pc EXCEPT ![p] = "install"]
    BY Zenon, <1>4 DEF write_head
  <2>4. Up' /\ Active' = Active
    BY Zenon, <1>2, <2>2, <2>3, LogAssumption DEF Up, Active, Booting
  <2>5. Mem' = Mem /\ Mem = [c \in Block |-> View(c)]
    BY Zenon, <1>3, <2>2, <2>4 DEF Mem
  <2>6. ASSUME NEW c \in Block
        PROVE  View(c) = Overlay(disk, lh, dlog)[c]
    <3>0. /\ \A i \in 1..Len(lh) : Overlay(disk, lh, dlog)[lh[i]] = dlog[i]
          /\ \A e \in Block \ Entries(lh) : Overlay(disk, lh, dlog)[e] = disk[e]
      <4>1. lh \in Seq(Block) /\ \A i, j \in 1..Len(lh) : lh[i] = lh[j] => i = j
        BY Zenon, <1>2
      <4> QED
        BY <4>1, OverlayAt
    <3>1. CASE c \in Entries(lh)
      <4>1. PICK i \in 1..Len(lh) : lh[i] = c
        BY Zenon, <3>1 DEF Entries
      <4>2. dlog[i] = View(c)
        BY Zenon, <1>4, <4>1 DEF IInv, CopyInv
      <4> QED
        BY Zenon, <3>0, <4>1, <4>2
    <3>2. CASE c \notin Entries(lh)
      <4>1. c \notin Waiting
        BY Zenon, <3>2 DEF Waiting, Entries
      <4>2. View(c) = disk[c]
        BY Zenon, <2>2, <4>1, ViewClean
      <4> QED
        BY Zenon, <3>0, <3>2, <4>2
    <3> QED
      BY Zenon, <3>1, <3>2
  <2>7. Mem = Overlay(disk, lh, dlog)
    BY <2>5, <2>6, OverlayEq
  <2>8. Durable' = Mem
    BY Zenon, <1>1, <2>7 DEF Durable
  <2> QED
    BY Zenon, <2>2, <2>4, <2>5, <2>8 DEF TD!Commit
<1>5. CASE pc[p] \in {"clear", "recover_clear"}
  <2>1. lh = <<>> /\ \A i \in 1..Len(hdr) : disk[hdr[i]] = dlog[i]
    BY Zenon, <1>5 DEF IInv, LogInv, CopyInv
  <2>2. ASSUME NEW c \in Block
        PROVE  disk[c] = Overlay(disk, hdr, dlog)[c]
    <3>1. CASE c \in Entries(hdr)
      <4>1. PICK i \in 1..Len(hdr) : hdr[i] = c
        BY <3>1 DEF Entries
      <4> QED
        BY <1>2, <2>1, <4>1, OverlayAt
    <3>2. CASE c \notin Entries(hdr)
      BY <1>2, <3>2, OverlayAt
    <3> QED
      BY Zenon, <3>1, <3>2
  <2>3. Durable = disk
    BY <1>2, <2>2, OverlayEq DEF Durable
  <2>4. Durable' = Durable
    BY Zenon, <1>1, <1>2, <2>1, <2>3, OverlayEmpty DEF Durable
  <2>5. CASE pc[p] = "clear"
    <3>1. pc[p] \in Committing /\ pc' = [pc EXCEPT ![p] = "committed"]
      BY Zenon, <2>5 DEF Committing, write_head
    <3>2. Up
      BY Zenon, <3>1, Committer DEF IInv
    <3>3. Up' /\ Active' = Active
      BY <1>2, <2>5, <3>1, <3>2 DEF Up, Active, Booting
    <3>4. Mem' = Mem
      BY Zenon, <1>3, <3>2, <3>3 DEF Mem
    <3> QED
      BY Zenon, <2>4, <3>3, <3>4, RefineStutter
  <2>6. CASE pc[p] = "recover_clear"
    <3>1. ~Up /\ Active = {} /\ \A c \in Block : Unlocked(c)
      BY Zenon, <2>6, Booter DEF IInv, Booting
    <3>2. \A q \in Proc : pc'[q] = "user"
      BY Zenon, <2>6 DEF write_head
    <3>3. Up' /\ Active' = Active
      BY Zenon, <3>1, <3>2, LogAssumption DEF Up, Active, Booting
    <3>4. Waiting = {}
      BY <2>1 DEF Waiting
    <3>5. \A c \in Block : View(c)' = disk[c]
      BY Zenon, <1>3, <3>1, <3>4, ViewClean
    <3>6. Mem' = disk
      BY Zenon, <1>2, <3>3, <3>5 DEF Mem
    <3>7. Mem' = Mem
      BY Zenon, <2>3, <3>1, <3>6 DEF Mem
    <3> QED
      BY <2>4, <3>3, <3>7, RefineStutter
  <2> QED
    BY Zenon, <1>5, <2>5, <2>6
<1> QED
  BY Zenon, <1>1, <1>4, <1>5

\* read_head() is invisible to TxnDisk.
LEMMA RefineReadHead ==
  ASSUME IInv, NEW p \in Proc, read_head(p)
  PROVE  UNCHANGED TD!vars
<1>1. pc[p] = "read_head" /\ UNCHANGED <<disk, dlog, hdr>> /\ pc \in [Proc -> PCs]
  BY Zenon DEF read_head, IInv, TypeOK
<1>2. p = InitProc /\ ~Up
  BY Zenon, <1>1, Booter DEF IInv, Booting
<1>3. /\ pc'[p] \in {"recover", "recover_clear"}
      /\ \A q \in Proc : q # p => pc'[q] = pc[q]
  BY Zenon, <1>1 DEF read_head
<1>4. ~Up' /\ Active' = Active
  BY Zenon, <1>1, <1>2, <1>3 DEF Up, Active, Booting
<1>5. Durable' = Durable /\ Mem' = Mem
  BY Zenon, <1>1, <1>2, <1>4 DEF Durable, Mem
<1> QED
  BY Zenon, <1>4, <1>5, RefineStutter

\* A crash is a crash of TxnDisk.
LEMMA RefineCrash ==
  ASSUME Crash
  PROVE  TD!Crash
<1>1. Durable' = Durable
  BY Zenon DEF Crash, Durable
<1>2. ~Up' /\ Active' = {}
  BY Zenon, LogAssumption DEF Crash, Boot, Up, Booting, Active
<1>3. Mem' = Durable
  BY Zenon, <1>1, <1>2 DEF Mem
<1> QED
  BY Zenon, <1>1, <1>2, <1>3 DEF TD!Crash

\* The log is atomic and durable: every behaviour of log.c, crashes included,
\* is one of a disk that commits groups of whole system calls at once.
THEOREM Refinement == Spec => Refines
<1>1. Init => TD!Init
  BY RefineInit
<1>2. IInv /\ [Next]_vars => [TD!Next]_(TD!vars)
  <2> SUFFICES ASSUME IInv, [Next]_vars
               PROVE  TD!Next \/ UNCHANGED TD!vars
    BY Zenon
  <2>1. ASSUME NEW b \in Block, Load(b) \/ Recycle(b)
        PROVE  UNCHANGED TD!vars
    BY Zenon, <2>1, RefineCache
  <2>2. ASSUME NEW p \in Proc,
               syscall(p) \/ begin_op(p) \/ log_write(p) \/ end_op(p) \/ end_commit(p) \/ commit(p)
        PROVE  TD!Next \/ UNCHANGED TD!vars
    BY Zenon, <2>2, RefineCall DEF TD!Next
  <2>3. ASSUME NEW p \in Proc, write_log(p) \/ install_trans(p) \/ write_head(p) \/ read_head(p)
        PROVE  TD!Next \/ UNCHANGED TD!vars
    BY Zenon, <2>3, RefineWriteLog, RefineInstall, RefineWriteHead, RefineReadHead DEF TD!Next
  <2>4. ASSUME NEW p \in Proc, NEW b \in Block, NEW v \in Val, modify(p, b, v)
        PROVE  TD!Next
    BY Zenon, <2>4, RefineModify DEF TD!Next
  <2>5. CASE Crash
    BY Zenon, <2>5, RefineCrash DEF TD!Next
  <2>6. CASE UNCHANGED vars
    <3>1. Durable' = Durable /\ Active' = Active /\ (Up' <=> Up)
      BY Zenon, <2>6 DEF vars, Durable, Active, Up
    <3>2. Mem' = Mem
      BY Zenon, <2>6, <3>1 DEF vars, Mem, View
    <3> QED
      BY Zenon, <3>1, <3>2, RefineStutter
  <2> QED
    BY Zenon, <2>1, <2>2, <2>3, <2>4, <2>5, <2>6 DEF Next, Step
<1> QED
  BY <1>1, <1>2, Invariant, PTL DEF Spec, Refines, TD!Spec

\* Once the last end_op() has returned, a crash loses nothing.
THEOREM Quiescence == Spec => []QuiescentDurable
<1>1. IInv => QuiescentDurable
  <2> SUFFICES ASSUME IInv, Up, outstanding = 0, ~committing
               PROVE  Durable = Mem
    BY Zenon DEF QuiescentDurable
  <2>1. lh = <<>> /\ hdr = <<>>
    BY Zenon DEF IInv, LogInv, PhaseInv, Committing
  <2>2. disk \in [Block -> Val]
    BY Zenon DEF IInv, TypeOK
  <2>3. Durable = disk
    BY Zenon, <2>1, <2>2, OverlayEmpty DEF Durable
  <2>4. \A p \in Proc : pc[p] # "op"
    BY Zenon, ActiveFinite, FS_EmptySet DEF IInv, PhaseInv, Active
  <2>5. \A c \in Block : Unlocked(c)
    BY Zenon, <2>4, LogAssumption DEF IInv, OpInv, Unlocked
  <2>6. Waiting = {}
    BY <2>1 DEF Waiting
  <2>7. \A c \in Block : View(c) = disk[c]
    BY Zenon, <2>5, <2>6, ViewClean
  <2> QED
    BY Zenon, <2>2, <2>3, <2>7 DEF Mem
<1> QED
  BY <1>1, Invariant, PTL

=============================================================================
