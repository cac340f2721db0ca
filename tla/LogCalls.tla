------------------------------ MODULE LogCalls ------------------------------
(* Proof that the steps of system calls and of the buffer cache keep the   *)
(* inductive invariant of Log: begin_op(), log_write(), end_op() and what  *)
(* comes between them.                                                     *)
EXTENDS Log, FiniteSetTheorems, TLAPS

USE DEF stable, logvars, procvars, Goto

\* A set of calls is finite, and so are the log blocks reserved for it.
LEMMA CallsFinite ==
  ASSUME NEW A \in SUBSET Proc
  PROVE  /\ IsFiniteSet(A)
         /\ Cardinality(A) \in Nat
         /\ IsFiniteSet(A \X (1..MAXOPBLOCKS))
         /\ Cardinality(A \X (1..MAXOPBLOCKS)) = Cardinality(A) * MAXOPBLOCKS
<1>1. IsFiniteSet(A)
  BY Zenon, LogAssumption, FS_Subset
<1>2. IsFiniteSet(1..MAXOPBLOCKS) /\ Cardinality(1..MAXOPBLOCKS) = MAXOPBLOCKS
  BY LogAssumption, FS_Interval
<1> QED
  BY Zenon, <1>1, <1>2, FS_Product, FS_CardinalityType

\* Active and Reserved are finite.
LEMMA ActiveFinite ==
  /\ IsFiniteSet(Active)
  /\ Cardinality(Active) \in Nat
  /\ IsFiniteSet(Reserved)
  /\ Cardinality(Reserved) \in Nat
<1>1. Active \in SUBSET Proc
  BY Zenon DEF Active
<1>2. IsFiniteSet(Active) /\ IsFiniteSet(Active \X (1..MAXOPBLOCKS)) /\ Cardinality(Active) \in Nat
  BY Zenon, <1>1, CallsFinite
<1>3. Reserved \subseteq Active \X (1..MAXOPBLOCKS)
  BY Zenon DEF Reserved
<1>4. IsFiniteSet(Reserved)
  BY Zenon, <1>2, <1>3, FS_Subset
<1> QED
  BY Zenon, <1>2, <1>4, FS_CardinalityType

\* A step that opens and closes no call and logs nothing keeps its promises.
LEMMA SpaceFrame ==
  ASSUME SpaceInv, Active' = Active, wset' = wset, Len(lh') <= Len(lh),
         lh \in Seq(Block), lh' \in Seq(Block)
  PROVE  SpaceInv'
<1>1. Reserved' = Reserved
  BY Zenon DEF Reserved
<1> QED
  BY <1>1, ActiveFinite, LogAssumption DEF SpaceInv

\* begin_op() keeps the invariant: it admits a call only if its blocks fit.
LEMMA BeginOp ==
  ASSUME IInv, NEW p \in Proc, begin_op(p)
  PROVE  IInv'
<1> USE DEF IInv
<1>1. CASE Admit
  <2>1. /\ outstanding' = outstanding + 1
        /\ pc' = [pc EXCEPT ![p] = "op"]
        /\ pc[p] = "begin"
        /\ UNCHANGED <<stable, cache, pin, lh, committing, tail, buf, wset>>
    BY Zenon, <1>1 DEF begin_op
  <2>2. TypeOK'
    BY <2>1 DEF TypeOK, PCs
  <2>3. Active' = Active \cup {p} /\ p \notin Active
    BY Zenon, <2>1 DEF Active, TypeOK
  <2>4. Cardinality(Active') = Cardinality(Active) + 1 /\ outstanding' = Cardinality(Active')
    BY Zenon, <2>1, <2>3, ActiveFinite, FS_AddElement DEF PhaseInv
  <2>5. ~committing
    BY Zenon, <1>1 DEF Admit
  <2>6. PhaseInv'
    BY <2>1, <2>4, <2>5 DEF PhaseInv, TypeOK, Up, Booting, Committing
  <2>7. OpInv'
    BY <2>1 DEF OpInv, TypeOK, Logged, Entries
  <2>8. SpaceInv'
    <3>1. Reserved' \subseteq Active' \X (1..MAXOPBLOCKS)
      BY Zenon DEF Reserved
    <3>2. Active' \in SUBSET Proc
      BY Zenon DEF Active
    <3>3. /\ IsFiniteSet(Active' \X (1..MAXOPBLOCKS))
          /\ Cardinality(Active' \X (1..MAXOPBLOCKS)) = Cardinality(Active') * MAXOPBLOCKS
          /\ Cardinality(Active') \in Nat
      BY Zenon, <3>2, CallsFinite
    <3>4. Cardinality(Reserved') <= Cardinality(Active') * MAXOPBLOCKS /\ Cardinality(Reserved') \in Nat
      BY Zenon, <3>1, <3>3, FS_Subset, FS_CardinalityType
    <3>5. Len(lh) + Cardinality(Active') * MAXOPBLOCKS <= LOGSIZE
      BY Zenon, <1>1, <2>1, <2>4 DEF Admit, LogSpace
    <3>6. Len(lh) \in Nat
      BY DEF TypeOK
    <3>7. Cardinality(Active') * MAXOPBLOCKS \in Nat
      <4> HIDE DEF IInv
      <4> QED BY <3>3, LogAssumption
    <3> QED
      BY <2>1, <3>4, <3>5, <3>6, <3>7, LogAssumption DEF SpaceInv
  <2>9. LogInv'
    BY <2>1, <2>4, ActiveFinite DEF LogInv, TypeOK, Up, Booting, PhaseInv
  <2>10. Waiting' = Waiting
    BY Zenon, <2>1 DEF Waiting, TypeOK
  <2>11. PinsMatchLog' /\ CacheInv'
    BY Zenon, <2>1, <2>10 DEF PinsMatchLog, CacheInv, Unlocked
  <2>12. CopyInv'
    <3>1. \A q \in Proc : pc'[q] = pc[q] \/ pc'[q] = "op"
      BY Zenon, <2>1 DEF TypeOK
    <3>2. \A c \in Block : View(c)' = View(c)
      BY Zenon, <2>1 DEF View
    <3>3. \A i \in 1..Len(lh) : lh[i] \in Block
      BY DEF TypeOK
    <3> QED
      BY SMTT(20), <2>1, <3>1, <3>2, <3>3 DEF CopyInv
  <2> QED
    BY Zenon, <2>2, <2>6, <2>7, <2>8, <2>9, <2>11, <2>12
<1>2. CASE ~Admit
  <2>1. /\ pc' = [pc EXCEPT ![p] = "sleep"]
        /\ pc[p] = "begin"
        /\ UNCHANGED <<stable, cache, pin, logvars, tail, buf, wset>>
    BY Zenon, <1>2 DEF begin_op
  <2>2. TypeOK'
    BY Zenon, <2>1 DEF TypeOK, PCs
  <2>3. Active' = Active
    BY Zenon, <2>1 DEF Active, TypeOK
  <2>4. PhaseInv'
    BY <2>1, <2>3 DEF PhaseInv, TypeOK, Up, Booting, Committing
  <2>5. OpInv'
    BY <2>1 DEF OpInv, TypeOK, Logged, Entries
  <2>6. SpaceInv'
    BY <2>1, <2>3, SpaceFrame DEF TypeOK
  <2>7. LogInv'
    BY <2>1 DEF LogInv, TypeOK, Up, Booting
  <2>8. Waiting' = Waiting
    BY Zenon, <2>1 DEF Waiting, TypeOK
  <2>9. PinsMatchLog' /\ CacheInv'
    BY Zenon, <2>1, <2>8 DEF PinsMatchLog, CacheInv, Unlocked
  <2>10. CopyInv'
    BY <2>1 DEF CopyInv, View, TypeOK
  <2> QED
    BY <2>2, <2>4, <2>5, <2>6, <2>7, <2>9, <2>10
<1> QED
  BY Zenon, <1>1, <1>2

\* bread() of a block that is not cached keeps the invariant.
LEMMA LoadStep ==
  ASSUME IInv, NEW b \in Block, Load(b)
  PROVE  IInv'
<1> USE DEF IInv, Load
<1>1. TypeOK'
  BY Zenon DEF TypeOK
<1>2. PhaseInv' /\ LogInv' /\ OpInv'
  BY DEF PhaseInv, LogInv, OpInv, Up, Active, Logged
<1>3. SpaceInv'
  BY SpaceFrame DEF Active, TypeOK
<1>4. PinsMatchLog'
  BY DEF PinsMatchLog, Waiting
<1>5. CacheInv'
  BY LogAssumption DEF CacheInv, TypeOK, Waiting, Unlocked
<1>6. CopyInv'
  BY DEF CopyInv, View, TypeOK
<1> QED
  BY Zenon, <1>1, <1>2, <1>3, <1>4, <1>5, <1>6

\* Recycling a buffer in bget() keeps the invariant: it is not pinned.
LEMMA RecycleStep ==
  ASSUME IInv, NEW b \in Block, Recycle(b)
  PROVE  IInv'
<1> USE DEF IInv, Recycle
<1>1. TypeOK'
  BY Zenon DEF TypeOK
<1>2. PhaseInv' /\ LogInv' /\ OpInv'
  BY DEF PhaseInv, LogInv, OpInv, Up, Active, Logged
<1>3. SpaceInv'
  BY SpaceFrame DEF Active, TypeOK
<1>4. PinsMatchLog'
  BY DEF PinsMatchLog, Waiting
<1>5. b \notin Waiting
  BY DEF PinsMatchLog
<1>6. CacheInv'
  <2>1. Waiting' = Waiting /\ \A c \in Block : Unlocked(c)' = Unlocked(c)
    BY Zenon DEF Waiting, Unlocked
  <2>2. \A c \in Block : cache'[c] = IF c = b THEN NoBuf ELSE cache[c]
    BY Zenon DEF TypeOK
  <2> QED
    BY Zenon, <1>5, <2>1, <2>2 DEF CacheInv
<1>7. cache[b] = disk[b]
  BY Zenon, <1>5 DEF CacheInv
<1>8. CopyInv'
  BY <1>7 DEF CopyInv, View, TypeOK
<1> QED
  BY Zenon, <1>1, <1>2, <1>3, <1>4, <1>6, <1>8

\* Entering a system call keeps the invariant.
LEMMA Syscall ==
  ASSUME IInv, NEW p \in Proc, syscall(p)
  PROVE  IInv'
<1> USE DEF IInv, syscall
<1>1. TypeOK'
  BY Zenon DEF TypeOK, PCs
<1>2. Active' = Active
  BY Zenon DEF Active, TypeOK
<1>3. PhaseInv'
  BY <1>2 DEF PhaseInv, TypeOK, Up, Booting, Committing
<1>4. OpInv'
  BY Zenon DEF OpInv, TypeOK, Logged
<1>5. SpaceInv'
  BY <1>2, SpaceFrame DEF TypeOK
<1>6. LogInv'
  BY DEF LogInv, TypeOK, Up, Booting
<1>7. Waiting' = Waiting
  BY Zenon DEF Waiting, TypeOK
<1>8. PinsMatchLog' /\ CacheInv'
  BY Zenon, <1>7 DEF PinsMatchLog, CacheInv, Unlocked
<1>9. CopyInv'
  BY DEF CopyInv, View, TypeOK
<1> QED
  BY Zenon, <1>1, <1>3, <1>4, <1>5, <1>6, <1>8, <1>9

\* Changing a locked buffer keeps the invariant.
LEMMA Modify ==
  ASSUME IInv, NEW p \in Proc, NEW b \in Block, NEW v \in Val, modify(p, b, v)
  PROVE  IInv'
<1> USE DEF IInv, modify
<1>1. TypeOK'
  BY Zenon DEF TypeOK
<1>2. PhaseInv' /\ LogInv'
  BY DEF PhaseInv, LogInv, Up, Active
<1>3. OpInv'
  <2>1. \A q \in Proc : buf'[q] = IF q = p THEN b ELSE buf[q]
    BY Zenon DEF TypeOK
  <2>2. \A q \in Proc : buf[q] # b
    BY Zenon DEF Unlocked
  <2> QED
    BY <2>1, <2>2 DEF OpInv, Logged
<1>4. SpaceInv'
  BY SpaceFrame DEF Active, TypeOK
<1>5. Waiting' = Waiting
  BY Zenon DEF Waiting
<1>6. PinsMatchLog'
  BY Zenon, <1>5 DEF PinsMatchLog
<1>7. CacheInv'
  <2>1. cache'[b] # NoBuf /\ ~Unlocked(b)'
    BY Zenon, LogAssumption DEF TypeOK, Unlocked
  <2>2. ASSUME NEW c \in Block, c # b
        PROVE  cache'[c] = cache[c] /\ (Unlocked(c)' <=> Unlocked(c))
    BY Zenon, <2>2, LogAssumption DEF TypeOK, Unlocked
  <2> QED
    BY Zenon, <1>5, <2>1, <2>2 DEF CacheInv
<1>8. CopyInv'
  <2>1. \A q \in Proc : pc[q] \notin Committing
    BY Zenon DEF PhaseInv, Active
  <2>2. \A q \in Proc : pc[q] \notin Booting
    BY Zenon DEF PhaseInv, Up, Booting
  <2> QED
    BY Zenon, <2>1, <2>2 DEF CopyInv, Committing, Booting
<1> QED
  BY Zenon, <1>1, <1>2, <1>3, <1>4, <1>6, <1>7, <1>8

\* While a call is open nobody boots or commits, and all that is logged waits.
LEMMA OpenCall ==
  ASSUME TypeOK, PhaseInv, NEW p \in Proc, pc[p] = "op"
  PROVE  /\ Up
         /\ ~committing
         /\ \A q \in Proc : pc[q] \notin Committing /\ pc[q] \notin Booting
         /\ Waiting = Logged
<1>1. Up /\ ~committing
  BY Zenon DEF PhaseInv, Up, Booting, Active
<1>2. \A q \in Proc : pc[q] \notin Committing /\ pc[q] \notin Booting
  BY Zenon, <1>1 DEF PhaseInv, Up
<1>3. Waiting = Logged
  BY Zenon, <1>2 DEF Waiting, Logged, Entries, Committing, Booting
<1> QED
  BY Zenon, <1>1, <1>2, <1>3

\* What log_write() does to a list of block numbers when it adds one.
LEMMA AppendBlock ==
  ASSUME NEW s \in Seq(Block), NEW b \in Block
  PROVE  /\ Append(s, b) \in Seq(Block)
         /\ Len(s) \in Nat
         /\ Len(Append(s, b)) = Len(s) + 1
         /\ \A i \in 1..Len(s) + 1 : Append(s, b)[i] = IF i = Len(s) + 1 THEN b ELSE s[i]
         /\ Entries(Append(s, b)) = Entries(s) \cup {b}
<1>1. /\ Append(s, b) \in Seq(Block)
      /\ Len(s) \in Nat
      /\ Len(Append(s, b)) = Len(s) + 1
      /\ \A i \in 1..Len(s) + 1 : Append(s, b)[i] = IF i = Len(s) + 1 THEN b ELSE s[i]
  OBVIOUS
<1>2. 1..Len(s) + 1 = (1..Len(s)) \cup {Len(s) + 1} /\ Len(s) + 1 \notin 1..Len(s)
  BY <1>1
<1>3. Entries(Append(s, b)) = Entries(s) \cup {b}
  BY Zenon, <1>1, <1>2 DEF Entries
<1> QED
  BY Zenon, <1>1, <1>3

\* log_write() keeps the invariant: a new block uses up one reserved block.
LEMMA LogWrite ==
  ASSUME IInv, NEW p \in Proc, log_write(p)
  PROVE  IInv'
<1> DEFINE b == buf[p]
<1> USE DEF IInv
<1>1. /\ pc[p] = "op" /\ b \in Block /\ b # NoBlock
      /\ buf' = [buf EXCEPT ![p] = NoBlock]
      /\ wset' = [wset EXCEPT ![p] = @ \cup {b}]
      /\ UNCHANGED <<stable, cache, outstanding, committing, pc, tail>>
  BY Zenon DEF log_write, TypeOK
<1>2. /\ Up /\ ~committing /\ Waiting = Logged
      /\ \A q \in Proc : pc[q] \notin Committing /\ pc[q] \notin Booting
  BY Zenon, <1>1, OpenCall
<1>3. \/ b \in Logged /\ UNCHANGED <<lh, pin>>
      \/ b \notin Logged /\ lh' = Append(lh, b) /\ pin' = [pin EXCEPT ![b] = @ + 1]
  BY Zenon DEF log_write, bpin
<1>4. TypeOK'
  <2>1. lh' \in Seq(Block)
    <3>1. lh \in Seq(Block)
      BY Zenon DEF TypeOK
    <3>2. Append(lh, b) \in Seq(Block)
      BY Zenon, <1>1, <3>1, AppendBlock
    <3> QED
      BY Zenon, <1>3, <3>1, <3>2
  <2>2. pin' \in [Block -> Nat]
    BY <1>1, <1>3 DEF TypeOK
  <2>3. wset' \in [Proc -> SUBSET Block] /\ buf' \in [Proc -> Block \cup {NoBlock}]
    BY Zenon, <1>1 DEF TypeOK
  <2> QED
    BY Zenon, <1>1, <2>1, <2>2, <2>3 DEF TypeOK
<1>5. Active' = Active
  BY Zenon, <1>1 DEF Active
<1>6. PhaseInv'
  BY Zenon, <1>1, <1>5 DEF PhaseInv, Up
<1>7. Logged' = Logged \cup {b}
  <2>1. CASE b \in Logged
    BY Zenon, <1>3, <2>1 DEF Logged
  <2>2. CASE b \notin Logged
    BY Zenon, <1>1, <1>3, <2>2, AppendBlock DEF Logged, TypeOK
  <2> QED
    BY Zenon, <2>1, <2>2
<1>8. Waiting' = Logged'
  BY Zenon, <1>1, <1>2 DEF Waiting, Logged, Entries, Committing, Booting
<1>9. \A q \in Proc : /\ buf'[q] = IF q = p THEN NoBlock ELSE buf[q]
                      /\ wset'[q] = IF q = p THEN wset[p] \cup {b} ELSE wset[q]
  BY Zenon, <1>1 DEF TypeOK
<1>10. IsFiniteSet(wset[p]) /\ IsFiniteSet(wset[p] \cup {b}) /\ Cardinality(wset[p] \cup {b}) <= OPBLOCKS
  BY Zenon, <1>1, FS_AddElement DEF OpInv
<1>11. OpInv'
  BY <1>1, <1>7, <1>9, <1>10 DEF OpInv
<1>12. SpaceInv'
  <2>1. Cardinality(wset[p]) \in Nat /\ Cardinality(wset[p] \cup {b}) \in Nat
    BY Zenon, <1>10, FS_CardinalityType
  <2>2. CASE b \in Logged
    <3>1. Cardinality(wset[p]) <= Cardinality(wset[p] \cup {b})
      BY Zenon, <1>10, FS_Subset
    <3>2. Reserved' \subseteq Reserved
      BY <1>5, <1>9, <2>1, <3>1 DEF Reserved, Active
    <3>3. Cardinality(Reserved') <= Cardinality(Reserved) /\ Cardinality(Reserved') \in Nat
      BY Zenon, <3>2, ActiveFinite, FS_Subset, FS_CardinalityType
    <3> QED
      BY <1>3, <2>2, <3>3, ActiveFinite, LogAssumption DEF SpaceInv, TypeOK
  <2>3. CASE b \notin Logged
    <3> DEFINE r == <<p, Cardinality(wset[p]) + 1>>
    <3>1. Cardinality(wset[p] \cup {b}) = Cardinality(wset[p]) + 1
      BY Zenon, <1>10, <2>3, FS_AddElement DEF OpInv
    <3>2. r \in Reserved
      BY <1>1, <1>10, <2>1, <3>1, LogAssumption DEF Reserved, Active
    <3>3. Reserved' = Reserved \ {r}
      BY <1>5, <1>9, <2>1, <3>1 DEF Reserved, Active
    <3>4. Cardinality(Reserved') = Cardinality(Reserved) - 1
      BY Zenon, <3>2, <3>3, ActiveFinite, FS_RemoveElement
    <3>5. Len(lh') = Len(lh) + 1 /\ Len(lh) \in Nat
      BY <1>1, <1>3, <2>3 DEF TypeOK
    <3> QED
      BY <3>4, <3>5, ActiveFinite, LogAssumption DEF SpaceInv
  <2> QED
    BY Zenon, <2>2, <2>3
<1>13. LogInv'
  <2>1. \A i, j \in 1..Len(lh') : lh'[i] = lh'[j] => i = j
    <3>1. CASE b \in Logged
      BY Zenon, <1>3, <3>1 DEF LogInv
    <3>2. CASE b \notin Logged
      <4>1. lh \in Seq(Block) /\ lh' = Append(lh, b)
        BY Zenon, <1>3, <3>2 DEF TypeOK
      <4>2. /\ Len(lh) \in Nat
            /\ Len(lh') = Len(lh) + 1
            /\ \A i \in 1..Len(lh) + 1 : lh'[i] = IF i = Len(lh) + 1 THEN b ELSE lh[i]
        BY Zenon, <1>1, <4>1, AppendBlock
      <4>3. \A i \in 1..Len(lh) : lh[i] # b
        BY Zenon, <3>2 DEF Logged, Entries
      <4>4. \A i, j \in 1..Len(lh) : lh[i] = lh[j] => i = j
        BY Zenon DEF LogInv
      <4> HIDE DEF IInv, b
      <4> QED
        BY <4>2, <4>3, <4>4
    <3> QED
      BY Zenon, <3>1, <3>2
  <2>2. outstanding # 0
    <3>1. Active # {}
      BY Zenon, <1>1 DEF Active
    <3> QED
      BY Zenon, <3>1, ActiveFinite, FS_EmptySet DEF PhaseInv
  <2> QED
    BY <1>1, <1>2, <2>1, <2>2 DEF LogInv, Up, Committing, Booting
<1>14. PinsMatchLog'
  BY <1>1, <1>2, <1>3, <1>7, <1>8 DEF PinsMatchLog, TypeOK
<1>15. CacheInv'
  <2>1. \A c \in Block : c # b => (Unlocked(c)' <=> Unlocked(c))
    BY Zenon, <1>9, LogAssumption DEF Unlocked
  <2>2. cache[b] # NoBuf
    BY Zenon, <1>1 DEF CacheInv, Unlocked
  <2>3. \A c \in Block : ~Unlocked(c)' => ~Unlocked(c)
    BY Zenon, <1>9, LogAssumption DEF Unlocked
  <2> QED
    BY Zenon, <1>1, <1>2, <1>7, <1>8, <2>1, <2>2, <2>3 DEF CacheInv
<1>16. CopyInv'
  BY Zenon, <1>1, <1>2 DEF CopyInv, Committing, Booting
<1> QED
  BY Zenon, <1>4, <1>6, <1>11, <1>12, <1>13, <1>14, <1>15, <1>16

\* The first half of end_op() keeps the invariant.
LEMMA EndOp ==
  ASSUME IInv, NEW p \in Proc, end_op(p)
  PROVE  IInv'
<1> USE DEF IInv
<1>1. /\ pc[p] = "op" /\ buf[p] = NoBlock /\ ~committing
      /\ outstanding' = outstanding - 1
      /\ wset' = [wset EXCEPT ![p] = {}]
      /\ UNCHANGED <<stable, cache, pin, lh, tail, buf>>
  BY Zenon DEF end_op
<1>2. /\ Up /\ Waiting = Logged
      /\ \A q \in Proc : pc[q] \notin Committing /\ pc[q] \notin Booting
  BY Zenon, <1>1, OpenCall
<1>3. pc' \in [Proc -> PCs] /\ committing' \in BOOLEAN
  BY Zenon, <1>1 DEF end_op, TypeOK, wakeup, PCs
<1>4. \A q \in Proc : q # p => pc'[q] = pc[q] \/ (pc[q] = "sleep" /\ pc'[q] = "begin")
  BY Zenon, <1>1 DEF end_op, TypeOK, wakeup
<1>5. \/ outstanding' = 0 /\ committing' /\ pc'[p] = "commit"
      \/ outstanding' # 0 /\ ~committing' /\ pc'[p] = "user"
  BY Zenon, <1>1 DEF end_op, TypeOK, wakeup
<1>6. Active' = Active \ {p} /\ p \in Active
  BY Zenon, <1>1, <1>4, <1>5 DEF Active
<1>7. outstanding' = Cardinality(Active') /\ outstanding' \in Nat /\ IsFiniteSet(Active')
  <2>1. IsFiniteSet(Active') /\ Cardinality(Active') = Cardinality(Active) - 1
    BY Zenon, <1>6, ActiveFinite, FS_RemoveElement
  <2> QED
    BY Zenon, <1>1, <2>1, FS_CardinalityType DEF PhaseInv
<1>8. TypeOK'
  <2>1. wset' \in [Proc -> SUBSET Block]
    BY Zenon, <1>1 DEF TypeOK
  <2> QED
    BY Zenon, <1>1, <1>3, <1>7, <2>1 DEF TypeOK
<1>9. Up' /\ \A q \in Proc : pc'[q] \notin Booting
  BY Zenon, <1>2, <1>4, <1>5, LogAssumption DEF Up, Booting
<1>10. PhaseInv'
  <2>1. \A q \in Proc : q # p => pc'[q] \notin Committing
    BY Zenon, <1>2, <1>4 DEF Committing
  <2>2. \A q \in Proc : pc'[q] # "unused"
    BY Zenon, <1>2, <1>4, <1>5 DEF PhaseInv
  <2>3. committing' => Active' = {}
    BY Zenon, <1>5, <1>7, FS_EmptySet
  <2>4. committing' <=> pc'[p] \in Committing
    BY Zenon, <1>5 DEF Committing
  <2> QED
    BY Zenon, <1>7, <1>9, <2>1, <2>2, <2>3, <2>4 DEF PhaseInv
<1>11. \A q \in Proc : wset'[q] = IF q = p THEN {} ELSE wset[q]
  BY Zenon, <1>1 DEF TypeOK
<1>12. OpInv'
  <2>1. \A q \in Proc : q # p /\ pc'[q] # "op" => pc[q] # "op"
    BY Zenon, <1>4
  <2> QED
    BY <1>1, <1>11, <2>1, FS_EmptySet, LogAssumption DEF OpInv, Logged
<1>13. SpaceInv'
  <2>1. \A q \in Active' : q \in Active /\ wset'[q] = wset[q]
    BY Zenon, <1>6, <1>11 DEF Active
  <2>2. Reserved' \subseteq Reserved
    BY Zenon, <2>1 DEF Reserved
  <2>3. Cardinality(Reserved') <= Cardinality(Reserved) /\ Cardinality(Reserved') \in Nat
    BY <2>2, ActiveFinite, FS_Subset, FS_CardinalityType
  <2> QED
    BY <1>1, <2>3, ActiveFinite, LogAssumption DEF SpaceInv, TypeOK
<1>14. \A q \in Proc : pc'[q] \notin {"write_log", "write_head", "install", "recover", "clear", "committed",
                                      "read_head", "recover_clear"}
  BY Zenon, <1>2, <1>4, <1>5 DEF Committing, Booting
<1>15. LogInv'
  <2>1. hdr = <<>>
    BY Zenon, <1>2 DEF LogInv, Committing
  <2> QED
    BY <1>1, <1>5, <1>14, <2>1 DEF LogInv
<1>16. Waiting' = Waiting
  BY Zenon, <1>1, <1>2, <1>14 DEF Waiting, Logged, Entries
<1>17. PinsMatchLog' /\ CacheInv'
  BY Zenon, <1>1, <1>16 DEF PinsMatchLog, CacheInv, Unlocked
<1>18. CopyInv'
  BY Zenon, <1>14 DEF CopyInv
<1> QED
  BY <1>8, <1>10, <1>12, <1>13, <1>15, <1>17, <1>18

\* The process that commits is the only one, with no call open and the
\* system up.
LEMMA Committer ==
  ASSUME TypeOK, PhaseInv, OpInv, NEW p \in Proc, pc[p] \in Committing
  PROVE  /\ Up /\ committing /\ Active = {} /\ outstanding = 0
         /\ \A q \in Proc : pc[q] \notin Booting /\ pc[q] # "op" /\ buf[q] = NoBlock
         /\ \A q \in Proc : q # p => pc[q] \notin Committing
         /\ \A b \in Block : Unlocked(b)
<1>1. Up
  BY Zenon DEF PhaseInv, Up, Booting, Committing
<1>2. committing /\ Active = {}
  BY Zenon DEF PhaseInv
<1>3. outstanding = 0
  BY Zenon, <1>2, FS_EmptySet DEF PhaseInv
<1>4. \A q \in Proc : q # p => pc[q] \notin Committing
  BY Zenon DEF PhaseInv
<1>5. \A q \in Proc : pc[q] \notin Booting /\ pc[q] # "op"
  BY Zenon, <1>1, <1>2 DEF PhaseInv, Up, Active
<1>6. \A q \in Proc : buf[q] = NoBlock
  BY Zenon, <1>5 DEF OpInv
<1>7. \A b \in Block : Unlocked(b)
  BY Zenon, <1>6, LogAssumption DEF Unlocked
<1> QED
  BY Zenon, <1>1, <1>2, <1>3, <1>4, <1>5, <1>6, <1>7

\* The end of a committing end_op() keeps the invariant.
LEMMA EndCommit ==
  ASSUME IInv, NEW p \in Proc, end_commit(p)
  PROVE  IInv'
<1> USE DEF IInv
<1>1. /\ pc[p] = "committed" /\ committing' = FALSE
      /\ UNCHANGED <<stable, cache, pin, lh, outstanding, tail, buf, wset>>
  BY Zenon DEF end_commit
<1>2. pc[p] \in Committing
  BY Zenon, <1>1 DEF Committing
<1>3. /\ Up /\ Active = {} /\ outstanding = 0
      /\ \A q \in Proc : pc[q] \notin Booting /\ pc[q] # "op"
      /\ \A q \in Proc : q # p => pc[q] \notin Committing
  BY Zenon, <1>2, Committer
<1>4. pc' \in [Proc -> PCs]
  BY Zenon, <1>1 DEF end_commit, TypeOK, wakeup, PCs
<1>5. /\ pc'[p] = "user"
      /\ \A q \in Proc : q # p => pc'[q] = pc[q] \/ (pc[q] = "sleep" /\ pc'[q] = "begin")
  BY Zenon, <1>1 DEF end_commit, TypeOK, wakeup
<1>6. TypeOK'
  BY Zenon, <1>1, <1>4 DEF TypeOK
<1>7. \A q \in Proc : pc'[q] \notin Committing /\ pc'[q] \notin Booting /\ pc'[q] # "op" /\ pc'[q] # "unused"
  BY <1>3, <1>5 DEF Committing, Booting, PhaseInv
<1>8. Active' = Active /\ Up'
  BY Zenon, <1>3, <1>7, LogAssumption DEF Active, Up
<1>9. PhaseInv'
  BY Zenon, <1>1, <1>3, <1>7, <1>8, FS_EmptySet DEF PhaseInv
<1>10. OpInv'
  BY Zenon, <1>1, <1>3 DEF OpInv, Logged
<1>11. SpaceInv'
  BY <1>1, <1>8, SpaceFrame DEF TypeOK
<1>12. lh = <<>> /\ hdr = <<>>
  <2>1. lh = <<>>
    BY Zenon, <1>1 DEF LogInv
  <2>2. \A q \in Proc : pc[q] \notin {"install", "clear"}
    BY Zenon, <1>1, <1>3 DEF Committing
  <2> QED
    BY Zenon, <1>3, <2>1, <2>2 DEF LogInv
<1>13. LogInv'
  BY <1>1, <1>7, <1>12 DEF LogInv, Committing, Booting
<1>14. Waiting' = Waiting
  BY <1>1, <1>12 DEF Waiting
<1>15. PinsMatchLog' /\ CacheInv'
  BY Zenon, <1>1, <1>14 DEF PinsMatchLog, CacheInv, Unlocked
<1>16. CopyInv'
  BY Zenon, <1>7 DEF CopyInv, Committing, Booting
<1> QED
  BY <1>6, <1>9, <1>10, <1>11, <1>13, <1>15, <1>16
=============================================================================
