--------------------------- MODULE BufCacheProof ---------------------------
(***************************************************************************)
(* Proofs about BufCache, for any number of processes, blocks and buffers: *)
(* IInv is inductive (one lemma per action), the counts and the ownership  *)
(* of buffers follow from it, and under it the cache implements            *)
(* BlockStore.                                                             *)
(***************************************************************************)
EXTENDS BufCache, FiniteSetTheorems, TLAPS

\* Where a process has b->lock.
Holds == {"bread", "have", "dirty", "written"}

\* A process has a buffer and a block outside of user code, and only there.
CallInv == \A p \in Proc : /\ pc[p] = "user" => buf[p] = None /\ want[p] = None
                           /\ pc[p] # "user" => buf[p] \in Buf /\ want[p] \in Block
                                                /\ blockno[buf[p]] = want[p]

\* At most one buffer claims a block.
OneCopy == \A b, c \in Buf : blockno[b] = blockno[c] /\ blockno[b] # None => b = c

\* b->lock names the process between acquiresleep() and brelse().
LockInv == /\ \A p \in Proc : pc[p] \in Holds => lock[buf[p]] = p
           /\ \A b \in Buf : lock[b] # None => buf[lock[b]] = b /\ pc[lock[b]] \in Holds

\* A buffer that may be recycled agrees with the disk.
CleanInv ==
  /\ \A b \in Buf : valid[b] => blockno[b] # None
  /\ \A p \in Proc : pc[p] \in Holds \ {"bread"} => valid[buf[p]]
  /\ \A b \in Buf : valid[b] /\ b \notin pinned /\ ~(\E p \in Proc : buf[p] = b /\ pc[p] = "dirty")
                      => data[b] = disk[blockno[b]]
  /\ \A p \in Proc : pc[p] = "written" => data[buf[p]] = disk[blockno[buf[p]]]

\* The inductive invariant.
IInv == TypeOK /\ RefCount /\ CallInv /\ OneCopy /\ LockInv /\ CleanInv

\* The processes that hold a reference to b.
Users(b) == {p \in Proc : buf[p] = b}

USE DEF bufvars, Goto

\* None is no process, block or buffer.
LEMMA Nones == None \notin Proc /\ None \notin Block /\ None \notin Buf
BY CacheAssumption

\* The constants, as the counting arguments use them.
LEMMA Finite == /\ IsFiniteSet(Proc) /\ IsFiniteSet(Buf)
                /\ Cardinality(Proc) \in Nat /\ Cardinality(Buf) \in Nat
BY CacheAssumption, FS_CardinalityType

\* A buffer has finitely many users.
LEMMA UsersFinite ==
  ASSUME NEW b
  PROVE  IsFiniteSet(Users(b)) /\ Cardinality(Users(b)) \in Nat
BY Finite, FS_Subset, FS_CardinalityType DEF Users

\* A buffer without references has neither users nor a pin.
LEMMA Unused ==
  ASSUME IInv, NEW b \in Buf, refcnt[b] = 0
  PROVE  Users(b) = {} /\ b \notin pinned
<1>1. refcnt[b] = Cardinality(Users(b)) + (IF b \in pinned THEN 1 ELSE 0)
  BY DEF IInv, RefCount, Users
<1> QED
  BY <1>1, UsersFinite, FS_EmptySet

\* The end of bget().
LEMMA AcquiresleepStep ==
  ASSUME IInv, NEW p \in Proc, acquiresleep(p)
  PROVE  IInv'
<1> USE Nones DEF acquiresleep
<1>1. TypeOK'
  BY DEF IInv, TypeOK, CallInv
<1>2. RefCount'
  <2>1. UNCHANGED <<refcnt, pinned, buf>>
    OBVIOUS
  <2> QED
    BY DEF IInv, RefCount
<1>3. CallInv'
  BY DEF IInv, CallInv
<1>4. OneCopy'
  BY DEF IInv, OneCopy
<1>5. LockInv'
  BY DEF IInv, TypeOK, CallInv, LockInv, Holds
<1>6. CleanInv'
  BY DEF IInv, CleanInv
<1> QED
  BY <1>1, <1>2, <1>3, <1>4, <1>5, <1>6 DEF IInv

\* A buffer that is not valid is read from the disk.
LEMMA BreadStep ==
  ASSUME IInv, NEW p \in Proc, bread(p)
  PROVE  IInv'
<1> USE Nones DEF bread
<1>1. TypeOK'
  BY DEF IInv, TypeOK, CallInv
<1>2. RefCount'
  <2>1. UNCHANGED <<refcnt, pinned, buf>>
    OBVIOUS
  <2> QED
    BY DEF IInv, RefCount
<1>3. CallInv'
  BY DEF IInv, CallInv
<1>4. OneCopy'
  BY DEF IInv, OneCopy
<1>5. LockInv'
  BY DEF IInv, LockInv, Holds
<1>6. CleanInv'
  BY DEF IInv, TypeOK, CallInv, CleanInv
<1> QED
  BY <1>1, <1>2, <1>3, <1>4, <1>5, <1>6 DEF IInv

\* The holder changes the contents.
LEMMA ModifyStep ==
  ASSUME IInv, NEW p \in Proc, NEW v \in Val, modify(p, v)
  PROVE  IInv'
<1> USE Nones DEF modify
<1>1. TypeOK'
  BY DEF IInv, TypeOK, CallInv
<1>2. RefCount'
  <2>1. UNCHANGED <<refcnt, pinned, buf>>
    OBVIOUS
  <2> QED
    BY DEF IInv, RefCount
<1>3. CallInv'
  BY DEF IInv, CallInv
<1>4. OneCopy'
  BY DEF IInv, OneCopy
<1>5. LockInv'
  BY DEF IInv, LockInv, Holds
<1>6. CleanInv'
  BY DEF IInv, TypeOK, LockInv, CleanInv, Holds
<1> QED
  BY <1>1, <1>2, <1>3, <1>4, <1>5, <1>6 DEF IInv

\* The buffer is written home.
LEMMA BwriteStep ==
  ASSUME IInv, NEW p \in Proc, bwrite(p)
  PROVE  IInv'
<1> USE Nones DEF bwrite
<1>1. TypeOK'
  BY DEF IInv, TypeOK, CallInv
<1>2. RefCount'
  <2>1. UNCHANGED <<refcnt, pinned, buf>>
    OBVIOUS
  <2> QED
    BY DEF IInv, RefCount
<1>3. CallInv'
  BY DEF IInv, CallInv
<1>4. OneCopy'
  BY DEF IInv, OneCopy
<1>5. LockInv'
  BY DEF IInv, LockInv, Holds
<1>6. CleanInv'
  BY DEF IInv, TypeOK, CallInv, OneCopy, CleanInv, Holds
<1> QED
  BY <1>1, <1>2, <1>3, <1>4, <1>5, <1>6 DEF IInv

\* The lock is released, the reference stays.
LEMMA BrelseStep ==
  ASSUME IInv, NEW p \in Proc, brelse(p)
  PROVE  IInv'
<1> USE Nones DEF brelse
<1>1. TypeOK'
  BY DEF IInv, TypeOK, CallInv
<1>2. RefCount'
  <2>1. UNCHANGED <<refcnt, pinned, buf>>
    OBVIOUS
  <2> QED
    BY DEF IInv, RefCount
<1>3. CallInv'
  BY DEF IInv, CallInv
<1>4. OneCopy'
  BY DEF IInv, OneCopy
<1>5. LockInv'
  BY DEF IInv, TypeOK, LockInv, Holds
<1>6. CleanInv'
  BY DEF IInv, CleanInv, Holds
<1> QED
  BY <1>1, <1>2, <1>3, <1>4, <1>5, <1>6 DEF IInv

\* A non-empty set of positions has a largest one.
LEMMA MaxIn ==
  ASSUME NEW n \in Nat, NEW I \in SUBSET (1..n), I # {}
  PROVE  Max(I) \in I
<1> DEFINE T == {n - i : i \in I}
           R == OpToRel(<, Nat)
<1>1. T \subseteq Nat /\ T # {}
  <2>1. \A i \in I : i \in 1..n /\ n - i \in Nat
    OBVIOUS
  <2>2. PICK i \in I : TRUE
    BY Zenon
  <2>3. T \subseteq Nat
    BY <2>1
  <2>4. n - i \in T
    BY Zenon
  <2> QED
    BY Zenon, <2>3, <2>4
<1>2. PICK x \in T : \A y \in T : ~(<<y, x>> \in R)
  <2> HIDE DEF T, R
  <2>1. IsWellFoundedOn(R, Nat)
    BY Zenon, NatLessThanWellFounded DEF R
  <2> QED
    BY Zenon, <1>1, <2>1, WFMin
<1>3. PICK i \in I : x = n - i
  OBVIOUS
<1>4. \A j \in I : i >= j
  <2> SUFFICES ASSUME NEW j \in I PROVE i >= j
    OBVIOUS
  <2>1. ~(<<n - j, x>> \in R)
    BY Zenon, <1>2
  <2>2. n - j \in Nat /\ x \in Nat
    BY <1>1
  <2> QED
    BY <1>3, <2>1 DEF OpToRel
<1> QED
  BY Zenon, <1>4 DEF Max

\* The scan from the old end of the list finds an unused buffer if there is
\* one.
LEMMA OldestFree ==
  ASSUME IInv, \E b \in Buf : Recyclable(b)
  PROVE  Oldest \in Buf /\ refcnt[Oldest] = 0
<1> DEFINE I == {i \in DOMAIN order : Recyclable(order[i])}
<1>1. Cardinality(Buf) \in Nat /\ DOMAIN order = 1..Cardinality(Buf)
  BY Finite DEF IInv, TypeOK, Surjection
<1>2. I # {}
  <2>1. PICK b \in Buf : Recyclable(b)
    OBVIOUS
  <2>2. PICK i \in DOMAIN order : order[i] = b
    BY DEF IInv, TypeOK, Surjection
  <2> QED
    BY <2>1, <2>2
<1>3. Max(I) \in I
  BY Zenon, <1>1, <1>2, MaxIn
<1> QED
  BY <1>3 DEF Oldest, Recyclable, IInv, TypeOK, Surjection

\* bget() finds the block in the cache, or recycles an unused buffer.
LEMMA BgetStep ==
  ASSUME IInv, NEW p \in Proc, NEW k \in Block, bget(p, k)
  PROVE  IInv'
<1>0. /\ pc[p] = "user" /\ buf[p] = None
      /\ pc' = [pc EXCEPT ![p] = "lock"] /\ want' = [want EXCEPT ![p] = k]
      /\ UNCHANGED <<data, lock, order, pinned, disk>>
  BY DEF bget, IInv, CallInv
<1>1. ASSUME NEW b \in Buf, blockno[b] = k,
             refcnt' = [refcnt EXCEPT ![b] = @ + 1], buf' = [buf EXCEPT ![p] = b],
             UNCHANGED <<blockno, valid>>
      PROVE  IInv'
  <2> USE <1>0, <1>1, Nones
  <2>1. TypeOK'
    BY DEF IInv, TypeOK
  <2>2. RefCount'
    <3> SUFFICES ASSUME NEW c \in Buf
                 PROVE  refcnt'[c] = Cardinality(Users(c)') + (IF c \in pinned' THEN 1 ELSE 0)
      BY DEF RefCount, Users
    <3>1. refcnt[c] = Cardinality(Users(c)) + (IF c \in pinned THEN 1 ELSE 0)
      BY DEF IInv, RefCount, Users
    <3>2. CASE c # b
      <4>1. Users(c)' = Users(c)
        BY <3>2 DEF Users
      <4> QED
        BY <3>1, <3>2, <4>1
    <3>3. CASE c = b
      <4>1. Users(c)' = Users(c) \cup {p} /\ p \notin Users(c)
        BY <3>3 DEF Users, IInv, TypeOK
      <4>2. Cardinality(Users(c)') = Cardinality(Users(c)) + 1
        BY Zenon, <4>1, UsersFinite, FS_AddElement
      <4> QED
        BY <3>1, <3>3, <4>2, UsersFinite DEF IInv, TypeOK
    <3> QED
      BY <3>2, <3>3
  <2>3. CallInv'
    BY DEF IInv, TypeOK, CallInv
  <2>4. OneCopy'
    BY DEF IInv, OneCopy
  <2>5. LockInv'
    BY DEF IInv, LockInv, Holds
  <2>6. CleanInv'
    BY DEF IInv, CleanInv, Holds
  <2> QED
    BY <2>1, <2>2, <2>3, <2>4, <2>5, <2>6 DEF IInv
<1>2. ASSUME NEW b \in Buf, refcnt[b] = 0, Cached(k) = {},
             blockno' = [blockno EXCEPT ![b] = k], valid' = [valid EXCEPT ![b] = FALSE],
             refcnt' = [refcnt EXCEPT ![b] = 1], buf' = [buf EXCEPT ![p] = b]
      PROVE  IInv'
  <2> USE <1>0, <1>2, Nones
  <2>0. /\ b \notin pinned
        /\ \A q \in Proc : buf[q] # b
        /\ \A c \in Buf : blockno[c] # k
    BY Unused DEF Users, Cached
  <2>1. TypeOK'
    BY DEF IInv, TypeOK
  <2>2. RefCount'
    <3> SUFFICES ASSUME NEW c \in Buf
                 PROVE  refcnt'[c] = Cardinality(Users(c)') + (IF c \in pinned' THEN 1 ELSE 0)
      BY DEF RefCount, Users
    <3>1. refcnt[c] = Cardinality(Users(c)) + (IF c \in pinned THEN 1 ELSE 0)
      BY DEF IInv, RefCount, Users
    <3>2. CASE c # b
      <4>1. Users(c)' = Users(c)
        BY <3>2 DEF Users
      <4> QED
        BY <3>1, <3>2, <4>1
    <3>3. CASE c = b
      <4>1. Users(c)' = {p}
        BY <2>0, <3>3 DEF Users, IInv, TypeOK
      <4>2. Cardinality(Users(c)') = 1
        BY Zenon, <4>1, FS_Singleton
      <4> QED
        BY <2>0, <3>3, <4>2 DEF IInv, TypeOK
    <3> QED
      BY <3>2, <3>3
  <2>3. CallInv'
    BY <2>0 DEF IInv, TypeOK, CallInv
  <2>4. OneCopy'
    BY <2>0 DEF IInv, OneCopy
  <2>5. LockInv'
    BY DEF IInv, LockInv, Holds
  <2>6. CleanInv'
    BY <2>0 DEF IInv, TypeOK, CleanInv, Holds
  <2> QED
    BY <2>1, <2>2, <2>3, <2>4, <2>5, <2>6 DEF IInv
<1>3. CASE \E b \in Cached(k) : refcnt' = [refcnt EXCEPT ![b] = @ + 1] /\ buf' = [buf EXCEPT ![p] = b]
                                /\ UNCHANGED <<blockno, valid>>
  BY Zenon, <1>1, <1>3 DEF Cached
<1>4. CASE /\ Cached(k) = {} /\ \E b \in Buf : Recyclable(b)
           /\ blockno' = [blockno EXCEPT ![Oldest] = k] /\ valid' = [valid EXCEPT ![Oldest] = FALSE]
           /\ refcnt' = [refcnt EXCEPT ![Oldest] = 1] /\ buf' = [buf EXCEPT ![p] = Oldest]
  BY Zenon, <1>2, <1>4, OldestFree
<1> QED
  BY Zenon, <1>3, <1>4 DEF bget

\* The reference counts after a step that pins or unpins b.
LEMMA PinCount ==
  ASSUME IInv, NEW b \in Buf, UNCHANGED buf,
         \/ b \notin pinned /\ pinned' = pinned \cup {b} /\ refcnt' = [refcnt EXCEPT ![b] = @ + 1]
         \/ b \in pinned /\ pinned' = pinned \ {b} /\ refcnt' = [refcnt EXCEPT ![b] = @ - 1]
  PROVE  RefCount' /\ refcnt' \in [Buf -> Nat]
<1>1. \A c \in Buf : Cardinality({p \in Proc : buf'[p] = c}) = Cardinality({p \in Proc : buf[p] = c})
  OBVIOUS
<1>2. ASSUME NEW c \in Buf
      PROVE  /\ refcnt'[c] = Cardinality({p \in Proc : buf'[p] = c}) + (IF c \in pinned' THEN 1 ELSE 0)
             /\ refcnt'[c] \in Nat
  <2>1. refcnt[c] = Cardinality(Users(c)) + (IF c \in pinned THEN 1 ELSE 0)
    BY DEF IInv, RefCount, Users
  <2>2. Cardinality({p \in Proc : buf'[p] = c}) = Cardinality(Users(c)) /\ Cardinality(Users(c)) \in Nat
    BY UsersFinite DEF Users
  <2>3. refcnt \in [Buf -> Nat]
    BY DEF IInv, TypeOK
  <2> QED
    BY <2>1, <2>2, <2>3
<1>3. refcnt' \in [Buf -> Nat]
  BY Zenon, <1>2 DEF IInv, TypeOK
<1> QED
  BY <1>2, <1>3 DEF RefCount

\* A block enters the log, or is in it already.
LEMMA LogWriteStep ==
  ASSUME IInv, NEW p \in Proc, log_write(p)
  PROVE  IInv'
<1>0. /\ pc[p] = "dirty" /\ buf[p] \in Buf /\ pinned' = pinned \cup {buf[p]}
      /\ pc' = [pc EXCEPT ![p] = "have"]
      /\ UNCHANGED <<blockno, valid, data, lock, order, disk, want, buf>>
  BY DEF log_write, IInv, CallInv
<1>1. RefCount' /\ refcnt' \in [Buf -> Nat]
  <2>1. CASE buf[p] \in pinned
    BY <1>0, <2>1 DEF log_write, Pins, IInv, TypeOK, RefCount
  <2>2. CASE buf[p] \notin pinned
    BY Zenon, <1>0, <2>2, PinCount DEF log_write, Pins
  <2> QED
    BY <2>1, <2>2
<1>3. TypeOK' /\ CallInv' /\ OneCopy'
  BY <1>0, <1>1 DEF IInv, TypeOK, CallInv, OneCopy
<1>4. LockInv'
  BY <1>0 DEF IInv, LockInv, Holds
<1>5. CleanInv'
  BY <1>0 DEF IInv, CleanInv, Holds
<1> QED
  BY <1>1, <1>3, <1>4, <1>5 DEF IInv

\* A block leaves the log when it is at home.
LEMMA BunpinStep ==
  ASSUME IInv, NEW p \in Proc, bunpin(p)
  PROVE  IInv'
<1>0. /\ pc[p] = "written" /\ buf[p] \in pinned /\ pinned' = pinned \ {buf[p]}
      /\ refcnt' = [refcnt EXCEPT ![buf[p]] = @ - 1]
      /\ pc' = [pc EXCEPT ![p] = "have"]
      /\ UNCHANGED <<blockno, valid, data, lock, order, disk, want, buf>>
  BY DEF bunpin
<1>1. RefCount' /\ refcnt' \in [Buf -> Nat]
  BY Zenon, <1>0, PinCount DEF IInv, TypeOK
<1>3. TypeOK' /\ CallInv' /\ OneCopy'
  BY <1>0, <1>1 DEF IInv, TypeOK, CallInv, OneCopy
<1>4. LockInv'
  BY <1>0 DEF IInv, LockInv, Holds
<1>5. CleanInv'
  BY <1>0 DEF IInv, CleanInv, Holds
<1> QED
  BY <1>1, <1>3, <1>4, <1>5 DEF IInv

\* Moving a buffer to the front loses none and doubles none.
LEMMA MovedToHead ==
  ASSUME IInv, NEW b \in Buf
  PROVE  MoveToHead(b) \in Surjection(1..Cardinality(Buf), Buf)
<1> DEFINE n == Cardinality(Buf)
           at == CHOOSE i \in DOMAIN order : order[i] = b
<1>0. n \in Nat /\ order \in [1..n -> Buf] /\ DOMAIN order = 1..n
  BY Finite DEF IInv, TypeOK, Surjection
<1>1. \A c \in Buf : \E i \in 1..n : order[i] = c
  BY DEF IInv, TypeOK, Surjection
<1>2. at \in 1..n /\ order[at] = b
  BY <1>0, <1>1
<1>3. MoveToHead(b) = [i \in 1..n |-> IF i = 1 THEN b ELSE IF i <= at THEN order[i - 1] ELSE order[i]]
  BY <1>0 DEF MoveToHead
<1> HIDE DEF n, at
<1>4. MoveToHead(b) \in [1..n -> Buf]
  BY <1>0, <1>3
<1>5. ASSUME NEW c \in Buf
      PROVE  \E i \in 1..n : MoveToHead(b)[i] = c
  <2>1. PICK j \in 1..n : order[j] = c
    BY <1>1
  <2>2. CASE c = b
    <3>1. 1 \in 1..n /\ MoveToHead(b)[1] = b
      BY <1>0, <1>3
    <3> QED
      BY <2>2, <3>1
  <2>3. CASE c # b /\ j < at
    <3>1. j + 1 \in 1..n /\ MoveToHead(b)[j + 1] = c
      BY <1>0, <1>2, <1>3, <2>1, <2>3
    <3> QED
      BY <3>1
  <2>4. CASE c # b /\ j > at
    <3>1. MoveToHead(b)[j] = c
      BY <1>2, <1>3, <2>1, <2>4
    <3> QED
      BY <3>1
  <2> QED
    BY <1>2, <2>1, <2>2, <2>3, <2>4
<1> QED
  BY <1>4, <1>5 DEF Surjection, n

\* The reference is dropped, and an unused buffer goes to the front.
LEMMA BrelseUnrefStep ==
  ASSUME IInv, NEW p \in Proc, brelse_unref(p)
  PROVE  IInv'
<1> PICK b : b = buf[p]
  OBVIOUS
<1>0. /\ pc[p] = "brelse" /\ b \in Buf /\ buf[p] = b /\ want[p] \in Block
      /\ refcnt' = [refcnt EXCEPT ![b] = refcnt[b] - 1]
      /\ order' \in {order, MoveToHead(b)}
      /\ buf' = [buf EXCEPT ![p] = None] /\ want' = [want EXCEPT ![p] = None]
      /\ pc' = [pc EXCEPT ![p] = "user"]
      /\ UNCHANGED <<blockno, valid, data, lock, pinned, disk>>
  BY DEF brelse_unref, Drop, IInv, CallInv
<1>1. refcnt[b] = Cardinality(Users(b)) + (IF b \in pinned THEN 1 ELSE 0)
  BY <1>0 DEF IInv, RefCount, Users
<1>2. p \in Users(b) /\ Users(b)' = Users(b) \ {p}
  BY <1>0, Nones DEF Users, IInv, TypeOK
<1>3. Cardinality(Users(b)') = Cardinality(Users(b)) - 1 /\ Cardinality(Users(b)') \in Nat
  <2>1. Cardinality(Users(b) \ {p}) = Cardinality(Users(b)) - 1 /\ IsFiniteSet(Users(b) \ {p})
    BY <1>2, UsersFinite, FS_RemoveElement
  <2> QED
    BY <1>2, <2>1, FS_CardinalityType
<1>4. RefCount'
  <2> SUFFICES ASSUME NEW c \in Buf
               PROVE  refcnt'[c] = Cardinality(Users(c)') + (IF c \in pinned' THEN 1 ELSE 0)
    BY DEF RefCount, Users
  <2>1. CASE c # b
    <3>1. Users(c)' = Users(c)
      BY <1>0, <2>1, Nones DEF Users
    <3>2. refcnt[c] = Cardinality(Users(c)) + (IF c \in pinned THEN 1 ELSE 0)
      BY DEF IInv, RefCount, Users
    <3> QED
      BY <1>0, <2>1, <3>1, <3>2
  <2>2. CASE c = b
    BY <1>0, <1>1, <1>3, <2>2, UsersFinite DEF IInv, TypeOK
  <2> QED
    BY <2>1, <2>2
<1>5. TypeOK'
  <2>1. refcnt' \in [Buf -> Nat]
    BY <1>0, <1>1, <1>3, UsersFinite DEF IInv, TypeOK
  <2>2. order' \in Surjection(1..Cardinality(Buf), Buf)
    BY <1>0, MovedToHead DEF IInv, TypeOK
  <2> QED
    BY <1>0, <2>1, <2>2 DEF IInv, TypeOK
<1>6. CallInv' /\ OneCopy'
  BY <1>0 DEF IInv, TypeOK, CallInv, OneCopy
<1>7. LockInv'
  BY <1>0 DEF IInv, LockInv, Holds
<1>8. CleanInv'
  BY <1>0 DEF IInv, CleanInv, Holds
<1> QED
  BY <1>4, <1>5, <1>6, <1>7, <1>8 DEF IInv

\* The empty cache of binit().
LEMMA InitStep == ASSUME Init PROVE IInv
<1> USE Nones DEF Init
<1>1. order \in Surjection(1..Cardinality(Buf), Buf)
  BY DEF Bijection
<1>2. TypeOK
  BY <1>1 DEF TypeOK
<1>3. RefCount
  <2> SUFFICES ASSUME NEW b \in Buf
               PROVE  0 = Cardinality({p \in Proc : buf[p] = b})
    BY DEF RefCount
  <2>1. {p \in Proc : buf[p] = b} = {}
    OBVIOUS
  <2> QED
    BY Zenon, FS_EmptySet
<1>5. CallInv /\ OneCopy /\ LockInv /\ CleanInv
  BY DEF CallInv, OneCopy, LockInv, CleanInv, Holds
<1> QED
  BY <1>2, <1>3, <1>5 DEF IInv

\* The invariant is inductive.
THEOREM Invariant == Spec => []IInv
<1>1. IInv /\ [Next]_vars => IInv'
  <2> SUFFICES ASSUME IInv, [Next]_vars
               PROVE  IInv'
    BY Zenon
  <2>1. ASSUME NEW p \in Proc, NEW k \in Block, bget(p, k)
        PROVE  IInv'
    BY Zenon, <2>1, BgetStep
  <2>2. ASSUME NEW p \in Proc, NEW v \in Val, modify(p, v)
        PROVE  IInv'
    BY Zenon, <2>2, ModifyStep
  <2>3. ASSUME NEW p \in Proc,
               \/ acquiresleep(p) \/ bread(p) \/ log_write(p) \/ bwrite(p) \/ bunpin(p)
               \/ brelse(p) \/ brelse_unref(p)
        PROVE  IInv'
    BY Zenon, <2>3, AcquiresleepStep, BreadStep, LogWriteStep, BwriteStep, BunpinStep,
       BrelseStep, BrelseUnrefStep
  <2>4. CASE UNCHANGED vars
    <3>1. RefCount'
      <4>1. UNCHANGED <<refcnt, pinned, buf>>
        BY <2>4 DEF vars
      <4> QED
        BY <4>1 DEF IInv, RefCount
    <3> QED
      BY <2>4, <3>1 DEF vars, IInv, TypeOK, CallInv, OneCopy, LockInv, CleanInv
  <2> QED
    BY Zenon, <2>1, <2>2, <2>3, <2>4 DEF Next
<1> QED
  BY InitStep, <1>1, PTL DEF Spec

\* Reference counts are exact and a process has the only buffer of its
\* block, for any number of processes, blocks and buffers.
THEOREM Consistent == Spec => []CacheConsistent
<1>1. IInv => CacheConsistent
  <2> SUFFICES ASSUME IInv
               PROVE  RightBuffer
    BY DEF CacheConsistent, IInv
  <2> QED
    BY Nones DEF IInv, RightBuffer, CallInv, OneCopy, Cached
<1> QED
  BY <1>1, Invariant, PTL

-----------------------------------------------------------------------------
(* The refinement: every step takes, changes or gives back one block or    *)
(* leaves what users see alone.                                            *)

\* Where a process uses its buffer's contents.
Using == {"have", "dirty", "written"}

\* What View chooses: at most one valid buffer has the block.
LEMMA ViewIs ==
  ASSUME IInv, NEW k \in Block
  PROVE  /\ \A b \in Buf : blockno[b] = k /\ valid[b] => View(k) = data[b]
         /\ (\A b \in Buf : ~(blockno[b] = k /\ valid[b])) => View(k) = disk[k]
BY Nones DEF IInv, OneCopy, View, Cached

\* The same after a step.
LEMMA ViewIsNext ==
  ASSUME IInv', NEW k \in Block
  PROVE  /\ \A b \in Buf : blockno'[b] = k /\ valid'[b] => View(k)' = data'[b]
         /\ (\A b \in Buf : ~(blockno'[b] = k /\ valid'[b])) => View(k)' = disk'[k]
BY Nones DEF IInv, OneCopy, View, Cached

\* The user of a block is the process past bread() that asked for it: b->lock
\* excludes a second one.
LEMMA UserIs ==
  ASSUME IInv, NEW k \in Block
  PROVE  /\ \A p \in Proc : pc[p] \in Using /\ want[p] = k => User(k) = p
         /\ (\A p \in Proc : ~(pc[p] \in Using /\ want[p] = k)) => User(k) = None
<1>1. ASSUME NEW p \in Proc, NEW q \in Proc, pc[p] \in Using, want[p] = k,
             pc[q] \in Using, want[q] = k
      PROVE  p = q
  <2>1. buf[p] \in Buf /\ buf[q] \in Buf /\ blockno[buf[p]] = k /\ blockno[buf[q]] = k
    BY <1>1 DEF IInv, CallInv, Using
  <2>2. lock[buf[p]] = p /\ lock[buf[q]] = q
    BY <1>1 DEF IInv, LockInv, Using, Holds
  <2> QED
    BY <2>1, <2>2, Nones DEF IInv, OneCopy
<1> QED
  BY <1>1 DEF User, Using

\* The same after a step.
LEMMA UserIsNext ==
  ASSUME IInv', NEW k \in Block
  PROVE  /\ \A p \in Proc : pc'[p] \in Using /\ want'[p] = k => User(k)' = p
         /\ (\A p \in Proc : ~(pc'[p] \in Using /\ want'[p] = k)) => User(k)' = None
<1>1. ASSUME NEW p \in Proc, NEW q \in Proc, pc'[p] \in Using, want'[p] = k,
             pc'[q] \in Using, want'[q] = k
      PROVE  p = q
  <2>1. buf'[p] \in Buf /\ buf'[q] \in Buf /\ blockno'[buf'[p]] = k /\ blockno'[buf'[q]] = k
    BY <1>1 DEF IInv, CallInv, Using
  <2>2. lock'[buf'[p]] = p /\ lock'[buf'[q]] = q
    BY <1>1 DEF IInv, LockInv, Using, Holds
  <2> QED
    BY <2>1, <2>2, Nones DEF IInv, OneCopy
<1> QED
  BY <1>1 DEF User, Using

\* A step that leaves the users of a block alone.
LEMMA SameUser ==
  ASSUME IInv, IInv',
         \A p \in Proc : (pc[p] \in Using <=> pc'[p] \in Using) /\ (pc[p] \in Using => want'[p] = want[p])
  PROVE  \A k \in Block : User(k)' = User(k)
<1> SUFFICES ASSUME NEW k \in Block
             PROVE  User(k)' = User(k)
  OBVIOUS
<1>1. CASE \E p \in Proc : pc[p] \in Using /\ want[p] = k
  BY <1>1, UserIs, UserIsNext
<1>2. CASE ~ \E p \in Proc : pc[p] \in Using /\ want[p] = k
  BY <1>2, UserIs, UserIsNext
<1> QED
  BY <1>1, <1>2

\* A step that leaves buffers and disk alone.
LEMMA SameView ==
  ASSUME UNCHANGED <<blockno, valid, data, disk>>
  PROVE  \A k \in Block : View(k)' = View(k)
BY DEF View, Cached

\* Recycling a clean buffer loses nothing: the disk has its contents.
LEMMA BgetView ==
  ASSUME IInv, IInv', NEW p \in Proc, NEW k \in Block, bget(p, k)
  PROVE  \A j \in Block : View(j)' = View(j)
<1> USE Nones
<1>1. CASE UNCHANGED <<blockno, valid>>
  BY <1>1, SameView DEF bget
<1>2. CASE /\ Cached(k) = {}
           /\ \E b \in Buf : Recyclable(b)
           /\ blockno' = [blockno EXCEPT ![Oldest] = k]
           /\ valid' = [valid EXCEPT ![Oldest] = FALSE]
  <2>1. PICK b : b = Oldest
    OBVIOUS
  <2>2. b \in Buf /\ refcnt[b] = 0
    BY <1>2, <2>1, OldestFree
  <2>3. Users(b) = {} /\ b \notin pinned
    BY <2>2, Unused
  <2>4. valid[b] => blockno[b] # None /\ data[b] = disk[blockno[b]]
    BY <2>2, <2>3 DEF IInv, CleanInv, Users
  <2>5. UNCHANGED <<data, disk>>
    BY DEF bget
  <2>6. \A c \in Buf : c # b => blockno'[c] = blockno[c] /\ valid'[c] = valid[c]
    BY <1>2, <2>1 DEF IInv, TypeOK
  <2>7. valid'[b] = FALSE
    BY <1>2, <2>1, <2>2 DEF IInv, TypeOK
  <2> SUFFICES ASSUME NEW j \in Block
               PROVE  View(j)' = View(j)
    OBVIOUS
  <2>8. CASE \E c \in Buf : c # b /\ blockno[c] = j /\ valid[c]
    BY <2>5, <2>6, <2>8, ViewIs, ViewIsNext
  <2>9. CASE ~ \E c \in Buf : c # b /\ blockno[c] = j /\ valid[c]
    <3>1. View(j)' = disk[j]
      BY <2>5, <2>6, <2>7, <2>9, ViewIsNext
    <3>2. CASE blockno[b] = j /\ valid[b]
      BY <2>2, <2>4, <3>1, <3>2, ViewIs
    <3>3. CASE ~(blockno[b] = j /\ valid[b])
      BY <2>9, <3>1, <3>3, ViewIs
    <3> QED
      BY <3>2, <3>3
  <2> QED
    BY <2>8, <2>9
<1> QED
  BY <1>1, <1>2 DEF bget

\* Reading in a buffer shows what the disk has.
LEMMA BreadView ==
  ASSUME IInv, IInv', NEW p \in Proc, bread(p)
  PROVE  \A j \in Block : View(j)' = View(j)
<1> USE Nones
<1> SUFFICES ASSUME NEW j \in Block
             PROVE  View(j)' = View(j)
  OBVIOUS
<1>1. PICK b : b = buf[p]
  OBVIOUS
<1>2. b \in Buf /\ UNCHANGED <<blockno, disk>> /\ valid'[b] = TRUE
      /\ data'[b] = (IF valid[b] THEN data[b] ELSE disk[blockno[b]])
  BY <1>1 DEF IInv, TypeOK, CallInv, bread
<1>3. \A c \in Buf : c # b => data'[c] = data[c] /\ valid'[c] = valid[c]
  BY <1>1, <1>2 DEF IInv, TypeOK, bread
<1>4. CASE blockno[b] = j
  <2>1. View(j)' = data'[b]
    BY <1>2, <1>4, ViewIsNext
  <2>2. CASE valid[b]
    BY <1>2, <1>4, <2>1, <2>2, ViewIs
  <2>3. CASE ~valid[b]
    <3>1. \A c \in Buf : ~(blockno[c] = j /\ valid[c])
      BY <1>2, <1>4, <2>3 DEF IInv, OneCopy
    <3> QED
      BY <1>2, <1>4, <2>1, <2>3, <3>1, ViewIs
  <2> QED
    BY <2>2, <2>3
<1>5. CASE blockno[b] # j
  <2>1. CASE \E c \in Buf : blockno[c] = j /\ valid[c]
    BY <1>2, <1>3, <1>5, <2>1, ViewIs, ViewIsNext
  <2>2. CASE ~ \E c \in Buf : blockno[c] = j /\ valid[c]
    BY <1>2, <1>3, <1>5, <2>2, ViewIs, ViewIsNext
  <2> QED
    BY <2>1, <2>2
<1> QED
  BY <1>4, <1>5

\* Writing back a buffer does not change what it shows.
LEMMA BwriteView ==
  ASSUME IInv, IInv', NEW p \in Proc, bwrite(p)
  PROVE  \A j \in Block : View(j)' = View(j)
<1> USE Nones
<1> SUFFICES ASSUME NEW j \in Block
             PROVE  View(j)' = View(j)
  OBVIOUS
<1>1. PICK b : b = buf[p]
  OBVIOUS
<1>2. b \in Buf /\ valid[b] /\ blockno[b] \in Block
  BY SMTT(30), <1>1 DEF IInv, TypeOK, CallInv, CleanInv, Holds, bwrite
<1>3. UNCHANGED <<blockno, valid, data>> /\ disk' = [disk EXCEPT ![blockno[b]] = data[b]]
  BY <1>1 DEF bwrite
<1>4. CASE \E c \in Buf : blockno[c] = j /\ valid[c]
  BY <1>3, <1>4, ViewIs, ViewIsNext
<1>5. CASE ~ \E c \in Buf : blockno[c] = j /\ valid[c]
  <2>1. blockno[b] # j
    BY <1>2, <1>5
  <2>2. disk'[j] = disk[j]
    BY SMTT(30), <1>3, <2>1 DEF IInv, TypeOK
  <2> QED
    BY <1>3, <1>5, <2>2, ViewIs, ViewIsNext
<1> QED
  BY <1>4, <1>5

\* The user of a buffer changes its block and no other.
LEMMA ModifyView ==
  ASSUME IInv, IInv', NEW p \in Proc, NEW v \in Val, modify(p, v)
  PROVE  want[p] \in Block /\ \A j \in Block : View(j)' = IF j = want[p] THEN v ELSE View(j)
<1> USE Nones
<1>0. want[p] \in Block
  BY DEF IInv, CallInv, modify
<1> SUFFICES ASSUME NEW j \in Block
             PROVE  View(j)' = IF j = want[p] THEN v ELSE View(j)
  BY <1>0
<1>1. PICK b : b = buf[p]
  OBVIOUS
<1>2. b \in Buf /\ valid[b] /\ blockno[b] = want[p]
  BY <1>1 DEF IInv, CallInv, CleanInv, Holds, modify
<1>3. UNCHANGED <<blockno, valid, disk>> /\ data'[b] = v /\ \A c \in Buf : c # b => data'[c] = data[c]
  BY SMTT(30), <1>1, <1>2 DEF IInv, TypeOK, modify
<1>4. CASE j = want[p]
  BY <1>2, <1>3, <1>4, ViewIsNext
<1>5. CASE j # want[p] /\ \E c \in Buf : blockno[c] = j /\ valid[c]
  BY <1>2, <1>3, <1>5, ViewIs, ViewIsNext
<1>6. CASE j # want[p] /\ ~ \E c \in Buf : blockno[c] = j /\ valid[c]
  BY <1>3, <1>6, ViewIs, ViewIsNext
<1> QED
  BY SMTT(30), <1>4, <1>5, <1>6

\* A process gets a block's contents only when nobody uses them ...
LEMMA BreadUser ==
  ASSUME IInv, IInv', NEW p \in Proc, bread(p)
  PROVE  /\ want[p] \in Block /\ User(want[p]) = None
         /\ \A j \in Block : User(j)' = IF j = want[p] THEN p ELSE User(j)
<1> USE Nones
<1>1. want[p] \in Block /\ buf[p] \in Buf /\ lock[buf[p]] = p /\ pc[p] = "bread" /\ blockno[buf[p]] = want[p]
  BY DEF IInv, CallInv, LockInv, Holds, bread
<1>2. \A q \in Proc : pc[q] \in Using => want[q] # want[p]
  <2> SUFFICES ASSUME NEW q \in Proc, pc[q] \in Using, want[q] = want[p]
               PROVE  FALSE
    OBVIOUS
  <2>1. buf[q] \in Buf /\ blockno[buf[q]] = want[p] /\ lock[buf[q]] = q
    BY SMTT(30) DEF IInv, CallInv, LockInv, Holds, Using
  <2>2. buf[q] = buf[p]
    BY <1>1, <2>1 DEF IInv, OneCopy
  <2> QED
    BY <1>1, <2>1, <2>2 DEF Using
<1>3. pc'[p] \in Using /\ UNCHANGED want /\ \A q \in Proc : q # p => pc'[q] = pc[q]
  BY DEF IInv, TypeOK, bread, Using
<1>4. ASSUME NEW j \in Block, j # want[p]
      PROVE  User(j)' = User(j)
  <2>1. CASE \E q \in Proc : pc[q] \in Using /\ want[q] = j
    BY <1>3, <1>4, <2>1, UserIs, UserIsNext
  <2>2. CASE ~ \E q \in Proc : pc[q] \in Using /\ want[q] = j
    BY <1>3, <1>4, <2>2, UserIs, UserIsNext
  <2> QED
    BY SMTT(30), <2>1, <2>2
<1> QED
  BY <1>1, <1>2, <1>3, <1>4, UserIs, UserIsNext

\* ... and nobody does after brelse().
LEMMA BrelseUser ==
  ASSUME IInv, IInv', NEW p \in Proc, brelse(p)
  PROVE  /\ want[p] \in Block /\ User(want[p]) = p
         /\ \A j \in Block : User(j)' = IF j = want[p] THEN None ELSE User(j)
<1> USE Nones
<1>1. want[p] \in Block /\ pc[p] \in Using
  BY DEF IInv, CallInv, Using, brelse
<1>2. User(want[p]) = p
  BY <1>1, UserIs
<1>3. pc'[p] \notin Using /\ UNCHANGED want /\ \A q \in Proc : q # p => pc'[q] = pc[q]
  BY DEF IInv, TypeOK, brelse, Using
<1>4. \A q \in Proc : pc'[q] \in Using => pc[q] \in Using /\ want[q] # want[p]
  BY SMTT(30), <1>1, <1>2, <1>3, UserIs
<1>5. User(want[p])' = None
  BY SMTT(30), <1>1, <1>3, <1>4, UserIsNext
<1>6. ASSUME NEW j \in Block, j # want[p]
      PROVE  User(j)' = User(j)
  <2>1. CASE \E q \in Proc : pc[q] \in Using /\ want[q] = j
    BY <1>3, <1>6, <2>1, UserIs, UserIsNext
  <2>2. CASE ~ \E q \in Proc : pc[q] \in Using /\ want[q] = j
    BY <1>3, <1>4, <1>6, <2>2, UserIs, UserIsNext
  <2> QED
    BY <2>1, <2>2
<1>7. ASSUME NEW j \in Block
      PROVE  User(j)' = IF j = want[p] THEN None ELSE User(j)
  <2>1. CASE j = want[p]
    BY <1>3, <1>5, <2>1
  <2>2. CASE j # want[p]
    BY <1>6, <2>2
  <2> QED
    BY <2>1, <2>2
<1> QED
  BY <1>1, <1>2, <1>7

\* The cache implements a register per block, used by one process at a time:
\* bread() takes it, brelse() gives it back, only modify() changes it.
THEOREM Refinement == Spec => Refines
<1> DEFINE mem == [k \in Block |-> View(k)]
           user == [k \in Block |-> User(k)]
<1>1. Init => BS!Init
  <2> SUFFICES ASSUME Init
               PROVE  BS!Init
    OBVIOUS
  <2>1. \A k \in Block : View(k) = disk[k]
    BY DEF Init, View, Cached
  <2>2. \A k \in Block : User(k) = None
    BY DEF Init, User
  <2> QED
    BY <2>1, <2>2 DEF Init, BS!Init
<1>2. IInv /\ IInv' /\ [Next]_vars => [BS!Next]_<<mem, user>>
  <2> SUFFICES ASSUME IInv, IInv', [Next]_vars
               PROVE  BS!Next \/ UNCHANGED <<mem, user>>
    BY Zenon
  <2>0. ASSUME \A k \in Block : View(k)' = View(k), \A k \in Block : User(k)' = User(k)
        PROVE  UNCHANGED <<mem, user>>
    BY <2>0
  <2>1. ASSUME NEW p \in Proc, NEW k \in Block, bget(p, k)
        PROVE  UNCHANGED <<mem, user>>
    <3>1. \A j \in Block : User(j)' = User(j)
      BY <2>1, SameUser DEF IInv, TypeOK, bget, Using
    <3> QED
      BY Zenon, <2>0, <2>1, <3>1, BgetView
  <2>2. ASSUME NEW p \in Proc,
               acquiresleep(p) \/ log_write(p) \/ bunpin(p) \/ brelse_unref(p)
        PROVE  UNCHANGED <<mem, user>>
    <3>1. \A q \in Proc : (pc[q] \in Using <=> pc'[q] \in Using) /\ (pc[q] \in Using => want'[q] = want[q])
      <4>1. pc = [q \in Proc |-> pc[q]] /\ want \in [Proc -> Block \cup {None}]
        BY DEF IInv, TypeOK
      <4>2. CASE acquiresleep(p)
        BY <4>1, <4>2 DEF acquiresleep, Using
      <4>3. CASE log_write(p)
        BY <4>1, <4>3 DEF log_write, Using
      <4>4. CASE bunpin(p)
        BY <4>1, <4>4 DEF bunpin, Using
      <4>5. CASE brelse_unref(p)
        BY <4>1, <4>5 DEF brelse_unref, Using
      <4> QED
        BY Zenon, <2>2, <4>2, <4>3, <4>4, <4>5
    <3>2. UNCHANGED <<blockno, valid, data, disk>>
      BY Zenon, <2>2 DEF acquiresleep, log_write, bunpin, brelse_unref
    <3> QED
      BY Zenon, <2>0, <3>1, <3>2, SameUser, SameView
  <2>3. ASSUME NEW p \in Proc, bwrite(p)
        PROVE  UNCHANGED <<mem, user>>
    <3>1. \A q \in Proc : (pc[q] \in Using <=> pc'[q] \in Using) /\ (pc[q] \in Using => want'[q] = want[q])
      BY <2>3 DEF IInv, TypeOK, bwrite, Using
    <3> QED
      BY Zenon, <2>0, <2>3, <3>1, SameUser, BwriteView
  <2>4. ASSUME NEW p \in Proc, bread(p)
        PROVE  BS!Next
    <3>1. BS!Take(p, want[p])
      BY <2>4, BreadView, BreadUser DEF BS!Take
    <3> QED
      BY <2>4, <3>1, BreadUser DEF BS!Next
  <2>5. ASSUME NEW p \in Proc, brelse(p)
        PROVE  BS!Next
    <3>0. UNCHANGED <<blockno, valid, data, disk>>
      BY <2>5 DEF brelse
    <3>1. BS!Give(p, want[p])
      BY <2>5, <3>0, SameView, BrelseUser DEF BS!Give
    <3> QED
      BY <2>5, <3>1, BrelseUser DEF BS!Next
  <2>6. ASSUME NEW p \in Proc, NEW v \in Val, modify(p, v)
        PROVE  BS!Next
    <3>1. \A q \in Proc : (pc[q] \in Using <=> pc'[q] \in Using) /\ (pc[q] \in Using => want'[q] = want[q])
      BY <2>6 DEF IInv, TypeOK, modify, Using
    <3>2. \A k \in Block : User(k)' = User(k)
      BY <3>1, SameUser
    <3>3. want[p] \in Block /\ User(want[p]) = p
      BY Zenon, <2>6, ModifyView, UserIs DEF modify, Using
    <3>4. BS!Change(p, want[p], v)
      BY Zenon, <2>6, <3>2, <3>3, ModifyView DEF BS!Change
    <3> QED
      BY SMTT(30), <3>3, <3>4 DEF BS!Next
  <2>7. CASE UNCHANGED vars
    <3>1. \A q \in Proc : (pc[q] \in Using <=> pc'[q] \in Using) /\ (pc[q] \in Using => want'[q] = want[q])
      BY <2>7 DEF vars
    <3>2. UNCHANGED <<blockno, valid, data, disk>>
      BY <2>7 DEF vars
    <3> QED
      BY Zenon, <2>0, <3>1, <3>2, SameUser, SameView
  <2> HIDE DEF mem, user
  <2> QED
    BY Zenon, <2>1, <2>2, <2>3, <2>4, <2>5, <2>6, <2>7 DEF Next
<1> QED
  BY <1>1, <1>2, Invariant, PTL DEF Spec, Refines, BS!Spec
=============================================================================
