------------------------------ MODULE FileData ------------------------------
(***************************************************************************)
(* The contents of a file: block allocation, bmap(), itrunc(), readi() and *)
(* writei() of kernel/fs.c, and fileread() and filewrite() of file.c.      *)
(*                                                                         *)
(* fd is the inode with its blocks, which hold BSIZE numbers each, the     *)
(* indirect block numbers of blocks: cont is what bread() returns, home    *)
(* what has been logged.  A step is one transaction with the inode locked: *)
(* a piece of a write, a read, a truncating open; log is the set of blocks *)
(* it writes.  Process p writes the byte p.                                *)
(***************************************************************************)
EXTENDS Integers, Sequences, FiniteSets

CONSTANTS Proc, Open,
          NBLOCK,       \* blocks for data, numbered from 1
          Taken,        \* possible sets of blocks of other files
          BSIZE, BPB,   \* numbers in a block; bits in a bitmap block
          NDIRECT, MAXOPBLOCKS,
          UINT,         \* offsets are computed modulo UINT (2^32)
          LENGTHS       \* lengths of writes and reads, which may be negative

VARIABLES fd,     \* addr, cont, home, used, size, log
          off,    \* f->off
          taken,  \* blocks of other files
          th,     \* write() in progress: open file, n and i
          logged  \* number of blocks that the last transaction wrote

vars == <<fd, off, taken, th, logged>>

Block == 1..NBLOCK
NINDIRECT == BSIZE
MAXFILE == NDIRECT + NINDIRECT
Zeroes == [k \in 0..BSIZE - 1 |-> 0]
Idle == [f |-> 0, n |-> 0, i |-> 0]
Least(S) == CHOOSE x \in S : \A y \in S : x <= y
Min2(a, b) == IF a < b THEN a ELSE b

Init ==
  /\ taken \in Taken
  /\ fd = [addr |-> [k \in 0..NDIRECT |-> 0], cont |-> [b \in Block |-> Zeroes],
           home |-> [b \in Block |-> Zeroes], used |-> taken, size |-> 0, log |-> {}]
  /\ off = [f \in Open |-> 0]
  /\ th = [p \in Proc |-> Idle]
  /\ logged = 0
-----------------------------------------------------------------------------
(* fs.c.  Got is a result with the state it leaves.                        *)

Got(s, a) == [s |-> s, addr |-> a]
Bitmap(b) == <<"bitmap", b \div BPB>>
Logged(s, L) == [s EXCEPT !.log = @ \cup L]

\* The lowest free block, marked and zeroed, or 0.
balloc(s) ==
  IF Block \subseteq s.used THEN Got(s, 0)
  ELSE LET Take(b) == Got([Logged(s, {Bitmap(b), <<"block", b>>}) EXCEPT
                             !.used = @ \cup {b}, !.cont[b] = Zeroes], b)
       IN Take(Least(Block \ s.used))

Direct(s, k) ==
  IF s.addr[k] # 0 THEN Got(s, s.addr[k])
  ELSE LET Keep(r) == Got([r.s EXCEPT !.addr[k] = r.addr], r.addr) IN Keep(balloc(s))

Enter(s, ind, k, b) ==
  IF b = 0 THEN Got(s, 0)
  ELSE Got([Logged(s, {<<"block", ind>>}) EXCEPT !.cont[ind][k] = b], b)

Indirect(s, ind, k) ==
  IF ind = 0 THEN Got(s, 0)
  ELSE IF s.cont[ind][k] # 0 THEN Got(s, s.cont[ind][k])
  ELSE LET Put(r) == Enter(r.s, ind, k, r.addr) IN Put(balloc(s))

\* bmap()
bmap(s, bn) ==
  IF bn < NDIRECT THEN Direct(s, bn)
  ELSE LET Via(r) == Indirect(r.s, r.addr, bn - NDIRECT) IN Via(Direct(s, NDIRECT))

Room(o) == BSIZE - (o % BSIZE)


\* The first m bytes from o on in block b become v.
Copied(s, b, v, o, m) ==
  [s EXCEPT !.cont[b] = [k \in 0..BSIZE - 1 |->
     IF k \in (o % BSIZE)..((o % BSIZE) + m - 1) THEN v ELSE @[k]]]

\* writei()'s loop.  copyin() fails in the block after ok blocks, where it
\* has copied part of the bytes already: they stay in the buffer, but
\* log_write() is not called.  The result's addr is the number of bytes
\* written.
RECURSIVE Fill(_, _, _, _, _, _, _)
Fill(s, v, from, tot, n, ok, part) ==
  IF tot >= n THEN Got(s, tot)
  ELSE LET o == from + tot
           m == Min2(n - tot, Room(o))
           Copy(r) ==
             IF r.addr = 0 THEN Got(r.s, tot)
             ELSE IF ok = 0 THEN Got(Copied(r.s, r.addr, v, o, Min2(part, m - 1)), tot)
             ELSE Fill(Logged(Copied(r.s, r.addr, v, o, m), {<<"block", r.addr>>}),
                       v, from, tot + m, n, ok - 1, part)
       IN Copy(bmap(s, o \div BSIZE))

Wraps(from, n) == (from + n) % UINT < from

\* writei(): -1 beyond the end or the largest size; the inode is written back.
writei(s, v, from, n, ok, part) ==
  IF from > s.size \/ Wraps(from, n) \/ from + n > MAXFILE * BSIZE THEN Got(s, -1)
  ELSE LET Close(r) == Got([Logged(r.s, {<<"inode", 0>>}) EXCEPT
                              !.size = IF from + r.addr > @ THEN from + r.addr ELSE @], r.addr)
       IN Close(Fill(s, v, from, 0, n, ok, part))

\* readi(): the number of bytes, or -1 when copyout() fails
readi(s, from, n, ok) ==
  LET tot == Min2(n % UINT, s.size - from)
  IN IF from > s.size \/ Wraps(from, n) THEN 0 ELSE IF tot > 0 /\ ~ok THEN -1 ELSE tot

Owned(s) == {s.addr[k] : k \in 0..NDIRECT - 1} \ {0}
Ind(s) == s.addr[NDIRECT]
Entries(s) == IF Ind(s) = 0 THEN {} ELSE {s.cont[Ind(s)][k] : k \in 0..NINDIRECT - 1} \ {0}

\* Mutation: the indirect block is freed without the blocks it lists.
Freed_Direct(s) == Owned(s) \cup ({Ind(s)} \ {0})
\* The blocks that itrunc() gives to bfree().
Freed(s) == Owned(s) \cup Entries(s) \cup ({Ind(s)} \ {0})

\* itrunc(); what a free block holds does not matter, balloc() zeroes it.
itrunc(s) ==
  LET Drop(B) == [Logged(s, {Bitmap(b) : b \in B} \cup {<<"inode", 0>>}) EXCEPT
                    !.used = @ \ B, !.addr = [k \in 0..NDIRECT |-> 0], !.size = 0,
                    !.cont = [b \in Block |-> IF b \in B THEN Zeroes ELSE @[b]],
                    !.home = [b \in Block |-> IF b \in B THEN Zeroes ELSE @[b]]]
  IN Drop(Freed(s))
-----------------------------------------------------------------------------
(* file.c                                                                  *)

\* end_op(): the logged blocks are written as they are in their buffers.
Commit(s) ==
  /\ fd' = [s EXCEPT !.log = {}, !.home = [b \in Block |->
               IF <<"block", b>> \in s.log THEN s.cont[b] ELSE @[b]]]
  /\ logged' = Cardinality(s.log)

\* bget() recycles a buffer: what was not logged is gone.
Recycle(b) ==
  /\ fd.cont[b] # fd.home[b]
  /\ fd' = [fd EXCEPT !.cont[b] = fd.home[b]]
  /\ UNCHANGED <<off, taken, th, logged>>

\* Mutation: a piece may fill the log with data blocks.
MaxPiece_Whole == (MAXOPBLOCKS - 1 - 1 - 2) * BSIZE
\* filewrite()'s max
MaxPiece == ((MAXOPBLOCKS - 1 - 1 - 2) \div 2) * BSIZE

\* A length that is not positive ends filewrite() at once.
filewrite(p, f, n) ==
  /\ th[p] = Idle
  /\ n > 0
  /\ th' = [th EXCEPT ![p] = [f |-> f, n |-> n, i |-> 0]]
  /\ UNCHANGED <<fd, off, taken, logged>>

\* One turn of filewrite()'s loop; an error or the last piece ends it.
Piece(p, ok, part) ==
  LET t == th[p]
      n1 == Min2(t.n - t.i, MaxPiece)
      Done(r) == /\ Commit(r.s)
                 /\ off' = IF r.addr > 0 THEN [off EXCEPT ![t.f] = @ + r.addr] ELSE off
                 /\ th' = [th EXCEPT ![p] = IF r.addr # n1 \/ t.i + r.addr = t.n THEN Idle
                                            ELSE [@ EXCEPT !.i = @ + r.addr]]
  IN /\ t # Idle
     /\ Done(writei(fd, p, off[t.f], n1, ok, part))
     /\ UNCHANGED taken

fileread(f, n, ok) ==
  /\ \E r \in {readi(fd, off[f], n, ok)} : off' = IF r > 0 THEN [off EXCEPT ![f] = @ + r] ELSE off
  /\ UNCHANGED <<fd, taken, th, logged>>

\* f is closed and the file opened again; nobody is writing to f.
sys_open(f, trunc) ==
  /\ \A p \in Proc : th[p].f # f
  /\ off' = [off EXCEPT ![f] = 0]
  /\ IF trunc THEN Commit(itrunc(fd)) ELSE UNCHANGED <<fd, logged>>
  /\ UNCHANGED <<taken, th>>

Next ==
  \/ \E p \in Proc : \/ \E f \in Open, n \in LENGTHS : filewrite(p, f, n)
                     \/ Piece(p, MAXFILE, 0)
                     \/ \E part \in 0..BSIZE - 1 : Piece(p, 1, part)
  \/ \E f \in Open : \/ \E n \in LENGTHS, ok \in BOOLEAN : fileread(f, n, ok)
                     \/ \E trunc \in BOOLEAN : sys_open(f, trunc)
  \/ \E b \in Block : Recycle(b)

Spec == Init /\ [][Next]_vars
-----------------------------------------------------------------------------
(* Properties                                                              *)

Addr(bn) == IF bn < NDIRECT THEN fd.addr[bn] ELSE fd.cont[Ind(fd)][bn - NDIRECT]
Contents(blocks) == [i \in 1..fd.size |-> blocks[Addr((i - 1) \div BSIZE)][(i - 1) % BSIZE]]

\* The blocks implement a sequence of bytes: a write puts its bytes at the
\* offset, and two writers that share an offset never write the same place.
\* Nothing else changes when a write ends early for want of a block; when it
\* does for want of user memory, bytes that follow those it has counted, in
\* the same block, may change too, and change back while they are not logged.
Bytes == INSTANCE FileBytes WITH
  Byte <- Proc, LIMIT <- MAXFILE * BSIZE, UNIT <- BSIZE,
  bytes <- Contents(fd.cont), kept <- Contents(fd.home), pos <- off

Pointers == {<<0, k>> : k \in {j \in 0..NDIRECT : fd.addr[j] # 0}}
       \cup {<<1, k>> : k \in {j \in 0..NINDIRECT - 1 : Ind(fd) # 0 /\ fd.cont[Ind(fd)][j] # 0}}

\* A block is marked in the bitmap exactly if it belongs to another file or
\* one pointer leads to it: no failure of balloc() or copyin leaks a block
\* or gives it out twice, and itrunc() never frees a free block.
BlocksOwnedOnce ==
  LET mine == Owned(fd) \cup Entries(fd) \cup ({Ind(fd)} \ {0})
  IN /\ fd.used = taken \cup mine /\ taken \cap mine = {}
     /\ Cardinality(Pointers) = Cardinality(mine)

\* A piece of a write, with inode, bitmap blocks, indirect block and a start
\* inside a block, is within the MAXOPBLOCKS that begin_op() reserves.
TxnFits == logged <= MAXOPBLOCKS
=============================================================================
