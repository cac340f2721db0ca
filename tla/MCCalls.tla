------------------------------ MODULE MCCalls -------------------------------
(* Reads and writes of a file, malloc() and free(), and the shell.  They   *)
(* share no state: a behaviour runs one of them, chosen at the start.      *)
EXTENDS Integers, Sequences, FiniteSets

VARIABLES which, fd, off, taken, th, logged, h, live, gaps, line, cmd

fileVars == <<fd, off, taken, th, logged>>
heapVars == <<h, live, gaps>>
shellVars == <<line, cmd>>

\* Blocks 2 and 4 may be another file's.
Taken == {{}, {2, 4}}
File == INSTANCE FileData WITH Proc <- {1, 2}, Open <- {1, 2}, NBLOCK <- 6, BSIZE <- 2, BPB <- 1,
                               NDIRECT <- 2, MAXOPBLOCKS <- 10, UINT <- 64,
                               LENGTHS <- {-1, 1, 7}
Heap == INSTANCE Umalloc WITH LIMIT <- 9, NALLOC <- 3, SIZES <- {2, 3, 4}
Sh == INSTANCE Shell WITH MAXLINE <- 5, MAXARGS <- 3

Start ==
  /\ File!Init /\ Heap!Init /\ Sh!Init
  /\ which \in {"twice"} \cup IF taken = {} THEN {"heap", "shell"} ELSE {"share"}

\* Two writers share an open file on the smaller of the two disks, or one
\* writer has two.
Share == off'[2] = 0 /\ \A p \in 1..2 : th'[p].f # 2
Twice == th'[2].f = 0

Step ==
  \/ which = "share" /\ File!Next /\ Share /\ UNCHANGED <<which, heapVars, shellVars>>
  \/ which = "twice" /\ File!Next /\ Twice /\ UNCHANGED <<which, heapVars, shellVars>>
  \/ which = "heap" /\ Heap!Next /\ UNCHANGED <<which, fileVars, shellVars>>
  \/ which = "shell" /\ Sh!Next /\ UNCHANGED <<which, fileVars, heapVars>>
System == Start /\ [][Step]_<<which, fileVars, heapVars, shellVars>>

\* Bytes after the end of the file are written before they are read.  (TLC
\* evaluates all of fd for fd = fd.)
FileView == <<fd = fd, [fd EXCEPT !.cont = IF File!Ind(fd) = 0 THEN <<>> ELSE fd.cont[File!Ind(fd)],
                                !.home = <<>>],
              File!Contents(fd.cont), File!Contents(fd.home), off, taken, th, logged>>
\* Headers of blocks that are neither free nor given out are never read.
Headers == Heap!FreeList \cup {0} \cup {b[1] : b \in live}
View == <<which, FileView, shellVars, live, gaps, h.freep, h.brk,
          [a \in Headers |-> <<h.ptr[a], h.size[a]>>]>>

\* The bitmap and the pointers of the inode agree (bmap(), itrunc()).
BlocksOwnedOnce == File!BlocksOwnedOnce
\* A piece of a write fits into its transaction (filewrite()).
TxnFits == File!TxnFits
\* The blocks of malloc() and the free list share out the heap.
HeapIntact == Heap!HeapIntact
\* parsecmd() follows the grammar of commands.
ParsesGrammar == Sh!ParsesGrammar
\* runcmd() connects programs as the command says.
CommandsWired == Sh!CommandsWired
=============================================================================
