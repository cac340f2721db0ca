------------------------------ MODULE MCPipe ------------------------------
(* Small instances of Pipe for TLC. *)
EXTENDS Pipe, TLC

CONSTANTS p1, p2, p3, b1, b2

\* Processes are interchangeable, and so are the contents of bytes.
Symm == Permutations(Proc) \cup Permutations(Byte)

\* A state without the bytes that have been read: nobody looks at them again.
Live == <<Queue, nread, readopen, writeopen, lock, filevars, pc, callvars,
          killed, stranded>>
=============================================================================
