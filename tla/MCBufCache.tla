---------------------------- MODULE MCBufCache ----------------------------
(* A small instance of BufCache for TLC. *)
EXTENDS BufCache, TLC

CONSTANTS p1, p2, k1, k2, k3, k4, v1, v2, b1, b2, b3

\* Processes are interchangeable, and so are blocks, their contents and the
\* buffers.
Symm == Permutations(Proc) \cup Permutations(Block) \cup Permutations(Val) \cup Permutations(Buf)
=============================================================================
