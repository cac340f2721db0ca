------------------------------ MODULE Umalloc ------------------------------
(***************************************************************************)
(* user/umalloc.c: malloc() and free() over a circular list of free blocks *)
(* in the order of their addresses.                                        *)
(*                                                                         *)
(* Addresses and sizes are in units of a header.  base is at 0, below the  *)
(* memory that sbrk() gives.                                               *)
(***************************************************************************)
EXTENDS Integers, FiniteSets

CONSTANTS LIMIT,   \* units that sbrk() can give
          NALLOC,  \* least units that morecore() asks for
          SIZES    \* units that the program asks malloc() for

VARIABLES h,     \* headers (ptr and size by address), freep, brk
          live,  \* blocks that malloc() has given out: <<address, units>>
          gaps   \* units that the program took with sbrk() itself

vars == <<h, live, gaps>>

base == 0
NULL == -1

Init ==
  /\ h = [ptr |-> [a \in 0..LIMIT |-> 0], size |-> [a \in 0..LIMIT |-> 0],
          freep |-> NULL, brk |-> 1]
  /\ live = {} /\ gaps = {}

\* free()'s search for the free block after which bp belongs.
RECURSIVE Before(_, _, _)
Before(s, bp, p) ==
  LET n == s.ptr[p]
  IN IF (bp > p /\ bp < n) \/ (p >= n /\ (bp > p \/ bp < n)) THEN p ELSE Before(s, bp, n)

JoinUpper(s, p, bp) ==
  LET n == s.ptr[p]
  IN IF bp + s.size[bp] = n THEN [s EXCEPT !.size[bp] = @ + s.size[n], !.ptr[bp] = s.ptr[n]]
     ELSE [s EXCEPT !.ptr[bp] = n]
\* Mutation: the block below is not looked at.
JoinLower_Not(s, p, bp) == [s EXCEPT !.ptr[p] = bp, !.freep = p]
JoinLower(s, p, bp) ==
  IF p + s.size[p] = bp
  THEN [s EXCEPT !.size[p] = @ + s.size[bp], !.ptr[p] = s.ptr[bp], !.freep = p]
  ELSE [s EXCEPT !.ptr[p] = bp, !.freep = p]

free(s, bp) ==
  LET At(p) == JoinLower(JoinUpper(s, p, bp), p, bp) IN At(Before(s, bp, s.freep))

\* morecore(); freep is NULL if sbrk() fails.
morecore(s, nu) ==
  LET n == IF nu < NALLOC THEN NALLOC ELSE nu
  IN IF s.brk + n > LIMIT + 1 THEN [s EXCEPT !.freep = NULL]
     ELSE free([s EXCEPT !.size[s.brk] = n, !.brk = @ + n], s.brk)

Result(s, a) == [s |-> s, addr |-> a]

\* The block, or the tail of it, is taken out.
Carve(s, prevp, p, n) ==
  IF s.size[p] = n
  THEN Result([s EXCEPT !.ptr[prevp] = s.ptr[p], !.freep = prevp], p)
  ELSE LET a == p + s.size[p] - n
       IN Result([s EXCEPT !.size = [@ EXCEPT ![p] = @ - n, ![a] = n], !.freep = prevp], a)

\* malloc()'s loop
RECURSIVE Search(_, _, _, _)
Search(s, prevp, p, n) ==
  IF s.size[p] >= n THEN Carve(s, prevp, p, n)
  ELSE IF p # s.freep THEN Search(s, p, s.ptr[p], n)
  ELSE LET Again(t) == IF t.freep = NULL THEN Result(s, NULL)
                       ELSE Search(t, t.freep, t.ptr[t.freep], n)
       IN Again(morecore(s, n))

malloc(n) ==
  LET s == IF h.freep # NULL THEN h ELSE [h EXCEPT !.ptr[base] = base, !.size[base] = 0, !.freep = base]
      Give(r) == /\ h' = r.s
                 /\ live' = IF r.addr = NULL THEN live ELSE live \cup {<<r.addr, n>>}
  IN Give(Search(s, s.freep, s.ptr[s.freep], n)) /\ UNCHANGED gaps

Free(b) ==
  /\ h' = free(h, b[1])
  /\ live' = live \ {b}
  /\ UNCHANGED gaps

\* The program takes a unit itself.
sbrk ==
  /\ h.brk <= LIMIT
  /\ h' = [h EXCEPT !.brk = @ + 1]
  /\ gaps' = gaps \cup {h.brk}
  /\ UNCHANGED live

Next == (\E n \in SIZES : malloc(n)) \/ (\E b \in live : Free(b)) \/ sbrk
Spec == Init /\ [][Next]_vars
-----------------------------------------------------------------------------
(* Properties                                                              *)

RECURSIVE ListFrom(_, _)
ListFrom(a, seen) == IF a \in seen THEN seen ELSE ListFrom(h.ptr[a], seen \cup {a})
FreeList == IF h.freep = NULL THEN {} ELSE ListFrom(h.freep, {}) \ {base}
Units(a, n) == a..a + n - 1

\* Every unit that malloc() ever got from sbrk() is in exactly one block,
\* free or given out, each of the size in its header; the list is in the
\* order of addresses through base, and no two free blocks touch.
HeapIntact ==
  LET free1 == {<<a, h.size[a]>> : a \in FreeList}
      all == free1 \cup live
  IN /\ \A b, c \in all : b # c => Units(b[1], b[2]) \cap Units(c[1], c[2]) = {}
     /\ UNION {Units(b[1], b[2]) : b \in all} = (1..h.brk - 1) \ gaps
     /\ \A b \in live : h.size[b[1]] = b[2]
     /\ h.freep # NULL => base \in ListFrom(h.freep, {})
     /\ \A b, c \in free1 : b[1] + b[2] # c[1]
     /\ \A a \in FreeList : h.ptr[a] > a \/ h.ptr[a] = base
=============================================================================
