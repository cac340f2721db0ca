----------------------------- MODULE FileBytes -----------------------------
(***************************************************************************)
(* What a file promises: a sequence of bytes, and for each open file a     *)
(* place in it where the next read() or piece of a write() begins.  bytes  *)
(* is what a read finds, kept what the log has been given of it.           *)
(***************************************************************************)
EXTENDS Integers, Sequences

CONSTANTS Open,   \* open files
          Byte,   \* values that are written
          LIMIT,  \* longest file
          UNIT    \* bytes that are copied at a time

VARIABLES bytes, kept, pos

Init == bytes = <<>> /\ kept = <<>> /\ pos = [f \in Open |-> 0]

Longer(a, b) == IF a > b THEN a ELSE b
Move(f, k) == pos' = [pos EXCEPT ![f] = @ + k]

\* The bytes of a write: k that count and j more, inside the file.
Written(old, from, v, k, j) ==
  [i \in 1..Longer(Len(old), from + k) |-> IF i \in from + 1..from + k + j THEN v ELSE old[i]]
\* Of new, the k bytes that count are kept; so may be others.
Keeps(new, saved, before, from, k) ==
  /\ Len(saved) = Len(new)
  /\ \A i \in DOMAIN new : \/ saved[i] = new[i]
                           \/ i \notin from + 1..from + k /\ saved[i] = before[i]

\* k bytes are written, perhaps fewer than were asked for; j more have
\* reached the buffer and do not count.
Write(f, v, k, j) ==
  /\ Move(f, k)
  /\ pos[f] <= Len(bytes) /\ pos[f] + k <= LIMIT
  /\ bytes' = Written(bytes, pos[f], v, k, j)
  /\ Keeps(bytes', kept', kept, pos[f], k)

\* Bytes that are not kept are lost with their buffer.
Loses(new, old, saved) ==
  Len(new) = Len(old) /\ \A i \in DOMAIN old : new[i] \in {old[i], saved[i]}
Lose == UNCHANGED <<kept, pos>> /\ Loses(bytes', bytes, kept)

Read(f, k) == Move(f, k) /\ pos[f] + k <= Len(bytes) /\ UNCHANGED <<bytes, kept>>
Reopen(f) ==
  /\ pos' = [pos EXCEPT ![f] = 0]
  /\ UNCHANGED <<bytes, kept>> \/ (bytes' = <<>> /\ kept' = <<>>)

Next == \E f \in Open :
  \/ \E k \in 0..LIMIT : Read(f, k)
  \/ Reopen(f)
  \/ \E k \in 0..LIMIT, v \in Byte, j \in 0..UNIT - 1 : Write(f, v, k, j)
  \/ Lose
Spec == Init /\ [][Next]_<<bytes, kept, pos>>
=============================================================================
