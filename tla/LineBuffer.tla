----------------------------- MODULE LineBuffer -----------------------------
(***************************************************************************)
(* What the console promises to a reader: characters are edited until the  *)
(* line is committed, and committed characters are read in order, once.    *)
(***************************************************************************)
EXTENDS Sequences, Integers, SequencesExt

CONSTANTS Char,   \* characters that are stored
          Enders, \* characters that commit the line
          SIZE    \* most characters held

VARIABLES lines,  \* committed and not yet read
          edit    \* typed and not yet committed

Init == lines = <<>> /\ edit = <<>>

Type(c) ==
  /\ Len(lines) + Len(edit) < SIZE
  /\ IF c \in Enders \/ Len(lines) + Len(edit) + 1 = SIZE
     THEN lines' = lines \o Append(edit, c) /\ edit' = <<>>
     ELSE edit' = Append(edit, c) /\ UNCHANGED lines

Erase == edit # <<>> /\ edit' = Front(edit) /\ UNCHANGED lines
Kill == edit' = <<>> /\ UNCHANGED lines
Read == lines # <<>> /\ lines' = Tail(lines) /\ UNCHANGED edit

Next == (\E c \in Char : Type(c)) \/ Erase \/ Kill \/ Read
Spec == Init /\ [][Next]_<<lines, edit>>
=============================================================================
