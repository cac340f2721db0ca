------------------------------ MODULE TxnDisk ------------------------------
(***************************************************************************)
(* What the logging layer promises to the file system (the comment at      *)
(* kernel/log.c:10-24): a disk whose updates become durable only in groups *)
(* of whole system calls.  File-system code sees mem, a crash falls back   *)
(* to durable, and durable moves to mem only while no call is in progress. *)
(***************************************************************************)
CONSTANTS Proc,    \* processes that make file-system calls
          Block,   \* home blocks of the file system
          Val      \* block contents

VARIABLES mem,      \* contents seen by the running system
          durable,  \* contents found after a crash and recovery
          active    \* processes between begin_op() and end_op()

vars == <<mem, durable, active>>

Init == /\ durable \in [Block -> Val]
        /\ mem = durable
        /\ active = {}

Begin(p) == /\ p \notin active
            /\ active' = active \cup {p}
            /\ UNCHANGED <<mem, durable>>

Write(p, b, v) == /\ p \in active
                  /\ mem' = [mem EXCEPT ![b] = v]
                  /\ UNCHANGED <<durable, active>>

End(p) == /\ p \in active
          /\ active' = active \ {p}
          /\ UNCHANGED <<mem, durable>>

Commit == /\ active = {}
          /\ durable' = mem
          /\ UNCHANGED <<mem, active>>

Crash == /\ mem' = durable
         /\ active' = {}
         /\ UNCHANGED durable

Next == \/ \E p \in Proc : \/ Begin(p)
                           \/ End(p)
                           \/ \E b \in Block, v \in Val : Write(p, b, v)
        \/ Commit
        \/ Crash

Spec == Init /\ [][Next]_vars
=============================================================================
