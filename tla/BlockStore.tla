----------------------------- MODULE BlockStore -----------------------------
(* What the buffer cache promises to its users: a block is one register,   *)
(* used by one process at a time, that only its user changes.              *)
CONSTANTS Proc, Block, Val, None
VARIABLES mem, user

Init == /\ mem \in [Block -> Val]
        /\ user = [k \in Block |-> None]

Take(p, k) == /\ user[k] = None
              /\ user' = [user EXCEPT ![k] = p]
              /\ UNCHANGED mem

Change(p, k, v) == /\ user[k] = p
                   /\ mem' = [mem EXCEPT ![k] = v]
                   /\ UNCHANGED user

Give(p, k) == /\ user[k] = p
              /\ user' = [user EXCEPT ![k] = None]
              /\ UNCHANGED mem

Next == \E p \in Proc, k \in Block :
          Take(p, k) \/ Give(p, k) \/ \E v \in Val : Change(p, k, v)

Spec == Init /\ [][Next]_<<mem, user>>
=============================================================================
