----------------------------- MODULE VirtioDisk -----------------------------
(***************************************************************************)
(* The disk driver of kernel/virtio_disk.c and the device it talks to.     *)
(*                                                                         *)
(* A request belongs to a buffer: bio.c keeps one buffer per block and its *)
(* sleep-lock keeps other processes off it, so the buffer names the block, *)
(* the process in virtio_disk_rw() and the channel it sleeps on.           *)
(*                                                                         *)
(* What virtio_disk_rw() does between taking vdisk_lock and sleep() or     *)
(* release() is one action: other driver code is locked out, and the       *)
(* device looks at a request only after avail->idx counts it.  The         *)
(* interrupt handler is several actions, since the device adds to the used *)
(* ring under its eyes.  The device is external: it serves requests in any *)
(* order and raises its interrupt some time after it has updated the ring. *)
(***************************************************************************)
EXTENDS Integers, FiniteSets, FiniteSetsExt

CONSTANTS Buf,    \* buffers, each with its block on the disk
          Val,    \* block contents
          None,   \* a null pointer
          NUM,    \* descriptors, and entries of the rings: at least 3
          UINT16  \* number of values of the rings' indices, a multiple of NUM

VARIABLES
  free, desc, ops, info,  \* disk.free (as a set), disk.desc, disk.ops, disk.info
  avail, avail_idx,       \* disk.avail->ring and disk.avail->idx
  used, dev_used_idx,     \* disk.used->ring and disk.used->idx
  used_idx,               \* disk.used_idx
  busy, data,             \* b->disk and b->data
  in_intr,                \* where virtio_disk_intr() is; it holds vdisk_lock
  pc, write, idx0,        \* the process using the buffer: where it is, its
                          \* argument write, and idx[0]
  disk,                   \* the blocks on the disk
  dev_idx, inflight,      \* how far the device has read avail, and the heads
                          \* of the chains it works on
  owed, irq               \* an interrupt still to raise; InterruptStatus

drvvars == <<free, desc, ops, avail, avail_idx>>
devvars == <<used, dev_used_idx, disk, dev_idx, inflight, owed>>
reqvars == <<write, idx0>>
vars == <<drvvars, devvars, reqvars, info, used_idx, busy, data, in_intr, pc, irq>>

Desc == 0..NUM - 1
NoDesc == [addr |-> None, next |-> 0, more |-> FALSE]

Init == /\ free = Desc
        /\ desc = [d \in Desc |-> NoDesc]
        /\ ops = [d \in Desc |-> [write |-> FALSE, sector |-> None]]
        /\ info = [d \in Desc |-> [b |-> None, status |-> 0]]
        /\ avail = [k \in Desc |-> 0] /\ avail_idx = 0
        /\ used = [k \in Desc |-> 0] /\ dev_used_idx = 0 /\ used_idx = 0
        /\ busy = [b \in Buf |-> FALSE]
        /\ \E v \in Val : data = [b \in Buf |-> v]
        /\ in_intr = "no"
        /\ pc = [b \in Buf |-> "idle"]
        /\ write = [b \in Buf |-> FALSE]
        /\ idx0 = [b \in Buf |-> 0]
        /\ disk \in [Buf -> Val]
        /\ dev_idx = 0 /\ inflight = {}
        /\ owed = FALSE /\ irq = FALSE

\* Mutation: an index that does not wrap with the device's.
Inc_NoWrap(k) == k + 1
Inc(k) == (k + 1) % UINT16

\* wakeup(&disk.free[0]); process b goes to l.
WakeFree(b, l) ==
  [c \in Buf |-> IF c = b THEN l ELSE IF pc[c] = "wait_free" THEN "alloc" ELSE pc[c]]
-----------------------------------------------------------------------------
(* virtio_disk_rw()                                                        *)

\* bread() or bwrite() calls it; a writer has put v into its buffer.
rw(b, w, v) ==
  /\ pc[b] \in {"idle", "done"}
  /\ data' = IF w THEN [data EXCEPT ![b] = v] ELSE data
  /\ write' = [write EXCEPT ![b] = w]
  /\ pc' = [pc EXCEPT ![b] = "alloc"]
  /\ UNCHANGED <<drvvars, devvars, idx0, info, used_idx, busy, in_intr, irq>>

\* alloc3_desc() finds only one or two: they are freed again, which wakes the
\* others, and the process sleeps.
alloc_fail(b) ==
  /\ pc[b] = "alloc"
  /\ in_intr = "no"
  /\ Cardinality(free) < 3
  /\ pc' = IF free = {} THEN [pc EXCEPT ![b] = "wait_free"] ELSE WakeFree(b, "wait_free")
  /\ UNCHANGED <<drvvars, devvars, reqvars, info, used_idx, busy, data, in_intr, irq>>

\* alloc3_desc() takes the lowest three; the chain is described and counted
\* in avail; the process sleeps until b->disk is cleared.
submit(b) ==
  /\ pc[b] = "alloc"
  /\ in_intr = "no"
  /\ Cardinality(free) >= 3
  /\ LET i == Min(free)
         j == Min(free \ {i})
         k == Min(free \ {i, j})
     IN /\ free' = free \ {i, j, k}
        /\ ops' = [ops EXCEPT ![i] = [write |-> write[b], sector |-> b]]
        /\ desc' = [desc EXCEPT ![i] = [addr |-> i, next |-> j, more |-> TRUE],
                                ![j] = [addr |-> b, next |-> k, more |-> TRUE],
                                ![k] = [addr |-> i, next |-> 0, more |-> FALSE]]
        /\ info' = [info EXCEPT ![i] = [b |-> b, status |-> 255]]
        /\ avail' = [avail EXCEPT ![avail_idx % NUM] = i]
        /\ idx0' = [idx0 EXCEPT ![b] = i]
  /\ avail_idx' = Inc(avail_idx)
  /\ busy' = [busy EXCEPT ![b] = TRUE]
  /\ pc' = [pc EXCEPT ![b] = "wait_io"]
  /\ UNCHANGED <<devvars, write, used_idx, data, in_intr, irq>>

\* kill() ends any sleep; both loops test again.
kill(b) ==
  /\ pc[b] \in {"wait_free", "wait_io"}
  /\ pc' = [pc EXCEPT ![b] = IF @ = "wait_free" THEN "alloc" ELSE "woken"]
  /\ UNCHANGED <<drvvars, devvars, reqvars, info, used_idx, busy, data, in_intr, irq>>

\* Mutation: any wakeup is taken for the end of the transfer.
StillBusy_Never(b) == FALSE
StillBusy(b) == busy[b]

sleep_again(b) ==
  /\ pc[b] = "woken"
  /\ in_intr = "no"
  /\ StillBusy(b)
  /\ pc' = [pc EXCEPT ![b] = "wait_io"]
  /\ UNCHANGED <<drvvars, devvars, reqvars, info, used_idx, busy, data, in_intr, irq>>

\* The descriptors that free_chain(i) visits.
Chain(i) ==
  LET j == desc[i].next
      k == desc[j].next
  IN {i} \cup (IF desc[i].more THEN {j} ELSE {})
         \cup (IF desc[i].more /\ desc[j].more THEN {k} ELSE {})

\* Mutation: only the head is given back.
Freed_Head(i) == {i}
Freed(i) == Chain(i)

\* Mutation: free_desc() wakes nobody.
return_Quiet(b) ==
  /\ pc[b] = "woken"
  /\ in_intr = "no"
  /\ ~StillBusy(b)
  /\ info' = [info EXCEPT ![idx0[b]].b = None]
  /\ free' = free \cup Freed(idx0[b])
  /\ desc' = [d \in Desc |-> IF d \in Freed(idx0[b]) THEN NoDesc ELSE desc[d]]
  /\ pc' = [pc EXCEPT ![b] = "done"]
  /\ UNCHANGED <<ops, avail, avail_idx, devvars, reqvars, used_idx, busy, data, in_intr, irq>>

\* free_chain() and release.
return(b) ==
  /\ pc[b] = "woken"
  /\ in_intr = "no"
  /\ ~StillBusy(b)
  /\ info' = [info EXCEPT ![idx0[b]].b = None]
  /\ free' = free \cup Freed(idx0[b])
  /\ desc' = [d \in Desc |-> IF d \in Freed(idx0[b]) THEN NoDesc ELSE desc[d]]
  /\ pc' = WakeFree(b, "done")
  /\ UNCHANGED <<ops, avail, avail_idx, devvars, reqvars, used_idx, busy, data, in_intr, irq>>
-----------------------------------------------------------------------------
(* virtio_disk_intr()                                                      *)

\* Take the lock and acknowledge the interrupt.
intr ==
  /\ irq
  /\ in_intr = "no"
  /\ in_intr' = "loop"
  /\ irq' = FALSE
  /\ UNCHANGED <<drvvars, devvars, reqvars, info, used_idx, busy, data, pc>>

\* Mutation: the handler looks at the newest entry only.
UsedSlot_Newest == (dev_used_idx - 1) % NUM
UsedSlot == used_idx % NUM

\* One turn of the loop: b->disk = 0; wakeup(b).
intr_entry ==
  /\ in_intr = "loop"
  /\ used_idx # dev_used_idx
  /\ LET b == info[used[UsedSlot]].b
     IN /\ busy' = [busy EXCEPT ![b] = FALSE]
        /\ pc' = [pc EXCEPT ![b] = IF @ = "wait_io" THEN "woken" ELSE @]
  /\ used_idx' = Inc(used_idx)
  /\ UNCHANGED <<drvvars, devvars, reqvars, info, data, in_intr, irq>>

\* The loop ends when the ring seems empty.
intr_seen ==
  /\ in_intr = "loop"
  /\ used_idx = dev_used_idx
  /\ in_intr' = "exit"
  /\ UNCHANGED <<drvvars, devvars, reqvars, info, used_idx, busy, data, pc, irq>>

\* Mutation: the acknowledgement comes after the loop.
intr_end_Ack ==
  /\ in_intr = "exit"
  /\ in_intr' = "no"
  /\ irq' = FALSE
  /\ UNCHANGED <<drvvars, devvars, reqvars, info, used_idx, busy, data, pc>>

intr_end ==
  /\ in_intr = "exit"
  /\ in_intr' = "no"
  /\ UNCHANGED <<drvvars, devvars, reqvars, info, used_idx, busy, data, pc, irq>>
-----------------------------------------------------------------------------
(* The device.                                                             *)

fetch ==
  /\ dev_idx # avail_idx
  /\ inflight' = inflight \cup {avail[dev_idx % NUM]}
  /\ dev_idx' = Inc(dev_idx)
  /\ UNCHANGED <<drvvars, reqvars, used, dev_used_idx, disk, owed, info, used_idx,
                 busy, data, in_intr, pc, irq>>

\* Do what the chain with head h describes, store its status, count it in used.
serve(h) ==
  /\ h \in inflight
  /\ LET op == ops[desc[h].addr]
         j  == desc[h].next
         b  == desc[j].addr
     IN /\ disk' = IF op.write THEN [disk EXCEPT ![op.sector] = data[b]] ELSE disk
        /\ data' = IF op.write THEN data ELSE [data EXCEPT ![b] = disk[op.sector]]
        /\ info' = [info EXCEPT ![desc[desc[j].next].addr].status = 0]
  /\ used' = [used EXCEPT ![dev_used_idx % NUM] = h]
  /\ dev_used_idx' = Inc(dev_used_idx)
  /\ inflight' = inflight \ {h}
  /\ owed' = TRUE
  /\ UNCHANGED <<drvvars, reqvars, dev_idx, used_idx, busy, in_intr, pc, irq>>

raise ==
  /\ owed
  /\ owed' = FALSE
  /\ irq' = TRUE
  /\ UNCHANGED <<drvvars, reqvars, used, dev_used_idx, disk, dev_idx, inflight, info,
                 used_idx, busy, data, in_intr, pc>>

Step(b) == alloc_fail(b) \/ submit(b) \/ sleep_again(b) \/ return(b)
Intr == intr \/ intr_entry \/ intr_seen \/ intr_end
Device == fetch \/ raise \/ \E h \in inflight : serve(h)
Call == \E b \in Buf, w \in BOOLEAN, v \in Val : rw(b, w, v)

Next == \/ Call \/ Intr \/ Device
        \/ \E b \in Buf : Step(b) \/ kill(b)

Spec == Init /\ [][Next]_vars

\* The device serves every request; the handler and the processes get the CPU
\* and, as vdisk_lock is free again and again, the lock.
Fairness == /\ WF_vars(fetch) /\ WF_vars(raise)
            /\ \A h \in Desc : WF_vars(serve(h))
            /\ SF_vars(Intr)
            /\ \A b \in Buf : SF_vars(Step(b))
FairSpec == Spec /\ Fairness
-----------------------------------------------------------------------------
(* Properties.                                                             *)

\* The types of the queue, the requests and the device.
TypeOK == /\ free \subseteq Desc
          /\ desc \in [Desc -> [addr : Buf \cup Desc \cup {None}, next : Desc, more : BOOLEAN]]
          /\ ops \in [Desc -> [write : BOOLEAN, sector : Buf \cup {None}]]
          /\ info \in [Desc -> [b : Buf \cup {None}, status : {0, 255}]]
          /\ avail \in [Desc -> Desc] /\ used \in [Desc -> Desc]
          /\ {avail_idx, dev_used_idx, used_idx, dev_idx} \subseteq 0..UINT16 - 1
          /\ busy \in [Buf -> BOOLEAN]
          /\ data \in [Buf -> Val] /\ disk \in [Buf -> Val]
          /\ in_intr \in {"no", "loop", "exit"}
          /\ owed \in BOOLEAN /\ irq \in BOOLEAN
          /\ pc \in [Buf -> {"idle", "alloc", "wait_free", "wait_io", "woken", "done"}]
          /\ write \in [Buf -> BOOLEAN]
          /\ idx0 \in [Buf -> Desc]
          /\ inflight \subseteq Desc

Submitted == {b \in Buf : pc[b] \in {"wait_io", "woken"}}

\* Every descriptor is free or in the chain of exactly one request, so
\* free_desc() never panics (virtio_disk.c:174) and no chain is lost.
DescOwned ==
  /\ \A b \in Submitted : Cardinality(Chain(idx0[b])) = 3 /\ Chain(idx0[b]) \cap free = {}
  /\ \A b, c \in Submitted : b # c => Chain(idx0[b]) \cap Chain(idx0[c]) = {}
  /\ Desc = free \cup UNION {Chain(idx0[b]) : b \in Submitted}

\* The handler finds each completed request with its buffer and a good
\* status (virtio_disk.c:316), also when it sees entries before the
\* interrupt that announces them.
NoPanic == (in_intr = "loop" /\ used_idx # dev_used_idx) =>
             LET r == info[used[UsedSlot]]
             IN r.status = 0 /\ r.b \in Submitted /\ busy[r.b]

\* When a request returns, the buffer and the block on the disk agree,
\* whatever the order in which the device served the requests.
TransferDone == \A b \in Buf : pc[b] = "done" => data[b] = disk[b]

\* A completed request that the driver has not seen has an interrupt coming:
\* the acknowledgement does not swallow one (virtio_disk.c:299-305).
NoLostInterrupt == used_idx # dev_used_idx => (in_intr = "loop" \/ irq \/ owed)

\* A process sleeps for descriptors only while fewer than three are free, and
\* for its request only while the disk has it.
NoLostWakeup ==
  \A b \in Buf : /\ pc[b] = "wait_free" => Cardinality(free) < 3
                 /\ pc[b] = "wait_io" => busy[b]

\* The four facts together, with the types: rings, descriptors, requests and
\* interrupts of the driver and the device agree (virtio_disk.c:213-327).
DiskConsistent == TypeOK /\ DescOwned /\ NoPanic /\ TransferDone /\ NoLostInterrupt

\* A request that the device has been told of returns, and when no new ones
\* come in, so does every request that waits for descriptors, although those
\* that fail to get three wake each other up (virtio_disk.c:208).
RequestsReturn(b) ==
  /\ pc[b] = "wait_io" ~> pc[b] = "done"
  /\ <>[][~Call]_vars => (pc[b] = "alloc" ~> pc[b] = "done")
=============================================================================
