----------------------------- MODULE LogCommit -----------------------------
(* Proof that commit(), recovery and crashes keep the inductive invariant  *)
(* of Log, one lemma per action.                                           *)
EXTENDS LogCalls

USE DEF stable, logvars, procvars, Goto

\* A step inside commit() leaves the calls and their reservations alone.
LEMMA CommitFrame ==
  ASSUME TypeOK, PhaseInv, OpInv, SpaceInv, NEW p \in Proc, pc[p] \in Committing,
         NEW l \in Committing, pc' = [pc EXCEPT ![p] = l],
         UNCHANGED <<outstanding, committing, buf, wset>>,
         lh' \in Seq(Block), Len(lh') <= Len(lh)
  PROVE  /\ PhaseInv' /\ OpInv' /\ SpaceInv'
         /\ Up /\ Up' /\ committing
         /\ pc' \in [Proc -> PCs] /\ pc'[p] = l
         /\ \A q \in Proc : q # p => pc'[q] = pc[q]
         /\ \A q \in Proc : q # p => pc[q] \notin Committing /\ pc[q] \notin Booting
         /\ \A b \in Block : Unlocked(b) /\ Unlocked(b)'
<1>1. /\ Up /\ committing /\ Active = {} /\ outstanding = 0
      /\ \A q \in Proc : pc[q] \notin Booting /\ pc[q] # "op" /\ buf[q] = NoBlock
      /\ \A q \in Proc : q # p => pc[q] \notin Committing
      /\ \A b \in Block : Unlocked(b)
  BY Zenon, Committer
<1>2. /\ pc' \in [Proc -> PCs] /\ pc'[p] = l
      /\ \A q \in Proc : q # p => pc'[q] = pc[q]
  BY Zenon DEF TypeOK, Committing, PCs
<1>3. \A q \in Proc : pc'[q] \notin Booting /\ pc'[q] # "op" /\ pc'[q] # "unused"
  BY Zenon, <1>1, <1>2 DEF Booting, Committing, PhaseInv
<1>4. Up' /\ Active' = Active
  BY Zenon, <1>1, <1>3, LogAssumption DEF Up, Active
<1>5. PhaseInv'
  BY Zenon, <1>1, <1>2, <1>3, <1>4, FS_EmptySet DEF PhaseInv
<1>6. OpInv'
  BY Zenon, <1>1 DEF OpInv
<1>7. SpaceInv'
  BY Zenon, <1>4, SpaceFrame DEF TypeOK
<1>8. \A b \in Block : Unlocked(b)'
  BY Zenon, <1>1, LogAssumption DEF Unlocked
<1> QED
  BY Zenon, <1>1, <1>2, <1>4, <1>5, <1>6, <1>7, <1>8

\* Entering commit() keeps the invariant.
LEMMA CommitStep ==
  ASSUME IInv, NEW p \in Proc, commit(p)
  PROVE  IInv'
<1> USE DEF IInv
<1>1. /\ pc[p] = "commit" /\ pc[p] \in Committing
      /\ tail' = [tail EXCEPT ![p] = 1]
      /\ UNCHANGED <<stable, cache, pin, logvars, buf, wset>>
  BY Zenon DEF commit, Committing
<1>2. PICK l \in Committing : /\ pc' = [pc EXCEPT ![p] = l]
                              /\ \/ l = "write_log" /\ Len(lh) > 0
                                 \/ l = "committed" /\ lh = <<>>
  BY DEF commit, Committing, TypeOK
<1>3. /\ PhaseInv' /\ OpInv' /\ SpaceInv'
      /\ Up /\ Up' /\ committing
      /\ pc' \in [Proc -> PCs] /\ pc'[p] = l
      /\ \A q \in Proc : q # p => pc'[q] = pc[q]
      /\ \A q \in Proc : q # p => pc[q] \notin Committing /\ pc[q] \notin Booting
      /\ \A b \in Block : Unlocked(b) /\ Unlocked(b)'
  <2>1. /\ TypeOK /\ PhaseInv /\ OpInv /\ SpaceInv
        /\ lh' \in Seq(Block) /\ Len(lh') <= Len(lh)
    BY <1>1 DEF TypeOK
  <2> HIDE DEF IInv
  <2> QED
    BY Zenon, <1>1, <1>2, <2>1, CommitFrame
<1>4. tail' \in [Proc -> Nat \ {0}] /\ tail'[p] = 1
  BY <1>1 DEF TypeOK
<1>5. TypeOK'
  BY Zenon, <1>1, <1>3, <1>4 DEF TypeOK
<1>6. \A q \in Proc : q # p => pc'[q] \notin Committing /\ pc'[q] \notin Booting
  BY Zenon, <1>3
<1>7. LogInv'
  <2>1. hdr = <<>>
    BY Zenon, <1>1, <1>3 DEF LogInv, Committing
  <2>2. Len(lh) \in Nat
    BY DEF TypeOK
  <2> QED
    BY <1>1, <1>2, <1>3, <1>4, <1>6, <2>1, <2>2 DEF LogInv, Committing, Booting
<1>8. Waiting' = Logged' /\ Waiting = Logged
  BY <1>1, <1>2, <1>3, <1>6 DEF Waiting, Logged, Entries, Committing, Booting
<1>9. Waiting' = Waiting
  BY Zenon, <1>1, <1>8 DEF Logged
<1>10. PinsMatchLog' /\ CacheInv'
  BY Zenon, <1>1, <1>9 DEF PinsMatchLog, CacheInv, Unlocked
<1>11. CopyInv'
  BY <1>2, <1>3, <1>4, <1>6 DEF CopyInv, Committing, Booting
<1> QED
  BY Zenon, <1>3, <1>5, <1>7, <1>10, <1>11

\* An iteration of write_log() keeps the invariant.
LEMMA WriteLog ==
  ASSUME IInv, NEW p \in Proc, write_log(p)
  PROVE  IInv'
<1> DEFINE t == tail[p]
           b == lh[t]
<1> USE DEF IInv
<1>1. /\ pc[p] = "write_log" /\ pc[p] \in Committing
      /\ cache' = [cache EXCEPT ![b] = View(b)]
      /\ dlog' = [dlog EXCEPT ![t] = View(b)]
      /\ UNCHANGED <<disk, hdr, pin, logvars, buf, wset>>
  BY Zenon DEF write_log, Committing
<1>2. /\ t \in 1..Len(lh) /\ b \in Block /\ lh \in Seq(Block) /\ Len(lh) \in Nat
  BY <1>1 DEF LogInv, TypeOK
<1>3. PICK l \in Committing :
        /\ pc' = [pc EXCEPT ![p] = l]
        /\ \/ l = "write_log" /\ t < Len(lh) /\ tail' = [tail EXCEPT ![p] = t + 1]
           \/ l = "write_head" /\ t = Len(lh) /\ tail' = [tail EXCEPT ![p] = 1]
  <2>1. CASE t < Len(lh)
    <3>1. pc' = [pc EXCEPT ![p] = "write_log"]
      BY Zenon, <1>1, <2>1 DEF write_log, NextTail, TypeOK
    <3> QED
      BY Zenon, <2>1, <3>1 DEF write_log, NextTail, Committing
  <2>2. CASE ~(t < Len(lh))
    BY <1>2, <2>2 DEF write_log, NextTail, Committing
  <2> QED
    BY Zenon, <2>1, <2>2
<1>4. /\ PhaseInv' /\ OpInv' /\ SpaceInv'
      /\ Up /\ Up' /\ committing
      /\ pc' \in [Proc -> PCs] /\ pc'[p] = l
      /\ \A q \in Proc : q # p => pc'[q] = pc[q]
      /\ \A q \in Proc : q # p => pc[q] \notin Committing /\ pc[q] \notin Booting
      /\ \A c \in Block : Unlocked(c) /\ Unlocked(c)'
  <2>1. /\ TypeOK /\ PhaseInv /\ OpInv /\ SpaceInv
        /\ lh' \in Seq(Block) /\ Len(lh') <= Len(lh)
    BY <1>1, <1>2
  <2> HIDE DEF IInv
  <2> QED
    BY Zenon, <1>1, <1>3, <2>1, CommitFrame
<1>5. \A q \in Proc : q # p => pc'[q] \notin Committing /\ pc'[q] \notin Booting
  BY <1>4
<1>6. /\ tail' \in [Proc -> Nat \ {0}]
      /\ tail'[p] = IF l = "write_log" THEN t + 1 ELSE 1
  BY <1>2, <1>3 DEF TypeOK
<1>7. Waiting = Logged /\ Waiting' = Logged' /\ Logged' = Logged
  <2>1. Logged' = Logged
    BY Zenon, <1>1 DEF Logged, Entries
  <2>2. Waiting = Logged
    BY Zenon, <1>1, <1>4 DEF Waiting, Logged, Entries, Committing, Booting
  <2>3. Waiting' = Logged'
    BY Zenon, <1>3, <1>4, <1>5 DEF Waiting, Logged, Entries, Committing, Booting
  <2> QED
    BY Zenon, <2>1, <2>2, <2>3
<1>8. b \in Waiting /\ cache[b] # NoBuf /\ View(b) = cache[b] /\ View(b) \in Val
  BY Zenon, <1>2, <1>7 DEF Logged, Entries, CacheInv, View, TypeOK
<1>9. cache' = cache
  BY Zenon, <1>1, <1>8 DEF TypeOK
<1>10. t \in 1..LOGSIZE
  BY <1>2, ActiveFinite, LogAssumption DEF SpaceInv
<1>11. dlog' \in [1..LOGSIZE -> Val] /\ dlog'[t] = View(b) /\ \A i \in 1..LOGSIZE : i # t => dlog'[i] = dlog[i]
  BY Zenon, <1>1, <1>8, <1>10 DEF TypeOK
<1>12. TypeOK'
  BY Zenon, <1>1, <1>4, <1>6, <1>9, <1>11 DEF TypeOK
<1>13. LogInv'
  BY <1>1, <1>2, <1>3, <1>4, <1>5, <1>6 DEF LogInv, Committing, Booting
<1>14. PinsMatchLog' /\ CacheInv'
  BY Zenon, <1>1, <1>4, <1>7, <1>9 DEF PinsMatchLog, CacheInv
<1>15. CopyInv'
  <2>1. \A i \in 1..Len(lh) : i < t => dlog[i] = View(lh[i])
    BY Zenon, <1>1 DEF CopyInv
  <2>2. \A i \in 1..Len(lh) : i <= t => dlog'[i] = View(lh[i])'
    BY <1>1, <1>2, <1>9, <1>10, <1>11, <2>1 DEF View
  <2> QED
    BY <1>1, <1>2, <1>3, <1>4, <1>5, <1>6, <2>2 DEF CopyInv, Committing, Booting
<1> QED
  BY <1>4, <1>12, <1>13, <1>14, <1>15

\* An iteration of install_trans() in a commit keeps the invariant.
LEMMA InstallCommit ==
  ASSUME IInv, NEW p \in Proc, install_trans(p), pc[p] = "install"
  PROVE  IInv'
<1> DEFINE t == tail[p]
           b == lh[t]
<1> USE DEF IInv
<1>1. /\ pc[p] \in Committing
      /\ cache' = [cache EXCEPT ![b] = dlog[t]]
      /\ disk' = [disk EXCEPT ![b] = dlog[t]]
      /\ pin' = [pin EXCEPT ![b] = @ - 1]
      /\ lh' = IF t < Len(lh) THEN lh ELSE <<>>
      /\ UNCHANGED <<dlog, hdr, outstanding, committing, buf, wset>>
  BY Zenon DEF install_trans, Committing, Unpinned, bunpin
<1>2. /\ t \in 1..Len(lh) /\ b \in Block /\ lh \in Seq(Block) /\ Len(lh) \in Nat /\ hdr = lh
  BY DEF LogInv, TypeOK
<1>3. PICK l \in Committing :
        /\ pc' = [pc EXCEPT ![p] = l]
        /\ \/ l = "install" /\ t < Len(lh) /\ tail' = [tail EXCEPT ![p] = t + 1]
           \/ l = "clear" /\ t = Len(lh) /\ tail' = [tail EXCEPT ![p] = 1]
  <2>1. CASE t < Len(lh)
    <3>1. pc' = [pc EXCEPT ![p] = "install"]
      BY Zenon, <2>1 DEF install_trans, NextTail, TypeOK
    <3> QED
      BY Zenon, <2>1, <3>1 DEF install_trans, NextTail, Committing
  <2>2. CASE ~(t < Len(lh))
    BY <1>2, <2>2 DEF install_trans, NextTail, Committing
  <2> QED
    BY Zenon, <2>1, <2>2
<1>4. /\ PhaseInv' /\ OpInv' /\ SpaceInv'
      /\ Up /\ Up' /\ committing
      /\ pc' \in [Proc -> PCs] /\ pc'[p] = l
      /\ \A q \in Proc : q # p => pc'[q] = pc[q]
      /\ \A q \in Proc : q # p => pc[q] \notin Committing /\ pc[q] \notin Booting
      /\ \A c \in Block : Unlocked(c) /\ Unlocked(c)'
  <2>1. /\ TypeOK /\ PhaseInv /\ OpInv /\ SpaceInv
        /\ lh' \in Seq(Block) /\ Len(lh') <= Len(lh)
    BY <1>1, <1>2
  <2> HIDE DEF IInv
  <2> QED
    BY Zenon, <1>1, <1>3, <2>1, CommitFrame
<1>5. \A q \in Proc : q # p => pc'[q] \notin Committing /\ pc'[q] \notin Booting
  BY Zenon, <1>4
<1>6. /\ tail' \in [Proc -> Nat \ {0}]
      /\ tail'[p] = IF l = "install" THEN t + 1 ELSE 1
  <2>1. tail \in [Proc -> Nat \ {0}] /\ t \in Nat /\ t + 1 \in Nat \ {0}
    BY <1>2 DEF TypeOK
  <2> HIDE DEF IInv, t
  <2> QED
    BY <1>3, <2>1
<1>7. \A c : c \in Waiting <=> \E i \in 1..Len(lh) : t <= i /\ lh[i] = c
  BY Zenon, <1>4 DEF Waiting, Committing, Booting
<1>8. \A i, j \in 1..Len(lh) : lh[i] = lh[j] => i = j
  BY Zenon DEF LogInv
<1>9. Waiting' = Waiting \ {b}
  <2>1. CASE l = "install"
    <3>1. \A c : c \in Waiting' <=> \E i \in 1..Len(lh) : t + 1 <= i /\ lh[i] = c
      BY ZenonT(30), <1>1, <1>3, <1>4, <1>5, <1>6, <2>1 DEF Waiting, Committing, Booting
    <3> QED
      BY <1>2, <1>7, <1>8, <3>1
  <2>2. CASE l # "install"
    <3>1. Waiting' = {}
      BY <1>1, <1>3, <2>2 DEF Waiting
    <3>2. \A c \in Waiting : c = b
      BY <1>2, <1>3, <1>7, <2>2
    <3> QED
      BY Zenon, <3>1, <3>2
  <2> QED
    BY Zenon, <2>1, <2>2
<1>10. t \in 1..LOGSIZE /\ dlog[t] \in Val /\ dlog[t] # NoBuf
  BY <1>2, LogAssumption DEF LogInv, TypeOK
<1>11. /\ pin[b] = 1 /\ b \in Waiting
  BY <1>2, <1>7 DEF PinsMatchLog
<1>12. \A c \in Block : /\ cache'[c] = IF c = b THEN dlog[t] ELSE cache[c]
                        /\ disk'[c] = IF c = b THEN dlog[t] ELSE disk[c]
                        /\ pin'[c] = IF c = b THEN 0 ELSE pin[c]
  BY <1>1, <1>2, <1>11 DEF TypeOK
<1>13. TypeOK'
  <2>1. /\ cache' \in [Block -> Val \cup {NoBuf}] /\ disk' \in [Block -> Val]
        /\ pin' \in [Block -> Nat] /\ lh' \in Seq(Block)
    BY <1>1, <1>2, <1>10, <1>11 DEF TypeOK
  <2> QED
    BY Zenon, <1>1, <1>4, <1>6, <2>1 DEF TypeOK
<1>14. LogInv'
  BY <1>1, <1>2, <1>3, <1>4, <1>5, <1>6 DEF LogInv, Committing, Booting
<1>15. PinsMatchLog'
  BY Zenon, <1>9, <1>12 DEF PinsMatchLog
<1>16. CacheInv'
  BY Zenon, <1>4, <1>9, <1>12 DEF CacheInv
<1>17. CopyInv'
  <2>1. \A i \in 1..Len(lh) : /\ dlog[i] = View(lh[i])
                              /\ i < t => disk[lh[i]] = dlog[i]
                              /\ lh[i] \in Block
    BY <1>2 DEF CopyInv
  <2>2. \A i \in 1..Len(lh) : i # t => lh[i] # b
    BY Zenon, <1>2, <1>8
  <2>3. \A i \in 1..Len(lh) : i <= t => disk'[lh[i]] = dlog[i]
    BY <1>2, <1>12, <2>1, <2>2
  <2>4. \A i \in 1..Len(lh) : dlog[i] = IF cache'[lh[i]] = NoBuf THEN disk'[lh[i]] ELSE cache'[lh[i]]
    BY <1>2, <1>10, <1>12, <2>1, <2>2 DEF View
  <2>5. CASE l = "install"
    BY <1>1, <1>2, <1>3, <1>4, <1>5, <1>6, <2>3, <2>4, <2>5 DEF CopyInv, Committing, Booting, View
  <2>6. CASE l = "clear"
    BY <1>1, <1>2, <1>3, <1>4, <1>5, <2>3, <2>6 DEF CopyInv, Committing, Booting
  <2> QED
    BY Zenon, <1>3, <2>5, <2>6
<1> QED
  BY Zenon, <1>4, <1>13, <1>14, <1>15, <1>16, <1>17

\* Before the first process has recovered the log it is alone.
LEMMA Booter ==
  ASSUME TypeOK, PhaseInv, OpInv, NEW p \in Proc, pc[p] \in Booting
  PROVE  /\ p = InitProc /\ ~Up /\ ~committing /\ Active = {} /\ outstanding = 0
         /\ \A q \in Proc : q # p => pc[q] = "unused"
         /\ \A q \in Proc : buf[q] = NoBlock /\ wset[q] = {}
         /\ \A b \in Block : Unlocked(b)
<1>1. p = InitProc /\ ~Up
  BY Zenon DEF PhaseInv, Up
<1>2. \A q \in Proc : q # p => pc[q] = "unused"
  BY Zenon, <1>1 DEF PhaseInv
<1>3. ~committing /\ Active = {}
  BY Zenon, <1>2 DEF PhaseInv, Committing, Booting, Active
<1>4. outstanding = 0
  BY Zenon, <1>3, FS_EmptySet DEF PhaseInv
<1>5. \A q \in Proc : buf[q] = NoBlock /\ wset[q] = {}
  BY Zenon, <1>2 DEF OpInv, Booting
<1>6. \A b \in Block : Unlocked(b)
  BY Zenon, <1>5, LogAssumption DEF Unlocked
<1> QED
  BY Zenon, <1>1, <1>2, <1>3, <1>4, <1>5, <1>6

\* A step of recovery.
LEMMA BootFrame ==
  ASSUME TypeOK, PhaseInv, OpInv, NEW p \in Proc, pc[p] \in Booting,
         NEW l \in Booting, pc' = [pc EXCEPT ![p] = l],
         UNCHANGED <<outstanding, committing, buf, wset>>,
         lh' \in Seq(Block), Len(lh') <= LOGSIZE
  PROVE  /\ PhaseInv' /\ OpInv' /\ SpaceInv'
         /\ ~Up' /\ pc' \in [Proc -> PCs] /\ pc'[p] = l
         /\ \A q \in Proc : q # p => pc'[q] = "unused"
         /\ \A b \in Block : Unlocked(b) /\ Unlocked(b)'
<1>1. /\ p = InitProc /\ ~Up /\ ~committing /\ Active = {} /\ outstanding = 0
      /\ \A q \in Proc : q # p => pc[q] = "unused"
      /\ \A q \in Proc : buf[q] = NoBlock /\ wset[q] = {}
      /\ \A b \in Block : Unlocked(b)
  BY Zenon, Booter
<1>2. /\ pc' \in [Proc -> PCs] /\ pc'[p] = l
      /\ \A q \in Proc : q # p => pc'[q] = "unused"
  BY Zenon, <1>1 DEF TypeOK, Booting, PCs
<1>3. ~Up' /\ Active' = {}
  BY Zenon, <1>1, <1>2 DEF Up, Active, Booting
<1>4. PhaseInv'
  BY <1>1, <1>2, <1>3, FS_EmptySet DEF PhaseInv, Committing, Booting
<1>5. OpInv'
  BY Zenon, <1>1 DEF OpInv
<1>6. SpaceInv'
  <2>1. Reserved' = {}
    BY Zenon, <1>3 DEF Reserved
  <2>2. Cardinality(Reserved') = 0 /\ Len(lh') \in Nat
    BY <2>1, FS_EmptySet
  <2> QED
    BY <2>2, LogAssumption DEF SpaceInv
<1>7. \A b \in Block : Unlocked(b)'
  BY Zenon, <1>1, LogAssumption DEF Unlocked
<1> QED
  BY Zenon, <1>1, <1>2, <1>3, <1>4, <1>5, <1>6, <1>7

\* An iteration of install_trans() in recovery keeps the invariant.
LEMMA InstallRecover ==
  ASSUME IInv, NEW p \in Proc, install_trans(p), pc[p] = "recover"
  PROVE  IInv'
<1> DEFINE t == tail[p]
           b == lh[t]
<1> USE DEF IInv
<1>1. /\ pc[p] \in Booting
      /\ cache' = [cache EXCEPT ![b] = dlog[t]]
      /\ disk' = [disk EXCEPT ![b] = dlog[t]]
      /\ lh' = IF t < Len(lh) THEN lh ELSE <<>>
      /\ UNCHANGED <<dlog, hdr, pin, outstanding, committing, buf, wset>>
  BY Zenon DEF install_trans, Booting, Unpinned
<1>2. /\ t \in 1..Len(lh) /\ b \in Block /\ lh \in Seq(Block) /\ Len(lh) \in Nat /\ hdr = lh
      /\ Len(lh) <= LOGSIZE
  BY DEF LogInv, TypeOK
<1>3. PICK l \in Booting :
        /\ pc' = [pc EXCEPT ![p] = l]
        /\ \/ l = "recover" /\ t < Len(lh) /\ tail' = [tail EXCEPT ![p] = t + 1]
           \/ l = "recover_clear" /\ t = Len(lh) /\ tail' = [tail EXCEPT ![p] = 1]
  <2>1. CASE t < Len(lh)
    <3>1. pc' = [pc EXCEPT ![p] = "recover"]
      BY Zenon, <2>1 DEF install_trans, NextTail, TypeOK
    <3> QED
      BY Zenon, <2>1, <3>1 DEF install_trans, NextTail, Booting
  <2>2. CASE ~(t < Len(lh))
    BY <1>2, <2>2 DEF install_trans, NextTail, Booting
  <2> QED
    BY Zenon, <2>1, <2>2
<1>4. /\ PhaseInv' /\ OpInv' /\ SpaceInv'
      /\ ~Up' /\ pc' \in [Proc -> PCs] /\ pc'[p] = l
      /\ \A q \in Proc : q # p => pc'[q] = "unused"
      /\ \A c \in Block : Unlocked(c) /\ Unlocked(c)'
  <2>1. /\ TypeOK /\ PhaseInv /\ OpInv
        /\ lh' \in Seq(Block) /\ Len(lh') <= LOGSIZE
    BY <1>1, <1>2, LogAssumption
  <2> HIDE DEF IInv
  <2> QED
    BY Zenon, <1>1, <1>3, <2>1, BootFrame
<1>5. /\ tail' \in [Proc -> Nat \ {0}]
      /\ tail'[p] = IF l = "recover" THEN t + 1 ELSE 1
  <2>1. tail \in [Proc -> Nat \ {0}] /\ t \in Nat /\ t + 1 \in Nat \ {0}
    BY <1>2 DEF TypeOK
  <2> HIDE DEF IInv, t
  <2> QED
    BY <1>3, <2>1
<1>6. Waiting = {} /\ Waiting' = {}
  BY <1>1, <1>3, <1>4 DEF Waiting
<1>7. t \in 1..LOGSIZE /\ dlog[t] \in Val
  BY <1>2, LogAssumption DEF TypeOK
<1>8. \A c \in Block : /\ cache'[c] = IF c = b THEN dlog[t] ELSE cache[c]
                       /\ disk'[c] = IF c = b THEN dlog[t] ELSE disk[c]
  BY Zenon, <1>1, <1>2 DEF TypeOK
<1>9. TypeOK'
  <2>1. /\ cache' \in [Block -> Val \cup {NoBuf}] /\ disk' \in [Block -> Val]
        /\ lh' \in Seq(Block)
    BY <1>1, <1>2, <1>7 DEF TypeOK
  <2> QED
    BY Zenon, <1>1, <1>4, <1>5, <2>1 DEF TypeOK
<1>10. LogInv'
  BY <1>1, <1>2, <1>3, <1>4, <1>5 DEF LogInv
<1>11. PinsMatchLog'
  BY Zenon, <1>1, <1>6 DEF PinsMatchLog
<1>12. CacheInv'
  BY Zenon, <1>4, <1>6, <1>8 DEF CacheInv
<1>13. CopyInv'
  <2>1. \A i \in 1..Len(lh) : (i < t => disk[lh[i]] = dlog[i]) /\ lh[i] \in Block
    BY <1>2 DEF CopyInv
  <2>2. \A i \in 1..Len(lh) : i <= t => disk'[lh[i]] = dlog[i]
    BY <1>2, <1>8, <2>1 DEF LogInv
  <2>3. CASE l = "recover"
    BY <1>1, <1>2, <1>3, <1>4, <1>5, <2>2, <2>3 DEF CopyInv
  <2>4. CASE l = "recover_clear"
    BY <1>1, <1>2, <1>3, <1>4, <2>2, <2>4 DEF CopyInv
  <2> QED
    BY Zenon, <1>3, <2>3, <2>4
<1> QED
  BY Zenon, <1>4, <1>9, <1>10, <1>11, <1>12, <1>13

\* write_head() in a commit keeps the invariant.
LEMMA WriteHeadCommit ==
  ASSUME IInv, NEW p \in Proc, write_head(p), pc[p] \in {"write_head", "clear"}
  PROVE  IInv'
<1> USE DEF IInv
<1>1. /\ pc[p] \in Committing /\ hdr' = lh
      /\ UNCHANGED <<disk, dlog, cache, pin, logvars, tail, buf, wset>>
  BY Zenon DEF write_head, Committing
<1>2. PICK l \in Committing :
        /\ pc' = [pc EXCEPT ![p] = l]
        /\ \/ l = "install" /\ pc[p] = "write_head"
           \/ l = "committed" /\ pc[p] = "clear"
  BY Zenon DEF write_head, Committing
<1>3. /\ PhaseInv' /\ OpInv' /\ SpaceInv'
      /\ Up /\ Up' /\ committing
      /\ pc' \in [Proc -> PCs] /\ pc'[p] = l
      /\ \A q \in Proc : q # p => pc'[q] = pc[q]
      /\ \A q \in Proc : q # p => pc[q] \notin Committing /\ pc[q] \notin Booting
      /\ \A c \in Block : Unlocked(c) /\ Unlocked(c)'
  <2>1. /\ TypeOK /\ PhaseInv /\ OpInv /\ SpaceInv
        /\ lh' \in Seq(Block) /\ Len(lh') <= Len(lh)
    BY <1>1 DEF TypeOK
  <2> HIDE DEF IInv
  <2> QED
    BY Zenon, <1>1, <1>2, <2>1, CommitFrame
<1>4. \A q \in Proc : q # p => pc'[q] \notin Committing /\ pc'[q] \notin Booting
  BY Zenon, <1>3
<1>5. TypeOK'
  BY Zenon, <1>1, <1>3 DEF TypeOK
<1>6. Len(lh) <= LOGSIZE /\ Len(lh) \in Nat
  BY ActiveFinite, LogAssumption DEF SpaceInv, TypeOK
<1>7. LogInv'
  BY <1>1, <1>2, <1>3, <1>4, <1>6 DEF LogInv, Committing, Booting
<1>8. Waiting' = Waiting
  <2>1. CASE l = "install"
    <3>1. tail[p] = 1
      BY Zenon, <1>2, <2>1 DEF LogInv
    <3>2. Waiting = Logged /\ Waiting' = Logged
      BY <1>1, <1>2, <1>3, <1>4, <2>1, <3>1 DEF Waiting, Logged, Entries, Committing, Booting
    <3> QED
      BY Zenon, <3>2
  <2>2. CASE l = "committed"
    BY <1>1, <1>2, <2>2 DEF Waiting, LogInv
  <2> QED
    BY Zenon, <1>2, <2>1, <2>2
<1>9. PinsMatchLog' /\ CacheInv'
  BY Zenon, <1>1, <1>8 DEF PinsMatchLog, CacheInv, Unlocked
<1>10. CopyInv'
  <2>1. CASE l = "install"
    <3>1. tail[p] = 1
      BY <1>2, <2>1 DEF LogInv
    <3>2. \A i \in 1..Len(lh) : dlog[i] = View(lh[i])
      BY Zenon, <1>2, <2>1 DEF CopyInv
    <3>3. \A i \in 1..Len(lh) : ~(i < tail[p])
      BY <3>1
    <3>4. \A q \in Proc : pc'[q] \in Committing \cup Booting => q = p /\ pc'[q] = "install"
      BY Zenon, <1>3, <1>4, <2>1
    <3>5. UNCHANGED <<disk, dlog, cache, lh, tail>>
      BY Zenon, <1>1
    <3> HIDE DEF IInv
    <3> QED
      BY <3>2, <3>3, <3>4, <3>5 DEF CopyInv, View, Committing, Booting
  <2>2. CASE l = "committed"
    BY Zenon, <1>3, <1>4, <2>2 DEF CopyInv, Committing, Booting
  <2> QED
    BY Zenon, <1>2, <2>1, <2>2
<1> QED
  BY Zenon, <1>3, <1>5, <1>7, <1>9, <1>10

\* write_head() at the end of recovery keeps the invariant.
LEMMA WriteHeadRecover ==
  ASSUME IInv, NEW p \in Proc, write_head(p), pc[p] = "recover_clear"
  PROVE  IInv'
<1> USE DEF IInv
<1>1. /\ pc[p] \in Booting /\ hdr' = lh /\ lh = <<>>
      /\ pc' = [q \in Proc |-> "user"]
      /\ UNCHANGED <<disk, dlog, cache, pin, logvars, tail, buf, wset>>
  BY Zenon DEF write_head, Booting, LogInv
<1>2. /\ ~committing /\ Active = {} /\ outstanding = 0
      /\ \A q \in Proc : buf[q] = NoBlock /\ wset[q] = {}
  BY Zenon, <1>1, Booter
<1>3. TypeOK'
  BY Zenon, <1>1 DEF TypeOK, PCs
<1>4. \A q \in Proc : pc'[q] = "user"
  BY Zenon, <1>1
<1>5. Active' = Active /\ Up'
  BY Zenon, <1>2, <1>4, LogAssumption DEF Active, Up, Booting
<1>6. PhaseInv'
  BY Zenon, <1>1, <1>2, <1>4, <1>5, FS_EmptySet DEF PhaseInv, Committing, Booting
<1>7. OpInv'
  BY Zenon, <1>1, <1>2 DEF OpInv, Logged
<1>8. SpaceInv'
  BY <1>1, <1>5, SpaceFrame DEF TypeOK
<1>9. LogInv'
  BY <1>1, <1>4, LogAssumption DEF LogInv
<1>10. Waiting' = Waiting
  BY <1>1 DEF Waiting
<1>11. PinsMatchLog' /\ CacheInv'
  BY Zenon, <1>1, <1>10 DEF PinsMatchLog, CacheInv, Unlocked
<1>12. CopyInv'
  BY Zenon, <1>4 DEF CopyInv
<1> QED
  BY Zenon, <1>3, <1>6, <1>7, <1>8, <1>9, <1>11, <1>12

\* read_head() keeps the invariant.
LEMMA ReadHead ==
  ASSUME IInv, NEW p \in Proc, read_head(p)
  PROVE  IInv'
<1> USE DEF IInv
<1>1. /\ pc[p] = "read_head" /\ pc[p] \in Booting /\ lh' = hdr /\ lh = <<>> /\ tail[p] = 1
      /\ UNCHANGED <<stable, cache, pin, outstanding, committing, tail, buf, wset>>
  BY Zenon DEF read_head, Booting, LogInv
<1>2. hdr \in Seq(Block) /\ Len(hdr) <= LOGSIZE /\ Len(hdr) \in Nat
  BY DEF TypeOK, LogInv
<1>3. PICK l \in Booting :
        /\ pc' = [pc EXCEPT ![p] = l]
        /\ \/ l = "recover" /\ Len(hdr) > 0
           \/ l = "recover_clear" /\ hdr = <<>>
  BY <1>2 DEF read_head, Booting
<1>4. /\ PhaseInv' /\ OpInv' /\ SpaceInv'
      /\ ~Up' /\ pc' \in [Proc -> PCs] /\ pc'[p] = l
      /\ \A q \in Proc : q # p => pc'[q] = "unused"
      /\ \A c \in Block : Unlocked(c) /\ Unlocked(c)'
  <2>1. /\ TypeOK /\ PhaseInv /\ OpInv
        /\ lh' \in Seq(Block) /\ Len(lh') <= LOGSIZE
    BY Zenon, <1>1, <1>2
  <2> HIDE DEF IInv
  <2> QED
    BY Zenon, <1>1, <1>3, <2>1, BootFrame
<1>5. TypeOK'
  BY Zenon, <1>1, <1>2, <1>4 DEF TypeOK
<1>6. LogInv'
  BY <1>1, <1>2, <1>3, <1>4 DEF LogInv
<1>7. Waiting = {} /\ Waiting' = {}
  BY <1>1, <1>3, <1>4 DEF Waiting
<1>8. PinsMatchLog' /\ CacheInv'
  BY Zenon, <1>1, <1>7 DEF PinsMatchLog, CacheInv, Unlocked
<1>9. CopyInv'
  BY <1>1, <1>2, <1>3, <1>4 DEF CopyInv
<1> QED
  BY Zenon, <1>4, <1>5, <1>6, <1>8, <1>9

\* The invariant holds when the machine is first switched on.
LEMMA Booted ==
  ASSUME Init
  PROVE  IInv
<1>1. /\ pc \in [Proc -> PCs] /\ pc[InitProc] = "read_head"
      /\ \A q \in Proc : q # InitProc => pc[q] = "unused"
  BY Zenon, LogAssumption DEF Init, Boot, PCs, Booting
<1>2. TypeOK
  <2>1. /\ tail \in [Proc -> Nat \ {0}] /\ buf \in [Proc -> Block \cup {NoBlock}]
        /\ wset \in [Proc -> SUBSET Block] /\ pin \in [Block -> Nat]
        /\ cache \in [Block -> Val \cup {NoBuf}]
    BY DEF Init
  <2>2. disk \in [Block -> Val] /\ dlog \in [1..LOGSIZE -> Val] /\ hdr \in Seq(Block)
    BY DEF Init
  <2> QED
    BY Zenon, <1>1, <2>1, <2>2 DEF Init, TypeOK
<1>3. ~Up /\ Active = {}
  BY Zenon, <1>1 DEF Up, Booting, Active
<1>4. PhaseInv
  BY Zenon, <1>1, <1>3, FS_EmptySet DEF Init, PhaseInv, Booting, Committing
<1>5. OpInv
  BY FS_EmptySet, LogAssumption DEF Init, OpInv
<1>6. SpaceInv
  <2>1. Reserved = {}
    BY Zenon, <1>3 DEF Reserved
  <2> QED
    BY <2>1, FS_EmptySet, LogAssumption DEF Init, SpaceInv
<1>7. LogInv
  BY <1>1, <1>3, LogAssumption DEF Init, LogInv
<1>8. Waiting = {}
  BY DEF Init, Waiting
<1>9. PinsMatchLog /\ CacheInv
  BY Zenon, <1>8, LogAssumption DEF Init, PinsMatchLog, CacheInv, Unlocked
<1>10. CopyInv
  BY Zenon, <1>1 DEF CopyInv
<1> QED
  BY Zenon, <1>2, <1>4, <1>5, <1>6, <1>7, <1>9, <1>10 DEF IInv

\* A crash keeps the invariant.
LEMMA CrashStep ==
  ASSUME IInv, Crash
  PROVE  IInv'
<1>1. /\ pc' \in [Proc -> PCs] /\ pc'[InitProc] = "read_head"
      /\ \A q \in Proc : q # InitProc => pc'[q] = "unused"
  BY Zenon, LogAssumption DEF Crash, Boot, PCs, Booting
<1>2. TypeOK'
  <2>1. /\ tail' \in [Proc -> Nat \ {0}] /\ buf' \in [Proc -> Block \cup {NoBlock}]
        /\ wset' \in [Proc -> SUBSET Block] /\ pin' \in [Block -> Nat]
        /\ cache' \in [Block -> Val \cup {NoBuf}]
    BY DEF Crash
  <2>2. disk' \in [Block -> Val] /\ dlog' \in [1..LOGSIZE -> Val] /\ hdr' \in Seq(Block)
    BY Zenon DEF Crash, IInv, TypeOK
  <2>3. lh' = <<>> /\ outstanding' = 0
    BY Zenon DEF Crash
  <2>4. committing' \in BOOLEAN
    BY Zenon DEF Crash
  <2>5. lh' \in Seq(Block) /\ outstanding' \in Nat
    BY <2>3
  <2> QED
    BY Zenon, <1>1, <2>1, <2>2, <2>4, <2>5 DEF TypeOK
<1>3. ~Up' /\ Active' = {}
  BY Zenon, <1>1 DEF Up, Booting, Active
<1>4. PhaseInv'
  BY Zenon, <1>1, <1>3, FS_EmptySet DEF Crash, PhaseInv, Booting, Committing
<1>5. OpInv'
  BY FS_EmptySet, LogAssumption DEF Crash, OpInv
<1>6. SpaceInv'
  <2>1. Reserved' = {}
    BY Zenon, <1>3 DEF Reserved
  <2> QED
    BY <2>1, FS_EmptySet, LogAssumption DEF Crash, SpaceInv
<1>7. LogInv'
  BY <1>1, <1>3, LogAssumption DEF Crash, LogInv, IInv
<1>8. Waiting' = {}
  BY DEF Crash, Waiting
<1>9. PinsMatchLog' /\ CacheInv'
  BY Zenon, <1>8, LogAssumption DEF Crash, PinsMatchLog, CacheInv, Unlocked
<1>10. CopyInv'
  BY Zenon, <1>1 DEF CopyInv
<1> QED
  BY Zenon, <1>2, <1>4, <1>5, <1>6, <1>7, <1>9, <1>10 DEF IInv
=============================================================================
