------------------------------ MODULE FileSys ------------------------------
(***************************************************************************)
(* Inodes, directories, path names and open files: kernel/fs.c, file.c and *)
(* the calls of sysfile.c that change the tree.                            *)
(*                                                                         *)
(* A step runs from one sleep-lock or itable.lock to the next.  What a     *)
(* call has still to unlock and to iput() is its list todo.  A table entry *)
(* is named by the inode it holds: iget() finds the entry of an inode in   *)
(* use and reads a recycled one again.  A directory is a function from     *)
(* names to inode numbers, 0 if absent; file contents are in FileData.     *)
(* Calls run inside transactions, which Log makes atomic in a crash.       *)
(***************************************************************************)
EXTENDS Integers, Sequences, FiniteSets

CONSTANTS Proc, InitProc,
          Inum, Root,  \* inode numbers (0 is none) and the root's
          Name,    \* file names other than "." and ".."
          Call,    \* system calls the programs make
          NINODE,  \* entries of the inode table
          NFILE,   \* entries of the file table
          NOFILE   \* descriptors of a process

Dot == {".", ".."}
\* A path is [abs, elems]: from the root or from the cwd, and the names in it.
Path == [abs : BOOLEAN, elems : Seq(Name \cup Dot)]

ASSUME FsAssumption ==
  /\ IsFiniteSet(Proc) /\ InitProc \in Proc /\ "none" \notin Proc
  /\ Root \in Inum /\ 0 \notin Inum
  /\ NFILE \in Nat /\ NOFILE \in Nat
  /\ \A c \in Call : c.path \in Path /\ (c.op = "link" => c.new \in Path)

VARIABLES disk,    \* dinodes: type, nlink, ents
          itab,    \* in-memory inodes: ref, valid, type, nlink
          lk,      \* process that holds ip->lock, or "none"
          ftab,    \* open files: ref, ip
          ofile, cwd,  \* per process
          th,      \* per process: the call in progress and its locals
          panicked

files == <<ftab, ofile, cwd>>
vars == <<disk, itab, lk, files, th, panicked>>

NoEnts == [n \in Name \cup Dot |-> 0]
Free == [type |-> "none", nlink |-> 0, ents |-> NoEnts]
Unused == [ref |-> 0, valid |-> FALSE, type |-> "none", nlink |-> 0]
NoCall == [op |-> "none"]
\* fields of th: pc, todo, the call, namex()'s path and ip, name, and the
\* callers' dp and lp (sys_link()'s ip)
Idle == [pc |-> "idle", todo |-> <<>>, call |-> NoCall, path |-> <<>>, par |-> FALSE,
         ip |-> 0, dp |-> 0, lp |-> 0, name |-> "."]
Dead == [Idle EXCEPT !.pc = "dead"]

\* mkfs's root directory; userinit() opened it as the first process's cwd.
Init ==
  /\ disk = [i \in Inum |->
       IF i = Root THEN [type |-> "dir", nlink |-> 1, ents |-> [NoEnts EXCEPT !["."] = i, ![".."] = i]]
       ELSE Free]
  /\ itab = [i \in Inum |-> IF i = Root THEN [Unused EXCEPT !.ref = 1] ELSE Unused]
  /\ lk = [i \in Inum |-> "none"]
  /\ ftab = [f \in 1..NFILE |-> [ref |-> 0, ip |-> 0]]
  /\ ofile = [p \in Proc |-> [d \in 1..NOFILE |-> 0]]
  /\ cwd = [p \in Proc |-> IF p = InitProc THEN Root ELSE 0]
  /\ th = [p \in Proc |-> IF p = InitProc THEN Idle ELSE Dead]
  /\ panicked = FALSE

At(p, l) == th[p].pc = l /\ th[p].todo = <<>> /\ ~panicked
\* The call goes on as r; end_op() and the return when nothing is left.
Thread(p, r) == th' = [th EXCEPT ![p] = IF r.pc = "end" /\ r.todo = <<>> THEN Idle ELSE r]
Panic == panicked' = TRUE /\ UNCHANGED <<disk, itab, lk, files, th>>
-----------------------------------------------------------------------------
(* fs.c: the inode table                                                   *)

\* iget() of an inode that is not in a full table panics.
NoEntry(tab, i) == tab[i].ref = 0 /\ Cardinality({j \in Inum : tab[j].ref > 0}) >= NINODE
\* iget() and idup()
iget(tab, i) == [tab EXCEPT ![i].ref = @ + 1]

\* ilock() panics on a dead reference and on a free inode.
BadLock(i) == itab[i].ref < 1 \/ (~itab[i].valid /\ disk[i].type = "none")
\* The entry as ilock() leaves it.
Locked(i) == IF itab[i].valid THEN itab[i]
             ELSE [itab[i] EXCEPT !.valid = TRUE, !.type = disk[i].type, !.nlink = disk[i].nlink]
\* iupdate() of an entry e, besides the contents
iupdate(dsk, i, e) == [dsk EXCEPT ![i].type = e.type, ![i].nlink = e.nlink]
Relink(e, d) == [e EXCEPT !.nlink = @ + d]

U(i) == <<"unlock", i>>
P(i) == <<"put", i>>

iunlock(p) ==
  /\ th[p].todo # <<>> /\ Head(th[p].todo)[1] = "unlock" /\ ~panicked
  /\ LET i == Head(th[p].todo)[2] IN
       IF lk[i] # p \/ itab[i].ref < 1 THEN Panic
       ELSE /\ lk' = [lk EXCEPT ![i] = "none"]
            /\ Thread(p, [th[p] EXCEPT !.todo = Tail(@)])
            /\ UNCHANGED <<disk, itab, files, panicked>>

\* iput() by the steps "put", "free", "drop" and "unref".
Does(p, k) == th[p].todo # <<>> /\ Head(th[p].todo)[1] = k /\ ~panicked
Next1(p, k) == Thread(p, [th[p] EXCEPT !.todo[1][1] = k])
\* ip->ref--; an entry without references is recycled.
OneLess(e) == IF e.ref = 1 THEN Unused ELSE [e EXCEPT !.ref = @ - 1]
Unref(p, i) ==
  /\ itab' = [itab EXCEPT ![i] = OneLess(@)]
  /\ Thread(p, [th[p] EXCEPT !.todo = Tail(@)])

\* Mutation: the last link alone decides, not the last reference.
LastUse_Open(e) == e.valid /\ e.nlink = 0
\* iput()'s condition for freeing the inode.
LastUse(e) == e.ref = 1 /\ e.valid /\ e.nlink = 0

\* The test; acquiresleep() with itable.lock held must not have to sleep.
iput(p) ==
  /\ Does(p, "put")
  /\ LET i == Head(th[p].todo)[2] IN
       IF ~LastUse(itab[i])
       THEN Unref(p, i) /\ UNCHANGED <<disk, lk, files, panicked>>
       ELSE IF lk[i] # "none" THEN Panic
       ELSE /\ lk' = [lk EXCEPT ![i] = p]
            /\ Next1(p, "free")
            /\ UNCHANGED <<disk, itab, files, panicked>>

\* itrunc(), type = 0, iupdate()
iput_Free(p) ==
  /\ Does(p, "free")
  /\ LET i == Head(th[p].todo)[2] IN
       /\ disk' = [disk EXCEPT ![i] = Free]
       /\ itab' = [itab EXCEPT ![i].type = "none"]
  /\ Next1(p, "drop")
  /\ UNCHANGED <<lk, files, panicked>>

\* Mutation: valid stays set.
Dropped_Valid(e) == e
\* valid = 0
Dropped(e) == [e EXCEPT !.valid = FALSE]

iput_Drop(p) ==
  /\ Does(p, "drop")
  /\ LET i == Head(th[p].todo)[2] IN
       /\ itab' = [itab EXCEPT ![i] = Dropped(@)]
       /\ lk' = [lk EXCEPT ![i] = "none"]
  /\ Next1(p, "unref")
  /\ UNCHANGED <<disk, files, panicked>>

\* ref-- under itable.lock, which was released in between.
iput_Unref(p) ==
  /\ Does(p, "unref")
  /\ Unref(p, Head(th[p].todo)[2])
  /\ UNCHANGED <<disk, lk, files, panicked>>
-----------------------------------------------------------------------------
(* fs.c: path names                                                        *)

\* namex() begins at the root or at the cwd.
Walk(p, t, path, par) ==
  LET i == IF path.abs THEN Root ELSE cwd[p]
  IN IF NoEntry(itab, i) THEN Panic
     ELSE /\ itab' = iget(itab, i)
          /\ Thread(p, [t EXCEPT !.pc = "namex", !.path = path.elems, !.par = par, !.ip = i])
          /\ UNCHANGED <<disk, lk, files, panicked>>

\* A lookup without result ends the call; sys_link() has to undo its nlink++.
Fails(t, todo) ==
  [t EXCEPT !.pc = IF t.lp # 0 THEN "link_bad" ELSE "end", !.todo = todo,
            !.path = <<>>, !.ip = 0, !.dp = 0]

\* The inode that name n of directory d leads to, or 0.
dirlookup(d, n) == disk[d].ents[n]

\* One turn of namex()'s loop: ilock(), dirlookup(), iunlockput().
namex(p) ==
  LET t == th[p]
      i == t.ip
      n == Head(t.path)
  IN /\ At(p, "namex") /\ t.path # <<>> /\ lk[i] = "none"
     /\ IF BadLock(i) \/ (Locked(i).type = "dir" /\ dirlookup(i, n) # 0 /\ NoEntry(itab, dirlookup(i, n)))
        THEN Panic
        ELSE LET tab == [itab EXCEPT ![i] = Locked(i)]
                 next == dirlookup(i, n)
             IN /\ IF Locked(i).type # "dir"
                   THEN Thread(p, Fails(t, <<P(i)>>)) /\ itab' = tab
                   ELSE IF t.par /\ Len(t.path) = 1
                   THEN /\ Thread(p, [t EXCEPT !.pc = "parent", !.path = <<>>, !.name = n,
                                               !.dp = i, !.ip = 0])
                        /\ itab' = tab
                   ELSE IF next = 0
                   THEN Thread(p, Fails(t, <<P(i)>>)) /\ itab' = tab
                   ELSE /\ Thread(p, [t EXCEPT !.path = Tail(@), !.ip = next, !.todo = <<P(i)>>])
                        /\ itab' = iget(tab, next)
                /\ UNCHANGED <<disk, lk, files, panicked>>

\* No element is left: namei() has its inode, nameiparent() has no parent.
namex_End(p) ==
  /\ At(p, "namex") /\ th[p].path = <<>>
  /\ Thread(p, IF th[p].par THEN Fails(th[p], <<P(th[p].ip)>>) ELSE [th[p] EXCEPT !.pc = "found"])
  /\ UNCHANGED <<disk, itab, lk, files, panicked>>
-----------------------------------------------------------------------------
(* sysfile.c                                                               *)

\* The begin_op() and the first lookup of a call.
Begin(p, c) ==
  /\ At(p, "idle")
  /\ Walk(p, [Idle EXCEPT !.call = c], c.path, c.op \in {"create", "mkdir", "mknod", "unlink"})

\* Body runs with i locked by p, unless ilock() or a check, Bad, panics.
WithLock(p, l, i, Bad(_), Body(_)) ==
  /\ At(p, l) /\ lk[i] = "none"
  /\ IF BadLock(i) \/ Bad(Locked(i)) THEN Panic
     ELSE Body(Locked(i)) /\ UNCHANGED <<files, panicked>>
Never(e) == FALSE
Set(i, e) == itab' = [itab EXCEPT ![i] = e]

\* sys_link(): a new link is counted before it is made.
sys_link(p) ==
  LET t == th[p]
      i == t.ip
      Count(e) ==
        IF e.type = "dir"
        THEN Set(i, e) /\ Thread(p, Fails(t, <<P(i)>>)) /\ UNCHANGED <<disk, lk>>
        ELSE /\ Set(i, Relink(e, 1))
             /\ disk' = iupdate(disk, i, Relink(e, 1))
             /\ Thread(p, [t EXCEPT !.pc = "link_new", !.lp = i, !.ip = 0])
             /\ UNCHANGED lk
  IN t.call.op = "link" /\ WithLock(p, "found", i, Never, Count)

sys_link_New(p) == At(p, "link_new") /\ Walk(p, th[p], th[p].call.new, TRUE)

\* dirlink(); ok is false if the directory cannot grow.  Files that are not
\* modelled may use up the disk and the entries that unlink() leaves free.
Entry(d, n, i) == [disk EXCEPT ![d].ents[n] = i]

\* Mutation: dirlink() forgets the inode that it found.
Found_Kept(old, d) == <<U(d), P(d)>>
\* dirlink() puts the inode of an existing name; then iunlockput(dp).
Found(old, d) == <<P(old), U(d), P(d)>>

sys_link_Dir(p, ok) ==
  LET t == th[p]
      d == t.dp
      old == dirlookup(d, t.name)
      Bad(e) == e.type # "dir" \/ (old # 0 /\ NoEntry(itab, old))
      Make(e) ==
        IF old # 0
        THEN /\ itab' = iget([itab EXCEPT ![d] = e], old)
             /\ lk' = [lk EXCEPT ![d] = p]
             /\ Thread(p, Fails(t, Found(old, d)))
             /\ UNCHANGED disk
        ELSE /\ Set(d, e)
             /\ IF ok THEN /\ disk' = Entry(d, t.name, t.lp)
                           /\ Thread(p, [t EXCEPT !.pc = "end", !.todo = <<P(d), P(t.lp)>>,
                                                  !.dp = 0, !.lp = 0])
                ELSE Thread(p, Fails(t, <<P(d)>>)) /\ UNCHANGED disk
             /\ UNCHANGED lk
  IN t.call.op = "link" /\ WithLock(p, "parent", d, Bad, Make)

\* bad: the count is taken back.
sys_link_Bad(p) ==
  LET i == th[p].lp
      Undo(e) == /\ Set(i, Relink(e, -1))
                 /\ disk' = iupdate(disk, i, Relink(e, -1))
                 /\ Thread(p, [th[p] EXCEPT !.pc = "end", !.todo = <<P(i)>>, !.lp = 0])
                 /\ UNCHANGED lk
  IN WithLock(p, "link_bad", i, Never, Undo)

\* Mutation: "." and ".." are names like others.
NoUnlink_None(n) == FALSE
NoUnlink(n) == n \in Dot

\* sys_unlink(): dp stays locked while ip is locked.
sys_unlink(p) ==
  LET t == th[p]
      d == t.dp
      i == dirlookup(d, t.name)
      Bad(e) == ~NoUnlink(t.name) /\ (e.type # "dir" \/ (i # 0 /\ NoEntry(itab, i)))
      Find(e) ==
        IF NoUnlink(t.name) \/ i = 0
        THEN Set(d, e) /\ Thread(p, Fails(t, <<P(d)>>)) /\ UNCHANGED <<disk, lk>>
        ELSE /\ itab' = iget([itab EXCEPT ![d] = e], i)
             /\ lk' = [lk EXCEPT ![d] = p]
             /\ Thread(p, [t EXCEPT !.pc = "unlink", !.ip = i])
             /\ UNCHANGED disk
  IN t.call.op = "unlink" /\ WithLock(p, "parent", d, Bad, Find)

isdirempty(i) == \A n \in Name : disk[i].ents[n] = 0

sys_unlink_Erase(p) ==
  LET t == th[p]
      d == t.dp
      i == t.ip
      Bad(e) == e.nlink < 1
      Erase(e) ==
        IF e.type = "dir" /\ ~isdirempty(i)
        THEN Set(i, e) /\ Thread(p, Fails(t, <<P(i), U(d), P(d)>>)) /\ UNCHANGED <<disk, lk>>
        ELSE LET de == IF e.type = "dir" THEN Relink(itab[d], -1) ELSE itab[d]
             IN /\ itab' = [itab EXCEPT ![i] = e, ![d] = de]
                /\ disk' = iupdate(Entry(d, t.name, 0), d, de)
                /\ lk' = [lk EXCEPT ![d] = "none", ![i] = p]
                /\ Thread(p, [t EXCEPT !.pc = "unlinked", !.todo = <<P(d)>>, !.dp = 0])
  IN WithLock(p, "unlink", i, Bad, Erase)

sys_unlink_Count(p) ==
  /\ At(p, "unlinked")
  /\ LET i == th[p].ip
         e == Relink(itab[i], -1)
     IN /\ Set(i, e)
        /\ disk' = iupdate(disk, i, e)
        /\ lk' = [lk EXCEPT ![i] = "none"]
        /\ Thread(p, [th[p] EXCEPT !.pc = "end", !.todo = <<P(i)>>, !.ip = 0])
  /\ UNCHANGED <<files, panicked>>

Type(c) == CASE c.op = "mkdir" -> "dir" [] c.op = "mknod" -> "dev" [] OTHER -> "file"

\* The inodes that ialloc() can return.
ialloc == {i \in Inum : disk[i].type = "none"}

\* create(): the name exists, or a free inode is marked allocated.
create(p) ==
  LET t == th[p]
      d == t.dp
      old == dirlookup(d, t.name)
      Bad(e) == \/ e.type # "dir" \/ (old # 0 /\ NoEntry(itab, old))
                \/ old = 0 /\ ialloc # {} /\ \A i \in ialloc : NoEntry(itab, i)
      Find(e) ==
        IF old # 0
        THEN /\ itab' = iget([itab EXCEPT ![d] = e], old)
             /\ Thread(p, [t EXCEPT !.pc = "exists", !.ip = old, !.dp = 0, !.todo = <<P(d)>>])
             /\ UNCHANGED <<disk, lk>>
        ELSE IF ialloc = {}
        THEN Set(d, e) /\ Thread(p, Fails(t, <<P(d)>>)) /\ UNCHANGED <<disk, lk>>
        ELSE \E i \in ialloc :
               /\ ~NoEntry(itab, i)
               /\ disk' = [disk EXCEPT ![i] = [Free EXCEPT !.type = Type(t.call)]]
               /\ itab' = iget([itab EXCEPT ![d] = e], i)
               /\ lk' = [lk EXCEPT ![d] = p]
               /\ Thread(p, [t EXCEPT !.pc = "new", !.ip = i])
  IN t.call.op \in {"create", "mkdir", "mknod"} /\ WithLock(p, "parent", d, Bad, Find)

create_Exists(p) ==
  LET t == th[p]
      i == t.ip
      Check(e) ==
        /\ Set(i, e) /\ UNCHANGED disk
        /\ IF Type(t.call) = "file" /\ e.type \in {"file", "dev"}
           THEN Thread(p, [t EXCEPT !.pc = "open"]) /\ lk' = [lk EXCEPT ![i] = p]
           ELSE Thread(p, Fails(t, <<P(i)>>)) /\ UNCHANGED lk
  IN WithLock(p, "exists", i, Never, Check)

Failed(e) == [e EXCEPT !.nlink = 0]

\* create() with dp and ip locked; ok is false if one of the directories
\* cannot get a block.  mkdir and mknod drop ip, open goes on with it.
create_New(p, ok) ==
  LET t == th[p]
      d == t.dp
      i == t.ip
      dir == Type(t.call) = "dir"
      de == IF dir THEN Relink(itab[d], 1) ELSE itab[d]
      ents == IF dir THEN [NoEnts EXCEPT !["."] = i, ![".."] = d] ELSE NoEnts
      Link(e) ==
        IF ok
        THEN /\ itab' = [itab EXCEPT ![i] = [e EXCEPT !.nlink = 1], ![d] = de]
             /\ disk' = [iupdate(Entry(d, t.name, i), d, de) EXCEPT
                           ![i].nlink = 1, ![i].ents = ents]
             /\ lk' = [lk EXCEPT ![d] = "none", ![i] = p]
             /\ Thread(p, IF t.call.op = "create"
                          THEN [t EXCEPT !.pc = "open", !.dp = 0, !.todo = <<P(d)>>]
                          ELSE [t EXCEPT !.pc = "end", !.dp = 0, !.ip = 0,
                                         !.todo = <<P(d), U(i), P(i)>>])
        ELSE /\ Set(i, Failed(e))
             /\ disk' = iupdate(disk, i, Failed(e))
             /\ Thread(p, Fails(t, <<P(i), U(d), P(d)>>))
             /\ UNCHANGED lk
  IN WithLock(p, "new", i, Never, Link)

\* sys_open() without O_CREATE
sys_open(p) ==
  LET t == th[p]
      i == t.ip
      Check(e) ==
        /\ Set(i, e) /\ UNCHANGED disk
        /\ IF e.type = "dir" /\ t.call.write
           THEN Thread(p, Fails(t, <<P(i)>>)) /\ UNCHANGED lk
           ELSE Thread(p, [t EXCEPT !.pc = "open"]) /\ lk' = [lk EXCEPT ![i] = p]
  IN t.call.op = "open" /\ WithLock(p, "found", i, Never, Check)

\* filealloc() and fdalloc(); a device may have a bad number.
Fds(p) == {d \in 1..NOFILE : ofile[p][d] = 0}
Slots == {f \in 1..NFILE : ftab[f].ref = 0}
Least(S) == CHOOSE x \in S : \A y \in S : x <= y

sys_open_File(p, ok) ==
  /\ At(p, "open")
  /\ LET i == th[p].ip
         f == Least(Slots)
         open == ok /\ Slots # {} /\ Fds(p) # {}
     IN /\ itab[i].type # "dev" => ok
        /\ lk' = [lk EXCEPT ![i] = "none"]
        /\ IF open
           THEN /\ ftab' = [ftab EXCEPT ![f] = [ref |-> 1, ip |-> i]]
                /\ ofile' = [ofile EXCEPT ![p][Least(Fds(p))] = f]
                /\ Thread(p, [th[p] EXCEPT !.pc = "end", !.ip = 0])
           ELSE Thread(p, Fails(th[p], <<P(i)>>)) /\ UNCHANGED <<ftab, ofile>>
  /\ UNCHANGED <<disk, itab, cwd, panicked>>

\* sys_chdir(): the old directory is dropped last.
sys_chdir(p) ==
  /\ At(p, "found") /\ th[p].call.op = "chdir"
  /\ LET i == th[p].ip IN
       /\ lk[i] = "none"
       /\ IF BadLock(i) THEN Panic
          ELSE /\ Set(i, Locked(i))
               /\ IF Locked(i).type # "dir"
                  THEN Thread(p, Fails(th[p], <<P(i)>>)) /\ UNCHANGED cwd
                  ELSE /\ Thread(p, [th[p] EXCEPT !.pc = "end", !.ip = 0, !.todo = <<P(cwd[p])>>])
                       /\ cwd' = [cwd EXCEPT ![p] = i]
               /\ UNCHANGED <<disk, lk, ftab, ofile, panicked>>
-----------------------------------------------------------------------------
(* file.c, and what fork() and exit() do with files                        *)

Last(f) == ftab[f].ref = 1

Closed(e) == IF e.ref = 1 THEN [ref |-> 0, ip |-> 0] ELSE [e EXCEPT !.ref = @ - 1]

\* fileclose() of descriptor d; the call goes on at l.
fileclose(p, d, l) ==
  LET f == ofile[p][d] IN
  /\ f # 0
  /\ IF ftab[f].ref < 1 THEN Panic
     ELSE /\ ofile' = [ofile EXCEPT ![p][d] = 0]
          /\ ftab' = [ftab EXCEPT ![f] = Closed(@)]
          /\ Thread(p, [th[p] EXCEPT !.pc = l, !.todo = IF Last(f) THEN <<P(ftab[f].ip)>> ELSE <<>>])
          /\ UNCHANGED <<disk, itab, lk, cwd, panicked>>

sys_close(p) == At(p, "idle") /\ \E d \in 1..NOFILE : fileclose(p, d, "end")

Fork(p, q) ==
  /\ At(p, "idle") /\ At(q, "dead")
  /\ IF \E d \in 1..NOFILE : ofile[p][d] # 0 /\ ftab[ofile[p][d]].ref < 1 THEN Panic
     ELSE /\ ofile' = [ofile EXCEPT ![q] = ofile[p]]
          /\ ftab' = [f \in 1..NFILE |-> [ftab[f] EXCEPT !.ref =
                        @ + Cardinality({d \in 1..NOFILE : ofile[p][d] = f})]]
          /\ cwd' = [cwd EXCEPT ![q] = cwd[p]]
          /\ itab' = iget(itab, cwd[p])
          /\ Thread(q, Idle)
          /\ UNCHANGED <<disk, lk, panicked>>

\* exit() closes the files one by one, then drops the cwd.
Exit(p) ==
  /\ At(p, "idle") /\ p # InitProc
  /\ Thread(p, [Idle EXCEPT !.pc = "exit"])
  /\ UNCHANGED <<disk, itab, lk, files, panicked>>

Exit_Close(p) ==
  /\ At(p, "exit")
  /\ \/ Fds(p) # 1..NOFILE /\ fileclose(p, Least(1..NOFILE \ Fds(p)), "exit")
     \/ /\ Fds(p) = 1..NOFILE
        /\ cwd' = [cwd EXCEPT ![p] = 0]
        /\ Thread(p, [Dead EXCEPT !.todo = <<P(cwd[p])>>])
        /\ UNCHANGED <<disk, itab, lk, ftab, ofile, panicked>>

Next == \E p \in Proc :
  \/ \E c \in Call : Begin(p, c)
  \/ iunlock(p) \/ iput(p) \/ iput_Free(p) \/ iput_Drop(p) \/ iput_Unref(p)
  \/ namex(p) \/ namex_End(p)
  \/ sys_link(p) \/ sys_link_New(p) \/ sys_link_Bad(p)
  \/ sys_unlink(p) \/ sys_unlink_Erase(p) \/ sys_unlink_Count(p)
  \/ create(p) \/ create_Exists(p) \/ sys_open(p) \/ sys_chdir(p)
  \/ \E ok \in BOOLEAN : sys_link_Dir(p, ok) \/ create_New(p, ok) \/ sys_open_File(p, ok)
  \/ sys_close(p)
  \/ \E q \in Proc : Fork(p, q)
  \/ Exit(p) \/ Exit_Close(p)

Spec == Init /\ [][Next]_vars
-----------------------------------------------------------------------------
(* Properties                                                              *)

\* No call panics: ilock() on a free inode or a dead reference, a sleep in
\* iput(), an entry without a link, a directory that is none, a dead file.
NoPanic == ~panicked

\* The inode that entry k of a list todo has yet to put, or 0.
ToPut(todo, k) == IF k <= Len(todo) /\ todo[k][1] # "unlock" THEN todo[k][2] ELSE 0
\* How many pointers of an array lead to i.
Count(a, i) == Cardinality({x \in DOMAIN a : a[x] = i})

\* The pointers to i in open files and in variables of calls, and those to
\* file f in descriptors.
InFiles(i) == Count([f \in 1..NFILE |-> ftab[f].ip], i)
InCalls(i) ==
    Count([p \in Proc |-> th[p].ip], i)
  + Count([p \in Proc |-> th[p].dp], i)
  + Count([p \in Proc |-> th[p].lp], i)
  + Count([p \in Proc |-> ToPut(th[p].todo, 1)], i)
  + Count([p \in Proc |-> ToPut(th[p].todo, 2)], i)
  + Count([p \in Proc |-> ToPut(th[p].todo, 3)], i)
InFds(f) == Count([x \in Proc \X (1..NOFILE) |-> ofile[x[1]][x[2]]], f)

\* ip->ref and f->ref count the pointers that exist, in processes, files and
\* calls, on every path of open(), mkdir(), mknod(), link(), unlink(),
\* chdir(), close(), fork() and exit(): nothing is dropped twice and no
\* reference is kept.
RefCounts ==
  /\ \A i \in Inum : itab[i].ref = Count(cwd, i) + InFiles(i) + InCalls(i)
  /\ \A f \in 1..NFILE : ftab[f].ref = InFds(f)

Names(i) == {x \in Inum \X Name : disk[x[1]].ents[x[2]] = i}
Subdirs(i) == {n \in Name : disk[i].ents[n] # 0 /\ disk[disk[i].ents[n]].type = "dir"}

\* Every name, open file and working directory leads to an allocated inode,
\* and nlink is never less than the names and subdirectories there are, at
\* any moment in a call, so that no crash and no iput() frees one in use.
NoDangling ==
  \A i \in Inum :
    /\ Names(i) # {} \/ (\E p \in Proc : cwd[p] = i) \/ (\E f \in 1..NFILE : ftab[f].ip = i)
         => disk[i].type # "none"
    /\ disk[i].nlink >= Cardinality(Names(i)) + Cardinality(Subdirs(i))

\* The inode whose lock p waits for.
Wants(p) ==
  CASE th[p].todo # <<>> -> 0
    [] th[p].pc \in {"namex", "found", "unlink", "exists", "new"} -> th[p].ip
    [] th[p].pc = "parent" -> th[p].dp
    [] th[p].pc = "link_bad" -> th[p].lp
    [] OTHER -> 0

\* No processes wait for each other's inode locks, nor one for its own:
\* sys_unlink() and create() lock a parent before its child.
NoDeadlock ==
  \A S \in SUBSET Proc \ {{}} : \E p \in S : Wants(p) = 0 \/ lk[Wants(p)] \notin S

\* fs.c: an inode is allocated, and "iput() frees if the reference and link
\* counts have fallen to zero".
FreedWhenUnused ==
  \A i \in Inum : disk[i].type # "none" => disk[i].nlink > 0 \/ itab[i].ref > 0
=============================================================================
