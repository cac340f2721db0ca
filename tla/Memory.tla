------------------------------- MODULE Memory -------------------------------
(***************************************************************************)
(* Physical pages, page tables and the calls that build, copy, grow,       *)
(* replace and free a user image: kernel/kalloc.c, kernel/vm.c,            *)
(* kernel/exec.c and the memory side of kernel/proc.c.                     *)
(*                                                                         *)
(* A C function is an operator from the memory m before the call to the    *)
(* memory after it.  A page table is private to its process and the free   *)
(* list is only touched by kalloc() and kfree(), so a system call is one   *)
(* action; how many pages it finds is whatever the other calls left.       *)
(*                                                                         *)
(* Sv39 is kept with three levels and FAN entries per table page.  A user  *)
(* page's contents are one value.  Flags are sets of letters.              *)
(***************************************************************************)
EXTENDS Integers, Sequences, FiniteSets, SequencesExt

CONSTANTS Proc, FirstProc,
          NPAGE,    \* physical pages between end and PHYSTOP
          FAN,      \* entries of a page-table page (512)
          PGSIZE,   \* addresses per page
          WORD,     \* addresses are computed modulo WORD (2^64)
          MAXPATH,  \* longest path that argstr() accepts
          MAXARG,   \* slots of exec()'s argv
          Prog,     \* programs that exec() may be asked to run
          Args,     \* arguments of exec(): [path, uargv, uarg, n]
          Addr,     \* user addresses where system calls store
          Sbrk,     \* arguments of sbrk()
          MAXPIPE   \* most pipes

NULL == 0
Page == 1..NPAGE
\* riscv.h stops at half of this, to avoid addresses with the top bit set.
MAXVA == FAN * FAN * FAN * PGSIZE
TRAMPOLINE == MAXVA - PGSIZE
TRAPFRAME == TRAMPOLINE - PGSIZE
TrampolinePage == NPAGE + 1     \* kernel text, never allocated or freed
USERSTACK == 1

\* growproc() does not look at TRAPFRAME: that a process cannot grow into it
\* rests on the machine having less memory than the address space has room.
ASSUME MemAssumption == NPAGE * PGSIZE < TRAPFRAME

VARIABLES m,     \* free: kmem.freelist; con: contents of pages; panic
          pagetable, trapframe, sz,   \* fields of struct proc
          pipes, \* pages that hold a struct pipe
          ret    \* the last call: [call, proc, child, ok]

vars == <<m, pagetable, trapframe, sz, pipes, ret>>

Junk == "junk"
Zero == "zero"      \* a page of zeroes, as user data
NoPTE == [pa |-> NULL, flags |-> {}]
Empty == [i \in 0..FAN - 1 |-> NoPTE]
Panic(x) == [x EXCEPT !.panic = TRUE]

PGROUNDUP(a) == ((a + PGSIZE - 1) \div PGSIZE) * PGSIZE
PGROUNDDOWN(a) == (a \div PGSIZE) * PGSIZE
PX(level, va) == (va \div (PGSIZE * FAN^level)) % FAN
-----------------------------------------------------------------------------
(* kalloc.c                                                                *)

kfree(x, pa) == IF pa \notin Page THEN Panic(x)
                ELSE [x EXCEPT !.free = <<pa>> \o @, !.con[pa] = Junk]

\* The first free page, or NULL and no change.
kalloc(x) == IF x.free = <<>> THEN [m |-> x, pa |-> NULL]
             ELSE [m |-> [x EXCEPT !.free = Tail(@)], pa |-> Head(x.free)]

freerange == FoldSeq(LAMBDA pa, x : kfree(x, pa),
                     [free |-> <<>>, con |-> [pa \in Page |-> Junk], panic |-> FALSE],
                     [i \in 1..NPAGE |-> i])
-----------------------------------------------------------------------------
(* vm.c                                                                    *)

\* The level-0 table page for va, NULL if it is missing and not to be had.
RECURSIVE walk(_, _, _, _, _)
walk(x, pt, level, va, alloc) ==
  LET i == PX(level, va)
      Link(k) == [k.m EXCEPT !.con[k.pa] = Empty,
                             !.con[pt][i] = [pa |-> k.pa, flags |-> {"V"}]]
      Down(y) == walk(y, y.con[pt][i].pa, level - 1, va, alloc)
  IN IF level = 0 THEN [m |-> x, pt |-> pt]
     ELSE IF "V" \notin x.con[pt][i].flags /\ (~alloc \/ x.free = <<>>)
     THEN [m |-> x, pt |-> NULL]
     ELSE Down(IF "V" \in x.con[pt][i].flags THEN x ELSE Link(kalloc(x)))

\* The entry for va, NoPTE if there is none.
Pte(x, pt, va) ==
  LET Entry(w) == IF w.pt = NULL THEN NoPTE ELSE x.con[w.pt][PX(0, va)]
  IN Entry(walk(x, pt, 2, va, FALSE))

walkaddr(x, pt, va) ==
  LET User(pte) == IF {"V", "U"} \subseteq pte.flags THEN pte.pa ELSE NULL
  IN IF va >= MAXVA THEN NULL ELSE User(Pte(x, pt, va))

\* One page at va; every caller on behalf of a process maps one page.
mappages(x, pt, va, pa, perm) ==
  LET i == PX(0, va)
      Map(w) ==
        IF w.pt = NULL THEN [m |-> w.m, ok |-> FALSE]
        ELSE IF "V" \in w.m.con[w.pt][i].flags THEN [m |-> Panic(w.m), ok |-> FALSE]
        ELSE [m |-> [w.m EXCEPT !.con[w.pt][i] = [pa |-> pa, flags |-> perm \cup {"V"}]],
              ok |-> TRUE]
  IN IF va % PGSIZE # 0 \/ va >= MAXVA THEN [m |-> Panic(x), ok |-> FALSE]
     ELSE Map(walk(x, pt, 2, va, TRUE))

\* Panics of uvmunmap(): not aligned, no table page, entry not valid, not a leaf.
RECURSIVE uvmunmap(_, _, _, _, _)
uvmunmap(x, pt, va, npages, do_free) ==
  LET i == PX(0, va)
      Clear(y, t) == uvmunmap([y EXCEPT !.con[t][i] = NoPTE],
                              pt, va + PGSIZE, npages - 1, do_free)
      Unmap(t) == IF t = NULL THEN Panic(x)
                  ELSE IF x.con[t][i].flags \subseteq {"V"} THEN Panic(x)
                  ELSE Clear(IF do_free THEN kfree(x, x.con[t][i].pa) ELSE x, t)
  IN IF va % PGSIZE # 0 THEN Panic(x)
     ELSE IF npages = 0 \/ x.panic THEN x
     ELSE IF va >= MAXVA THEN Panic(x)
     ELSE Unmap(walk(x, pt, 2, va, FALSE).pt)

uvmcreate(x) ==
  LET Clear(k) == IF k.pa = NULL THEN k ELSE [k EXCEPT !.m.con[k.pa] = Empty]
  IN Clear(kalloc(x))

uvmdealloc(x, pt, oldsz, newsz) ==
  LET npages == (PGROUNDUP(oldsz) - PGROUNDUP(newsz)) \div PGSIZE
  IN IF newsz >= oldsz THEN [m |-> x, sz |-> oldsz]
     ELSE [m |-> uvmunmap(x, pt, PGROUNDUP(newsz), npages, TRUE), sz |-> newsz]

\* Mutation: uvmalloc() forgets the page that it could not map.
NotMapped_Leak(x, mem) == x
\* uvmalloc() frees the page mem that mappages() could not map.
NotMapped(x, mem) == kfree(x, mem)

\* The loop of uvmalloc() from a; oldsz is rounded up.  Size 0 is failure.
RECURSIVE AllocFrom(_, _, _, _, _, _)
AllocFrom(x, pt, a, oldsz, newsz, perm) ==
  LET Fail(y) == [m |-> uvmdealloc(y, pt, a, oldsz).m, sz |-> 0]
      Mapped(mp, mem) == IF mp.ok THEN AllocFrom(mp.m, pt, a + PGSIZE, oldsz, newsz, perm)
                         ELSE Fail(NotMapped(mp.m, mem))
      Got(k) == Mapped(mappages([k.m EXCEPT !.con[k.pa] = Zero], pt, a, k.pa,
                                perm \cup {"R", "U"}), k.pa)
  IN IF a >= newsz \/ x.panic THEN [m |-> x, sz |-> newsz]
     ELSE IF x.free = <<>> THEN Fail(x)
     ELSE Got(kalloc(x))

uvmalloc(x, pt, oldsz, newsz, perm) ==
  IF newsz < oldsz THEN [m |-> x, sz |-> oldsz]
  ELSE AllocFrom(x, pt, PGROUNDUP(oldsz), PGROUNDUP(oldsz), newsz, perm)

\* Entries from i on; a leaf that is still mapped is a panic.
RECURSIVE freewalk(_, _, _, _)
freewalk(x, pt, level, i) ==
  IF x.panic THEN x
  ELSE IF i = FAN THEN kfree(x, pt)
  ELSE IF "V" \notin x.con[pt][i].flags THEN freewalk(x, pt, level, i + 1)
  ELSE IF x.con[pt][i].flags = {"V"} /\ level > 0
  THEN freewalk(freewalk(x, x.con[pt][i].pa, level - 1, 0), pt, level, i + 1)
  ELSE Panic(x)

uvmfree(x, pt, size) ==
  freewalk(uvmunmap(x, pt, 0, PGROUNDUP(size) \div PGSIZE, TRUE), pt, 2, 0)

\* The loop of uvmcopy() from address i.
RECURSIVE uvmcopy(_, _, _, _, _)
uvmcopy(x, old, new, size, i) ==
  LET Err(y) == [m |-> uvmunmap(y, new, 0, i \div PGSIZE, TRUE), ok |-> FALSE]
      Mapped(mp, mem) == IF mp.ok THEN uvmcopy(mp.m, old, new, size, i + PGSIZE)
                         ELSE Err(kfree(mp.m, mem))
      Got(k, pte) == Mapped(mappages([k.m EXCEPT !.con[k.pa] = x.con[pte.pa]],
                                     new, i, k.pa, pte.flags), k.pa)
      Copy(pte) == IF "V" \notin pte.flags THEN [m |-> Panic(x), ok |-> FALSE]
                   ELSE IF x.free = <<>> THEN Err(x)
                   ELSE Got(kalloc(x), pte)
  IN IF i >= size THEN [m |-> x, ok |-> TRUE] ELSE Copy(Pte(x, old, i))

\* exec() makes the stack guard page inaccessible to the user.
uvmclear(x, pt, va) ==
  LET Clear(t) == IF t = NULL THEN Panic(x)
                  ELSE [x EXCEPT !.con[t][PX(0, va)].flags = @ \ {"U"}]
  IN Clear(walk(x, pt, 2, va, FALSE).pt)

\* Mutation: read-only pages are not refused.
Writable_NoW(x, pt, va0) == va0 < MAXVA /\ {"V", "U"} \subseteq Pte(x, pt, va0).flags
\* copyout()'s tests of the page at va0.
Writable(x, pt, va0) == va0 < MAXVA /\ {"V", "U", "W"} \subseteq Pte(x, pt, va0).flags

\* len addresses from dstva get contents v, page by page.
RECURSIVE copyout(_, _, _, _, _)
copyout(x, pt, dstva, len, v) ==
  LET n == PGSIZE - (dstva - PGROUNDDOWN(dstva))
  IN IF len <= 0 THEN [m |-> x, ok |-> TRUE]
     ELSE IF ~Writable(x, pt, PGROUNDDOWN(dstva)) THEN [m |-> x, ok |-> FALSE]
     ELSE copyout([x EXCEPT !.con[Pte(x, pt, dstva).pa] = v],
                  pt, PGROUNDDOWN(dstva) + PGSIZE, len - n, v)

\* copyin() of len addresses succeeds if every page is the user's.
RECURSIVE copyin(_, _, _, _)
copyin(x, pt, srcva, len) ==
  \/ len <= 0
  \/ /\ walkaddr(x, pt, PGROUNDDOWN(srcva)) # NULL
     /\ copyin(x, pt, PGROUNDDOWN(srcva) + PGSIZE,
               len - (PGSIZE - (srcva - PGROUNDDOWN(srcva))))

\* copyinstr(): the length of the string at srcva, -1 on failure.  A page
\* of zeroes or of argument strings ends the string, others have no NUL.
RECURSIVE copyinstr(_, _, _, _)
copyinstr(x, pt, srcva, max) ==
  LET n == PGSIZE - (srcva - PGROUNDDOWN(srcva))
      Add(rest) == IF rest < 0 THEN -1 ELSE n + rest
      Copy(pa) == IF pa = NULL THEN -1
                  ELSE IF x.con[pa] \in {Zero, "args"} THEN 0
                  ELSE Add(copyinstr(x, pt, PGROUNDDOWN(srcva) + PGSIZE, max - n))
  IN IF max <= 0 THEN -1 ELSE Copy(walkaddr(x, pt, PGROUNDDOWN(srcva)))
-----------------------------------------------------------------------------
(* proc.c                                                                  *)

\* Page table with trampoline and trapframe; pt is NULL on failure.
proc_pagetable(x, tf) ==
  LET Fail(y, pt) == [m |-> uvmfree(y, pt, 0), pt |-> NULL]
      Second(b, pt) == IF b.ok THEN [m |-> b.m, pt |-> pt]
                       ELSE Fail(uvmunmap(b.m, pt, TRAMPOLINE, 1, FALSE), pt)
      First(a, pt) == IF a.ok THEN Second(mappages(a.m, pt, TRAPFRAME, tf, {"R", "W"}), pt)
                      ELSE Fail(a.m, pt)
      Create(c) == IF c.pa = NULL THEN [m |-> x, pt |-> NULL]
                   ELSE First(mappages(c.m, c.pa, TRAMPOLINE, TrampolinePage, {"R", "X"}), c.pa)
  IN Create(uvmcreate(x))

proc_freepagetable(x, pt, size) ==
  uvmfree(uvmunmap(uvmunmap(x, pt, TRAMPOLINE, 1, FALSE), pt, TRAPFRAME, 1, FALSE), pt, size)

\* freeproc(): the trapframe, then the image if there is a page table.
freeproc(x, tf, pt, size) ==
  LET Rest(y) == IF pt = NULL THEN y ELSE proc_freepagetable(y, pt, size)
  IN Rest(IF tf = NULL THEN x ELSE kfree(x, tf))

\* The memory of allocproc(); tf and pt are NULL on failure.
allocproc(x) ==
  LET Table(t, tf) == IF t.pt = NULL
                      THEN [m |-> freeproc(t.m, tf, NULL, 0), tf |-> NULL, pt |-> NULL]
                      ELSE [m |-> t.m, tf |-> tf, pt |-> t.pt]
      Frame(k) == IF k.pa = NULL THEN [m |-> x, tf |-> NULL, pt |-> NULL]
                  ELSE Table(proc_pagetable(k.m, k.pa), k.pa)
  IN Frame(kalloc(x))

\* uvmfirst(): one page at address 0, not checked for failure.
uvmfirst(x, pt) ==
  LET Map(k) == mappages([k.m EXCEPT !.con[k.pa] = Zero], pt, 0, k.pa, {"R", "W", "X", "U"})
  IN Map(kalloc(x)).m

Set(f, p, v) == [f EXCEPT ![p] = v]

\* kinit() and userinit()
Init == \E a \in {allocproc(freerange)} :
  /\ m = uvmfirst(a.m, a.pt)
  /\ pagetable = [p \in Proc |-> IF p = FirstProc THEN a.pt ELSE NULL]
  /\ trapframe = [p \in Proc |-> IF p = FirstProc THEN a.tf ELSE NULL]
  /\ sz = [p \in Proc |-> IF p = FirstProc THEN PGSIZE ELSE 0]
  /\ pipes = {}
  /\ ret = [call |-> "userinit", proc |-> FirstProc, child |-> FirstProc, ok |-> TRUE]

Returns(call, p, ok) == ret' = [call |-> call, proc |-> p, child |-> p, ok |-> ok]

\* The result of growproc(): uvmalloc() or uvmdealloc().
Resize(p, n, new) == IF n > 0 THEN uvmalloc(m, pagetable[p], sz[p], new, {"W"})
                     ELSE uvmdealloc(m, pagetable[p], sz[p], new)

\* sys_sbrk(): sz + n is computed modulo WORD; failure leaves p->sz.
growproc(p, n) ==
  /\ pagetable[p] # NULL
  /\ \E r \in {Resize(p, n, (sz[p] + n + WORD) % WORD)} :
       /\ m' = r.m
       /\ sz' = IF n > 0 /\ r.sz = 0 THEN sz ELSE Set(sz, p, r.sz)
       /\ Returns("sbrk", p, ~(n > 0 /\ r.sz = 0))
  /\ UNCHANGED <<pagetable, trapframe, pipes>>

\* fork()'s copy into what allocproc() returned; a failure is undone.
CopyImage(a, p) ==
  LET Copied(c) == IF c.ok THEN [a EXCEPT !.m = c.m]
                   ELSE [m |-> freeproc(c.m, a.tf, a.pt, 0), tf |-> NULL, pt |-> NULL]
  IN IF a.pt = NULL THEN a ELSE Copied(uvmcopy(a.m, pagetable[p], a.pt, sz[p], 0))

\* The memory of fork(): allocproc(), then uvmcopy().
fork(p, np) ==
  /\ pagetable[p] # NULL /\ pagetable[np] = NULL
  /\ \E a \in {CopyImage(allocproc(m), p)} :
       /\ m' = a.m
       /\ pagetable' = Set(pagetable, np, a.pt)
       /\ trapframe' = Set(trapframe, np, a.tf)
       /\ sz' = Set(sz, np, IF a.pt = NULL THEN 0 ELSE sz[p])
       /\ ret' = [call |-> "fork", proc |-> p, child |-> IF a.pt = NULL THEN p ELSE np,
                  ok |-> a.pt # NULL]
  /\ UNCHANGED pipes

\* p has exited and its parent calls freeproc() in wait().
Reap(p) ==
  /\ pagetable[p] # NULL /\ p # FirstProc
  /\ m' = freeproc(m, trapframe[p], pagetable[p], sz[p])
  /\ pagetable' = Set(pagetable, p, NULL)
  /\ trapframe' = Set(trapframe, p, NULL)
  /\ sz' = Set(sz, p, 0)
  /\ Returns("wait", p, TRUE)
  /\ UNCHANGED pipes
-----------------------------------------------------------------------------
(* exec.c and sys_exec().  A program is [elf, ph]: whether the header is   *)
(* read and has the magic number, and the program headers, each with       *)
(* read (the header is all there), load, vaddr, memsz, filesz, avail (the  *)
(* bytes of the segment that are in the file) and perm (flags2perm()).     *)

\* File contents into the pages from va on; the file may be too short.
RECURSIVE loadseg(_, _, _, _)
loadseg(x, pt, s, i) ==
  LET n == IF s.filesz - i < PGSIZE THEN s.filesz - i ELSE PGSIZE
      Read(y) == IF i + n > s.avail THEN [m |-> y, ok |-> FALSE]
                 ELSE loadseg(y, pt, s, i + PGSIZE)
      Found(pa) == IF pa = NULL THEN [m |-> Panic(x), ok |-> FALSE]
                   ELSE Read([x EXCEPT !.con[pa] = "text"])
  IN IF i >= s.filesz THEN [m |-> x, ok |-> TRUE]
     ELSE Found(walkaddr(x, pt, s.vaddr + i))

BadSegment(s) == \/ s.memsz < s.filesz
                 \/ (s.vaddr + s.memsz) % WORD < s.vaddr
                 \/ s.vaddr % PGSIZE # 0

\* Mutation: exec() records the new size before it knows that it has it.
Grown_Early(s, size, newsz) == s.vaddr + s.memsz
\* exec()'s sz once uvmalloc() has returned newsz.
Grown(s, size, newsz) == IF newsz = 0 THEN size ELSE newsz

\* exec()'s loop over the program headers.
RECURSIVE LoadSegs(_, _, _, _)
LoadSegs(x, pt, size, ph) ==
  LET s == Head(ph)
      Stop(y, z, ok) == [m |-> y, sz |-> z, ok |-> ok]
      Loaded(l, z) == IF l.ok THEN LoadSegs(l.m, pt, z, Tail(ph)) ELSE Stop(l.m, z, FALSE)
      Alloc(u) == IF u.sz = 0 THEN Stop(u.m, Grown(s, size, u.sz), FALSE)
                  ELSE Loaded(loadseg(u.m, pt, s, 0), Grown(s, size, u.sz))
  IN IF ph = <<>> THEN Stop(x, size, TRUE)
     ELSE IF s.read /\ ~s.load THEN LoadSegs(x, pt, size, Tail(ph))
     ELSE IF ~s.read \/ BadSegment(s) THEN Stop(x, size, FALSE)
     ELSE Alloc(uvmalloc(x, pt, size, s.vaddr + s.memsz, s.perm))

\* Argument strings of lengths lens, then the argc + 1 pointers, from sp down.
RECURSIVE PushArgs(_, _, _, _, _, _)
PushArgs(x, pt, sp, stackbase, lens, argc) ==
  LET n == IF lens = <<>> THEN argc + 1 ELSE Head(lens) + 1
      Pushed(c) == IF lens = <<>> \/ ~c.ok THEN c
                   ELSE PushArgs(c.m, pt, sp - n, stackbase, Tail(lens), argc)
  IN IF sp - n < stackbase THEN [m |-> x, ok |-> FALSE]
     ELSE Pushed(copyout(x, pt, sp - n, n, "args"))

\* exec()'s guard page, stack and arguments above what LoadSegs() returned.
AddStack(l, pt, lens) ==
  LET guard == PGROUNDUP(l.sz)
      top == guard + (USERSTACK + 1) * PGSIZE
      Pushed(a) == [m |-> a.m, sz |-> top, ok |-> a.ok]
      Stack(u) == IF u.sz = 0 THEN [m |-> u.m, sz |-> guard, ok |-> FALSE]
                  ELSE Pushed(PushArgs(uvmclear(u.m, pt, guard), pt, top,
                                     top - USERSTACK * PGSIZE, lens, Len(lens)))
  IN IF l.ok THEN Stack(uvmalloc(l.m, pt, guard, top, {"W"})) ELSE l

\* exec(): the new image is built beside the old one, which is freed last;
\* on failure (label bad) it is the new one that is freed.
exec(x, p, prog, lens) ==
  LET Result(ok, pt, l) ==
        [m |-> IF ok THEN proc_freepagetable(l.m, pagetable[p], sz[p])
               ELSE proc_freepagetable(l.m, pt, l.sz), ok |-> ok, pt |-> pt, sz |-> l.sz]
      Built(l, pt) == Result(l.ok, pt, l)
      Table(t) == IF t.pt = NULL THEN [m |-> t.m, ok |-> FALSE]
                  ELSE Built(AddStack(LoadSegs(t.m, t.pt, 0, prog.ph), t.pt, lens), t.pt)
  IN IF prog.elf THEN Table(proc_pagetable(x, trapframe[p])) ELSE [m |-> x, ok |-> FALSE]

fetchaddr(x, p, addr) ==
  addr < sz[p] /\ addr + 1 <= sz[p] /\ copyin(x, pagetable[p], addr, 1)

\* sys_exec()'s loop: a page for each string; slots below u.n hold u.uarg.
RECURSIVE FetchArgs(_, _, _, _, _)
FetchArgs(x, p, u, argv, lens) ==
  LET i == Len(argv)
      R(y, v, ok) == [m |-> y, argv |-> v, lens |-> lens, ok |-> ok]
      Fetched(k, len) ==
        IF len < 0 THEN R(k.m, Append(argv, k.pa), FALSE)
        ELSE FetchArgs(k.m, p, u, Append(argv, k.pa), Append(lens, len))
      Zeroes == x.con[walkaddr(x, pagetable[p], u.uargv + i)] = Zero
  IN IF i >= MAXARG THEN R(x, argv, FALSE)
     ELSE IF ~fetchaddr(x, p, u.uargv + i) THEN R(x, argv, FALSE)
     ELSE IF i = u.n \/ Zeroes THEN R(x, argv, TRUE)
     ELSE IF x.free = <<>> THEN R(x, argv, FALSE)
     ELSE Fetched(kalloc(x), copyinstr(x, pagetable[p], u.uarg, PGSIZE))

\* sys_exec(): whatever exec() returns, the argument pages are freed.
sys_exec(p, prog, u) ==
  /\ pagetable[p] # NULL
  /\ copyinstr(m, pagetable[p], u.path, MAXPATH) >= 0
  /\ \E f \in {FetchArgs(m, p, u, <<>>, <<>>)} :
     \E e \in {IF f.ok THEN exec(f.m, p, prog, f.lens) ELSE [m |-> f.m, ok |-> FALSE]} :
        /\ m' = FoldSeq(LAMBDA pa, x : kfree(x, pa), e.m, f.argv)
        /\ pagetable' = IF e.ok THEN Set(pagetable, p, e.pt) ELSE pagetable
        /\ sz' = IF e.ok THEN Set(sz, p, e.sz) ELSE sz
        /\ Returns("exec", p, e.ok)
  /\ UNCHANGED <<trapframe, pipes>>

\* A system call stores len addresses at va (either_copyout()).
Store(p, va, len) ==
  /\ pagetable[p] # NULL
  /\ \E c \in {copyout(m, pagetable[p], va, len, "data")} :
       m' = c.m /\ Returns("copyout", p, c.ok)
  /\ UNCHANGED <<pagetable, trapframe, sz, pipes>>

\* pipealloc() and pipeclose() take and give back a page.  When fdalloc() or
\* copyout() fails sys_pipe() closes both ends again.
pipealloc(p) ==
  /\ Cardinality(pipes) < MAXPIPE
  /\ m' = kalloc(m).m
  /\ pipes' = pipes \cup ({kalloc(m).pa} \ {NULL})
  /\ Returns("pipe", p, kalloc(m).pa # NULL)
  /\ UNCHANGED <<pagetable, trapframe, sz>>

pipeclose(p) ==
  \E pi \in pipes :
    /\ m' = kfree(m, pi)
    /\ pipes' = pipes \ {pi}
    /\ Returns("pipe", p, TRUE)
    /\ UNCHANGED <<pagetable, trapframe, sz>>

Next == \E p \in Proc :
  \/ \E n \in Sbrk : growproc(p, n)
  \/ \E np \in Proc : fork(p, np)
  \/ Reap(p)
  \/ \E prog \in Prog, u \in Args : sys_exec(p, prog, u)
  \/ \E va \in Addr : Store(p, va, PGSIZE)
  \/ pipealloc(p)
  \/ pipeclose(p)

Spec == Init /\ [][Next]_vars
-----------------------------------------------------------------------------
(* Properties                                                              *)

\* No call, whatever allocation fails in it, reaches a panic of kfree(),
\* walk(), mappages(), uvmunmap(), freewalk(), uvmcopy(), uvmclear() or
\* loadseg(): no page is mapped twice, unmapped when it is not mapped, left
\* mapped when its table is freed, or missing when it is copied.
NoPanic == ~m.panic

Entries(T) == {e \in T \X (0..FAN - 1) : "V" \in m.con[e[1]][e[2]].flags}
Target(e) == m.con[e[1]][e[2]].pa
Live == {p \in Proc : pagetable[p] # NULL}
T2 == {pagetable[p] : p \in Live}
T1 == {Target(e) : e \in Entries(T2)}
T0 == {Target(e) : e \in Entries(T1)}

\* What refers to the page: places of the free list, processes, pipes, and
\* page-table entries other than those that map a trapframe.
Owners(pg) ==
       {<<"free", i>> : i \in {j \in DOMAIN m.free : m.free[j] = pg}}
  \cup {<<"trapframe", p>> : p \in {q \in Proc : trapframe[q] = pg}}
  \cup {<<"root", p>> : p \in {q \in Proc : pagetable[q] = pg}}
  \cup {<<"pipe", i>> : i \in pipes \cap {pg}}
  \cup {e \in Entries(T2 \cup T1 \cup T0) :
          Target(e) = pg /\ \A p \in Live : trapframe[p] # pg}

\* Between calls every physical page has exactly one owner: none is leaked
\* on the error paths of uvmalloc(), uvmcopy(), proc_pagetable(), exec() or
\* sys_exec(), and none is in use by two owners or in use and free.
PagesOwnedOnce == \A pg \in Page : Cardinality(Owners(pg)) = 1

UserPages == {v * PGSIZE : v \in 0..(TRAPFRAME \div PGSIZE) - 1}

\* What the user sees: size, and flags and contents of accessible pages.
Image(p) == IF pagetable[p] = NULL THEN <<>>
            ELSE <<sz[p], [va \in {v \in UserPages : walkaddr(m, pagetable[p], v) # NULL} |->
                     <<Pte(m, pagetable[p], va).flags, m.con[walkaddr(m, pagetable[p], va)]>>]>>

\* The pages of the image that the user may not write.
ReadOnly(p) == {va \in DOMAIN Image(p)[2] : "W" \notin Image(p)[2][va][1]}

\* A call changes nobody else's image; a fork(), exec() or sbrk() that fails
\* leaves the caller's image as it was; after a fork() parent and child see
\* what the parent saw; copyout() never alters a read-only page.
ImageKept ==
  [][\A p, c \in Proc : p = ret'.proc /\ c = ret'.child =>
       /\ \A q \in Proc \ {p, c} : Image(q)' = Image(q)
       /\ ret'.call \in {"fork", "exec", "sbrk"} /\ ~ret'.ok => Image(p)' = Image(p)
       /\ ret'.call = "fork" /\ ret'.ok => Image(c)' = Image(p) /\ Image(p)' = Image(p)
       /\ ret'.call = "copyout" =>
            sz' = sz /\ \A va \in ReadOnly(p) : Image(p)'[2][va] = Image(p)[2][va]]_vars
=============================================================================
