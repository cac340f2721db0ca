----------------------------- MODULE MCFileSys -----------------------------
(* Two processes and three inodes; each run makes the calls it is about.   *)
EXTENDS FileSys, TLC

Symm == Permutations(Inum \ {Root})

Abs(e) == [abs |-> TRUE, elems |-> e]
Rel(e) == [abs |-> FALSE, elems |-> e]
Do(op, path) == [op |-> op, path |-> path]
A == Abs(<<"a">>)
AB == Abs(<<"a", "b">>)

\* A directory a, a file a/b, its second name b, and a process inside a.
TreeCalls ==
  {Do("mkdir", A), Do("create", AB), Do("unlink", A), Do("unlink", AB), Do("chdir", A),
   Do("unlink", Rel(<<"b">>)), Do("unlink", Abs(<<".">>)),
   [op |-> "link", path |-> AB, new |-> Abs(<<"b">>)],
   [op |-> "open", path |-> Rel(<<"b">>), write |-> TRUE]}

\* A program that looks up the parent of its directory.
UpCalls ==
  {Do("mkdir", A), Do("mkdir", AB), Do("chdir", AB), Do("unlink", A), Do("unlink", AB),
   [op |-> "open", path |-> Rel(<<"..">>), write |-> FALSE]}

\* Files that come and go.
LeakCalls == {Do("mknod", A), Do("mknod", Abs(<<"b">>)), Do("unlink", A), Do("unlink", Abs(<<"b">>))}
=============================================================================
