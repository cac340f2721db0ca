------------------------------- MODULE Shell -------------------------------
(***************************************************************************)
(* user/sh.c: the parser and runcmd().                                     *)
(*                                                                         *)
(* A line is a sequence of characters: blanks, the symbols and "x", which  *)
(* stands for every other one; a position past its end holds the NUL.  A   *)
(* parsing function takes a position and gives a command and the position  *)
(* after it, 0 if the shell panics.  Words are <<q, eq>>, as in the code.  *)
(***************************************************************************)
EXTENDS Integers, Sequences, FiniteSets, SequencesExt

CONSTANTS MAXLINE,  \* longest line
          MAXARGS

VARIABLES line, cmd   \* the line typed, what parsecmd() makes of it

vars == <<line, cmd>>

symbols == {"<", "|", ">", "&", ";", "(", ")"}
Char == symbols \cup {" ", "x"}

At(s, i) == IF i > Len(s) THEN "NUL" ELSE s[i]
\* The position after the characters of C that begin at i.
RECURSIVE Skip(_, _, _)
Skip(s, i, C) == IF At(s, i) \in C THEN Skip(s, i + 1, C) ELSE i

\* gettoken(): the token, its begin and end, and where the next one begins.
gettoken(s, i0) ==
  LET Tok(i, j, t) == [tok |-> t, q |-> i, eq |-> j, next |-> Skip(s, j, {" "})]
      From(i) == CASE At(s, i) = "NUL" -> Tok(i, i, "NUL")
                   [] At(s, i) = ">" /\ At(s, i + 1) = ">" -> Tok(i, i + 2, "+")
                   [] At(s, i) \in symbols -> Tok(i, i + 1, At(s, i))
                   [] OTHER -> Tok(i, Skip(s, i, {"x"}), "a")
  IN From(Skip(s, i0, {" "}))
peek(s, i, toks) == At(s, Skip(s, i, {" "})) \in toks
Past(s, i) == gettoken(s, i).next
-----------------------------------------------------------------------------
(* Commands and the recursive descent                                      *)

EXEC(argv) == [type |-> "EXEC", argv |-> argv]
REDIR(c, op, file) == [type |-> "REDIR", cmd |-> c, op |-> op, file |-> file]
PIPE(l, r) == [type |-> "PIPE", left |-> l, right |-> r]
LIST(l, r) == [type |-> "LIST", left |-> l, right |-> r]
BACK(c) == [type |-> "BACK", cmd |-> c]

Res(c, i) == [c |-> c, i |-> i]
panic == Res(EXEC(<<>>), 0)
Then(r, F(_)) == IF r.i = 0 THEN panic ELSE F(r)

RECURSIVE parseline(_, _), parsepipe(_, _), Redirs(_, _, _), Args(_, _, _, _), Backs(_, _)

\* parseredirs(): the redirections from i on, as <<op, word>>.
Redirs(s, i, rs) ==
  IF ~peek(s, i, {"<", ">"}) THEN Res(rs, i)
  ELSE LET File(op, w) == IF w.tok # "a" THEN panic
                          ELSE Redirs(s, w.next, Append(rs, <<op, <<w.q, w.eq>>>>))
           Op(t) == File(t.tok, gettoken(s, t.next))
       IN Op(gettoken(s, i))

\* Mutation: of several redirections the first is the outermost.
Wrap_First(c, rs) == FoldRight(LAMBDA r, x : REDIR(x, r[1], r[2]), rs, c)
\* redircmd() puts each redirection around what there is.
Wrap(c, rs) == FoldLeft(LAMBDA x, r : REDIR(x, r[1], r[2]), c, rs)

\* parseexec()'s loop: more arguments and redirections.
Args(s, i, argv, rs) ==
  IF peek(s, i, {"|", ")", "&", ";"}) \/ gettoken(s, i).tok = "NUL"
  THEN Res(Wrap(EXEC(argv), rs), Skip(s, i, {" "}))
  ELSE LET Add(t) == IF t.tok # "a" \/ Len(argv) + 1 >= MAXARGS THEN panic
                     ELSE Then(Redirs(s, t.next, rs),
                               LAMBDA r : Args(s, r.i, Append(argv, <<t.q, t.eq>>), r.c))
       IN Add(gettoken(s, i))

parseblock(s, i) ==
  Then(parseline(s, Past(s, i)),
       LAMBDA b : IF ~peek(s, b.i, {")"}) THEN panic
                  ELSE Then(Redirs(s, Past(s, b.i), <<>>), LAMBDA r : Res(Wrap(b.c, r.c), r.i)))

parseexec(s, i) ==
  IF peek(s, i, {"("}) THEN parseblock(s, i)
  ELSE Then(Redirs(s, i, <<>>), LAMBDA r : Args(s, r.i, <<>>, r.c))

parsepipe(s, i) ==
  Then(parseexec(s, i),
       LAMBDA l : IF ~peek(s, l.i, {"|"}) THEN l
                  ELSE Then(parsepipe(s, Past(s, l.i)), LAMBDA r : Res(PIPE(l.c, r.c), r.i)))

Backs(s, r) == IF peek(s, r.i, {"&"}) THEN Backs(s, Res(BACK(r.c), Past(s, r.i))) ELSE r

parseline(s, i) ==
  Then(parsepipe(s, i),
       LAMBDA p : LET Rest(l) == IF ~peek(s, l.i, {";"}) THEN l
                                 ELSE Then(parseline(s, Past(s, l.i)),
                                           LAMBDA r : Res(LIST(l.c, r.c), r.i))
                  IN Rest(Backs(s, p)))

\* nulterminate(): the positions that become NUL, over every word of c.
RECURSIVE nulterminate(_)
nulterminate(c) ==
  CASE c.type = "EXEC" -> {c.argv[k][2] : k \in DOMAIN c.argv}
    [] c.type = "REDIR" -> nulterminate(c.cmd) \cup {c.file[2]}
    [] c.type = "BACK" -> nulterminate(c.cmd)
    [] OTHER -> nulterminate(c.left) \cup nulterminate(c.right)

\* The command with its words as strings, each read up to the first NUL.
RECURSIVE Named(_, _)
Named(c, s) ==
  LET Str(w) == SubSeq(s, w[1], (CHOOSE j \in w[1]..Len(s) + 1 :
                  At(s, j) = "NUL" /\ \A k \in w[1]..j - 1 : At(s, k) # "NUL") - 1)
  IN CASE c.type = "EXEC" -> EXEC([k \in DOMAIN c.argv |-> Str(c.argv[k])])
       [] c.type = "REDIR" -> REDIR(Named(c.cmd, s), c.op, Str(c.file))
       [] c.type = "BACK" -> BACK(Named(c.cmd, s))
       [] OTHER -> [c EXCEPT !.left = Named(@, s), !.right = Named(@, s)]

\* parsecmd(): a set of one command, empty for a syntax error.
parsecmd(s) ==
  LET Cut(c) == [j \in DOMAIN s |-> IF j \in nulterminate(c) THEN "NUL" ELSE s[j]]
      Done(r) == IF r.i = 0 \/ Skip(s, r.i, {" "}) # Len(s) + 1 THEN {} ELSE {Named(r.c, Cut(r.c))}
  IN Done(parseline(s, 1))
-----------------------------------------------------------------------------
(* runcmd().  A descriptor table holds <<>> where nothing is open.         *)

NOFILE == 6
close(f, d) == [f EXCEPT ![d] = <<>>]
Lowest(f) == CHOOSE d \in 0..NOFILE - 1 : f[d] = <<>> /\ \A e \in 0..d - 1 : f[e] # <<>>
open(f, o) == [f EXCEPT ![Lowest(f)] = o]
dup(f, d) == open(f, f[d])

\* Mutation: the reader keeps its copy of the writing end.
Reader_Keeps(f, p0, p1) == close(dup(close(f, 0), p0), p0)
\* The descriptors of the right side; those of the left side.
Reader(f, p0, p1) == close(close(dup(close(f, 0), p0), p0), p1)
Writer(f, p0, p1) == close(close(dup(close(f, 1), p1), p0), p1)

\* What exec() and wait() are called with, by c and its children; id names
\* the pipes.
RECURSIVE runcmd(_, _, _)
runcmd(c, f, id) ==
  CASE c.type = "EXEC" -> IF c.argv = <<>> THEN {} ELSE {[call |-> c.argv, fds |-> f]}
    [] c.type = "REDIR" ->
         runcmd(c.cmd, open(close(f, IF c.op = "<" THEN 0 ELSE 1), <<c.op, c.file>>), id)
    [] c.type = "LIST" -> runcmd(c.left, f, Append(id, 1)) \cup {[call |-> <<>>, fds |-> f]}
                          \cup runcmd(c.right, f, Append(id, 2))
    [] c.type = "BACK" -> runcmd(c.cmd, f, id)
    [] c.type = "PIPE" ->
         LET Ends2(g, p0, p1) == runcmd(c.left, Writer(g, p0, p1), Append(id, 1))
               \cup runcmd(c.right, Reader(g, p0, p1), Append(id, 2))
               \cup {[call |-> <<>>, fds |-> close(close(g, p0), p1)]}
             Pipe2(g) == Ends2(open(g, <<"w", id>>), Lowest(f), Lowest(g))
         IN Pipe2(open(f, <<"r", id>>))

Con == <<"con", <<>>>>
Console3 == [d \in 0..NOFILE - 1 |-> IF d < 3 THEN Con ELSE <<>>]
-----------------------------------------------------------------------------
Init == line = <<>> /\ cmd = {}

\* gets() in getcmd(); main() runs the line in a child.  The directory change,
\* which the shell does itself, is left out.
Type(ch) == Len(line) < MAXLINE /\ line' = Append(line, ch) /\ cmd' = {}
main == line' = <<>> /\ cmd' = parsecmd(line)

Next == main \/ \E ch \in Char : Type(ch)
Spec == Init /\ [][Next]_vars
-----------------------------------------------------------------------------
(* The grammar.  Tokens of a line: where they begin, and what they are.    *)

GtBefore(s, i) == CHOOSE k \in 0..i - 1 :
  (\A j \in 1..k : s[i - j] = ">") /\ (k = i - 1 \/ s[i - k - 1] # ">")
Begins(s, i) == CASE s[i] = " " -> FALSE
                  [] s[i] = "x" -> i = 1 \/ s[i - 1] # "x"
                  [] s[i] = ">" -> GtBefore(s, i) % 2 = 0
                  [] OTHER -> TRUE
Run(s, i) == CHOOSE j \in i..Len(s) :
  (\A k \in i..j : s[k] = "x") /\ (j = Len(s) \/ s[j + 1] # "x")
Token(s, i) == CASE s[i] = "x" -> <<"a", SubSeq(s, i, Run(s, i))>>
                 [] s[i] = ">" /\ i < Len(s) -> IF s[i + 1] = ">" THEN <<"+">> ELSE <<">">>
                 [] OTHER -> <<s[i]>>
Tokens(s) == LET B == SetToSortSeq({i \in DOMAIN s : Begins(s, i)}, <)
             IN [k \in DOMAIN B |-> Token(s, B[k])]

Is(t, k, S) == k \in DOMAIN t /\ t[k][1] \in S
To(t, k) == SubSeq(t, 1, k - 1)
After(t, k) == SubSeq(t, k + 1, Len(t))
Splits(t, sym) == {k \in DOMAIN t : t[k] = <<sym>>}
Ops == {"<", ">", "+"}

\* Words that follow an operator name files, the last redirection is outermost.
RECURSIVE Redirected(_, _)
Redirected(c, t) ==
  IF \A k \in DOMAIN t : t[k][1] \notin Ops THEN c
  ELSE LET k == Max({j \in DOMAIN t : t[j][1] \in Ops})
       IN REDIR(Redirected(c, To(t, k)), t[k][1], t[k + 1][2])
Plain(t) == \A k \in DOMAIN t : t[k][1] \in Ops \cup {"a"} /\ (t[k][1] \in Ops => Is(t, k + 1, {"a"}))
ArgsOf(t) == {k \in DOMAIN t : t[k][1] = "a" /\ ~Is(t, k - 1, Ops)}

RECURSIVE Line(_), Pipes(_), Backed(_)
Simple(t) ==
  IF Plain(t) /\ Cardinality(ArgsOf(t)) < MAXARGS
  THEN LET B == SetToSortSeq(ArgsOf(t), <) IN {Redirected(EXEC([k \in DOMAIN B |-> t[B[k]][2]]), t)}
  ELSE {}
Block(t) ==
  IF ~Is(t, 1, {"("}) THEN {}
  ELSE UNION {{Redirected(c, After(t, k)) : c \in Line(SubSeq(t, 2, k - 1))} :
                k \in {j \in Splits(t, ")") : Plain(After(t, j)) /\ ArgsOf(After(t, j)) = {}}}
Exec(t) == Simple(t) \cup Block(t)
Pipes(t) == Exec(t) \cup
  UNION {{PIPE(l, r) : l \in Exec(To(t, k)), r \in Pipes(After(t, k))} : k \in Splits(t, "|")}
Backed(t) == Pipes(t) \cup
  (IF Is(t, Len(t), {"&"}) THEN {BACK(c) : c \in Backed(To(t, Len(t)))} ELSE {})
Line(t) == Backed(t) \cup
  UNION {{LIST(l, r) : l \in Backed(To(t, k)), r \in Line(After(t, k))} : k \in Splits(t, ";")}
-----------------------------------------------------------------------------
(* Properties                                                              *)

\* The recursive descent, on every line, finds the one command that the
\* grammar derives, or an error if there is none, and nulterminate() leaves
\* each argument and file name exactly its word.
ParsesGrammar == [][cmd = {} /\ line' = <<>> /\ line # <<>> => cmd' = Line(Tokens(line))]_vars

\* Who a command is connected to: the innermost redirection decides, a pipe
\* joins its two sides, and nothing but descriptors 0 to 2 is open.
RECURSIVE Wired(_, _, _, _)
Wired(c, in, out, id) ==
  LET fds == [Console3 EXCEPT ![0] = in, ![1] = out]
      waits == {[call |-> <<>>, fds |-> fds]}
  IN CASE c.type = "EXEC" -> IF c.argv = <<>> THEN {} ELSE {[call |-> c.argv, fds |-> fds]}
       [] c.type = "REDIR" -> IF c.op = "<" THEN Wired(c.cmd, <<c.op, c.file>>, out, id)
                              ELSE Wired(c.cmd, in, <<c.op, c.file>>, id)
       [] c.type = "BACK" -> Wired(c.cmd, in, out, id)
       [] c.type = "LIST" -> Wired(c.left, in, out, Append(id, 1)) \cup waits
                             \cup Wired(c.right, in, out, Append(id, 2))
       [] c.type = "PIPE" -> Wired(c.left, in, <<"w", id>>, Append(id, 1)) \cup waits
                             \cup Wired(c.right, <<"r", id>>, out, Append(id, 2))

\* runcmd() starts every program of the command with its input and output in
\* place, and neither a program nor a shell that waits keeps an end of a pipe
\* open that would keep its reader from the end of the file.
CommandsWired == \A c \in cmd : runcmd(c, Console3, <<>>) = Wired(c, Con, Con, <<>>)
=============================================================================
