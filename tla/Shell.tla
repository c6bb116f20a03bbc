-------------------------------- MODULE Shell --------------------------------
(***************************************************************************)
(* The shell, user/sh.c: its recursive descent parser on lines that are    *)
(* sequences of characters, and the calls a parsed command makes (runcmd)  *)
(* as a program of SysFile.  A position in the line is the parser's char   *)
(* pointer; a result is the command and the position behind it.            *)
(***************************************************************************)
EXTENDS UserTests

MAXARGS == 10
Symbols == {"<", "|", ">", "&", ";", "(", ")"}

Char(t, s) == IF s <= Len(t) THEN t[s] ELSE "NUL"

Skip(t, s) == Min({i \in s..(Len(t) + 1) : Char(t, i) # " "})

\* gettoken: "a" is a word, "+" is >>
Gettoken(t, s0) ==
  LET s == Skip(t, s0)
      c == Char(t, s)
      append == c = ">" /\ Char(t, s + 1) = ">"
      e == CASE c = "NUL" -> s [] append -> s + 2 [] c \in Symbols -> s + 1
             [] OTHER -> Min({i \in s..(Len(t) + 1) : Char(t, i) \in Symbols \cup {" ", "NUL"}})
  IN [tok |-> CASE append -> "+" [] c \in Symbols \cup {"NUL"} -> c [] OTHER -> "a",
      word |-> SubSeq(t, s, e - 1), at |-> Skip(t, e)]

Peek(t, s, toks) == Char(t, Skip(t, s)) \in toks

Panics == [cmd |-> [type |-> "panic"], at |-> 0]

IsPanic(r) == r.cmd.type = "panic"

\* parseredirs: the redirections at s, in order
RECURSIVE Redirs(_, _)
Redirs(t, s) ==
  LET op == Gettoken(t, s)
      file == Gettoken(t, op.at)
      rest == Redirs(t, file.at)
      r == CASE op.tok = "<" -> [file |-> file.word, mode |-> {}, fd |-> 0]
             [] op.tok = ">" -> [file |-> file.word, mode |-> {"WRONLY", "CREATE", "TRUNC"}, fd |-> 1]
             [] op.tok = "+" -> [file |-> file.word, mode |-> {"WRONLY", "CREATE"}, fd |-> 1]
  IN IF ~Peek(t, s, {"<", ">"}) THEN [ok |-> TRUE, rs |-> <<>>, at |-> s]
     ELSE IF file.tok # "a" THEN [ok |-> FALSE, rs |-> <<>>, at |-> s]
     ELSE [rest EXCEPT !.rs = <<r>> \o @]

\* redircmd around cmd for each redirection, the last one outermost
RECURSIVE Redircmd(_, _)
Redircmd(cmd, rs) ==
  IF rs = <<>> THEN cmd
  ELSE LET r == rs[Len(rs)] IN
       [type |-> "REDIR", cmd |-> Redircmd(cmd, SubSeq(rs, 1, Len(rs) - 1)),
        file |-> r.file, mode |-> r.mode, fd |-> r.fd]

\* The loop of parseexec: words and redirections up to one of |)&; or the end.
RECURSIVE Args(_, _, _, _)
Args(t, s, argv, rs) ==
  LET r == Redirs(t, s)
      g == Gettoken(t, r.at)
  IN IF ~r.ok THEN Panics
     ELSE IF Peek(t, r.at, {"|", ")", "&", ";", "NUL"})
     THEN [cmd |-> Redircmd([type |-> "EXEC", argv |-> argv], rs \o r.rs), at |-> r.at]
     ELSE IF g.tok # "a" \/ Len(argv) + 1 >= MAXARGS THEN Panics
     ELSE Args(t, g.at, Append(argv, g.word), rs \o r.rs)

\* The grammar; kind is the function: parseline, parsepipe, parseexec.
RECURSIVE Parse(_, _, _)
Parseblock(t, s) ==
  LET line == Parse("line", t, s + 1)
      r == Redirs(t, Skip(t, line.at) + 1)
  IN IF IsPanic(line) \/ ~Peek(t, line.at, {")"}) \/ ~r.ok THEN Panics
     ELSE [cmd |-> Redircmd(line.cmd, r.rs), at |-> r.at]

\* left, then the operator and what is on its right, if the operator is there
Binary(t, left, op, type, kind) ==
  LET right == Parse(kind, t, Skip(t, left.at) + 1) IN
  IF IsPanic(left) \/ ~Peek(t, left.at, {op}) THEN left
  ELSE IF IsPanic(right) THEN Panics
  ELSE [cmd |-> [type |-> type, left |-> left.cmd, right |-> right.cmd], at |-> right.at]

RECURSIVE Backcmd(_, _)
Backcmd(t, r) ==
  IF IsPanic(r) \/ ~Peek(t, r.at, {"&"}) THEN r
  ELSE Backcmd(t, [cmd |-> [type |-> "BACK", cmd |-> r.cmd], at |-> Skip(t, r.at) + 1])

Parse(kind, t, s) ==
  CASE kind = "line" -> Binary(t, Backcmd(t, Parse("pipe", t, s)), ";", "LIST", "line")
    [] kind = "pipe" -> Binary(t, Parse("exec", t, s), "|", "PIPE", "pipe")
    [] kind = "exec" -> IF Peek(t, s, {"("}) THEN Parseblock(t, Skip(t, s)) ELSE Args(t, s, <<>>, <<>>)

\* parsecmd; leftovers are a syntax error
Parsecmd(t) ==
  LET r == Parse("line", t, 1) IN
  IF IsPanic(r) \/ Skip(t, r.at) <= Len(t) THEN Panics.cmd ELSE r.cmd

-----------------------------------------------------------------------------

\* The commands of the lines: e writes x, w counts what it reads to the end.
Body(argv) ==
  CASE argv[1] = <<"e">> -> write(1, <<"x">>, {1})
    [] argv[1] = <<"w">> -> read(0, 9, {1}, {<<"x">>}) \o read(0, 9, {0}, {})

\* mutant: the parent keeps its ends of the pipe open
ParentKeepsPipe == <<>>

\* runcmd, PIPE: the parent closes its ends before it waits
ParentCloses == close(3) \o close(4)

\* runcmd; the ends of a pipe are descriptors 3 and 4
RECURSIVE Runcmd(_)
Runcmd(cmd) ==
  CASE cmd.type = "EXEC" ->
         IF cmd.argv = <<>> THEN exit ELSE exec(R(<<"echo">>), Ok) \o Body(cmd.argv) \o exit
    [] cmd.type = "REDIR" -> close(cmd.fd) \o open(R(cmd.file), cmd.mode, Ok) \o Runcmd(cmd.cmd)
    [] cmd.type = "LIST" -> fork(Runcmd(cmd.left)) \o wait(Any) \o Runcmd(cmd.right)
    [] cmd.type = "PIPE" ->
         pipe({0})
         \o fork(close(1) \o dup(4, {1}) \o close(3) \o close(4) \o Runcmd(cmd.left))
         \o fork(close(0) \o dup(3, {0}) \o close(3) \o close(4) \o Runcmd(cmd.right))
         \o ParentCloses \o wait(Any) \o wait(Any) \o exit
    [] cmd.type = "BACK" -> fork(Runcmd(cmd.cmd)) \o exit
    [] cmd.type = "panic" -> exit

\* main: three descriptors are open, then each line is run by a child
shMain(line) ==
  open(R(<<"console">>), RdWr, {3}) \o close(3) \o fork(Runcmd(Parsecmd(line))) \o wait(Ok) \o exit
==============================================================================
