------------------------------- MODULE Programs ------------------------------
(***************************************************************************)
(* Programs of the repository that exercise the file system: the cases of  *)
(* user/grind.c, user/init.c, and the commands the shell runs.             *)
(***************************************************************************)
EXTENDS Shell

\* A turn of the loop of go in grind.c.  fd is descriptor 0: the other opens of
\* the loop close theirs at once.
grind1 == touch(R(<<"grindir", "..", "a">>), CrWr)
grind2 == touch(R(<<"grindir", "..", "grindir", "..", "b">>), CrWr)
grind3 == unlink(R(<<"grindir", "..", "a">>), Any)
grind4 == chdir(R(<<"grindir">>), {0}) \o unlink(R(<<"..", "b">>), Any) \o chdir(A(<<>>), Any)
grind5 == close(0) \o open(A(<<"grindir", "..", "a">>), CrWr, Any)
grind6 == close(0) \o open(A(<<".", "grindir", ".", "..", "b">>), CrWr, Any)
grind7 == write(0, <<"w">>, Any)
grind8 == read(0, 1, Any, {})
grind9 ==
  mkdir(R(<<"grindir", "..", "a">>), Any) \o touch(R(<<"a", "..", "a", ".", "a">>), CrWr)
  \o unlink(R(<<"a", "a">>), Any)
grind10 ==
  mkdir(A(<<"..", "b">>), Any) \o touch(R(<<"grindir", "..", "b", "b">>), CrWr) \o unlink(R(<<"b", "b">>), Any)
grind11 ==
  unlink(R(<<"b">>), Any) \o link(R(<<"..", "grindir", ".", "..", "a">>), R(<<"..", "b">>), Any)
grind12 ==
  unlink(R(<<"..", "grindir", "..", "a">>), Any)
  \o link(R(<<"..", ".", "b">>), A(<<"grindir", "..", "a">>), Any)
\* Where a child forks twice in a row, its first child does not fork again; the
\* kill of turn 17 is left out (a process may be killed in Proc, Pipe, Console).
grind14 == fork(fork(exit) \o fork(exit) \o exit) \o wait(Any)
grind17 == fork(touch(R(<<"a">>), CrWr) \o exit) \o chdir(R(<<"..", "grindir", "..">>), {0}) \o wait(Any)
grind19 ==
  pipe({0})
  \o fork(fork(write(1, <<"x">>, {1}) \o read(0, 1, {1}, {}) \o exit)
          \o write(1, <<"x">>, {1}) \o read(0, 1, {1}, {}) \o exit)
  \o close(0) \o close(1) \o wait(Any)
grind20 ==
  fork(unlink(R(<<"a">>), Any) \o mkdir(R(<<"a">>), Any) \o chdir(R(<<"a">>), Any)
       \o unlink(R(<<"..", "a">>), Any) \o open(R(<<"x">>), CrWr, Any) \o unlink(R(<<"x">>), Any) \o exit)
  \o wait(Any)
\* fd1 is descriptor 0: fd has not been opened; the fstat's result is the size
grind21 ==
  unlink(R(<<"c">>), Any) \o open(R(<<"c">>), CrWr, Ok) \o write(0, <<"x">>, {1}) \o fstat(0, {1})
  \o close(0) \o unlink(R(<<"c">>), Any)

\* init, one round of its loop: the console is opened twice more by dup, then the
\* shell is run; echo stands for every program file
initMain(line) ==
  open(R(<<"console">>), RdWr, Fail) \o mknod(R(<<"console">>), "dev", Any) \o open(R(<<"console">>), RdWr, {0})
  \o dup(0, {1}) \o dup(0, {2}) \o fork(exec(R(<<"echo">>), Ok) \o shMain(line)) \o wait(Ok)

\* More files than a process, then than the system, can have open; a pipe may
\* get one file of the two.
manyfiles ==
  LET fill(n) == [i \in 1..n |-> Head(open(R(<<"README">>), Rd, 0..NOFILE))] IN
  fill(NOFILE) \o open(R(<<"echo">>), Rd, Fail) \o pipe(Fail)
  \o fork(close(0) \o close(1) \o close(2) \o fill(NFILE - NOFILE - 1) \o pipe(Fail) \o fill(1)
          \o open(R(<<"echo">>), Rd, Fail) \o pipe(Fail) \o exit)
  \o wait(Ok)

\* More pipes than there are pages; a write that finds no reader.
manypipes ==
  LET fill(n) == [i \in 1..n |-> Head(pipe({0}))] IN
  fill(Cardinality(Pipes)) \o pipe(Fail) \o close(0) \o write(1, <<"x">>, {1}) \o write(1, <<"y", "z">>, Fail)

\* A process in a directory that is removed with its parent: ".." dangles.
removedParent ==
  mkdir(R(<<"a">>), Ok) \o mkdir(R(<<"a", "b">>), Ok) \o chdir(R(<<"a", "b">>), Ok)
  \o unlink(A(<<"a", "b">>), Ok) \o unlink(A(<<"a">>), Ok) \o open(R(<<"..">>), Rd, Any)

\* Names made in a removed directory are lost with it, or keep it.
removedFile == iput0 \o open(R(<<"x">>), CrWr, Any) \o close(0) \o chdir(A(<<>>), Any)
removedDir == iput0 \o mkdir(R(<<"x">>), Any) \o chdir(A(<<>>), Any)
==============================================================================
