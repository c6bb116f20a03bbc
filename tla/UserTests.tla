------------------------------ MODULE UserTests ------------------------------
(***************************************************************************)
(* The file system tests of user/usertests.c as programs of SysFile.  Each *)
(* call carries the results the test accepts, so that a test fails in the  *)
(* model exactly where it prints and exits with 1.  Loops are cut to one   *)
(* or two turns and buffers to a few bytes; descriptors are the ones that  *)
(* open and pipe return to a process with none open.                       *)
(***************************************************************************)
EXTENDS SysFile

Ok == 0..99
Fail == {-1}
Any == -1..99

R(el) == [abs |-> FALSE, el |-> el]
A(el) == [abs |-> TRUE, el |-> el]
Rd == {}
Wr == {"WRONLY"}
RdWr == {"RDWR"}
Cr == {"CREATE"}
CrWr == {"CREATE", "RDWR"}
CrTrunc == {"CREATE", "TRUNC", "WRONLY"}

open(path, mode, want) == <<[op |-> "open", path |-> path, mode |-> mode, want |-> want]>>
mkdir(path, want) == <<[op |-> "mkdir", path |-> path, want |-> want]>>
mknod(path, type, want) == <<[op |-> "mknod", path |-> path, type |-> type, want |-> want]>>
unlink(path, want) == <<[op |-> "unlink", path |-> path, want |-> want]>>
link(old, new, want) == <<[op |-> "link", path |-> old, new |-> new, want |-> want]>>
chdir(path, want) == <<[op |-> "chdir", path |-> path, want |-> want]>>
exec(path, want) == <<[op |-> "exec", path |-> path, want |-> want]>>
close(fd) == <<[op |-> "close", fd |-> fd, want |-> Any]>>
dup(fd, want) == <<[op |-> "dup", fd |-> fd, want |-> want]>>
fstat(fd, want) == <<[op |-> "fstat", fd |-> fd, want |-> want]>>
\* data: the contents accepted, {} for any
read(fd, n, want, data) == <<[op |-> "read", fd |-> fd, n |-> n, want |-> want, data |-> data]>>
write(fd, bytes, want) == <<[op |-> "write", fd |-> fd, bytes |-> bytes, want |-> want]>>
pipe(want) == <<[op |-> "pipe", want |-> want]>>
fork(child) == <<[op |-> "fork", child |-> child, want |-> {1}]>>
wait(want) == <<[op |-> "wait", want |-> want]>>
exit == <<[op |-> "exit", want |-> Any]>>

\* close(open(path, mode))
touch(path, mode) == open(path, mode, Any) \o close(LastFd)

-----------------------------------------------------------------------------

truncate1 ==
  unlink(R(<<"t">>), Any) \o open(R(<<"t">>), CrTrunc, {0}) \o write(0, <<"a", "b", "c", "d">>, {4})
  \o close(0) \o open(R(<<"t">>), Rd, {0}) \o read(0, 9, {4}, {})
  \o open(R(<<"t">>), {"WRONLY", "TRUNC"}, {1}) \o open(R(<<"t">>), Rd, {2})
  \o read(2, 9, {0}, {}) \o read(0, 9, {0}, {})
  \o write(1, <<"a", "b", "c", "d", "e", "f">>, {6}) \o read(2, 9, {6}, {})
  \o read(0, 9, {2}, {}) \o unlink(R(<<"t">>), Any) \o close(0) \o close(1) \o close(2)

truncate2 ==
  unlink(R(<<"t">>), Any) \o open(R(<<"t">>), CrTrunc, {0}) \o write(0, <<"a", "b", "c", "d">>, Any)
  \o open(R(<<"t">>), {"WRONLY", "TRUNC"}, {1}) \o write(0, <<"x">>, Fail)
  \o unlink(R(<<"t">>), Any) \o close(0) \o close(1)

truncate3 ==
  touch(R(<<"t">>), CrTrunc)
  \o fork(open(R(<<"t">>), Wr, Ok) \o write(0, <<"1", "2", "3">>, {3}) \o close(0)
          \o open(R(<<"t">>), Rd, Any) \o read(0, 9, Any, {}) \o close(0) \o exit)
  \o open(R(<<"t">>), CrTrunc, Ok) \o write(0, <<"x", "x">>, {2}) \o close(0)
  \o wait(Ok) \o unlink(R(<<"t">>), Any)

\* The parts of iputtest and exitiputtest before the directory is left.
iput0 ==
  mkdir(R(<<"iputdir">>), Ok) \o chdir(R(<<"iputdir">>), Ok) \o unlink(R(<<"..", "iputdir">>), Ok)

iputtest == iput0 \o chdir(A(<<>>), Ok)

exitiputtest == fork(iput0 \o exit) \o wait(Ok)

\* sleep(1) is any number of the other's steps
openiputtest ==
  mkdir(R(<<"oidir">>), Ok) \o fork(open(R(<<"oidir">>), RdWr, Fail) \o exit)
  \o unlink(R(<<"oidir">>), Ok) \o wait(Ok)

opentest == open(R(<<"echo">>), Rd, Ok) \o close(0) \o open(R(<<"none">>), Rd, Fail)

writetest ==
  open(R(<<"small">>), CrWr, Ok) \o write(0, <<"a", "a">>, {2}) \o write(0, <<"b", "b">>, {2}) \o close(0)
  \o open(R(<<"small">>), Rd, Ok) \o read(0, 4, {4}, {<<"a", "a", "b", "b">>}) \o close(0)
  \o unlink(R(<<"small">>), Ok)

createtest ==
  touch(R(<<"a0">>), CrWr) \o touch(R(<<"a1">>), CrWr) \o unlink(R(<<"a0">>), Any) \o unlink(R(<<"a1">>), Any)

dirtest ==
  mkdir(R(<<"dir0">>), Ok) \o chdir(R(<<"dir0">>), Ok) \o chdir(R(<<"..">>), Ok) \o unlink(R(<<"dir0">>), Ok)

\* The standard output is descriptor 0 here; echo's main is its write.
exectest ==
  unlink(R(<<"echo-ok">>), Any)
  \o fork(close(0) \o open(R(<<"echo-ok">>), {"CREATE", "WRONLY"}, {0}) \o exec(R(<<"echo">>), Ok)
          \o write(0, <<"O", "K">>, {2}) \o exit)
  \o wait(Ok) \o open(R(<<"echo-ok">>), Rd, Ok) \o read(0, 2, {2}, {<<"O", "K">>})
  \o unlink(R(<<"echo-ok">>), Any) \o close(0)

\* the writes are larger than the pipe, the reader's buffer is one byte
pipe1 ==
  LET reads(s) == [i \in 1..Len(s) |-> Head(read(0, 1, {1}, {<<s[i]>>}))] IN
  pipe({0}) \o fork(close(0) \o write(1, <<"0", "1", "2">>, {3}) \o write(1, <<"3">>, {1}) \o exit)
  \o close(1) \o reads(<<"0", "1", "2", "3">>) \o read(0, 1, {0}, {}) \o close(0) \o wait(Ok)

exitwait == fork(exit) \o wait(Ok) \o fork(exit) \o wait(Ok)

reparent == fork(fork(exit) \o exit) \o wait(Ok)

twochildren == fork(exit) \o fork(exit) \o wait(Any) \o wait(Any)

sharedfd ==
  unlink(R(<<"sh">>), Any) \o open(R(<<"sh">>), CrWr, Ok)
  \o fork(write(0, <<"c">>, {1}) \o write(0, <<"c">>, {1}) \o exit)
  \o write(0, <<"p">>, {1}) \o write(0, <<"p">>, {1}) \o wait(Ok) \o close(0)
  \o open(R(<<"sh">>), Rd, Ok)
  \o read(0, 9, {4}, {s \in [1..4 -> {"c", "p"}] : Cardinality({i \in 1..4 : s[i] = "c"}) = 2})
  \o close(0) \o unlink(R(<<"sh">>), Any)

\* One of fourfiles' children, and the check of its file.
filesChild(f) == open(R(<<f>>), CrWr, Ok) \o write(0, <<f, f>>, {2}) \o exit
filesCheck(f) == open(R(<<f>>), Rd, Ok) \o read(0, 9, {2}, {<<f, f>>}) \o close(0) \o unlink(R(<<f>>), Any)

fourfiles ==
  unlink(R(<<"f0">>), Any) \o fork(filesChild("f0")) \o unlink(R(<<"f1">>), Any) \o fork(filesChild("f1"))
  \o wait(Ok) \o wait(Ok) \o filesCheck("f0") \o filesCheck("f1")

deleteChild(a) == touch(R(<<a>>), CrWr) \o unlink(R(<<a>>), Ok) \o exit

createdelete ==
  fork(deleteChild("p1")) \o fork(deleteChild("q1")) \o wait(Ok) \o wait(Ok)
  \o open(R(<<"p1">>), Rd, Fail) \o open(R(<<"q1">>), Rd, Fail)

unlinkread ==
  open(R(<<"ur">>), CrWr, Ok) \o write(0, <<"h", "e">>, Any) \o close(0)
  \o open(R(<<"ur">>), RdWr, Ok) \o unlink(R(<<"ur">>), {0})
  \o open(R(<<"ur">>), CrWr, Any) \o write(1, <<"y">>, Any) \o close(1)
  \o read(0, 9, {2}, {<<"h", "e">>}) \o write(0, <<"h", "e", "x">>, {3}) \o close(0) \o unlink(R(<<"ur">>), Any)

linktest ==
  unlink(R(<<"lf1">>), Any) \o unlink(R(<<"lf2">>), Any)
  \o open(R(<<"lf1">>), CrWr, Ok) \o write(0, <<"h", "e">>, {2}) \o close(0)
  \o link(R(<<"lf1">>), R(<<"lf2">>), Ok) \o unlink(R(<<"lf1">>), Any) \o open(R(<<"lf1">>), Rd, Fail)
  \o open(R(<<"lf2">>), Rd, Ok) \o read(0, 9, {2}, {}) \o close(0)
  \o link(R(<<"lf2">>), R(<<"lf2">>), Fail) \o unlink(R(<<"lf2">>), Any)
  \o link(R(<<"lf2">>), R(<<"lf1">>), Fail) \o link(R(<<".">>), R(<<"lf1">>), Fail)

\* The turns i = 0 and i = 1 (parent and child link), then three children's
\* opens against the parent's unlinks; the listing is checked by NamesUnique.
concreate ==
  unlink(R(<<"C0">>), Any) \o fork(open(R(<<"C0">>), CrWr, Ok) \o close(0) \o exit)
  \o open(R(<<"C0">>), CrWr, Ok) \o close(0) \o wait(Ok)
  \o unlink(R(<<"C1">>), Any) \o fork(link(R(<<"C0">>), R(<<"C1">>), Any) \o exit)
  \o link(R(<<"C0">>), R(<<"C1">>), Any) \o wait(Ok)
  \o fork(touch(R(<<"C0">>), Rd) \o touch(R(<<"C0">>), Rd) \o exit)
  \o unlink(R(<<"C0">>), Any) \o unlink(R(<<"C0">>), Any) \o wait(Any)
  \o fork(unlink(R(<<"C1">>), Any) \o unlink(R(<<"C1">>), Any) \o exit)
  \o touch(R(<<"C1">>), Rd) \o touch(R(<<"C1">>), Rd) \o wait(Any)

\* The three things linkunlink's processes do, in an order of their own.
LinkUnlinks == {touch(R(<<"x">>), CrWr), link(R(<<"echo">>), R(<<"x">>), Any), unlink(R(<<"x">>), Any)}

linkunlink(a, b, c) == unlink(R(<<"x">>), Any) \o fork(a \o b \o exit) \o c \o wait(Any)

bigdir ==
  unlink(R(<<"bd">>), Any) \o open(R(<<"bd">>), Cr, Ok) \o close(0)
  \o link(R(<<"bd">>), R(<<"x00">>), {0}) \o link(R(<<"bd">>), R(<<"x01">>), {0})
  \o unlink(R(<<"bd">>), Any) \o unlink(R(<<"x00">>), {0}) \o unlink(R(<<"x01">>), {0})

\* subdir, up to the first open of an unlinked name
subdir1 ==
  unlink(R(<<"ff">>), Any) \o mkdir(R(<<"dd">>), {0})
  \o open(R(<<"dd", "ff">>), CrWr, Ok) \o write(0, <<"f", "f">>, Any) \o close(0)
  \o unlink(R(<<"dd">>), Fail) \o mkdir(A(<<"dd", "dd">>), {0})
  \o open(R(<<"dd", "dd", "ff">>), CrWr, Ok) \o write(0, <<"F", "F">>, Any) \o close(0)
  \o open(R(<<"dd", "dd", "..", "ff">>), Rd, Ok) \o read(0, 9, {2}, {<<"f", "f">>}) \o close(0)
  \o link(R(<<"dd", "dd", "ff">>), R(<<"dd", "dd", "ffff">>), {0}) \o unlink(R(<<"dd", "dd", "ff">>), {0})
  \o open(R(<<"dd", "dd", "ff">>), Rd, Fail)

\* ... the walks through ".."
subdir2 ==
  chdir(R(<<"dd">>), {0}) \o chdir(R(<<"dd", "..", "..", "dd">>), {0})
  \o chdir(R(<<"dd", "..", "..", "..", "dd">>), {0}) \o chdir(R(<<".", "..">>), {0})
  \o open(R(<<"dd", "dd", "ffff">>), Rd, Ok) \o read(0, 9, {2}, {}) \o close(0)
  \o open(R(<<"dd", "dd", "ff">>), Rd, Fail)

\* ... the calls that must fail
subdir3 ==
  open(R(<<"dd", "ff", "ff">>), CrWr, Fail) \o open(R(<<"dd", "xx", "ff">>), CrWr, Fail)
  \o open(R(<<"dd">>), Cr, Fail) \o open(R(<<"dd">>), RdWr, Fail) \o open(R(<<"dd">>), Wr, Fail)
  \o link(R(<<"dd", "ff", "ff">>), R(<<"dd", "dd", "xx">>), Fail)
  \o link(R(<<"dd", "xx", "ff">>), R(<<"dd", "dd", "xx">>), Fail)
  \o link(R(<<"dd", "ff">>), R(<<"dd", "dd", "ffff">>), Fail)
  \o mkdir(R(<<"dd", "ff", "ff">>), Fail) \o mkdir(R(<<"dd", "xx", "ff">>), Fail)
  \o mkdir(R(<<"dd", "dd", "ffff">>), Fail)
  \o unlink(R(<<"dd", "xx", "ff">>), Fail) \o unlink(R(<<"dd", "ff", "ff">>), Fail)
  \o chdir(R(<<"dd", "ff">>), Fail) \o chdir(R(<<"dd", "xx">>), Fail)

\* ... and the cleaning up
subdir4 ==
  unlink(R(<<"dd", "dd", "ffff">>), {0}) \o unlink(R(<<"dd", "ff">>), {0}) \o unlink(R(<<"dd">>), Fail)
  \o unlink(R(<<"dd", "dd">>), Ok) \o unlink(R(<<"dd">>), Ok)

\* Writes larger than a transaction.
bigwrite ==
  unlink(R(<<"bigwrite">>), Any) \o open(R(<<"bigwrite">>), CrWr, Ok)
  \o write(0, [i \in 1..(2 * MaxWrite + 1) |-> "w"], {2 * MaxWrite + 1})
  \o write(0, [i \in 1..(2 * MaxWrite + 1) |-> "w"], {2 * MaxWrite + 1})
  \o close(0) \o unlink(R(<<"bigwrite">>), Any)

bigfile ==
  unlink(R(<<"bf">>), Any) \o open(R(<<"bf">>), CrWr, Ok)
  \o write(0, <<"0", "0">>, {2}) \o write(0, <<"1", "1">>, {2}) \o close(0) \o open(R(<<"bf">>), Rd, Ok)
  \o read(0, 1, {1}, {<<"0">>}) \o read(0, 1, {1}, {<<"0">>})
  \o read(0, 1, {1}, {<<"1">>}) \o read(0, 1, {1}, {<<"1">>}) \o read(0, 1, {0}, {})
  \o close(0) \o unlink(R(<<"bf">>), Any)

fourteen ==
  mkdir(R(<<Name14>>), {0}) \o mkdir(R(<<Name14, Name15>>), {0})
  \o open(R(<<Name15, Name15, Name15>>), Cr, Ok) \o close(0)
  \o open(R(<<Name14, Name14, Name14>>), Rd, Ok) \o close(0)
  \o mkdir(R(<<Name14, Name14>>), Fail) \o mkdir(R(<<Name15, Name14>>), Fail)
  \o unlink(R(<<Name15, Name14>>), Any) \o unlink(R(<<Name14, Name14>>), Any)
  \o unlink(R(<<Name14, Name14, Name14>>), Any) \o unlink(R(<<Name15, Name15, Name15>>), Any)
  \o unlink(R(<<Name14, Name15>>), Any) \o unlink(R(<<Name14>>), Any)

rmdot ==
  mkdir(R(<<"dots">>), {0}) \o chdir(R(<<"dots">>), {0}) \o unlink(R(<<".">>), Fail) \o unlink(R(<<"..">>), Fail)
  \o chdir(A(<<>>), {0}) \o unlink(R(<<"dots", ".">>), Fail) \o unlink(R(<<"dots", "..">>), Fail)
  \o unlink(R(<<"dots">>), {0})

dirfile ==
  open(R(<<"df">>), Cr, Ok) \o close(0) \o chdir(R(<<"df">>), Fail)
  \o open(R(<<"df", "xx">>), Rd, Fail) \o open(R(<<"df", "xx">>), Cr, Fail) \o mkdir(R(<<"df", "xx">>), Fail)
  \o unlink(R(<<"df", "xx">>), Fail) \o link(R(<<"README">>), R(<<"df", "xx">>), Fail)
  \o unlink(R(<<"df">>), {0}) \o open(R(<<".">>), RdWr, Fail)
  \o open(R(<<".">>), Rd, Any) \o write(0, <<"x">>, {-1, 0}) \o close(0)

\* One turn of iref; the test makes NINODE + 1 of them.
irefTurn ==
  mkdir(R(<<"irefd">>), {0}) \o chdir(R(<<"irefd">>), {0}) \o mkdir(R(<<>>), Any)
  \o link(R(<<"README">>), R(<<>>), Any) \o open(R(<<>>), Cr, Any) \o close(LastFd)
  \o open(R(<<"xx">>), Cr, Any) \o close(LastFd) \o unlink(R(<<"xx">>), Any)

irefClean == chdir(R(<<"..">>), Any) \o unlink(R(<<"irefd">>), Any)

iref == irefTurn \o irefTurn \o irefClean \o irefClean \o chdir(A(<<>>), Any)
==============================================================================
