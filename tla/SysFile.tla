------------------------------- MODULE SysFile -------------------------------
(***************************************************************************)
(* The file system calls: path lookup and iput (kernel/fs.c), the calls of *)
(* kernel/sysfile.c, the open file table of kernel/file.c, and the parts   *)
(* of fork, exit, wait and exec that hold files, made by processes that    *)
(* run at the same time.                                                   *)
(*                                                                         *)
(* A process runs a program, a sequence of calls, each with the results it *)
(* accepts.  A call takes several steps; a step ends where the code gives  *)
(* another process a chance to see what it did: at the end of a section    *)
(* under an inode's sleep lock, icache.lock or ftable.lock.  What happens  *)
(* to protected data inside a section is one step.                         *)
(*                                                                         *)
(* Module Log makes begin_op .. end_op atomic on the disk; here tx only    *)
(* records who is between the two.                                         *)
(***************************************************************************)
EXTENDS Inode

CONSTANTS
  NFILE,      \* param.h: entries of the open file table
  NOFILE,     \* param.h: open files of a process
  Pipes,      \* pages a pipe can be in
  PIPESIZE,   \* pipe.c
  MaxWrite    \* filewrite: what fits in one transaction

ASSUME SysFileAssumption ==
  /\ NFILE \in Nat /\ NOFILE \in Nat /\ PIPESIZE \in Nat \ {0} /\ MaxWrite \in Nat \ {0}

VARIABLES
  ftable,   \* struct file: type, ref, ip, off, readable, writable, pipe
  pipes,    \* struct pipe: readopen, writeopen, and the bytes inside
  proc,     \* struct proc: state, parent, cwd, ofile; the rest of its program
  loc,      \* the system call each process is in, and its local variables
  tx,       \* processes between begin_op and end_op
  lost,     \* inodes only the entries of a removed directory led to (see Reclaimed)
  panic,    \* None, or why the kernel stopped
  failed    \* calls whose result the program does not accept

fileVars == <<ftable, pipes>>
vars == <<disk, icache, ftable, pipes, proc, loc, tx, lost, panic, failed>>

File == 1..NFILE
Fd == 0..(NOFILE - 1)

NoFile == [type |-> "none", ref |-> 0, ip |-> 0, off |-> 0,
           readable |-> FALSE, writable |-> FALSE, pipe |-> None]

NoPipe == [readopen |-> FALSE, writeopen |-> FALSE, data |-> <<>>]

\* The local variables of a process that is in user space.
NoCall == [pc |-> "user", c |-> None, path |-> <<>>, par |-> FALSE, k |-> "", name |-> "",
           after |-> "", ip |-> 0, dp |-> 0, puts |-> <<>>, f |-> <<>>, done |-> 0, ret |-> 0]

Unused == [state |-> "unused", parent |-> None, cwd |-> 0,
           ofile |-> [fd \in Fd |-> 0], prog |-> <<>>, last |-> 0]

-----------------------------------------------------------------------------
(* Steps that change inodes and the caller's locals, and nothing else. *)

Do(p, ic, d, l) ==
  /\ icache' = ic /\ disk' = d /\ loc' = [loc EXCEPT ![p] = l]
  /\ UNCHANGED <<ftable, pipes, proc, tx, lost, panic, failed>>

Panic(why) ==
  /\ panic' = why
  /\ UNCHANGED <<disk, icache, ftable, pipes, proc, loc, tx, lost, failed>>

\* The call ends with result r once the references in puts are dropped.
Ret(l, puts, r) ==
  [l EXCEPT !.pc = IF puts = <<>> THEN "ret" ELSE "iput", !.puts = puts, !.after = "ret", !.ret = r]

\* Drop the references in puts, then go on at pc.
PutThen(l, puts, pc) == [l EXCEPT !.pc = "iput", !.puts = puts, !.after = pc]

\* The entry whose sleep lock the process acquires in its next step.
WantLock(p) ==
  LET l == loc[p] IN
  CASE l.pc = "walk" -> IF l.path = <<>> THEN 0 ELSE l.ip
    [] l.pc \in {"create", "create_found", "create_init", "open", "link", "link_dp",
                 "unlink", "unlink_ip", "chdir", "exec"} -> l.ip
    [] l.pc = "link_bad" -> l.dp
    [] l.pc \in {"read", "fstat", "write_chunk"} ->
         IF ftable[Head(l.f)].type = "inode" \/ l.pc = "fstat" THEN ftable[Head(l.f)].ip ELSE 0
    [] OTHER -> 0

LockFree(p) == WantLock(p) # 0 => icache[WantLock(p)].lock = None

\* acquiresleep does not wait, and ilock does not panic
At(p, pc) ==
  /\ panic = None /\ loc[p].pc = pc
  /\ LockFree(p)
  /\ WantLock(p) # 0 => ~IlockPanics(WantLock(p))

\* The panics of ilock: no reference, no type on the disk.
IlockPanic(p) ==
  /\ panic = None
  /\ WantLock(p) # 0 /\ LockFree(p) /\ IlockPanics(WantLock(p))
  /\ Panic("ilock: no type")

-----------------------------------------------------------------------------
(* namex *)

\* The first reference of a walk; it goes on at k with the inode, 0 if there
\* is none, in ip and the last element of a path walked for its parent in name.
NamexFrom(p, ic, l, path, par, k) ==
  [ic |-> IF path.abs THEN Iget(ic, ROOTINO) ELSE Idup(ic, proc[p].cwd),
   l  |-> [l EXCEPT !.pc = "walk", !.path = path.el, !.par = par, !.k = k,
                    !.ip = IF path.abs THEN IgetSlot(ic, ROOTINO) ELSE proc[p].cwd]]

\* One turn of the loop of namex: the directory is locked for the lookup only.
Walk(p) ==
  LET l == loc[p]
      s == l.ip
      none == PutThen([l EXCEPT !.ip = 0], <<s>>, l.k)
  IN /\ At(p, "walk")
     /\ IF l.path = <<>>
        THEN Do(p, icache, disk, IF l.par THEN none ELSE [l EXCEPT !.pc = l.k])
        ELSE LET ic == Loaded(s)
                 i == Lookup(disk, ic[s].inum, Elem(Head(l.path)))
             IN IF ic[s].type # "dir" THEN Do(p, ic, disk, none)
                ELSE IF l.par /\ Len(l.path) = 1
                THEN Do(p, ic, disk, [l EXCEPT !.pc = l.k, !.name = Elem(Head(l.path)), !.path = <<>>])
                ELSE IF i = 0 THEN Do(p, ic, disk, none)
                ELSE IF IgetFails(ic, i) THEN Panic("iget: no inodes")
                ELSE Do(p, Iget(ic, i), disk,
                        PutThen([l EXCEPT !.ip = IgetSlot(ic, i), !.path = Tail(@)], <<s>>, "walk"))

-----------------------------------------------------------------------------
(* iput of the first entry of puts, in up to three steps *)

PutDone(l) ==
  [l EXCEPT !.puts = Tail(@), !.pc = IF Len(l.puts) > 1 THEN "iput" ELSE l.after]

\* acquire(&icache.lock); the inode is freed, or the reference dropped
Iput(p) ==
  LET s == Head(loc[p].puts) IN
  /\ At(p, "iput")
  /\ IF ~FreesInode(icache[s])
     THEN Do(p, [icache EXCEPT ![s].ref = @ - 1], disk, PutDone(loc[p]))
     ELSE IF icache[s].lock # None THEN Panic("sched locks")
     ELSE Do(p, Lock(icache, s, p), disk, [loc[p] EXCEPT !.pc = "iput_free"])

\* itrunc, type = 0, iupdate, valid = 0, releasesleep
IputFree(p) ==
  LET s == Head(loc[p].puts)
      i == icache[s].inum
  IN /\ At(p, "iput_free")
     /\ icache' = [icache EXCEPT ![s] = Cleared(@)]
     /\ disk' = [disk EXCEPT ![i] = FreeInode]
     /\ lost' = (lost \ {i}) \cup
                (IF disk[i].type # "dir" THEN {}
                 ELSE {disk[i].data[j].inum : j \in 3..Len(disk[i].data)} \ {0})
     /\ loc' = [loc EXCEPT ![p].pc = "iput_dec"]
     /\ UNCHANGED <<ftable, pipes, proc, tx, panic, failed>>

\* the reference is dropped under icache.lock, taken again, whatever has
\* become of the entry in between
IputDec(p) ==
  LET s == Head(loc[p].puts) IN
  /\ At(p, "iput_dec")
  /\ icache' = [icache EXCEPT ![s].ref = @ - 1]
  /\ lost' = IF FreesInode(icache[s]) THEN lost \cup {icache[s].inum} ELSE lost
  /\ loc' = [loc EXCEPT ![p] = PutDone(loc[p])]
  /\ UNCHANGED <<disk, ftable, pipes, proc, tx, panic, failed>>

-----------------------------------------------------------------------------
(* create, and the calls that use it *)

\* The type a call asks create for.
NewType(c) == CASE c.op = "open" -> "file" [] c.op = "mkdir" -> "dir" [] c.op = "mknod" -> c.type

\* mutant: dirlink does not look for the name
DirlinkUnchecked(d, i, n) == FALSE

\* dirlink's "Check that name is not present"
DirlinkFails(d, i, n) == Lookup(d, i, n) # 0

\* mutant: the lock of the directory is given up between lookup and dirlink
CreateReleases(ic, s, p) == ic

\* What create has locked while it makes the inode.
CreateHolds(ic, s, p) == Lock(ic, s, p)

\* The parent directory is looked up; it stays locked if the name is new.
Create(p) ==
  LET l == loc[p]
      s == l.ip
      i == Lookup(disk, icache[s].inum, l.name)
  IN /\ At(p, "create")
     /\ IF s = 0 THEN Do(p, icache, disk, Ret(l, <<>>, -1))
        ELSE IF i # 0 /\ IgetFails(Loaded(s), i) THEN Panic("iget: no inodes")
        ELSE IF i # 0
        THEN Do(p, Iget(Loaded(s), i), disk,
                PutThen([l EXCEPT !.ip = IgetSlot(Loaded(s), i)], <<s>>, "create_found"))
        ELSE Do(p, CreateHolds(Loaded(s), s, p), disk, [l EXCEPT !.dp = s, !.ip = 0, !.pc = "ialloc"])

\* An existing file or device can be opened; it is returned locked.
CreateFound(p) ==
  LET l == loc[p]
      s == l.ip
  IN /\ At(p, "create_found")
     /\ IF l.c.op = "open" /\ Loaded(s)[s].type # "dir"
        THEN Do(p, Lock(Loaded(s), s, p), disk, [l EXCEPT !.pc = "open_file"])
        ELSE Do(p, Loaded(s), disk, Ret(l, <<s>>, -1))

\* ialloc, under the lock of the inode's block, marks the first free inode
Ialloc(p) ==
  LET free == {i \in Inum : disk[i].type = "free"} IN
  /\ At(p, "ialloc")
  /\ IF free = {} THEN Panic("ialloc: no inodes")
     ELSE Do(p, icache, [disk EXCEPT ![Min(free)] = [FreeInode EXCEPT !.type = NewType(loc[p].c)]],
             [loc[p] EXCEPT !.pc = "ialloc_iget", !.done = Min(free)])

\* ... and takes a cache entry for it.
IallocIget(p) ==
  LET i == loc[p].done IN
  /\ At(p, "ialloc_iget")
  /\ IF IgetFails(icache, i) THEN Panic("iget: no inodes")
     ELSE Do(p, Iget(icache, i), disk,
             [loc[p] EXCEPT !.pc = "create_init", !.ip = IgetSlot(icache, i), !.done = 0])

\* mutant: no link of the parent directory for ".."
NoLinkUp(ic, dp) == ic

\* dp->nlink++ for the ".." of a new directory
LinkUp(ic, dp) == SetNlink(ic, dp, ic[dp].nlink + 1)

\* The new inode is filled and linked; it stays locked, its directory is put.
CreateInit(p) ==
  LET l == loc[p]
      s == l.ip
      dir == l.c.op = "mkdir"
      ic == SetNlink(Lock(Loaded(s), s, p), s, 1)
      up == IF dir THEN LinkUp(ic, l.dp) ELSE ic
      d == Iupdate(Iupdate(disk, up, s), up, l.dp)
      i == icache[s].inum
      di == icache[l.dp].inum
  IN /\ At(p, "create_init")
     /\ IF DirlinkFails(disk, di, l.name) THEN Panic("create: dirlink")
        ELSE /\ icache' = Unlock(up, l.dp)
             /\ disk' = Dirlink(IF dir THEN Dots(d, i, di) ELSE d, di, l.name, i)
             /\ lost' = IF dir /\ icache[l.dp].nlink = 0 THEN lost \cup {di} ELSE lost
             /\ loc' = [loc EXCEPT ![p] =
                  PutThen(l, <<l.dp>>, IF l.c.op = "open" THEN "open_file" ELSE "iunlockput")]
             /\ UNCHANGED <<ftable, pipes, proc, tx, panic, failed>>

\* iunlockput(ip), the last thing sys_mkdir and sys_mknod do, sys_open when
\* fdalloc failed, and sys_unlink, with dp in ip, when it refuses
Iunlockput(p) ==
  /\ At(p, "iunlockput")
  /\ Do(p, Unlock(icache, loc[p].ip), disk, Ret(loc[p], <<loc[p].ip>>, loc[p].ret))

-----------------------------------------------------------------------------
(* sys_open, filealloc, fdalloc *)

FreeFiles == {f \in File : ftable[f].ref = 0}
FreeFds(p) == {fd \in Fd : proc[p].ofile[fd] = 0}

\* open without O_CREATE: a directory opens for reading only
Open(p) ==
  LET l == loc[p]
      s == l.ip
  IN /\ At(p, "open")
     /\ IF s = 0 THEN Do(p, icache, disk, Ret(l, <<>>, -1))
        ELSE IF Loaded(s)[s].type = "dir" /\ l.c.mode # {}
        THEN Do(p, Loaded(s), disk, Ret(l, <<s>>, -1))
        ELSE Do(p, Lock(Loaded(s), s, p), disk, [l EXCEPT !.pc = "open_file"])

\* filealloc: the first free entry, whatever its last user left in it
Filealloc(f) == [ftable EXCEPT ![f].ref = 1]

\* The file of an open inode.
OpenedFile(f, s, mode) ==
  LET inode == icache[s].type \in {"file", "dir"} IN
  [ftable[f] EXCEPT !.ref = 1, !.type = IF inode THEN "inode" ELSE "device", !.ip = s,
                    !.off = IF inode THEN 0 ELSE @,
                    !.readable = "WRONLY" \notin mode,
                    !.writable = mode \cap {"WRONLY", "RDWR"} # {}]

\* The rest of sys_open, with the inode locked.
OpenFile(p) ==
  LET l == loc[p]
      s == l.ip
      f == Min(FreeFiles)
      fd == Min(FreeFds(p))
  IN /\ At(p, "open_file")
     /\ IF icache[s].type = "baddev" \/ FreeFiles = {}
        THEN Do(p, Unlock(icache, s), disk, Ret(l, <<s>>, -1))
        ELSE IF FreeFds(p) = {}
        THEN /\ ftable' = Filealloc(f)
             /\ loc' = [loc EXCEPT ![p].f = <<f>>, ![p].pc = "fileclose", ![p].k = "iunlockput",
                                 ![p].ret = -1]
             /\ UNCHANGED <<disk, icache, pipes, proc, tx, lost, panic, failed>>
        ELSE /\ ftable' = [ftable EXCEPT ![f] = OpenedFile(f, s, l.c.mode)]
             /\ proc' = [proc EXCEPT ![p].ofile[fd] = f]
             /\ disk' = IF "TRUNC" \in l.c.mode /\ icache[s].type = "file"
                        THEN [disk EXCEPT ![icache[s].inum].data = <<>>] ELSE disk
             /\ icache' = Unlock(icache, s)
             /\ loc' = [loc EXCEPT ![p] = Ret(l, <<>>, fd)]
             /\ UNCHANGED <<pipes, tx, lost, panic, failed>>

-----------------------------------------------------------------------------
(* sys_link, sys_unlink, sys_chdir, sys_exec *)

\* The old name's inode gets its link before the new name is looked up.
Link(p) ==
  LET l == loc[p]
      s == l.ip
      ic == SetNlink(Loaded(s), s, Loaded(s)[s].nlink + 1)
      w == NamexFrom(p, ic, [l EXCEPT !.dp = s], l.c.new, TRUE, "link_dp")
  IN /\ At(p, "link")
     /\ IF s = 0 THEN Do(p, icache, disk, Ret(l, <<>>, -1))
        ELSE IF Loaded(s)[s].type = "dir" THEN Do(p, Loaded(s), disk, Ret(l, <<s>>, -1))
        ELSE IF l.c.new.abs /\ IgetFails(ic, ROOTINO) THEN Panic("iget: no inodes")
        ELSE Do(p, w.ic, Iupdate(disk, ic, s), w.l)

\* dp holds the old inode, ip the new name's directory; if the name is taken,
\* dirlink drops what dirlookup found there with the directory still locked
LinkDp(p) ==
  LET l == loc[p]
      s == l.ip
      di == icache[s].inum
      i == Lookup(disk, di, l.name)
      ic == Lock(Loaded(s), s, p)
  IN /\ At(p, "link_dp")
     /\ IF s = 0 THEN Do(p, icache, disk, [l EXCEPT !.pc = "link_bad"])
        ELSE IF ~DirlinkFails(disk, di, l.name)
        THEN Do(p, Loaded(s), Dirlink(disk, di, l.name, icache[l.dp].inum), Ret(l, <<s, l.dp>>, 0))
        ELSE IF IgetFails(ic, i) THEN Panic("iget: no inodes")
        ELSE Do(p, Iget(ic, i), disk, PutThen(l, <<IgetSlot(ic, i)>>, "link_taken"))

\* iunlockput(dp)
LinkTaken(p) ==
  /\ At(p, "link_taken")
  /\ Do(p, Unlock(icache, loc[p].ip), disk, PutThen(loc[p], <<loc[p].ip>>, "link_bad"))

\* mutant: the error path does not take the link back
LinkKept(n) == n

\* "bad:" of sys_link
LinkUndone(n) == n - 1

LinkBad(p) ==
  LET s == loc[p].dp
      ic == SetNlink(Loaded(s), s, LinkUndone(Loaded(s)[s].nlink))
  IN /\ At(p, "link_bad")
     /\ Do(p, ic, Iupdate(disk, ic, s), Ret(loc[p], <<s>>, -1))

\* The directory is locked and stays so while the entry's inode is locked.
Unlink(p) ==
  LET l == loc[p]
      s == l.ip
      i == Lookup(disk, icache[s].inum, l.name)
  IN /\ At(p, "unlink")
     /\ IF s = 0 THEN Do(p, icache, disk, Ret(l, <<>>, -1))
        ELSE IF l.name \in {".", ".."} \/ i = 0 THEN Do(p, Loaded(s), disk, Ret(l, <<s>>, -1))
        ELSE IF IgetFails(icache, i) THEN Panic("iget: no inodes")
        ELSE Do(p, Iget(Lock(Loaded(s), s, p), i), disk,
                [l EXCEPT !.dp = s, !.ip = IgetSlot(icache, i), !.pc = "unlink_ip"])

\* Both are locked: the entry is erased, the links counted down, dp put.
UnlinkIp(p) ==
  LET l == loc[p]
      s == l.ip
      dir == Loaded(s)[s].type = "dir"
      di == icache[l.dp].inum
      ic == IF dir THEN SetNlink(Loaded(s), l.dp, icache[l.dp].nlink - 1) ELSE Loaded(s)
  IN /\ At(p, "unlink_ip")
     /\ IF Loaded(s)[s].nlink < 1 THEN Panic("unlink: nlink < 1")
        ELSE IF dir /\ ~Isdirempty(disk, icache[s].inum)
        THEN Do(p, Loaded(s), disk,
                PutThen([l EXCEPT !.ip = l.dp, !.ret = -1], <<s>>, "iunlockput"))
        ELSE Do(p, Unlock(Lock(ic, s, p), l.dp), Iupdate(Erase(disk, di, l.name), ic, l.dp),
                PutThen(l, <<l.dp>>, "unlink_dec"))

\* ip->nlink--, iupdate, iunlockput
UnlinkDec(p) ==
  LET s == loc[p].ip
      ic == SetNlink(Unlock(icache, s), s, icache[s].nlink - 1)
  IN /\ At(p, "unlink_dec")
     /\ Do(p, ic, Iupdate(disk, ic, s), Ret(loc[p], <<s>>, 0))

\* sys_chdir; the old directory is put, then cwd changes (Return)
Chdir(p) ==
  LET l == loc[p]
      s == l.ip
  IN /\ At(p, "chdir")
     /\ IF s = 0 THEN Do(p, icache, disk, Ret(l, <<>>, -1))
        ELSE IF Loaded(s)[s].type # "dir" THEN Do(p, Loaded(s), disk, Ret(l, <<s>>, -1))
        ELSE Do(p, Loaded(s), disk, Ret(l, <<proc[p].cwd>>, 0))

\* exec reads the program under the inode's lock; "ELF" stands for ELF_MAGIC
Exec(p) ==
  LET l == loc[p]
      s == l.ip
      magic == disk[icache[s].inum].data # <<>> /\ disk[icache[s].inum].type = "file"
               /\ Head(disk[icache[s].inum].data) = "ELF"
  IN /\ At(p, "exec")
     /\ IF s = 0 THEN Do(p, icache, disk, Ret(l, <<>>, -1))
        ELSE Do(p, Loaded(s), disk, Ret(l, <<s>>, IF magic THEN 0 ELSE -1))

-----------------------------------------------------------------------------
(* Open files *)

\* mutant: a closed file keeps its type
ClosedKeepsType(f) == [f EXCEPT !.ref = 0]

\* What fileclose leaves in an entry when its last reference goes.
Closed(f) == [f EXCEPT !.ref = 0, !.type = "none"]

\* pipeclose; the page is freed when both ends are closed
Pipeclose(q, writable) ==
  LET e == IF writable THEN [pipes[q] EXCEPT !.writeopen = FALSE]
                       ELSE [pipes[q] EXCEPT !.readopen = FALSE]
  IN [pipes EXCEPT ![q] = IF e.readopen \/ e.writeopen THEN e ELSE NoPipe]

\* The next file to close, or on at k.
CloseDone(l) == [l EXCEPT !.f = Tail(@), !.pc = IF Len(l.f) > 1 THEN "fileclose" ELSE l.k]

\* mutant: iput outside of a transaction
NoBeginOp(p) == tx

BeginOp(p) == tx \cup {p}

\* fileclose of the first file of f; an inode is put in a transaction
Fileclose(p) ==
  LET l == loc[p]
      f == ftable[Head(l.f)]
      last == f.ref = 1
      inode == last /\ f.type \in {"inode", "device"}
  IN /\ At(p, "fileclose")
     /\ IF f.ref < 1 THEN Panic("fileclose")
        ELSE /\ ftable' = [ftable EXCEPT ![Head(l.f)] =
                              IF last THEN Closed(f) ELSE [f EXCEPT !.ref = @ - 1]]
             /\ pipes' = IF last /\ f.type = "pipe" THEN Pipeclose(f.pipe, f.writable) ELSE pipes
             /\ tx' = IF inode THEN BeginOp(p) ELSE tx
             /\ loc' = [loc EXCEPT ![p] =
                          IF inode THEN PutThen(l, <<f.ip>>, "fileclose_end") ELSE CloseDone(l)]
             /\ UNCHANGED <<disk, icache, proc, lost, panic, failed>>

\* end_op
FilecloseEnd(p) ==
  /\ At(p, "fileclose_end")
  /\ tx' = tx \ {p}
  /\ loc' = [loc EXCEPT ![p] = CloseDone(loc[p])]
  /\ UNCHANGED <<disk, icache, ftable, pipes, proc, lost, panic, failed>>

\* The content a program does not expect is recorded like a result.
Check(p, out) ==
  failed' = IF loc[p].c.data = {} \/ out \in loc[p].c.data THEN failed ELSE failed \cup {loc[p].c}

\* fileread: an inode at the file's offset, under the inode's lock; a pipe
\* when it has bytes or no writer (module Pipe has the details); no program
\* reads a device
Read(p) ==
  LET l == loc[p]
      f == ftable[Head(l.f)]
      bytes == IF f.type = "pipe" THEN pipes[f.pipe].data
               ELSE LET d == disk[icache[f.ip].inum].data IN SubSeq(d, f.off + 1, Len(d))
      out == SubSeq(bytes, 1, Min({l.c.n, Len(bytes)}))
  IN /\ At(p, "read")
     /\ f.type = "pipe" => bytes # <<>> \/ ~pipes[f.pipe].writeopen
     /\ Check(p, out)
     /\ IF f.type = "pipe"
        THEN /\ pipes' = [pipes EXCEPT ![f.pipe].data = SubSeq(@, Len(out) + 1, Len(@))]
             /\ UNCHANGED <<icache, ftable>>
        ELSE /\ icache' = Loaded(f.ip)
             /\ ftable' = [ftable EXCEPT ![Head(l.f)].off = @ + Len(out)]
             /\ UNCHANGED pipes
     /\ loc' = [loc EXCEPT ![p] = Ret(l, <<>>, Len(out))]
     /\ UNCHANGED <<disk, proc, tx, lost, panic>>

\* filestat; the result stands for the size in struct stat
Fstat(p) ==
  LET s == ftable[Head(loc[p].f)].ip IN
  /\ At(p, "fstat")
  /\ Do(p, Loaded(s), disk, Ret(loc[p], <<>>, Len(disk[icache[s].inum].data)))

\* filewrite: a device takes the bytes at once, an inode a chunk of at most
\* MaxWrite per transaction
Write(p) ==
  LET l == loc[p]
      f == ftable[Head(l.f)]
      n == Len(l.c.bytes)
  IN /\ At(p, "write") /\ f.type # "pipe"
     /\ IF f.type = "inode" /\ l.done < n
        THEN /\ tx' = BeginOp(p)
             /\ loc' = [loc EXCEPT ![p].pc = "write_chunk"]
        ELSE /\ loc' = [loc EXCEPT ![p] = Ret(l, <<>>, n)]
             /\ UNCHANGED tx
     /\ UNCHANGED <<disk, icache, ftable, pipes, proc, lost, panic, failed>>

\* A pipe that is full and has a reader makes a writer sleep.
PipeFull(q) == Len(pipes[q].data) = PIPESIZE /\ pipes[q].readopen

\* pipewrite, up to where it sleeps or returns: a pipe takes what it has room
\* for, and only a writer that finds it full notices that there is no reader
PipeWrite(p) ==
  LET l == loc[p]
      q == ftable[Head(l.f)].pipe
      n == Len(l.c.bytes)
      done == Min({n, l.done + PIPESIZE - Len(pipes[q].data)})
  IN /\ At(p, "write") /\ ftable[Head(l.f)].type = "pipe"
     /\ l.done < n => ~PipeFull(q)
     /\ pipes' = [pipes EXCEPT ![q].data = @ \o SubSeq(l.c.bytes, l.done + 1, done)]
     /\ loc' = [loc EXCEPT ![p] =
          IF done < n /\ pipes[q].readopen THEN [l EXCEPT !.done = done]
          ELSE Ret(l, <<>>, IF done < n THEN -1 ELSE n)]
     /\ UNCHANGED <<disk, icache, ftable, proc, tx, lost, panic, failed>>

\* One turn of filewrite's loop, under the inode's lock.
WriteChunk(p) ==
  LET l == loc[p]
      f == ftable[Head(l.f)]
      i == icache[f.ip].inum
      d == disk[i].data
      new == SubSeq(l.c.bytes, l.done + 1, Min({l.done + MaxWrite, Len(l.c.bytes)}))
  IN /\ At(p, "write_chunk")
     /\ icache' = Loaded(f.ip)
     /\ tx' = tx \ {p}
     /\ IF f.off > Len(d)
        THEN loc' = [loc EXCEPT ![p] = Ret(l, <<>>, -1)] /\ UNCHANGED <<disk, ftable>>
        ELSE /\ disk' = [disk EXCEPT ![i].data =
                            SubSeq(d, 1, f.off) \o new \o SubSeq(d, f.off + Len(new) + 1, Len(d))]
             /\ ftable' = [ftable EXCEPT ![Head(l.f)].off = @ + Len(new)]
             /\ loc' = [loc EXCEPT ![p].pc = "write", ![p].done = @ + Len(new)]
     /\ UNCHANGED <<pipes, proc, lost, panic, failed>>

-----------------------------------------------------------------------------
(* Processes *)

\* A process in user space with a call to make.
Calls(p, ops) ==
  /\ panic = None
  /\ proc[p].state = "running" /\ loc[p].pc = "user"
  /\ proc[p].prog # <<>> /\ Head(proc[p].prog).op \in ops

Start(p) == [NoCall EXCEPT !.c = Head(proc[p].prog)]

\* The calls that begin with begin_op and a walk.
PathCall(p) ==
  LET c == Head(proc[p].prog)
      creates == c.op \in {"mkdir", "mknod"} \/ (c.op = "open" /\ "CREATE" \in c.mode)
      k == IF creates THEN "create" ELSE c.op
      w == NamexFrom(p, icache, Start(p), c.path, creates \/ c.op = "unlink", k)
  IN /\ Calls(p, {"open", "mkdir", "mknod", "unlink", "chdir", "link", "exec"})
     /\ IF c.path.abs /\ IgetFails(icache, ROOTINO) THEN Panic("iget: no inodes")
        ELSE /\ icache' = w.ic
             /\ loc' = [loc EXCEPT ![p] = w.l]
             /\ tx' = BeginOp(p)
             /\ UNCHANGED <<disk, ftable, pipes, proc, lost, panic, failed>>

LastFd == -2

\* sys_close, sys_read, sys_write, sys_fstat, sys_dup, from argfd on
FdCall(p) ==
  LET c == Head(proc[p].prog)
      fd == IF c.fd = LastFd THEN proc[p].last ELSE c.fd
      f == IF fd \in Fd THEN proc[p].ofile[fd] ELSE 0
      bad == \/ f = 0
             \/ (c.op = "read" /\ ~ftable[f].readable)
             \/ (c.op = "write" /\ ~ftable[f].writable)
             \/ (c.op = "fstat" /\ ftable[f].type = "pipe")
             \/ (c.op = "dup" /\ FreeFds(p) = {})
      go == [Start(p) EXCEPT !.f = <<f>>, !.k = "ret",
                             !.pc = IF c.op = "close" THEN "fileclose" ELSE c.op]
  IN /\ Calls(p, {"close", "read", "write", "fstat", "dup"})
     /\ loc' = [loc EXCEPT ![p] = IF bad THEN Ret(Start(p), <<>>, -1)
                                  ELSE IF c.op = "dup" THEN Ret(go, <<>>, Min(FreeFds(p))) ELSE go]
     /\ proc' = IF bad THEN proc
                ELSE CASE c.op = "close" -> [proc EXCEPT ![p].ofile[fd] = 0]
                       [] c.op = "dup" -> [proc EXCEPT ![p].ofile[Min(FreeFds(p))] = f]
                       [] OTHER -> proc
     /\ ftable' = IF c.op = "dup" /\ ~bad THEN [ftable EXCEPT ![f].ref = @ + 1] ELSE ftable
     /\ UNCHANGED <<disk, icache, pipes, tx, lost, panic, failed>>

\* sys_pipe fails: the files it has are closed again.
PipeBad(l) == [l EXCEPT !.pc = "fileclose", !.k = "ret", !.ret = -1]

\* sys_pipe: pipealloc takes a file,
PipeCall(p) ==
  LET f == Min(FreeFiles) IN
  /\ Calls(p, {"pipe"})
  /\ IF FreeFiles = {}
     THEN loc' = [loc EXCEPT ![p] = Ret(Start(p), <<>>, -1)] /\ UNCHANGED ftable
     ELSE /\ ftable' = Filealloc(f)
          /\ loc' = [loc EXCEPT ![p] = [Start(p) EXCEPT !.pc = "pipealloc", !.f = <<f>>]]
  /\ UNCHANGED <<disk, icache, pipes, proc, tx, lost, panic, failed>>

\* another one and a page, or undoes what it did,
Pipealloc(p) ==
  LET l == loc[p]
      f0 == Head(l.f)
      f1 == Min(FreeFiles)
      unused == {q \in Pipes : pipes[q] = NoPipe}
      q == CHOOSE q \in unused : TRUE
      end(f, w) == [ftable[f] EXCEPT !.type = "pipe", !.ref = 1, !.readable = ~w,
                                     !.writable = w, !.pipe = q]
  IN /\ At(p, "pipealloc")
     /\ IF FreeFiles = {}
        THEN loc' = [loc EXCEPT ![p] = PipeBad(l)] /\ UNCHANGED fileVars
        ELSE IF unused = {}
        THEN /\ loc' = [loc EXCEPT ![p] = PipeBad([l EXCEPT !.f = <<f0, f1>>])]
             /\ ftable' = Filealloc(f1)
             /\ UNCHANGED pipes
        ELSE /\ ftable' = [ftable EXCEPT ![f0] = end(f0, FALSE), ![f1] = end(f1, TRUE)]
             /\ pipes' = [pipes EXCEPT ![q] = [readopen |-> TRUE, writeopen |-> TRUE, data |-> <<>>]]
             /\ loc' = [loc EXCEPT ![p].pc = "pipe_fds", ![p].f = <<f0, f1>>]
     /\ UNCHANGED <<disk, icache, proc, tx, lost, panic, failed>>

\* and sys_pipe two descriptors, or both files are closed again
PipeFds(p) ==
  LET l == loc[p]
      fd0 == Min(FreeFds(p))
      fd1 == Min(FreeFds(p) \ {fd0})
  IN /\ At(p, "pipe_fds")
     /\ IF Cardinality(FreeFds(p)) < 2
        THEN loc' = [loc EXCEPT ![p] = PipeBad(l)] /\ UNCHANGED proc
        ELSE /\ proc' = [proc EXCEPT ![p].ofile[fd0] = l.f[1], ![p].ofile[fd1] = l.f[2]]
             /\ loc' = [loc EXCEPT ![p] = Ret(l, <<>>, 0)]
     /\ UNCHANGED <<disk, icache, ftable, pipes, tx, lost, panic, failed>>

\* fork's filedup of every open descriptor
ForkFiledup(o) ==
  [f \in File |-> [ftable[f] EXCEPT !.ref = @ + Cardinality({fd \in Fd : o[fd] = f})]]

\* fork: the child runs the program the call names
Fork(p) ==
  LET unused == {q \in Proc : proc[q].state = "unused"}
      q == CHOOSE q \in unused : TRUE
  IN /\ Calls(p, {"fork"})
     /\ IF unused = {}
        THEN Do(p, icache, disk, Ret(Start(p), <<>>, -1))
        ELSE /\ proc' = [proc EXCEPT ![q] = [proc[p] EXCEPT !.parent = p,
                                                           !.prog = Head(proc[p].prog).child]]
             /\ ftable' = ForkFiledup(proc[p].ofile)
             /\ icache' = Idup(icache, proc[p].cwd)
             /\ loc' = [loc EXCEPT ![p] = Ret(Start(p), <<>>, 1)]
             /\ UNCHANGED <<disk, pipes, tx, lost, panic, failed>>

\* exit: the open files are closed in order, each by a fileclose
Exit(p) ==
  LET open == Fd \ FreeFds(p) IN
  /\ Calls(p, {"exit"}) \/ At(p, "exit")
  /\ IF open # {}
     THEN /\ proc' = [proc EXCEPT ![p].ofile[Min(open)] = 0]
          /\ loc' = [loc EXCEPT ![p] = [Start(p) EXCEPT !.pc = "fileclose", !.k = "exit",
                                                        !.f = <<proc[p].ofile[Min(open)]>>]]
          /\ UNCHANGED tx
     ELSE /\ tx' = BeginOp(p)
          /\ loc' = [loc EXCEPT ![p] = PutThen(Start(p), <<proc[p].cwd>>, "zombie")]
          /\ UNCHANGED proc
  /\ UNCHANGED <<disk, icache, ftable, pipes, lost, panic, failed>>

\* ... then cwd is put and the children go to init, which waits for them
Zombie(p) ==
  /\ At(p, "zombie")
  /\ tx' = tx \ {p}
  /\ loc' = [loc EXCEPT ![p] = NoCall]
  /\ proc' = [q \in Proc |->
       IF q = p THEN IF proc[p].parent = None THEN Unused
                     ELSE [Unused EXCEPT !.state = "zombie", !.parent = proc[p].parent]
       ELSE IF proc[q].parent # p THEN proc[q]
       ELSE IF proc[q].state = "zombie" THEN Unused ELSE [proc[q] EXCEPT !.parent = None]]
  /\ UNCHANGED <<disk, icache, ftable, pipes, lost, panic, failed>>

Children(p) == {q \in Proc : proc[q].state # "unused" /\ proc[q].parent = p}
Zombies(p) == {q \in Children(p) : proc[q].state = "zombie"}

\* wait: reaps a zombie child, fails without children, otherwise sleeps
Wait(p) ==
  /\ Calls(p, {"wait"})
  /\ Children(p) = {} \/ Zombies(p) # {}
  /\ loc' = [loc EXCEPT ![p] = Ret(Start(p), <<>>, IF Children(p) = {} THEN -1 ELSE 0)]
  /\ proc' = IF Children(p) = {} THEN proc
             ELSE [proc EXCEPT ![CHOOSE q \in Zombies(p) : TRUE] = Unused]
  /\ UNCHANGED <<disk, icache, ftable, pipes, tx, lost, panic, failed>>

\* end_op, and back to user space with the result
Return(p) ==
  LET l == loc[p] IN
  /\ At(p, "ret")
  /\ tx' = tx \ {p}
  /\ loc' = [loc EXCEPT ![p] = NoCall]
  /\ proc' = [proc EXCEPT ![p].prog = Tail(@), ![p].last = l.ret,
                          ![p].cwd = IF l.c.op = "chdir" /\ l.ret = 0 THEN l.ip ELSE @]
  /\ failed' = IF l.ret \in l.c.want THEN failed ELSE failed \cup {l.c}
  /\ UNCHANGED <<disk, icache, ftable, pipes, lost, panic>>

-----------------------------------------------------------------------------

\* The processes of programs start in the root directory with no open file.
InitWith(d, programs) ==
  /\ disk = d
  /\ icache = [s \in Slot |-> IF s = 1
        THEN [EmptySlot EXCEPT !.inum = ROOTINO, !.ref = Cardinality({p \in Proc : programs[p] # <<>>})]
        ELSE EmptySlot]
  /\ ftable = [f \in File |-> NoFile]
  /\ pipes = [q \in Pipes |-> NoPipe]
  /\ proc = [p \in Proc |-> IF programs[p] = <<>> THEN Unused
        ELSE [Unused EXCEPT !.state = "running", !.cwd = 1, !.prog = programs[p]]]
  /\ loc = [p \in Proc |-> NoCall]
  /\ tx = {} /\ lost = {} /\ panic = None /\ failed = {}

Step(p) ==
  \/ PathCall(p) \/ FdCall(p) \/ PipeCall(p) \/ Pipealloc(p) \/ PipeFds(p)
  \/ Fork(p) \/ Exit(p) \/ Zombie(p) \/ Wait(p) \/ Return(p)
  \/ Walk(p) \/ Iput(p) \/ IputFree(p) \/ IputDec(p) \/ Iunlockput(p) \/ IlockPanic(p)
  \/ Create(p) \/ CreateFound(p) \/ Ialloc(p) \/ IallocIget(p) \/ CreateInit(p)
  \/ Open(p) \/ OpenFile(p) \/ Link(p) \/ LinkDp(p) \/ LinkTaken(p) \/ LinkBad(p)
  \/ Unlink(p) \/ UnlinkIp(p) \/ UnlinkDec(p) \/ Chdir(p) \/ Exec(p)
  \/ Fileclose(p) \/ FilecloseEnd(p) \/ Read(p) \/ Fstat(p) \/ Write(p) \/ WriteChunk(p)
  \/ PipeWrite(p)

Next == \E p \in Proc : Step(p)

-----------------------------------------------------------------------------
(* Properties *)

TypeOK ==
  /\ \A i \in Inum : disk[i].type \in Types /\ disk[i].nlink \in Nat
  /\ \A s \in Slot : icache[s].inum \in 0..(NINODES - 1) /\ icache[s].ref \in Nat
                      /\ icache[s].lock \in Proc \cup {None} /\ icache[s].type \in Types
  /\ \A f \in File : ftable[f].type \in {"none", "pipe", "inode", "device"}
                      /\ ftable[f].ref \in Nat /\ ftable[f].ip \in 0..NINODE
  /\ \A p \in Proc : proc[p].cwd \in 0..NINODE /\ proc[p].ofile \in [Fd -> 0..NFILE]
  /\ tx \subseteq Proc /\ lost \subseteq Inum

Quiet == panic = None /\ \A p \in Proc : loc[p].pc = "user"

Running == {p \in Proc : proc[p].state = "running"}

\* When no call is in progress, the reference counts are exact: an entry of
\* the inode cache counts the open files and current directories that name it,
\* a file counts descriptors, a pipe end is open iff it has a file, and no
\* inode is locked.  No error path or race loses or doubles a reference
\* (iget, idup, iput in fs.c; filealloc, filedup, fileclose in file.c).
RefsExact ==
  Quiet =>
    /\ \A s \in Slot :
         /\ icache[s].lock = None
         /\ icache[s].ref =
              Cardinality({f \in File : ftable[f].type \in {"inode", "device"} /\ ftable[f].ip = s})
              + Cardinality({p \in Running : proc[p].cwd = s})
    /\ \A f \in File : ftable[f].ref = Cardinality({d \in Running \X Fd : proc[d[1]].ofile[d[2]] = f})
    /\ \A q \in Pipes, w \in BOOLEAN :
         (IF w THEN pipes[q].writeopen ELSE pipes[q].readopen) <=>
         \E f \in File : ftable[f].type = "pipe" /\ ftable[f].pipe = q /\ ftable[f].writable = w

\* The references in memory are well formed and exact.
RefsSound == TypeOK /\ RefsExact

Dirs == {i \in Inum : disk[i].type = "dir"}

\* The names that lead to an inode, other than "." and "..".
NamesOf(i) == {e \in Dirs \X (3..20) : e[2] \in DOMAIN disk[e[1]].data /\ disk[e[1]].data[e[2]].inum = i}

Linked(i) == i = ROOTINO \/ NamesOf(i) # {}

\* When no call is in progress, the link count on the disk is the number of
\* names, plus one per directory whose ".." leads here (the root's own
\* included).  create, link and unlink change counts and entries in different
\* steps; none of their interleavings loses a count.
LinksExact ==
  Quiet => \A i \in Inum \ lost : disk[i].type # "free" =>
    disk[i].nlink = Cardinality(NamesOf(i))
                    + Cardinality({d \in Dirs : Linked(d) /\ disk[d].data[2].inum = i})

\* What names lead to from the inodes of S, in n steps.
Reach(S) ==
  LET R[n \in 0..NINODES] ==
        IF n = 0 THEN S
        ELSE LET r == R[n - 1] IN r \cup {i \in Inum : \E e \in NamesOf(i) : e[1] \in r}
  IN R[NINODES]

\* When no call is in progress, an allocated inode can be reached by a name or
\* is in use: unlink, close, chdir and exit leave nothing allocated behind.
\* The exceptions are collected in lost.  The code lets a process create names
\* in a directory that has been removed, and frees the directory without them;
\* and iput drops a reference after it has freed the inode without looking
\* again, though the inode may be in use and unlinked once more by then.
Reclaimed ==
  Quiet => {i \in Inum : disk[i].type # "free"}
             \subseteq Reach({ROOTINO} \cup lost \cup {icache[s].inum : s \in {t \in Slot : icache[t].ref > 0}})

\* The inodes on the disk: exact link counts, and nothing allocated that
\* neither a name nor a reference leads to (create, sys_link, sys_unlink, iput).
InodesSound == LinksExact /\ Reclaimed

\* "If that was the last reference and the inode has no links to it, free the
\* inode (and its content) on disk." (fs.c:328-329)
LastPutFrees ==
  Quiet => \A i \in Inum : disk[i].type # "free" /\ disk[i].nlink = 0 => Cached(icache, i) # {}

\* In every state a name leads to an allocated inode, and so does the ".." of
\* a directory that has a name: what a lookup returns exists.
NamesLive ==
  \A d \in Dirs : \A j \in DOMAIN disk[d].data :
    (disk[d].data[j].inum # 0 /\ (j = 2 => Linked(d))) => disk[disk[d].data[j].inum].type # "free"

\* A name occurs once in a directory, whoever creates and links it at the
\* same time.
NamesUnique ==
  \A d \in Dirs : \A j, k \in DOMAIN disk[d].data :
    (disk[d].data[j].inum # 0 /\ disk[d].data[k].inum # 0 /\ disk[d].data[j].name = disk[d].data[k].name)
      => j = k

\* The names: each leads to an inode that exists and occurs once in its
\* directory (dirlink, dirlookup, sys_unlink).
NamesSound == NamesLive /\ NamesUnique

\* The directories that were removed while in use and whose parent is gone.
Dangling == {d \in Dirs : Len(disk[d].data) > 1 /\ disk[disk[d].data[2].inum].type = "free"}

\* The kernel panics only in the case the code does not handle: a process
\* looks up ".." in a removed directory whose parent has been freed.  In
\* particular iput never sleeps under icache.lock (fs.c:340), unlink never
\* meets a link count of 0, and create never finds its name taken.
Calm == panic # None => panic = "ilock: no type" /\ Dangling # {}

Blocked(p) ==
  \/ ~LockFree(p)
  \/ Calls(p, {"wait"}) /\ Children(p) # {} /\ Zombies(p) = {}
  \/ /\ loc[p].pc \in {"read", "write"} /\ ftable[Head(loc[p].f)].type = "pipe"
     /\ LET q == ftable[Head(loc[p].f)].pipe
        IN IF loc[p].pc = "read" THEN pipes[q].data = <<>> /\ pipes[q].writeopen
           ELSE loc[p].done < Len(loc[p].c.bytes) /\ PipeFull(q)

\* The processes never all wait for each other's inode locks, children and
\* pipe ends.
NoDeadlock ==
  LET busy == {p \in Running : loc[p].pc # "user" \/ proc[p].prog # <<>>}
  IN panic = None /\ busy # {} => \E p \in busy : ~Blocked(p)

\* Only a process inside a transaction changes the disk: every iput that may
\* free an inode is between begin_op and end_op.
WritesInTransaction == [][disk' # disk => \E p \in tx : loc'[p] # loc[p]]_vars

\* Every call of every program returns what the program expects.
TestsPass == failed = {}
==============================================================================
