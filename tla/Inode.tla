-------------------------------- MODULE Inode --------------------------------
(***************************************************************************)
(* The inode layer of kernel/fs.c: the inodes on the disk, the cache of    *)
(* inodes in memory, and directories.  The operators take the cache or the *)
(* disk and return the new one; module SysFile makes steps of them.        *)
(*                                                                         *)
(* A file's content is a sequence (module FileData has the blocks below    *)
(* it), a directory's is a sequence of entries, inum 0 marking an unused   *)
(* one.  Slots of the cache are numbered from 1; slot 0 is the null        *)
(* pointer.                                                                *)
(***************************************************************************)
EXTENDS Integers, Sequences, FiniteSets, FiniteSetsExt

CONSTANTS
  Proc, None,
  NINODES,    \* sb.ninodes: inodes 1 .. NINODES - 1 can be allocated
  NINODE      \* param.h: entries of the inode cache

ASSUME InodeAssumption ==
  /\ None \notin Proc
  /\ NINODES \in Nat /\ NINODES > 1 /\ NINODE \in Nat \ {0}

Inum == 1..(NINODES - 1)
Slot == 1..NINODE
ROOTINO == 1

VARIABLES
  disk,    \* struct dinode: type, nlink and the content its addrs lead to
  icache   \* struct inode: inum, ref, valid, lock (its holder), type, nlink

Types == {"free", "dir", "file", "dev", "baddev"}

\* An inode that ialloc may take.
FreeInode == [type |-> "free", nlink |-> 0, data |-> <<>>]

\* iinit
EmptySlot ==
  [inum |-> 0, ref |-> 0, valid |-> FALSE, lock |-> None, type |-> "free", nlink |-> 0]

-----------------------------------------------------------------------------
(* The cache. *)

\* mutant: an entry is found only once it has been read from the disk
CachedValid(ic, i) == {s \in Slot : ic[s].ref > 0 /\ ic[s].inum = i /\ ic[s].valid}

Cached(ic, i) == {s \in Slot : ic[s].ref > 0 /\ ic[s].inum = i}

Empty(ic) == {s \in Slot : ic[s].ref = 0}

\* "iget: no inodes"
IgetFails(ic, i) == Cached(ic, i) = {} /\ Empty(ic) = {}

\* The entry iget returns.
IgetSlot(ic, i) == IF Cached(ic, i) # {} THEN Min(Cached(ic, i)) ELSE Min(Empty(ic))

\* iget
Iget(ic, i) ==
  IF Cached(ic, i) # {}
  THEN [ic EXCEPT ![IgetSlot(ic, i)].ref = @ + 1]
  ELSE [ic EXCEPT ![IgetSlot(ic, i)] = [@ EXCEPT !.inum = i, !.ref = 1, !.valid = FALSE]]

\* mutant: idup returns the entry without counting the reference
IdupNot(ic, s) == ic

Idup(ic, s) == [ic EXCEPT ![s].ref = @ + 1]

\* What ilock does once it has the sleep lock: fill an entry that is not valid.
Loaded(s) ==
  IF icache[s].valid THEN icache
  ELSE LET d == disk[icache[s].inum] IN
       [icache EXCEPT ![s] = [@ EXCEPT !.valid = TRUE, !.type = d.type, !.nlink = d.nlink]]

\* The panics of ilock, "ilock" and "ilock: no type".
IlockPanics(s) == icache[s].ref < 1 \/ Loaded(s)[s].type = "free"

Lock(ic, s, p) == [ic EXCEPT ![s].lock = p]

\* iunlock; its panic is a null lock holder or an unreferenced entry
Unlock(ic, s) == [ic EXCEPT ![s].lock = None]

\* The link count of an entry changes, and iupdate writes it through.
SetNlink(ic, s, n) == [ic EXCEPT ![s].nlink = n]

Iupdate(d, ic, s) == [d EXCEPT ![ic[s].inum].nlink = ic[s].nlink, ![ic[s].inum].type = ic[s].type]

\* mutant: an inode is freed with its last link even if it is in use
FreesInodeInUse(c) == c.valid /\ c.nlink = 0

\* The test of iput: the last reference to an inode without links.
FreesInode(c) == c.ref = 1 /\ c.valid /\ c.nlink = 0

\* iput leaves an entry whose inode it has freed not valid and unlocked.
Cleared(c) == [c EXCEPT !.type = "free", !.valid = FALSE, !.lock = None]

-----------------------------------------------------------------------------
(* Directories. *)

Entries(d, i, n) == {j \in DOMAIN d[i].data : d[i].data[j].inum # 0 /\ d[i].data[j].name = n}

\* dirlookup: the inode number, 0 if there is no entry
Lookup(d, i, n) ==
  IF Entries(d, i, n) = {} THEN 0 ELSE d[i].data[Min(Entries(d, i, n))].inum

\* dirlink, after its test that the name is not present: an unused entry or a new one
Dirlink(d, i, n, t) ==
  LET unused == {j \in DOMAIN d[i].data : d[i].data[j].inum = 0}
      e == [name |-> n, inum |-> t]
  IN [d EXCEPT ![i].data = IF unused = {} THEN Append(@, e) ELSE [@ EXCEPT ![Min(unused)] = e]]

\* sys_unlink's memset and writei of the entry
Erase(d, i, n) ==
  [d EXCEPT ![i].data[Min(Entries(d, i, n))] = [name |-> "", inum |-> 0]]

Isdirempty(d, i) == \A j \in 3..Len(d[i].data) : d[i].data[j].inum = 0

\* The new directory's "." and ".."
Dots(d, i, up) == Dirlink(Dirlink(d, i, ".", i), i, "..", up)

\* Names of DIRSIZ characters and more; skipelem keeps the first DIRSIZ.
Name14 == "12345678901234"
Name15 == "123456789012345"
Elem(n) == IF n = Name15 THEN Name14 ELSE n
==============================================================================
