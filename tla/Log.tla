-------------------------------- MODULE Log ---------------------------------
(***************************************************************************)
(* The write-ahead log of kernel/log.c: begin_op, log_write, end_op,       *)
(* commit and recover_from_log, run by concurrent file system calls, with  *)
(* a power failure possible between any two disk writes.                   *)
(*                                                                         *)
(* The buffer cache (bio.c) appears as what the log relies on: which home  *)
(* blocks have a buffer, its contents and its reference count.  A block    *)
(* write is atomic.  Critical sections of log.lock and of a buffer's       *)
(* sleep-lock are single steps, except where the code reads log state      *)
(* without the lock (the checks at the top of log_write).                  *)
(***************************************************************************)
EXTENDS Naturals, Sequences, FiniteSets

CONSTANTS
  Proc,         \* processes that make file system calls
  Boot,         \* the first process, running fsinit() -> initlog()
  Block, Data,  \* home block numbers; contents of a block
  Empty,        \* contents of a block mkfs has not filled
  MAXOPBLOCKS,  \* param.h: max # of blocks any FS op writes
  LOGSIZE,      \* param.h: max data blocks in on-disk log
  NLOG,         \* sb.nlog: blocks mkfs gives the log, header included
  OpBlocks,     \* how many blocks a call really writes
  RefMod,       \* refcnt is a uint: arithmetic is modulo RefMod
  Recyclable,   \* blocks whose idle buffer bget may give to another block
  MaxCrashes    \* bound: power failures

ASSUME LogAssumption ==
  /\ IsFiniteSet(Proc) /\ Boot \notin Proc
  /\ Empty \in Data
  /\ MAXOPBLOCKS \in Nat \ {0} /\ LOGSIZE \in Nat /\ NLOG \in Nat \ {0}
  /\ OpBlocks \in 0..MAXOPBLOCKS /\ RefMod \in Nat \ (0..3)
  /\ Recyclable \subseteq Block
  /\ MaxCrashes \in Nat

VARIABLES
  home,         \* disk: contents of each home block
  logblk,       \* disk: contents of log block i (block log.start + i)
  head,         \* disk: the header block
  lh,           \* log.lh
  outstanding,  \* log.outstanding
  committing,   \* log.committing
  resident,     \* home blocks that have a buffer in the cache
  cache,        \* contents of the buffer of a resident block
  refcnt,       \* its reference count
  held,         \* the block whose locked buffer a process holds (a set)
  wrote,        \* blocks the current call of a process has logged
  pc, tail,     \* control state; loop index of write_log, install_trans
  crashes,      \* counter for the bound
  replayed      \* history: the blocks that the recovery of this boot installs

disk   == <<home, logblk, head>>
bcache == <<resident, cache, refcnt, held>>
bounds == <<crashes, replayed>>
vars   == <<disk, lh, outstanding, committing, bcache, wrote, pc, tail, bounds>>

Actor == Proc \cup {Boot}

Logged(s) == {s[i] : i \in 1..Len(s)}

\* What bread(b) returns: the buffer if there is one, else the disk's copy.
Contents(b) == IF b \in resident THEN cache[b] ELSE home[b]

Fill(b) ==
  /\ resident' = resident \cup {b}
  /\ cache' = [cache EXCEPT ![b] = Contents(b)]

\* mutant: the count is not a 32-bit unsigned
RefDownNoWrap(b) == [refcnt EXCEPT ![b] = @ - 1]

\* uint arithmetic on refcnt
RefUp(b)   == [refcnt EXCEPT ![b] = (@ + 1) % RefMod]
RefDown(b) == [refcnt EXCEPT ![b] = (@ + RefMod - 1) % RefMod]

Goto(p, l) == pc' = [pc EXCEPT ![p] = l]

\* wakeup(&log), by process p going to l
GotoAndWake(p, l) ==
  pc' = [q \in Actor |->
           IF q = p THEN l ELSE IF pc[q] = "asleep" THEN "begin" ELSE pc[q]]

-----------------------------------------------------------------------------
PowerOn ==
  /\ lh = <<>> /\ outstanding = 0 /\ committing = 0
  /\ resident = {} /\ refcnt = [b \in Block |-> 0]
  /\ cache = [b \in Block |-> Empty]
  /\ held = [p \in Proc |-> {}] /\ wrote = [p \in Proc |-> {}]
  /\ pc = [p \in Actor |-> IF p = Boot THEN "read_head" ELSE "idle"]
  /\ tail = [p \in Actor |-> 0]

Init ==
  /\ home = [b \in Block |-> Empty]
  /\ logblk = [i \in 1..LOGSIZE |-> Empty]
  /\ head = <<>>
  /\ crashes = 0 /\ replayed = {}
  /\ PowerOn

\* A system call enters begin_op(); only once fsinit() has returned.
StartOp(p) ==
  /\ pc[Boot] = "up" /\ pc[p] = "idle"
  /\ Goto(p, "begin")
  /\ UNCHANGED <<disk, lh, outstanding, committing, bcache, wrote, tail, bounds>>

\* mutant: forgets the space of the call that is about to start
NoSpaceOffByOne == Len(lh) + outstanding * MAXOPBLOCKS > LOGSIZE

NoSpace == Len(lh) + (outstanding + 1) * MAXOPBLOCKS > LOGSIZE

\* mutant: does not wait for a commit in progress
MustWaitNoCommitting == NoSpace

\* The two conditions under which begin_op() sleeps.
MustWait == committing = 1 \/ NoSpace

BeginOp(p) ==
  /\ pc[p] = "begin"
  /\ \/ /\ MustWait
        /\ Goto(p, "asleep")
        /\ UNCHANGED outstanding
     \/ /\ ~MustWait
        /\ outstanding' = outstanding + 1
        /\ Goto(p, "inop")
  /\ UNCHANGED <<disk, lh, committing, bcache, wrote, tail, bounds>>

\* bread() of a block the call is going to change.
OpBread(p, b) ==
  /\ pc[p] = "inop"
  /\ \A q \in Proc : b \notin held[q]
  /\ b \in wrote[p] \/ Cardinality(wrote[p]) < OpBlocks
  /\ Fill(b)
  /\ refcnt' = RefUp(b)
  /\ held' = [held EXCEPT ![p] = {b}]
  /\ Goto(p, "modify")
  /\ UNCHANGED <<disk, lh, outstanding, committing, wrote, tail, bounds>>

\* The call changes b->data; log_write() tests log state without the lock.
LogWriteCheck(p, b, d) ==
  /\ pc[p] = "modify" /\ b \in held[p]
  /\ cache' = [cache EXCEPT ![b] = d]
  /\ Goto(p, IF \/ Len(lh) >= LOGSIZE \/ Len(lh) + 1 >= NLOG
                \/ outstanding < 1
             THEN "panic" ELSE "log_write")
  /\ UNCHANGED <<disk, lh, outstanding, committing, resident, refcnt, held,
                 wrote, tail, bounds>>

\* mutant: logs the block but does not pin its buffer
RecordNoPin(b) ==
  /\ lh' = IF b \in Logged(lh) THEN lh ELSE Append(lh, b)
  /\ UNCHANGED refcnt

\* mutant: no absorption
RecordNoAbsorb(b) ==
  /\ lh' = Append(lh, b)
  /\ refcnt' = RefUp(b)

\* The locked part of log_write(): absorb, or append and bpin.
Record(b) ==
  \/ b \in Logged(lh) /\ UNCHANGED <<lh, refcnt>>
  \/ b \notin Logged(lh) /\ lh' = Append(lh, b) /\ refcnt' = RefUp(b)

LogWrite(p, b) ==
  /\ pc[p] = "log_write" /\ b \in held[p]
  /\ Record(b)
  /\ wrote' = [wrote EXCEPT ![p] = @ \cup {b}]
  /\ Goto(p, "brelse")
  /\ UNCHANGED <<disk, outstanding, committing, resident, cache, held, tail,
                 bounds>>

OpBrelse(p, b) ==
  /\ pc[p] = "brelse" /\ b \in held[p]
  /\ refcnt' = RefDown(b)
  /\ held' = [held EXCEPT ![p] = {}]
  /\ Goto(p, "inop")
  /\ UNCHANGED <<disk, lh, outstanding, committing, resident, cache, wrote,
                 tail, bounds>>

\* mutant: tests outstanding before decrementing it
LastOutUndecremented == outstanding = 0

\* log.outstanding is 0 once this call is taken off
LastOut == outstanding = 1

\* mutant: leaves begin_op() sleepers asleep when it only frees log space
ReturnNoWake(p) == Goto(p, "idle")

\* end_op() is done: wakeup(&log) under log.lock.
Return(p) == GotoAndWake(p, "idle")

\* end_op() up to its release of log.lock, and the test at the top of commit().
EndOp(p) ==
  /\ pc[p] = "inop"
  /\ outstanding' = outstanding - 1
  /\ committing' = IF LastOut THEN 1 ELSE committing
  /\ IF committing = 1 THEN Goto(p, "panic")
     ELSE IF LastOut THEN Goto(p, IF lh = <<>> THEN "finish" ELSE "write_log")
     ELSE Return(p)
  /\ tail' = [tail EXCEPT ![p] = 0] /\ wrote' = [wrote EXCEPT ![p] = {}]
  /\ UNCHANGED <<disk, lh, bcache, bounds>>

-----------------------------------------------------------------------------
(* commit(): one step per block written to the disk. *)

WriteLog(p) ==
  /\ pc[p] = "write_log"
  /\ LET b == lh[tail[p] + 1] IN
       /\ logblk' = [logblk EXCEPT ![tail[p] + 1] = Contents(b)]
       /\ Fill(b)
  /\ LET done == tail[p] + 1 = Len(lh) IN
       /\ tail' = [tail EXCEPT ![p] = IF done THEN 0 ELSE @ + 1]
       /\ Goto(p, IF done THEN "write_head" ELSE "write_log")
  /\ UNCHANGED <<home, head, lh, outstanding, committing, refcnt, held, wrote,
                 bounds>>

WriteHead(p) ==
  /\ pc[p] = "write_head"
  /\ head' = lh
  /\ Goto(p, "install")
  /\ UNCHANGED <<home, logblk, lh, outstanding, committing, bcache, wrote,
                 tail, bounds>>

\* One iteration of install_trans(), in commit() or in recovery.  bread,
\* bunpin and brelse leave dbuf's refcnt one lower than they found it.
InstallTrans(p) ==
  /\ pc[p] = "install" /\ tail[p] < Len(lh)
  /\ LET b == lh[tail[p] + 1]
         d == logblk[tail[p] + 1] IN
       /\ home' = [home EXCEPT ![b] = d]
       /\ cache' = [cache EXCEPT ![b] = d]
       /\ resident' = resident \cup {b}
       /\ refcnt' = RefDown(b)
  /\ tail' = [tail EXCEPT ![p] = @ + 1]
  /\ UNCHANGED <<logblk, head, lh, outstanding, committing, held, wrote, pc,
                 bounds>>

\* mutant: a recovery erases the transaction before its last block is installed
InstallDoneEarly(p) ==
  pc[p] = "install" /\ (IF p = Boot THEN tail[p] + 1 ELSE tail[p]) >= Len(lh)

InstallDone(p) == pc[p] = "install" /\ tail[p] >= Len(lh)

\* log.lh.n = 0; write_head()
ClearHead(p) ==
  /\ InstallDone(p)
  /\ lh' = <<>>
  /\ head' = <<>>
  /\ tail' = [tail EXCEPT ![p] = 0]
  /\ Goto(p, IF p = Boot THEN "up" ELSE "finish")
  /\ UNCHANGED <<home, logblk, outstanding, committing, bcache, wrote, bounds>>

\* end_op() after commit()
Finish(p) ==
  /\ pc[p] = "finish"
  /\ committing' = 0
  /\ Return(p)
  /\ UNCHANGED <<disk, lh, outstanding, bcache, wrote, tail, bounds>>

-----------------------------------------------------------------------------
\* recover_from_log(): read_head, then InstallTrans and ClearHead by Boot.
ReadHead ==
  /\ pc[Boot] = "read_head"
  /\ lh' = head
  /\ replayed' = replayed \cup Logged(head)
  /\ Goto(Boot, "install")
  /\ UNCHANGED <<disk, outstanding, committing, bcache, wrote, tail, crashes>>

\* fileread() and the like: bread ... brelse outside any transaction.
ReadOnly(b) ==
  /\ pc[Boot] = "up" /\ b \notin resident
  /\ Fill(b)
  /\ UNCHANGED <<disk, lh, outstanding, committing, refcnt, held, wrote, pc,
                 tail, bounds>>

\* bget() for some other block takes the idle buffer of b (bio.c:75-87).  Its
\* test is refcnt = 0 alone, which a recovery's bunpin makes true of a buffer in
\* use: what bget does to that one is not modelled.
Recycle(b) ==
  /\ b \in resident \cap Recyclable
  /\ refcnt[b] = 0 /\ \A p \in Proc : b \notin held[p]
  /\ resident' = resident \ {b}
  /\ UNCHANGED <<disk, lh, outstanding, committing, cache, refcnt, held, wrote,
                 pc, tail, bounds>>

\* Power failure: memory is lost, the disk stays, the machine boots again.
Crash ==
  /\ crashes < MaxCrashes
  /\ crashes' = crashes + 1
  /\ lh' = <<>> /\ outstanding' = 0 /\ committing' = 0
  /\ resident' = {} /\ refcnt' = [b \in Block |-> 0]
  /\ cache' = [b \in Block |-> Empty]
  /\ held' = [p \in Proc |-> {}] /\ wrote' = [p \in Proc |-> {}]
  /\ pc' = [p \in Actor |-> IF p = Boot THEN "read_head" ELSE "idle"]
  /\ tail' = [p \in Actor |-> 0] /\ replayed' = {}
  /\ UNCHANGED disk

\* Steps of a process that is inside begin_op ... end_op.
Step(p) ==
  \/ BeginOp(p) \/ EndOp(p)
  \/ \E b \in Block : LogWrite(p, b) \/ OpBrelse(p, b)
  \/ \E b \in Block, d \in Data : LogWriteCheck(p, b, d)
  \/ WriteLog(p) \/ WriteHead(p) \/ Finish(p)

CommitStep(p) == InstallTrans(p) \/ ClearHead(p)

Next ==
  \/ \E p \in Proc : StartOp(p) \/ Step(p)
  \/ \E p \in Proc, b \in Block : OpBread(p, b)
  \/ \E p \in Actor : CommitStep(p)
  \/ ReadHead
  \/ \E b \in Block : ReadOnly(b) \/ Recycle(b)
  \/ Crash

Spec == Init /\ [][Next]_vars

(***************************************************************************)
(* Every step of a running call is taken by a process that holds a CPU     *)
(* often enough (the scheduler visits every RUNNABLE process), and a call  *)
(* calls log_write finitely often, so it reaches end_op(): strong fairness *)
(* for EndOp.  Nothing forces a call to start, a buffer to be recycled or  *)
(* the power to fail.                                                      *)
(***************************************************************************)
Fairness ==
  /\ \A p \in Proc : WF_vars(Step(p)) /\ SF_vars(EndOp(p))
  /\ \A p \in Actor : WF_vars(CommitStep(p))
  /\ WF_vars(ReadHead)

FairSpec == Spec /\ Fairness
-----------------------------------------------------------------------------
InOp == {"inop", "modify", "log_write", "brelse"}

InCommit == {"write_log", "write_head", "install", "finish"}

Active == {p \in Proc : pc[p] \in InOp}

TypeDisk ==
  /\ home \in [Block -> Data]
  /\ logblk \in [1..LOGSIZE -> Data]
  /\ head \in Seq(Block)

TypeLog ==
  /\ lh \in Seq(Block)
  /\ outstanding \in Nat
  /\ committing \in 0..1

TypeCache ==
  /\ resident \in SUBSET Block
  /\ cache \in [Block -> Data]
  /\ refcnt \in [Block -> 0..(RefMod - 1)]
  /\ held \in [Proc -> SUBSET Block]

TypeProc ==
  /\ wrote \in [Proc -> SUBSET Block]
  /\ pc \in [Actor -> {"idle", "begin", "asleep", "panic", "read_head", "up"}
                        \cup InOp \cup InCommit]
  /\ tail \in [Actor -> Nat]
  /\ crashes \in Nat /\ replayed \in SUBSET Block

\* The values the disk, the log, the cache and the processes range over.
TypeOK == TypeDisk /\ TypeLog /\ TypeCache /\ TypeProc

\* Calls that stay within their reservation never reach a panic of end_op or
\* log_write (log.c:153, 219, 221).
NoPanic == \A p \in Actor : pc[p] # "panic"

\* The log never grows past the blocks mkfs gave it, although log_write tests
\* its length before taking the lock (log.c:218): write_log would overwrite
\* the inode blocks that follow.
LogFits == Len(lh) <= LOGSIZE /\ Len(lh) < NLOG

\* What begin_op reserves is enough for the calls it admits: log_write neither
\* panics nor runs out of the blocks of the log.
SpaceSuffices == NoPanic /\ LogFits

\* "The logging system only commits when there are no FS system calls active"
\* (log.c:13): one process commits, and no call is between begin_op and end_op.
CommitAlone ==
  \A p \in Proc : pc[p] \in InCommit =>
    \A q \in Proc \ {p} : pc[q] \notin InOp \cup InCommit

Users(b) == {p \in Proc : b \in held[p]}

Installed(b) ==
  \E p \in Actor, i \in 1..Len(lh) :
    pc[p] = "install" /\ i <= tail[p] /\ lh[i] = b

\* Unless a recovery has installed the block, its buffer's refcnt counts its
\* user and its pin, so that refcnt = 0 means idle (bio.c:78).
RefcntExact ==
  \A b \in Block \ replayed :
    refcnt[b] = Cardinality(Users(b)) +
                (IF b \in Logged(lh) /\ ~Installed(b) THEN 1 ELSE 0)

\* Recovery unpins buffers that were never pinned, so pins hold only buffers
\* that this boot's recovery has not installed, or that are never recycled.
PinsKept == Recyclable \cap replayed = {}

\* Nobody depends on a pin before the recovery is over.
PinsReliable == pc[Boot] = "up" => PinsKept

\* A logged block keeps its buffer until it is installed, if its pin counts.
PinnedUntilInstalled ==
  pc[Boot] = "up" =>
    \A b \in Logged(lh) \ (Recyclable \cap replayed) :
      b \in resident \/ Installed(b)

\* The buffers of logged blocks survive until they are installed, because
\* refcnt is exact (bpin in log_write, bunpin in install_trans).
BuffersPinned == RefcntExact /\ PinnedUntilInstalled

(***************************************************************************)
(* What a restart would find, and what running calls see.                  *)
(***************************************************************************)
Recovered ==
  [b \in Block |->
     IF b \in Logged(head)
     THEN logblk[CHOOSE i \in 1..Len(head) : head[i] = b]
     ELSE home[b]]

View == IF pc[Boot] = "up" THEN [b \in Block |-> Contents(b)] ELSE Recovered

Tx == INSTANCE TxDisk WITH durable <- Recovered, current <- View, active <- Active

\* The log implements the transactional disk: whatever the crash point, in a
\* commit or in a recovery, a restart finds exactly the committed calls
\* (log.c:10-16).  Excepted are the steps of a running system whose recovery has
\* unpinned blocks that can be recycled, until the next crash.
ImplementsTxDisk == Tx!TxInit /\ [][PinsReliable => Tx!TxNext]_<<Recovered, View, Active>>

\* A process in begin_op gets in, or the power fails, or other calls get in
\* again and again: begin_op gives no turns, but nobody waits for a wakeup that
\* does not come (log.c:129-140, end_op's wakeup in log.c:158 and 170).
BeginOpReturns ==
  \A p \in Proc :
    \/ pc[p] = "begin" ~> pc[p] \in {"inop", "idle"}
    \/ \E q \in Proc \ {p} : []<>(pc[q] = "inop")

\* Calls that keep overlapping can keep a transaction open for ever.  Not one
\* that leaves no room for a second call beside the first: whoever calls, it is
\* committed and installed, or lost to a power failure (log.c:132, 149-164).
FullLogGetsCommitted ==
  lh # <<>> /\ Len(lh) + 2 * MAXOPBLOCKS > LOGSIZE ~> lh = <<>>
=============================================================================
