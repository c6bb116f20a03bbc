# TLA+ models of xv6

This directory holds TLA+ specifications of the xv6 kernel in this repository,
of its file system tests and of its shell, the TLC configurations that check
them on small instances, and TLAPS proofs. `PROJECT.json` is the index: which
definition models which lines, what each run checks, which mutation of the code
each property catches, the hazards and the findings.

## The system and its parts

| part | state | operations | what makes it hard |
|---|---|---|---|
| log (`log.c`) | `log.lh`, `outstanding`, `committing`, header and log blocks on disk | `begin_op`, `log_write`, `end_op`, `commit`, recovery | group commit of several calls, power failure at any write, recovery that is itself interrupted, log space |
| buffer cache (`bio.c`, `sleeplock.c`) | buffers, LRU list, reference counts, sleep locks | `bget`, `bread`, `bwrite`, `brelse`, `bpin`, `bunpin` | recycling against waiters and pins, one buffer per block |
| disk driver (`virtio_disk.c`, `plic.c`) | descriptors, avail and used rings, `info[]` | `virtio_disk_rw`, `virtio_disk_intr`, the device | completions out of order, lost interrupts, rings that wrap, descriptor exhaustion |
| processes (`proc.c`) | process table, `p->lock`, per-CPU `proc` | `fork`, `exit`, `wait`, `kill`, `sleep`, `wakeup`, scheduler | lock order, lost wakeups, slots reused, stacks freed in use |
| pipes (`pipe.c`) | ring, `nread`, `nwrite`, open flags | `pipewrite`, `piperead`, `pipeclose` | several readers and writers, kill, close, counter wrap-around |
| inodes, directories (`fs.c`) | inode cache, bitmap, directory blocks | `ialloc`, `iget`, `ilock`, `iput`, `bmap`, `itrunc`, `writei`, `dirlink`, `namex` | `iput` of the last reference against lookup, lock order in path walks |
| files (`file.c`, `sysfile.c`) | file table, descriptors | `filealloc`, `filedup`, `fileclose`, `filewrite`, `create`, `sys_unlink`, `sys_link`, `sys_pipe` | reference counts, partial failure, writes split over transactions |
| console, uart (`console.c`, `uart.c`) | `cons` indices r, w, e; output ring | `consoleintr`, `consoleread`, `consolewrite`, `uartputc`, `uartstart`, `uartintr` | interrupt against process, a lock held over sleep |
| memory (`kalloc.c`, `vm.c`) | free list, page tables | `kalloc`, `kfree`, `mappages`, `uvmunmap`, `uvmcopy`, `uvmalloc` | undo of a partial failure, frames owned once |
| traps, clock (`trap.c`, `sysproc.c`) | `ticks`, `p->killed` | `usertrap`, `clockintr`, `sys_sleep` | kill against sleep, unsigned tick arithmetic |
| exec (`exec.c`) | old and new image | `exec` | commit point and cleanup |
| spinlocks (`spinlock.c`) | `noff`, `intena` | `acquire`, `release`, `push_off`, `pop_off` | nesting of interrupt disabling |
| syscall dispatch, boot, printf, strings, mkfs, user programs | | | sequential |

The parts interact as layers: a file system call brackets its writes with
`begin_op` and `end_op`; the log pins buffers of the cache; the cache calls the
driver; every wait in all of them is `sleep` and `wakeup` of `proc.c`.

| layer | promises | as shown by | used by |
|---|---|---|---|
| user programs | the tests' own expectations | `fs` | |
| system calls on files | exact references, links and names | `fs` | `UserTests`, `Shell`, `Programs` |
| file contents | `ByteFile` | `data` | `SysFile` (contents are sequences) |
| log | `TxDisk` | `log_crash`, `CrashSafe` | `SysFile`, `FileData` (a call's writes appear together) |
| buffer cache | `BlockStore` | `bio`, `CacheImplementsBlockStore` | `Log`, `FileData` (a block has one value) |
| disk | `SyncDisk` | `virtio`, `DriverImplementsSyncDisk` | `Bio`, `Log` (a block write is one step) |
| pipes | `Fifo` | `pipe`, `PipeImplementsFifo` | `SysFile` (a pipe is a sequence) |
| memory | `PrivateMemory` | `vm` | |
| console | `Tty` | `console` | |

## Modules

Each component module has one action per operation, or per part of an operation
between two points where other code can run. Code that runs under one spinlock
without sleeping is one action. Modules carry some operators marked "mutant":
plausible mistakes that are no part of the specification and only serve to show
that a property would notice them.

* `Log` models `log.c`. Disk state is `home`, `logblk`, `head`; memory is `lh`,
  `outstanding`, `committing` and, for every block, whether a buffer holds it,
  its contents and its `refcnt` (an unsigned integer modulo `RefMod`). `BeginOp`,
  `LogWriteCheck` (the test without the lock), `LogWrite`, `EndOp`, `WriteLog`,
  `WriteHead`, `InstallTrans`, `ClearHead`, `Finish` are the steps of a call;
  `Boot` performs `ReadHead`, `InstallTrans`, `ClearHead`. `Crash` clears memory
  and may come anywhere. `Recycle` is `bget` taking an idle buffer.
  `TxDisk` is what it promises: a disk on which all the calls since the last
  commit take effect together or not at all.
* `Bio` models `bio.c` with `sleeplock.c`: the LRU list, `refcnt`, `valid`, the
  sleep lock with its sleepers. `BlockStore` is its promise: one value per block
  and one user at a time.
* `VirtioDisk` models `virtio_disk.c`: descriptors, both rings with 16-bit style
  indices (modulo `IdxMod`), `info[]`, and the interrupt line. The device
  (`DevFetch`, `DevComplete`) is external, modelled from how the driver uses it.
  `SyncDisk` is the promise: `virtio_disk_rw` transfers its block once, between
  call and return.
* `Pipe` models `pipe.c`: lock, ring, wrapping counters, a loop iteration per
  byte, `sleep` as releasing the lock and sleeping at once, failing copies,
  `kill`, closing. `Fifo` is the promise: a bounded queue of bytes.
* `Proc` models `proc.c`: the table with every `p->lock` explicit, so that lock
  order is checked, CPUs that run a process and switch away from it after its
  last `p->lock` step, `fork` with failing allocation, `exit` in its seven steps,
  `wait` slot by slot, `kill`, `yield`, sleep on a channel.
* `Inode` holds the operators of the inode layer of `fs.c` (`iget`, `idup`,
  `ialloc`, `iupdate`, `dirlookup`, `dirlink`, ...). `SysFile` makes steps of
  them: path walks, `iput`, all calls of `sysfile.c`, `file.c`, and the files of
  `fork`, `exit`, `wait` and `exec`. `disk` is the inodes on disk, `icache` the
  inode cache, `ftable` the open files, `proc[p].ofile` and `cwd` what a process
  holds, `loc[p]` the call it is in. A step ends where the code releases an inode
  lock, `icache.lock` or `ftable.lock`. `tx` records who is between `begin_op`
  and `end_op`; `lost` collects the inodes that the code itself gives up on (see
  below).
* `UserTests` has the file system tests of `usertests.c` as programs of
  `SysFile`: sequences of calls, each with the results the test accepts, with
  their forks. `Shell` parses command lines character by character, as `sh.c`
  does, and turns the command into the calls of `runcmd`. `Programs` adds
  `grind.c` and `init.c`. `MCSysFile` starts them in every combination the run
  asks for.
* `FileData` models what is below a file's contents: `balloc`, `bfree`, `bmap`
  with the indirect block, `itrunc`, `readi`, `writei`, and `filewrite`'s loop
  over transactions. `block` is what the cache shows, `home` what a recycled
  buffer gets back, `pinned` the blocks logged in the current transaction;
  `Commit` and `Recycle` come at any time the log and the cache allow. `ByteFile`
  is the promise: a file is a sequence of bytes; a read, a chunk of a write and a
  truncation happen at one moment; where the source of a write cannot be read, a
  part of the chunk is written and its offset counts the whole (`fs.c:513`), and
  bytes copied without being logged may come back as they were (`fs.c:497`).
* `Vm` models `kalloc.c`, the user page tables of `vm.c` with their inner nodes,
  and the memory of `fork`, `exit`, `wait`, `sbrk` and `exec`; any `kalloc` of
  any loop may fail, because memory is small. `PrivateMemory` is the promise:
  each process has pages of its own, and a failed call changes nothing.
* `Console` models `console.c`, `uart.c`, the locking of `printf.c`, `panic`,
  `spinlock.c` and the dispatch of UART interrupts. Process p runs on CPU p; an
  interrupt runs on top of what its CPU does, where interrupts are on. `Clock`
  adds `clockintr` and `sys_sleep` and composes both into the specification that
  the run checks. The UART (two FIFOs) and the PLIC are external. `Tty` is the
  promise: input is edited and delivered by the line, output appears in order.
* `MC*` modules give constants their values, add symmetry, and carry the runs.
* The theorems are in modules of their own, each extending the module it is
  about: `LogProofs` (the control of `Log`), `CrashProofs` (its data, on top of
  `LogProofs`), `PipeProofs`, `BioProofs`, `ProcProofs` and `VirtioProofs`.
  `NumberFacts` has the modular arithmetic that the rings of pipes and of the
  driver share.

## Runs

| run | instance | shows |
|---|---|---|
| `log_crash` | 2 processes, 2 blocks, any number of calls, 2 crashes, buffers recyclable | a commit runs alone, blocks stay pinned until installed with exact reference counts, refinement of `TxDisk`, also when recovery is interrupted and repeated |
| `log_live` | 3 processes, 4 blocks, any number of calls, no crash; calls one block below `MAXOPBLOCKS` | the reservation of `begin_op` suffices: no panic, the log fits; a call gets in unless others overtake it for ever; a log that has no room for two calls is committed |
| `virtio` | 3 processes, 8 descriptors, ring indices about to wrap | descriptor ownership and no panic, refinement of `SyncDisk`, calls return unless a completion is stranded |
| `bio` | 2 processes, 3 blocks, 2 buffers, 1 pin | exact counts and unique buffers, refinement of `BlockStore`, the cache is exhausted only when it is full, waiters are served |
| `pipe` | 2 readers, 1 writer, 2-byte ring, counters modulo 4, failing copies, kills of a reader and of the writer | refinement of `Fifo`, no lost wakeup but that of a killed writer, no use after free, end of file is final, close releases |
| `proc` | 4 slots, 2 CPUs, 5 pids, one preemptible and one sleeping process, a kill, failing forks | stacks and parents, nobody sleeps in `wait` beside a zombie child (init excepted) or a kill, processes wait for `p->lock` in a circle only if one of them holds the lock of its former parent |
| `fs` | 5 processes, 8 inodes, 7 cache entries, 8 files, 6 descriptors, 2 pipes of 2 bytes | references, link counts and names exact, unlinked inodes freed, no unexpected panic, no deadlock, writes inside transactions, every test passes |
| `data` | 2 processes, 2 files, 7 blocks of 2 cells, 2 direct blocks, `uint` of 16 values, 3 calls | bitmap and block tables agree in every state, transactions stay below `MAXOPBLOCKS`, the only panic is a full disk, refinement of `ByteFile` |
| `vm` | 3 processes, 17 pages, tables of 3 levels with 3 entries, 3 calls | each page has one use in every state, sizes match tables, no panic, refinement of `PrivateMemory` |
| `console` | 2 processes, 6 keys, rings of 2 and 3 bytes, counters modulo 4, 3 keystrokes, 3 ticks | buffers within bounds, no lost wakeup, refinement of `Tty`, output drains, reads return |
| `proc_reuse`, `fs_iput` | as small as the disagreement allows | the disagreements below |

Related invariants are checked as one property where they speak of the same
state: `DescriptorsSound`, `TableSound`, `WaitersHaveReason`, `BuffersSound`,
`BuffersPinned`, `SpaceSuffices`, `RefsSound`, `InodesSound`, `NamesSound`,
`BlocksSound`, `PagesSound`, `PipeSound`, `BuffersBounded`. Their conjuncts, the
type invariant among them, are defined and explained just above each. The type
invariant of `Log` is proved and not part of a run. `proc` and `proc_reuse` tell
states apart by `Live` of `MCProc`, which leaves out the locals of `exit` and
`wait` outside these functions and of a pid all but whether `kill` is called with
it: nothing later depends on the rest.

### Bounds

They are the smallest at which the cases of interest occur: two calls in one
transaction and a second transaction after recovery; a request that waits while
two are in flight and rings that wrap around; a write longer than the pipe and
counters that pass their modulus; a grandchild and a slot that is used twice;
fewer buffers than blocks; a write that crosses from direct to indirect blocks,
spans two transactions, and meets a full disk; memory that runs out in each loop
of `fork`, `sbrk` and `exec`; an input ring that fills and a transmit buffer that
overflows. The programs of `fs` are what the repository itself runs: the file
system tests one at a time with their children, init and the shell on six
command lines, three of `grind`'s turns alone and pairs of them: on a disk with
`grindir`, and, for the turns that remove `a` or meet it as a directory, on one
that also has `a`. Five programs are added: they run out of files, descriptors
and pages for pipes, or work in a directory that is removed. `console` starts
from nine scenarios, five of them with both processes at work. Crashes are in `log_crash`; `log_live` has none, to keep its
graph small enough for liveness checking, so that liveness is not checked across
a crash. `log_crash` checks for deadlock; in `log_live` the liveness properties
say more. The other runs bound the number of calls, so
they may stop; deadlock checking is off for that reason, and waiting forever is
covered by their liveness properties and by `ParentThenChild`, `NoDeadlock`,
`SleepersHaveReason` and `WaitersHaveReason`.

Two larger instances passed and are too slow to keep as runs: all pairs of
eleven turns of `grind` on two disks (3.9 million states), and the liveness of
`exit` and of a killed process in `wait` in `Proc` with a CPU per slot.

### Restrictions and abstractions

* In `pipe` one reader cannot be killed, and there is one writer. The liveness
  property of `virtio` excepts the state in which a completion was acknowledged
  unseen: see the behaviours listed below. Three requests and eight descriptors
  let one process at a time wait for descriptors; a fourth process is too much
  for a run. The device reports status 0, so that the handler's panic on another
  status is not reached.
* Recovery takes a pin that nobody has set (`log.c:78`), so in `Log` the exact
  reference counts are claimed for the blocks that the recovery of this boot has
  not replayed, and `ImplementsTxDisk` excepts the steps of a system that is up
  and whose recovery has replayed a block that can be recycled (`PinsReliable`).
  The recovery itself, however often it is interrupted, and everything from the
  next crash on are covered. A transaction after a recovery is covered if that
  recovery found the log empty; all blocks of `log_crash` can be recycled. That
  `bget` may take a buffer which is in use, because such an unpinning made its
  `refcnt` 0, is not modelled: neither `Recycle` of `Log` does it, nor is there a
  recovery in `Bio`, where `bunpin` and `brelse` are called as a commit and a
  file system call do.
* In `Proc` nobody kills init. `reparent` and `wait` test `pp->parent` of a
  slot and take its lock in one step: a child of `p` stops being one only by what
  `p` itself does ("only the parent changes it", `proc.c:317`), so that the test
  still holds when the lock is had.
* In `SysFile` fetching arguments from user memory and copying results to it
  always succeed; there are no crashes (`Log` has them) and no kill. Loops of the
  tests are cut to one or two turns and buffers to a few bytes.
* In `FileData` a file's inode is locked by a whole call, as `ilock` does it, and
  one bitmap block describes the disk. In `Vm` the contents of a page are its
  last writer; `copyin` and `copyout` are not byte loops.
* In `Console` a message, and the three bytes that erase a character, are one
  byte each; `printf`'s formatting is left out.

### Fairness

A process in the kernel is assumed to take its next step eventually: timer
interrupts and the round-robin scan of `scheduler()` give every RUNNABLE process
a CPU. Weak fairness suffices except where a process competes for a lock or
where the model leaves open how often a call loops: strong fairness is used for
`EndOp` (a call logs finitely many blocks) and for the steps of `Bio` (the sleep
lock). The disk is assumed to complete every request it was notified of, and a
raised interrupt to be delivered. In `console` each process's steps, the
interrupt handler, the UART's sending of the next byte and the claiming of a
pending interrupt by some CPU are weakly fair; keystrokes and ticks are not.
`proc`, `fs`, `data` and `vm` check safety only.

## Disagreements found

Two are runs that TLC must find violated.

* `proc_reuse`: a stale `original_parent` breaks the lock order of `exit`
  (`proc.c:375`).
* `fs_iput`: `iput` drops its reference after it has freed the inode, without
  looking at the inode again. If the entry was given to the inode's next life
  and unlinked meanwhile, the last reference goes without freeing it
  (`fs.c:344`), against the comment at `iput`.

Others are part of the models and have no run of their own; the properties are
worded so that they say exactly how far the code goes.

* `log.c:218`: `log_write` refuses one block earlier than `begin_op` reserves, so
  a call may not use its whole reservation. `SpaceSuffices` assumes that it does
  not (`OpBlocks = MAXOPBLOCKS - 1` in `log_live`); `OpFits` shows that `filewrite`
  and `itrunc` log fewer than `MAXOPBLOCKS` blocks.
* `log.c:78`: recovery unpins buffers that were never pinned and takes their
  unsigned `refcnt` below zero.
* `virtio_disk.c:267`: a completion between the handler's loop and its
  acknowledgement is not seen until the next one.
* `pipe.c:86`: a killed writer leaves without waking the readers, which sleep on
  beside its bytes until a writer writes or the write end is closed
  (`SleepersHaveReason`, `CloseReleasesPeers`). A kill between
  the test of `killed` and `sleep` is not noticed (`pipe.c:111`; the same in
  `consoleread` and `sys_sleep`).
* `proc.c:383`: a child handed to init after it has copied its parent wakes the
  old parent only, so init can sleep beside the zombie. `proc.c:624`: `kill` of
  a pid that an unused slot still carries marks the slot's next process. Nothing
  looks for unlinked open inodes after a crash.
* Names created in a directory that has been removed are lost with it, and
  looking up `..` there panics with "ilock: no type" once the parent has been
  freed (`Calm`).
* `fs.c:513`: `writei` returns `n` although the copy failed.
* `console.c:68`: `consolewrite` holds `cons.lock` while `uartputc` sleeps on a
  full buffer, and `sched` panics on the second lock (`PanicNeedsBacklog`),
  although `uart.c:82` says that `uartputc` blocks. The property says that there
  is no other panic, and none before the buffer's worth of bytes was written.
  `sys_sleep` with a negative argument sleeps for nearly 2^32 ticks;
  `SleepersHaveReason` of `Clock` compares as the code does and holds of it too.

## Proofs

Each of the theorems holds for every value of the constants that satisfies the
named assumption of its module: any number of processes, blocks, slots, CPUs,
buffers or descriptors, any ring size and counter width. The assumptions say that
the sets of processes are finite where the code counts them (`Log`, `Bio`,
`VirtioDisk`; not `Pipe`), that there is some content for a block, that sizes are
positive, that `refcnt` counts at least to three, that the queue has at least
three descriptors, that nobody kills init, and that the moduli of counters are
multiples of the ring sizes (2^32 and 512 for pipes, 2^16 and 8 for the driver);
TLC evaluates them in the runs. The numbers of calls, crashes, kills and pids are
bounded by constants of the models and arbitrary in the theorems.

| theorem | states | of |
|---|---|---|
| `CommitsAlone`, `TypeCorrect` | `CommitAlone`, `TypeOK` | `Log` |
| `CallsNeverPanic`, `LogAlwaysFits`, `SpaceAlwaysSuffices` | `NoPanic`, `LogFits`, `SpaceSuffices`, from `Slack` | `Log` |
| `BuffersStayPinned` | `BuffersPinned` | `Log` |
| `CrashSafe`, `CrashSafeWithSlack` | `ImplementsTxDisk`, from `[]NoPanic` or from `Slack` | `Log`, `TxDisk` |
| `PipeStaysSound` | `PipeSound` | `Pipe` |
| `NoLostWakeup` | `SleepersHaveReason` | `Pipe` |
| `EndOfFileIsFinal` | `EofIsFinal` (an action property) | `Pipe` |
| `PipeImplementsFifo` | `ImplementsFifo` | `Pipe`, `Fifo` |
| `BuffersStaySound` | `BuffersSound` | `Bio` |
| `PanicMeansFull` | `PanicOnlyWhenFull` (an action property) | `Bio` |
| `CacheImplementsBlockStore` | `ImplementsBlockStore` | `Bio`, `BlockStore` |
| `TableStaysSound`, `NoMissedWakeup` | `TableSound`, `WaitersHaveReason` | `Proc` |
| `DescriptorsStaySound` | `DescriptorsSound` | `VirtioDisk` |
| `DriverImplementsSyncDisk` | `ImplementsSyncDisk` | `VirtioDisk`, `SyncDisk` |

Each proof goes the same way: an inductive invariant with one lemma per action,
then the property as a consequence; for a refinement also one lemma per action
that maps it to a step of the abstract specification or to no step. What the
invariants add to the properties, which are not inductive by themselves:

* `CInv` (`LogProofs`). That a commit is alone needs that `outstanding` counts
  exactly the calls in progress (`Counting`), that there is one committer
  (`Committing`), how far its loop is (`Tails`), and what Boot may be doing
  (`Control`). For log space, each call's unspent reservation is a set of tokens;
  `Reserve` says that logged blocks and tokens together are at most `LOGSIZE`, and
  `Budget` that a call only logs within its share. `begin_op` adds `MAXOPBLOCKS`
  tokens under its test; logging a new block spends one; absorption spends at
  most one without a new block; `end_op` drops tokens. `Slack` says that calls
  write at most `OpBlocks < MAXOPBLOCKS` blocks and that `LOGSIZE + 1 < NLOG +
  (MAXOPBLOCKS - OpBlocks)`; with the kernel's numbers (10, 30, 30) that is
  `OpBlocks <= 8`. It is sufficient and not necessary: `log_live` passes on an
  instance just outside it.
* `DInv` (`CrashProofs`). A restart finds `Recovered`: the header's blocks from
  the log and the others from their home. That writing the header commits exactly
  what the calls see needs that `write_log` has copied the current contents of
  the blocks it passed (`Written`), and that an interrupted installation can be
  repeated needs that what was installed agrees with the log (`Installing`,
  `HeadSound`). Both rest on the cache: a logged block keeps its buffer
  (`PinnedUntilInstalled`), because `refcnt` is exact (`Exact`) and a call has one
  buffer at a time (`HeldSound`); a buffer that is not logged equals the disk
  (`Clean`). While Boot recovers, calls see what a restart would find, so replaying
  the log changes nothing whatever happens to buffers; pins matter once the system
  is up, and there the exception of `PinsReliable` (see the restrictions) applies
  to the theorem as to the run. A panic stops the machine in the middle of a
  change; `CrashSafe` excludes it as a hypothesis and `CrashSafeWithSlack` shows
  that it cannot happen.
* `PInv` (`PipeProofs`). The number of bytes in the ring is the gap of two
  counters that wrap around; `GapFacts` shows that the gap goes up and down by one
  with them. A sleeper has a reason, or somebody who is inside the loop under the
  lock is going to wake it (`WriterSleeps`, `ReaderSleeps`); a process on its way
  to sleep still has its reason because it holds the lock (`Parking`). Who may
  still use the pipe follows from the references (`Referenced`, `Closing`,
  `Ended`). A killed writer leaves its bytes without a wakeup (`pipe.c:86`), which
  `ReaderSleeps` and the property allow for.
* `BInv` (`BioProofs`). A buffer's lock holder is the process that uses it
  (`LockHeld`), pinned blocks stay (`PinnedCached`), every buffer is on the LRU
  list (`Listed`), and a buffer differs from the disk only if it is pinned or
  still in use (`Clean`): recycling then loses nothing.
* `TInv` (`ProcProofs`). `exit` reads its parent without a lock and locks the copy
  later; since then it was given to init at most (`ParentCopied`). With the
  locks that `exit` and `wait` hold (`LocksHeld`), no child becomes a zombie in a
  slot that `wait` has passed (`Scanned`), and `reparent` has given away the
  children in the slots it has passed (`GivenAway`). A process on a CPU that is
  no longer RUNNING holds its own lock (`OnCpu`): nobody frees its stack.
* `VInv` (`VirtioProofs`). Each waiting process owns a chain of three descriptors
  (`Owners`, `Shape`), and the free ones are the rest (`Count`). What is in the
  avail ring, in the device and in the used ring are different chains of waiting
  processes (`InRing`, `InDevice`, `InUsed`); the entries are counted from the two
  indices that wrap around, and the rings cannot overflow because there are at
  most `NUM / 3` requests.

Only model-checked:

* liveness (`BeginOpReturns`, `FullLogGetsCommitted`, `ReturnsUnlessStranded`,
  `CloseReleasesPeers`, `BreadReturns`, `OutputDrains`, `ReadReturns`): the prover
  has no rules for fairness and ENABLED;
* `ParentThenChild` of `Proc`, which excludes circles in a waits-for relation of
  any number of slots (without its exception it is false, as `proc_reuse` shows);
* `SysFile`, `FileData`, `Vm`, `Clock` and `Console`, with the refinements of
  `ByteFile`, `PrivateMemory` and `Tty`. The run of `SysFile` takes its programs
  from modules with RECURSIVE operators (the shell's parser), which the prover
  cannot use; the others have no such obstacle and are not proved yet;
* what a loop over data computes in total: where a proof needs induction over a
  number it uses a least counterexample (`NatMin` in `BioProofs`), since the
  library's induction theorems cannot be instantiated by these provers.

## Plan

Next are `BlocksSound` of `FileData` (a block has one use, and the bitmap says
so), `PagesSound` of `Vm`, and `BuffersBounded` of `Clock`: these modules declare
no RECURSIVE operator.

## Not modelled

* System call dispatch and argument fetching (`syscall.c`): a table lookup.
* Boot and assembly (`entry.S`, `start.c`, `main.c`, `swtch.S`, `trampoline.S`,
  `kernelvec.S`) and the register side of `trap.c`: straight-line hardware setup
  and register saving; a model of it would restate it.
* The kernel's own page table (`kvminit` and the like), set once at boot, and
  the byte loops of `copyin`, `copyout`, `copyinstr`, `string.c`, `ulib.c`.
* The device negotiation of `virtio_disk_init`: only its result.
* `mkfs` (its layout is the initial disk), `ramdisk.c` (not built), and the
  utilities (`cat`, `ls`, `wc`, ...): sequential clients of the system calls.
* Tests of memory, bad arguments, kill and preemption in `usertests.c`, whose
  subject is in `Vm`, `Proc` and `Pipe`.
