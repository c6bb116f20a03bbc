-------------------------------- MODULE Pipe --------------------------------
(***************************************************************************)
(* kernel/pipe.c: one pipe, as pipealloc leaves it, shared by processes    *)
(* that hold file descriptors for its ends (file.c counts them), and kill. *)
(*                                                                         *)
(* pi->lock is a variable: pipewrite and piperead hold it for one step per *)
(* byte, and kill may strike between a test of killed and the sleep that   *)
(* follows.                                                                *)
(***************************************************************************)
EXTENDS Integers, Sequences, FiniteSets

CONSTANTS
  Proc,      \* processes
  Readers,   \* those that hold the read end at first
  Writers,   \* those that hold the write end at first
  Killable,  \* those that may be killed
  Byte,      \* values of a byte
  None,
  PIPESIZE,  \* pipe.c
  UintMod,   \* nread and nwrite are uint: arithmetic modulo UintMod
  Sizes,     \* n of the calls of read and write
  Faults,    \* whether copyin and copyout may fail
  MaxCalls   \* bound: calls per process

ASSUME PipeAssumption ==
  /\ Readers \subseteq Proc /\ Writers \subseteq Proc /\ Killable \subseteq Proc
  /\ None \notin Proc
  /\ PIPESIZE \in Nat \ {0}
  /\ UintMod \in Nat /\ UintMod % PIPESIZE = 0 /\ UintMod > PIPESIZE
  /\ Sizes \subseteq Int /\ Faults \in BOOLEAN /\ MaxCalls \in Nat

VARIABLES
  lock,                \* pi->lock: its holder, or None
  data, nread, nwrite, \* the ring
  open,                \* open.r and open.w: readopen and writeopen
  alive,               \* pi has not been kfreed
  refs,                \* processes holding the file of each end
  pc, i, n,            \* control state and loop variables of each process
  got,                 \* the bytes the current read has copied out
  ret,                 \* value returned by the last call
  killed,              \* p->killed
  calls                \* bound counter

ring  == <<data, nread, nwrite>>
vars  == <<lock, ring, open, alive, refs, pc, i, n, got, ret, killed, calls>>

Ends == {"r", "w"}

Init ==
  /\ lock = None
  /\ \E b \in Byte : data = [k \in 0..(PIPESIZE - 1) |-> b]  \* what kalloc fills pages with
  /\ nread = 0 /\ nwrite = 0
  /\ open = [e \in Ends |-> TRUE] /\ alive = TRUE
  /\ refs = [e \in Ends |-> IF e = "r" THEN Readers ELSE Writers]
  /\ pc = [p \in Proc |-> "user"]
  /\ i = [p \in Proc |-> 0] /\ n = [p \in Proc |-> 0]
  /\ got = [p \in Proc |-> <<>>] /\ ret = [p \in Proc |-> 0]
  /\ killed = [p \in Proc |-> FALSE]
  /\ calls = [p \in Proc |-> 0]

Goto(p, l) == pc' = [pc EXCEPT ![p] = l]

\* wakeup(chan): sleepers on chan will take the lock again.
WakeAll(f, from, to) == [q \in Proc |-> IF f[q] = from THEN to ELSE f[q]]

WakeReaders(f) == WakeAll(f, "rsleep", "rlock")
WakeWriters(f) == WakeAll(f, "wsleep", "wlock")

\* release(&pi->lock) and return v to user space; f is pc after the wakeups.
Return(p, v, f) ==
  /\ pc' = [f EXCEPT ![p] = "user"]
  /\ ret' = [ret EXCEPT ![p] = v]
  /\ lock' = None

\* mutant: the counter is not unsigned
IncNoWrap(c) == c + 1

\* ++ on a uint
Inc(c) == (c + 1) % UintMod

\* read or write enters the kernel (usertrap lets a killed process no further).
Call(p, e) ==
  /\ pc[p] = "user" /\ p \in refs[e] /\ ~killed[p] /\ calls[p] < MaxCalls
  /\ \E m \in Sizes : n' = [n EXCEPT ![p] = m]
  /\ i' = [i EXCEPT ![p] = 0]
  /\ got' = [got EXCEPT ![p] = <<>>]
  /\ calls' = [calls EXCEPT ![p] = @ + 1]
  /\ Goto(p, IF e = "r" THEN "rlock" ELSE "wlock")
  /\ UNCHANGED <<lock, ring, open, alive, refs, ret, killed>>

\* acquire(&pi->lock), on entry or on return from sleep.
Acquire(p) ==
  /\ lock = None
  /\ pc[p] \in {"rlock", "wlock"}
  /\ lock' = p
  /\ Goto(p, IF pc[p] = "rlock" THEN "rwait" ELSE "wloop")
  /\ UNCHANGED <<ring, open, alive, refs, i, n, got, ret, killed, calls>>

\* sleep(chan, &pi->lock): nothing can be missed between the release of the
\* lock and the change of state.
Sleep(p) ==
  /\ pc[p] \in {"rpark", "wpark"}
  /\ lock' = None
  /\ Goto(p, IF pc[p] = "rpark" THEN "rsleep" ELSE "wsleep")
  /\ UNCHANGED <<ring, open, alive, refs, i, n, got, ret, killed, calls>>

-----------------------------------------------------------------------------
(* pipewrite *)

\* mutant: compares without the unsigned wraparound
FullNoWrap == nwrite = nread + PIPESIZE

Full == nwrite = (nread + PIPESIZE) % UintMod

\* mutant: writes past a reader that is gone
WriteGivesUpKilled(p) == killed[p]

WriteGivesUp(p) == ~open["r"] \/ killed[p]

WriteDone(p) ==
  /\ pc[p] = "wloop" /\ i[p] >= n[p]
  /\ Return(p, i[p], WakeReaders(pc))
  /\ UNCHANGED <<ring, open, alive, refs, i, n, got, killed, calls>>

WriteFull(p) ==
  /\ pc[p] = "wloop" /\ i[p] < n[p] /\ Full
  /\ IF WriteGivesUp(p) THEN Return(p, -1, pc)
     ELSE pc' = [WakeReaders(pc) EXCEPT ![p] = "wpark"] /\ UNCHANGED <<lock, ret>>
  /\ UNCHANGED <<ring, open, alive, refs, i, n, got, killed, calls>>

WriteByte(p) ==
  /\ pc[p] = "wloop" /\ i[p] < n[p] /\ ~Full
  /\ \E b \in Byte : data' = [data EXCEPT ![nwrite % PIPESIZE] = b]
  /\ nwrite' = Inc(nwrite)
  /\ i' = [i EXCEPT ![p] = @ + 1]
  /\ UNCHANGED <<lock, nread, open, alive, refs, pc, n, got, ret, killed, calls>>

\* copyin fails: the loop ends early.
WriteFault(p) ==
  /\ Faults
  /\ pc[p] = "wloop" /\ i[p] < n[p] /\ ~Full
  /\ Return(p, i[p], WakeReaders(pc))
  /\ UNCHANGED <<ring, open, alive, refs, i, n, got, killed, calls>>

-----------------------------------------------------------------------------
(* piperead *)

\* mutant: the test of writeopen is inverted
ReadMustWaitInverted == nread = nwrite /\ ~open["w"]

ReadMustWait == nread = nwrite /\ open["w"]

ReadWait(p) ==
  /\ pc[p] = "rwait"
  /\ IF ~ReadMustWait THEN Goto(p, "rloop") /\ UNCHANGED <<lock, ret>>
     ELSE IF killed[p] THEN Return(p, -1, pc)
     ELSE Goto(p, "rpark") /\ UNCHANGED <<lock, ret>>
  /\ UNCHANGED <<ring, open, alive, refs, i, n, got, killed, calls>>

\* mutant: leaves the writers asleep
ReadWakeNone(f) == f

\* wakeup(&pi->nwrite), DOC: piperead-wakeup
ReadWake(f) == WakeWriters(f)

ReadDone(p) ==
  /\ pc[p] = "rloop" /\ (i[p] >= n[p] \/ nread = nwrite)
  /\ Return(p, i[p], ReadWake(pc))
  /\ UNCHANGED <<ring, open, alive, refs, i, n, got, killed, calls>>

Oldest == data[nread % PIPESIZE]

ReadByte(p) ==
  /\ pc[p] = "rloop" /\ i[p] < n[p] /\ nread # nwrite
  /\ got' = [got EXCEPT ![p] = Append(@, Oldest)]
  /\ nread' = Inc(nread)
  /\ i' = [i EXCEPT ![p] = @ + 1]
  /\ UNCHANGED <<lock, data, nwrite, open, alive, refs, pc, n, ret, killed, calls>>

\* copyout fails after nread has moved: the byte is gone.
ReadFault(p) ==
  /\ Faults
  /\ pc[p] = "rloop" /\ i[p] < n[p] /\ nread # nwrite
  /\ nread' = Inc(nread)
  /\ Return(p, i[p], ReadWake(pc))
  /\ UNCHANGED <<data, nwrite, open, alive, refs, i, n, got, killed, calls>>

-----------------------------------------------------------------------------
(* close, exit, kill *)

\* fileclose: the last reference goes on to pipeclose.
Close(p, e) ==
  /\ pc[p] = "user" /\ p \in refs[e]
  /\ refs' = [refs EXCEPT ![e] = @ \ {p}]
  /\ IF refs[e] = {p} THEN Goto(p, IF e = "r" THEN "rclose" ELSE "wclose")
     ELSE UNCHANGED pc
  /\ UNCHANGED <<lock, ring, open, alive, i, n, got, ret, killed, calls>>

\* mutant: frees the pipe when the first end closes
BothClosedEarly(f) == \E e \in Ends : ~f[e]

BothClosed(f) == \A e \in Ends : ~f[e]

\* pipeclose: the other side is woken, and the second close frees the pipe.
PipeClose(p) ==
  /\ pc[p] \in {"rclose", "wclose"} /\ lock = None
  /\ open' = [open EXCEPT ![IF pc[p] = "rclose" THEN "r" ELSE "w"] = FALSE]
  /\ pc' = [(IF pc[p] = "rclose" THEN WakeWriters(pc) ELSE WakeReaders(pc))
              EXCEPT ![p] = "user"]
  /\ alive' = (alive /\ ~BothClosed(open'))
  /\ UNCHANGED <<lock, ring, refs, i, n, got, ret, killed, calls>>

\* kill(): sets killed and makes the victim runnable if it sleeps.
Kill(p) ==
  /\ p \in Killable /\ ~killed[p]
  /\ killed' = [killed EXCEPT ![p] = TRUE]
  /\ pc' = [pc EXCEPT ![p] = IF @ = "rsleep" THEN "rlock"
                             ELSE IF @ = "wsleep" THEN "wlock" ELSE @]
  /\ UNCHANGED <<lock, ring, open, alive, refs, i, n, got, ret, calls>>

-----------------------------------------------------------------------------
WriteStep(p) == WriteDone(p) \/ WriteFull(p) \/ WriteByte(p) \/ WriteFault(p)

ReadStep(p) == ReadWait(p) \/ ReadDone(p) \/ ReadByte(p) \/ ReadFault(p)

Step(p) == Acquire(p) \/ Sleep(p) \/ WriteStep(p) \/ ReadStep(p) \/ PipeClose(p)

Next ==
  \E p \in Proc :
    \/ Step(p)
    \/ \E e \in Ends : Call(p, e) \/ Close(p, e)
    \/ Kill(p)

Spec == Init /\ [][Next]_vars

\* A process in the kernel is scheduled again and again, and a killed process
\* that is back in user space exits, which closes its files.
Fairness ==
  \A p \in Proc : /\ WF_vars(Step(p))
                  /\ \A e \in Ends : WF_vars(killed[p] /\ Close(p, e))

FairSpec == Spec /\ Fairness

-----------------------------------------------------------------------------
\* Type invariant.
TypeOK ==
  /\ lock \in Proc \cup {None}
  /\ data \in [0..(PIPESIZE - 1) -> Byte]
  /\ nread \in 0..(UintMod - 1) /\ nwrite \in 0..(UintMod - 1)
  /\ open \in [Ends -> BOOLEAN] /\ alive \in BOOLEAN
  /\ refs \in [Ends -> SUBSET Proc]
  /\ pc \in [Proc -> {"user", "rlock", "rwait", "rpark", "rsleep", "rloop", "rclose",
                      "wlock", "wloop", "wpark", "wsleep", "wclose"}]
  /\ i \in [Proc -> Nat] /\ n \in [Proc -> Sizes \cup {0}]
  /\ got \in [Proc -> Seq(Byte)] /\ ret \in [Proc -> Int]
  /\ killed \in [Proc -> BOOLEAN]
  /\ calls \in [Proc -> 0..MaxCalls]

\* Number of bytes in the ring, and the bytes, oldest first.
Count == (nwrite - nread + UintMod) % UintMod
Queue == [k \in 1..Count |-> data[(nread + k - 1) % PIPESIZE]]

F == INSTANCE Fifo WITH queue <- Queue, Capacity <- PIPESIZE

\* Every byte a reader receives is the oldest one written and not yet read, in
\* the order of the writes, however readers and writers interleave and the
\* unsigned counters wrap around (pipewrite line 95, piperead line 120).
ImplementsFifo == F!FifoSpec

InRead  == {"rlock", "rwait", "rpark", "rsleep", "rloop"}
InWrite == {"wlock", "wloop", "wpark", "wsleep"}

\* A process inside pipewrite, piperead or pipeclose never touches a pipe that
\* has been freed (pipeclose line 71).
NoUseAfterFree ==
  (\E p \in Proc : pc[p] # "user") => alive

\* The pipe's fields are well formed and in use only while it exists.
PipeSound == TypeOK /\ NoUseAfterFree

WriterKilled == \E q \in Writers : killed[q]

\* No lost wakeup: while the lock is free a reader sleeps only on an empty pipe
\* with a writer left, a writer only on a full one with a reader left.  A writer
\* that was killed leaves its bytes behind without a wakeup (pipewrite line 86):
\* a reader may sleep beside them, but not once the write end is closed.
SleepersHaveReason ==
  lock = None =>
    /\ (\E p \in Proc : pc[p] = "rsleep") => open["w"] /\ (Count = 0 \/ WriterKilled)
    /\ (\E p \in Proc : pc[p] = "wsleep") => Count = PIPESIZE /\ open["r"]

\* Unless copyout failed, read() returns 0 only at end of file: no byte is left
\* and no process holds the write end any more (piperead lines 110 and 118).  A
\* second reader may empty the pipe in between, but not while a writer is left.
EofIsFinal ==
  [][\A p \in Proc :
       pc[p] = "rloop" /\ pc'[p] = "user" /\ n[p] > 0 /\ ret'[p] = 0 /\ nread' = nread
         => Count = 0 /\ refs["w"] = {}]_vars

\* The last close of an end gets every process out that waits at the other end:
\* readers see end of file, writers an error.
CloseReleasesPeers ==
  /\ \A p \in Readers : pc[p] \in InRead /\ ~open["w"] ~> pc[p] = "user"
  /\ \A p \in Writers : pc[p] \in InWrite /\ ~open["r"] ~> pc[p] = "user"
=============================================================================
