-------------------------------- MODULE Proc --------------------------------
(***************************************************************************)
(* kernel/proc.c: the process table, fork, exit, wait, kill, sleep, wakeup *)
(* and the per-CPU scheduler.                                              *)
(*                                                                         *)
(* p->lock is explicit, because exit and wait hold several of them.  One   *)
(* step goes from one acquire() to just before the next.  A process may be *)
(* preempted (kerneltrap) wherever it holds no lock.                       *)
(***************************************************************************)
EXTENDS Naturals

CONSTANTS
  NPROC,      \* param.h: size of the process table
  CPU,        \* the harts
  None,
  Sleepers,   \* slots whose process may sleep in some other system call
  Preemptible, \* slots whose process the timer may preempt
  OutOfMem,   \* whether kalloc may fail in fork
  KillPids,   \* pids that kill() may be called with
  MaxPid,     \* bound: pids handed out
  MaxKills    \* bound: calls of kill

ASSUME ProcAssumption ==
  /\ NPROC \in Nat \ {0}
  /\ None \notin CPU /\ None \notin 1..NPROC
  /\ Sleepers \subseteq 1..NPROC /\ Preemptible \subseteq 1..NPROC
  /\ OutOfMem \in BOOLEAN
  /\ KillPids \subseteq Nat \ {1}
  /\ MaxPid \in Nat \ {0} /\ MaxKills \in Nat

Slot == 1..NPROC
initproc == 1

VARIABLES
  state, parent, chan, killed, pid,  \* struct proc
  lock,      \* p->lock: the process that holds it, or None
  cpu,       \* c->proc
  pc,        \* where each process is in the kernel
  np,        \* loop variable of wait and reparent
  havekids,  \* of wait
  opar,      \* original_parent of exit
  nextpid,
  kills      \* bound counter

table == <<state, parent, chan, killed, pid>>
local == <<np, havekids, opar>>
vars  == <<table, lock, cpu, pc, local, nextpid, kills>>

\* userinit
Init ==
  /\ state = [s \in Slot |-> IF s = initproc THEN "RUNNABLE" ELSE "UNUSED"]
  /\ parent = [s \in Slot |-> None] /\ chan = [s \in Slot |-> None]
  /\ killed = [s \in Slot |-> FALSE]
  /\ pid = [s \in Slot |-> IF s = initproc THEN 1 ELSE 0]
  /\ lock = [s \in Slot |-> None]
  /\ cpu = [c \in CPU |-> None]
  /\ pc = [s \in Slot |-> "user"]
  /\ np = [s \in Slot |-> 1] /\ havekids = [s \in Slot |-> FALSE]
  /\ opar = [s \in Slot |-> None]
  /\ nextpid = 2
  /\ kills = 0

Free(s) == lock[s] = None

At(p, l) == state[p] = "RUNNING" /\ pc[p] = l

\* A trap from user space gets past the tests of p->killed in usertrap.
InSyscall(p) == At(p, "user") /\ ~killed[p]

Goto(p, l) == pc' = [pc EXCEPT ![p] = l]

\* mutant: the loop skips slots
AdvanceTwice(k) == k + 2

\* np++, pp++
Advance(k) == k + 1

-----------------------------------------------------------------------------
(* fork: allocproc finds an unused slot and holds its lock to the end. *)

\* allocproc does not touch killed, which freeproc has cleared.
Fork(p) ==
  /\ InSyscall(p) /\ nextpid <= MaxPid
  /\ \E s \in Slot :
       /\ state[s] = "UNUSED" /\ Free(s)
       /\ state' = [state EXCEPT ![s] = "RUNNABLE"]
       /\ parent' = [parent EXCEPT ![s] = p]
       /\ pid' = [pid EXCEPT ![s] = nextpid]
       /\ Goto(s, "user")
  /\ nextpid' = nextpid + 1
  /\ UNCHANGED <<chan, killed, lock, cpu, local, kills>>

\* freeproc
Cleared(s) ==
  /\ state' = [state EXCEPT ![s] = "UNUSED"]
  /\ parent' = [parent EXCEPT ![s] = None]
  /\ chan' = [chan EXCEPT ![s] = None]
  /\ killed' = [killed EXCEPT ![s] = FALSE]
  /\ pid' = [pid EXCEPT ![s] = 0]

\* No memory for the trapframe: the slot keeps its new pid.  No memory for the
\* page table or the user's pages: freeproc clears the slot.
ForkFails(p) ==
  /\ InSyscall(p) /\ OutOfMem /\ nextpid <= MaxPid
  /\ \E s \in Slot :
       /\ state[s] = "UNUSED" /\ Free(s)
       /\ \/ /\ pid' = [pid EXCEPT ![s] = nextpid]
             /\ UNCHANGED <<state, parent, chan, killed>>
          \/ Cleared(s)
  /\ nextpid' = nextpid + 1
  /\ UNCHANGED <<lock, cpu, pc, local, kills>>

-----------------------------------------------------------------------------
(* exit *)

\* wakeup1(s)
Wakeup1(s) ==
  IF state[s] = "SLEEPING" /\ chan[s] = s
  THEN [state EXCEPT ![s] = "RUNNABLE"] ELSE state

\* exit is called, by the process or by usertrap for a killed one.
Exit(p) ==
  /\ At(p, "user") /\ p # initproc
  /\ Goto(p, "exit_init")
  /\ UNCHANGED <<table, lock, cpu, local, nextpid, kills>>

\* "so wake up init whether that's necessary or not"
ExitWakeInit(p) ==
  /\ At(p, "exit_init") /\ Free(initproc)
  /\ state' = Wakeup1(initproc)
  /\ Goto(p, "exit_copy")
  /\ UNCHANGED <<parent, chan, killed, pid, lock, cpu, local, nextpid, kills>>

\* mutant: p->lock is still held when the parent's lock is taken
CopyKeepsLock(p) == [lock EXCEPT ![p] = p]

CopyReleases(p) == lock

\* "grab a copy of p->parent", with p->lock held meanwhile only.
ExitCopyParent(p) ==
  /\ At(p, "exit_copy") /\ Free(p)
  /\ opar' = [opar EXCEPT ![p] = parent[p]]
  /\ lock' = CopyReleases(p)
  /\ Goto(p, "exit_lock")
  /\ UNCHANGED <<table, cpu, np, havekids, nextpid, kills>>

ExitLockParent(p) ==
  /\ At(p, "exit_lock") /\ Free(opar[p])
  /\ lock' = [lock EXCEPT ![opar[p]] = p]
  /\ Goto(p, "exit_self")
  /\ UNCHANGED <<table, cpu, local, nextpid, kills>>

ExitLockSelf(p) ==
  /\ At(p, "exit_self") /\ Free(p)
  /\ lock' = [lock EXCEPT ![p] = p]
  /\ np' = [np EXCEPT ![p] = 1]
  /\ Goto(p, "reparent")
  /\ UNCHANGED <<table, cpu, havekids, opar, nextpid, kills>>

\* mutant: only living children are given away
AbandonedAlive(p, s) == parent[s] = p /\ state[s] # "ZOMBIE"

Abandoned(p, s) == parent[s] = p

\* reparent: one turn of its loop.  The test comes before the acquire and is one
\* step with it, here and in wait: "only the parent changes it" (line 317).
Reparent(p) ==
  /\ At(p, "reparent") /\ np[p] <= NPROC
  /\ IF Abandoned(p, np[p])
     THEN /\ Free(np[p])
          /\ parent' = [parent EXCEPT ![np[p]] = initproc]
     ELSE UNCHANGED parent
  /\ np' = [np EXCEPT ![p] = Advance(@)]
  /\ UNCHANGED <<state, chan, killed, pid, lock, cpu, pc, havekids, opar, nextpid,
                 kills>>

\* mutant: the parent is not woken
ExitWakesNobody(p) == state

ExitWakes(p) == Wakeup1(opar[p])

\* Wakes the parent, becomes a zombie and enters sched() with p->lock held.
ExitZombie(p) ==
  /\ At(p, "reparent") /\ np[p] > NPROC
  /\ state' = [ExitWakes(p) EXCEPT ![p] = "ZOMBIE"]
  /\ lock' = [lock EXCEPT ![opar[p]] = None]
  /\ Goto(p, "dead")
  /\ UNCHANGED <<parent, chan, killed, pid, cpu, local, nextpid, kills>>

-----------------------------------------------------------------------------
(* wait *)

Wait(p) ==
  /\ InSyscall(p) /\ Free(p)
  /\ lock' = [lock EXCEPT ![p] = p]
  /\ np' = [np EXCEPT ![p] = 1]
  /\ havekids' = [havekids EXCEPT ![p] = FALSE]
  /\ Goto(p, "wait")
  /\ UNCHANGED <<table, cpu, opar, nextpid, kills>>

\* mutant: looks at the child without taking its lock
ChildLockedUnlocked(s) == TRUE

\* acquire(&np->lock)
ChildLocked(s) == Free(s)

\* One turn of wait's loop over the table.
WaitScan(p) ==
  /\ At(p, "wait") /\ np[p] <= NPROC
  /\ IF parent[np[p]] # p
     THEN np' = [np EXCEPT ![p] = Advance(@)] /\ UNCHANGED <<table, lock, pc, havekids>>
     ELSE /\ ChildLocked(np[p])
          /\ IF state[np[p]] = "ZOMBIE"
             THEN /\ Cleared(np[p])
                  /\ lock' = [lock EXCEPT ![p] = None]
                  /\ Goto(p, "user")
                  /\ UNCHANGED <<np, havekids>>
             ELSE /\ havekids' = [havekids EXCEPT ![p] = TRUE]
                  /\ np' = [np EXCEPT ![p] = Advance(@)]
                  /\ UNCHANGED <<table, lock, pc>>
  /\ UNCHANGED <<cpu, opar, nextpid, kills>>

\* The status cannot be copied out: the zombie stays.
WaitFault(p) ==
  /\ At(p, "wait") /\ np[p] <= NPROC
  /\ parent[np[p]] = p /\ state[np[p]] = "ZOMBIE" /\ Free(np[p])
  /\ p # initproc
  /\ lock' = [lock EXCEPT ![p] = None]
  /\ Goto(p, "user")
  /\ UNCHANGED <<table, cpu, local, nextpid, kills>>

\* mutant: a killed process goes on waiting
WaitGivesUpNoKids(p) == ~havekids[p]

WaitGivesUp(p) == ~havekids[p] \/ killed[p]

\* The end of the scan: return -1, or sleep(p, &p->lock) and try again.
WaitEnd(p) ==
  /\ At(p, "wait") /\ np[p] > NPROC
  /\ IF WaitGivesUp(p)
     THEN /\ lock' = [lock EXCEPT ![p] = None]
          /\ Goto(p, "user")
          /\ UNCHANGED <<state, chan>>
     ELSE /\ chan' = [chan EXCEPT ![p] = p]
          /\ state' = [state EXCEPT ![p] = "SLEEPING"]
          /\ Goto(p, "wait_sleep")
          /\ UNCHANGED lock
  /\ UNCHANGED <<parent, killed, pid, cpu, local, nextpid, kills>>

-----------------------------------------------------------------------------
(* sleep and wakeup in other system calls, kill, yield *)

Other == 0   \* a channel that is no process

SleepOther(p) ==
  /\ InSyscall(p) /\ p \in Sleepers /\ Free(p)
  /\ lock' = [lock EXCEPT ![p] = p]
  /\ chan' = [chan EXCEPT ![p] = Other]
  /\ state' = [state EXCEPT ![p] = "SLEEPING"]
  /\ Goto(p, "sleep")
  /\ UNCHANGED <<parent, killed, pid, cpu, local, nextpid, kills>>

\* One turn of wakeup(Other)'s loop, called by an interrupt handler.
Wakeup(s) ==
  /\ Free(s) /\ state[s] = "SLEEPING" /\ chan[s] = Other
  /\ state' = [state EXCEPT ![s] = "RUNNABLE"]
  /\ UNCHANGED <<parent, chan, killed, pid, lock, cpu, pc, local, nextpid, kills>>

\* kill(i) reaches slot s: whatever the state of the slot.
Kill(s) ==
  /\ kills < MaxKills /\ pid[s] \in KillPids /\ Free(s)
  /\ killed' = [killed EXCEPT ![s] = TRUE]
  /\ state' = IF state[s] = "SLEEPING" THEN [state EXCEPT ![s] = "RUNNABLE"] ELSE state
  /\ kills' = kills + 1
  /\ UNCHANGED <<parent, chan, pid, lock, cpu, pc, local, nextpid>>

\* Preemption by the timer, in user space or where no lock is held.
Yield(p) ==
  /\ p \in Preemptible
  /\ state[p] = "RUNNING" /\ \A s \in Slot : lock[s] # p
  /\ Free(p) /\ (pc[p] = "user" => ~killed[p])
  /\ lock' = [lock EXCEPT ![p] = p]
  /\ state' = [state EXCEPT ![p] = "RUNNABLE"]
  /\ UNCHANGED <<parent, chan, killed, pid, cpu, pc, local, nextpid, kills>>

-----------------------------------------------------------------------------
(* the scheduler of CPU c *)

\* The process releases its lock, except in wait, whose sleep() keeps it.
Run(c, p) ==
  /\ cpu[c] = None /\ Free(p) /\ state[p] = "RUNNABLE"
  /\ state' = [state EXCEPT ![p] = "RUNNING"]
  /\ cpu' = [cpu EXCEPT ![c] = p]
  /\ chan' = [chan EXCEPT ![p] = None]
  /\ IF pc[p] = "wait_sleep"
     THEN /\ lock' = [lock EXCEPT ![p] = p]
          /\ np' = [np EXCEPT ![p] = 1]
          /\ havekids' = [havekids EXCEPT ![p] = FALSE]
          /\ Goto(p, "wait")
     ELSE /\ Goto(p, IF pc[p] = "sleep" THEN "user" ELSE pc[p])
          /\ UNCHANGED <<lock, np, havekids>>
  /\ UNCHANGED <<parent, killed, pid, opar, nextpid, kills>>

\* sched() has switched to the scheduler, which releases p->lock.
SwitchOut(c) ==
  /\ cpu[c] # None /\ state[cpu[c]] # "RUNNING" /\ lock[cpu[c]] = cpu[c]
  /\ lock' = [lock EXCEPT ![cpu[c]] = None]
  /\ cpu' = [cpu EXCEPT ![c] = None]
  /\ UNCHANGED <<table, pc, local, nextpid, kills>>

-----------------------------------------------------------------------------
ExitStep(p) ==
  \/ ExitWakeInit(p) \/ ExitCopyParent(p) \/ ExitLockParent(p) \/ ExitLockSelf(p)
  \/ Reparent(p) \/ ExitZombie(p)

WaitStep(p) == WaitScan(p) \/ WaitEnd(p)

Next ==
  \/ \E p \in Slot :
       \/ Fork(p) \/ ForkFails(p) \/ Exit(p) \/ ExitStep(p)
       \/ Wait(p) \/ WaitStep(p) \/ WaitFault(p)
       \/ SleepOther(p) \/ Wakeup(p) \/ Kill(p) \/ Yield(p)
  \/ \E c \in CPU : SwitchOut(c) \/ \E p \in Slot : Run(c, p)

Spec == Init /\ [][Next]_vars

-----------------------------------------------------------------------------
\* Type invariant.
TypeOK ==
  /\ state \in [Slot -> {"UNUSED", "SLEEPING", "RUNNABLE", "RUNNING", "ZOMBIE"}]
  /\ parent \in [Slot -> Slot \cup {None}] /\ opar \in [Slot -> Slot \cup {None}]
  /\ chan \in [Slot -> Slot \cup {None, Other}]
  /\ killed \in [Slot -> BOOLEAN] /\ havekids \in [Slot -> BOOLEAN]
  /\ pid \in [Slot -> 0..MaxPid] /\ nextpid \in 1..(MaxPid + 1)
  /\ lock \in [Slot -> Slot \cup {None}]
  /\ cpu \in [CPU -> Slot \cup {None}]
  /\ pc \in [Slot -> {"user", "exit_init", "exit_copy", "exit_lock", "exit_self",
                       "reparent", "dead", "wait", "wait_sleep", "sleep"}]
  /\ np \in [Slot -> 1..(NPROC + 1)]
  /\ kills \in 0..MaxKills

\* A kernel stack is in use by one CPU at most, and by none once wait() has
\* freed its process: a zombie holds its lock until the scheduler has left its
\* stack (exit line 391, wait line 418, scheduler line 484).
StackExclusive ==
  /\ \A c, d \in CPU : cpu[c] = cpu[d] /\ cpu[c] # None => c = d
  /\ \A c \in CPU : cpu[c] # None => state[cpu[c]] # "UNUSED"

\* A dead or freed process has no children left: reparent has given them all
\* to init, those a racing exit leaves as zombies included.
NoOrphans ==
  \A s \in Slot : state[s] \in {"ZOMBIE", "UNUSED"} =>
    \A t \in Slot : state[t] # "UNUSED" => parent[t] # s

\* The process table at every moment: kernel stacks are used by one CPU and
\* every process has a living parent (exit, reparent, freeproc, scheduler).
TableSound == TypeOK /\ StackExclusive /\ NoOrphans

\* "hold p->lock for the whole time to avoid lost wakeups from a child's exit()"
\* (wait line 404): a process other than init never sleeps in wait() while it
\* has a zombie child.  init may: reparent gives it children that have already
\* copied another parent to wake (lines 321-324).
NoMissedExit ==
  \A p \in Slot \ {initproc} :
    state[p] = "SLEEPING" /\ pc[p] = "wait_sleep" =>
      \A t \in Slot : parent[t] = p => state[t] # "ZOMBIE"

\* The lock a process spins for.
Wants(p) ==
  IF state[p] # "RUNNING" THEN None
  ELSE CASE pc[p] = "exit_init" -> initproc
         [] pc[p] \in {"exit_copy", "exit_self"} -> p
         [] pc[p] = "exit_lock" -> opar[p]
         [] pc[p] \in {"reparent", "wait"} /\ np[p] <= NPROC ->
              (IF parent[np[p]] = p THEN np[p] ELSE None)
         [] OTHER -> None

\* "the result will be a harmless spurious wakeup to a dead or wrong process"
\* (exit line 366): no processes wait for each other's locks in a circle.
NoCircularWait ==
  \A S \in SUBSET Slot \ {{}} :
    \E p \in S : Wants(p) = None \/ lock[Wants(p)] \notin S

\* p holds the lock of a process that was its parent and no longer is: reparent
\* has given p to init since "grab a copy of p->parent" (exit lines 364-373).
HoldsFormerParent(p) == pc[p] \in {"exit_self", "reparent"} /\ opar[p] # parent[p]

\* "The parent-then-child rule says we have to lock it first" (exit line 370):
\* processes that exit and wait never spin for each other's locks in a circle,
\* unless one of them holds the lock of its former parent.
ParentThenChild ==
  \A S \in SUBSET Slot \ {{}} :
    (\A p \in S : Wants(p) # None /\ lock[Wants(p)] \in S) =>
      \E p \in S : HoldsFormerParent(p)

\* No process sleeps in wait() once it is killed: wait tests killed with
\* p->lock held up to the sleep, and kill wakes a sleeper under the same lock.
KilledLeavesWait ==
  \A p \in Slot : pc[p] = "wait_sleep" /\ killed[p] => state[p] # "SLEEPING"

\* Nobody sleeps in wait() with a reason to be awake: a zombie child, or a kill
\* (wait lines 404-442, exit line 383, kill line 626).
WaitersHaveReason == NoMissedExit /\ KilledLeavesWait
=============================================================================
