----------------------------- MODULE ProcProofs -----------------------------
(***************************************************************************)
(* Proofs about Proc, for every size of the process table and every number *)
(* of CPUs.                                                                *)
(***************************************************************************)
EXTENDS Proc, TLAPS

\* The control states of a process inside exit, from its first wakeup to the end
\* of reparent.
Exiting == {"exit_init", "exit_copy", "exit_lock", "exit_self", "reparent"}

\* init lives for ever and has no parent; every other process has one, and it is
\* not the process itself (fork, reparent, freeproc).
Family ==
  /\ parent[initproc] = None /\ state[initproc] \notin {"UNUSED", "ZOMBIE"}
  /\ \A s \in Slot :
       /\ parent[s] # s
       /\ state[s] = "UNUSED" => parent[s] = None
       /\ s # initproc /\ state[s] # "UNUSED" => parent[s] \in Slot

\* How the state of a slot and the place its process has reached go together.
Placed ==
  \A p \in Slot :
    /\ pc[p] \in Exiting => p # initproc
    /\ state[p] = "ZOMBIE" => pc[p] = "dead"
    /\ state[p] = "UNUSED" => pc[p] \in {"user", "dead"}
    /\ pc[p] \in {"wait", "exit_self", "reparent"} => state[p] = "RUNNING"
    /\ state[p] = "SLEEPING" /\ pc[p] = "wait_sleep" => chan[p] = p

\* exit locks the parent it read without a lock (proc.c, original_parent): since
\* then the process was given to init at most.
ParentCopied ==
  \A p \in Slot : pc[p] \in {"exit_lock", "exit_self", "reparent"} =>
    opar[p] \in Slot \ {p} /\ parent[p] \in {opar[p], initproc}

\* wait holds its own lock while it scans, exit holds its old parent's and then
\* its own.
LocksHeld ==
  \A p \in Slot :
    /\ pc[p] \in {"wait", "reparent"} => lock[p] = p
    /\ pc[p] \in {"exit_self", "reparent"} => lock[opar[p]] = p

\* A process on a CPU is running, or is on its way to the scheduler and still
\* holds its lock.
OnCpu == \A c \in CPU : cpu[c] # None => state[cpu[c]] = "RUNNING" \/ lock[cpu[c]] = cpu[c]

\* reparent has given away the children in the slots it has passed.
GivenAway == \A p \in Slot : pc[p] = "reparent" => \A t \in Slot : t < np[p] => parent[t] # p

\* wait has seen no zombie child in the slots it has passed, and none has become
\* one since: exit needs the lock wait holds.  init is the exception, since
\* reparent gives it zombies without its lock.
Scanned == \A p \in Slot \ {initproc} : pc[p] = "wait" =>
    \A t \in Slot : t < np[p] /\ parent[t] = p => state[t] # "ZOMBIE"

\* The inductive invariant.
TInv ==
  /\ TableSound /\ WaitersHaveReason /\ Family /\ Placed /\ ParentCopied
  /\ LocksHeld /\ OnCpu /\ GivenAway /\ Scanned

\* None and Other are not slots.
LEMMA SlotFacts == initproc \in Slot /\ None \notin Slot /\ Other \notin Slot /\ None \notin CPU
BY ProcAssumption DEF Slot, initproc, Other

\* A CPU that is not idle runs a slot of the table.
LEMMA OnSlot == TInv => \A c \in CPU : cpu[c] # None => cpu[c] \in Slot
BY Zenon DEF TInv, TableSound, TypeOK

\* A step that reparents nobody, frees and allocates no slot and leaves init
\* alone keeps the family tree.
LEMMA FamilyKept ==
  ASSUME TInv, UNCHANGED parent, NEW p \in Slot, state[p] # "UNUSED",
         state'[p] # "UNUSED",
         p = initproc => state'[p] # "ZOMBIE",
         \A q \in Slot : q # p => state'[q] = state[q]
  PROVE  Family'
<1>1. parent[initproc] = None /\ state'[initproc] \notin {"UNUSED", "ZOMBIE"}
  BY SlotFacts, Zenon DEF TInv, Family
<1>2. ASSUME NEW s \in Slot
      PROVE  /\ parent[s] # s
             /\ state'[s] = "UNUSED" => parent[s] = None
             /\ s # initproc /\ state'[s] # "UNUSED" => parent[s] \in Slot
  <2>1. CASE s = p
    BY <2>1, Zenon DEF TInv, Family
  <2>2. CASE s # p
    <3>1. state'[s] = state[s]
      BY <2>2, Zenon
    <3> QED
      BY <3>1, Zenon DEF TInv, Family
  <2> QED
    BY <2>1, <2>2, Zenon
<1> QED
  BY <1>1, <1>2, Zenon DEF Family

\* A step that moves one process keeps the places of the others.
LEMMA PlacedKept ==
  ASSUME TInv, NEW p \in Slot,
         \A q \in Slot : q # p => state'[q] = state[q] /\ pc'[q] = pc[q] /\ chan'[q] = chan[q],
         pc'[p] \in Exiting => p # initproc,
         state'[p] = "ZOMBIE" => pc'[p] = "dead",
         state'[p] = "UNUSED" => pc'[p] \in {"user", "dead"},
         pc'[p] \in {"wait", "exit_self", "reparent"} => state'[p] = "RUNNING",
         state'[p] = "SLEEPING" /\ pc'[p] = "wait_sleep" => chan'[p] = p
  PROVE  Placed'
<1> SUFFICES ASSUME NEW q \in Slot
             PROVE  /\ pc'[q] \in Exiting => q # initproc
                    /\ state'[q] = "ZOMBIE" => pc'[q] = "dead"
                    /\ state'[q] = "UNUSED" => pc'[q] \in {"user", "dead"}
                    /\ pc'[q] \in {"wait", "exit_self", "reparent"} => state'[q] = "RUNNING"
                    /\ state'[q] = "SLEEPING" /\ pc'[q] = "wait_sleep" => chan'[q] = q
  BY Zenon DEF Placed
<1>1. CASE q = p
  BY <1>1, Zenon
<1>2. CASE q # p
  <2>1. state'[q] = state[q] /\ pc'[q] = pc[q] /\ chan'[q] = chan[q]
    BY <1>2, Zenon
  <2> QED
    BY <2>1, Zenon DEF TInv, Placed
<1> QED
  BY <1>1, <1>2, Zenon

\* A step that neither makes a slot unused or a zombie nor uses a new one leaves
\* no orphans.
LEMMA NoOrphansKept ==
  ASSUME TInv, parent' = parent,
         \A q \in Slot : state'[q] \in {"ZOMBIE", "UNUSED"} => state[q] \in {"ZOMBIE", "UNUSED"},
         \A q \in Slot : state[q] = "UNUSED" => state'[q] = "UNUSED"
  PROVE  NoOrphans'
<1> SUFFICES ASSUME NEW s \in Slot, state'[s] \in {"ZOMBIE", "UNUSED"},
                    NEW t \in Slot, state'[t] # "UNUSED"
             PROVE  parent[t] # s
  BY Zenon DEF NoOrphans
<1>1. state[t] # "UNUSED" /\ state[s] \in {"ZOMBIE", "UNUSED"}
  BY Zenon
<1> QED
  BY <1>1, Zenon DEF TInv, TableSound, NoOrphans

\* A step that puts nobody to sleep in wait and adds no zombie to the children
\* of a process other than init keeps NoMissedExit.
LEMMA NoMissedExitKept ==
  ASSUME TInv,
         \A q \in Slot \ {initproc} : state'[q] = "SLEEPING" /\ pc'[q] = "wait_sleep"
           => state[q] = "SLEEPING" /\ pc[q] = "wait_sleep",
         \A q \in Slot \ {initproc}, t \in Slot : parent'[t] = q /\ state'[t] = "ZOMBIE"
           => parent[t] = q /\ state[t] = "ZOMBIE"
  PROVE  NoMissedExit'
<1> SUFFICES ASSUME NEW q \in Slot \ {initproc}, state'[q] = "SLEEPING", pc'[q] = "wait_sleep",
                    NEW t \in Slot, parent'[t] = q, state'[t] = "ZOMBIE"
             PROVE  FALSE
  BY Zenon DEF NoMissedExit
<1>1. state[q] = "SLEEPING" /\ pc[q] = "wait_sleep"
  BY Zenon
<1>2. parent[t] = q /\ state[t] = "ZOMBIE"
  BY Zenon
<1> QED
  BY <1>1, <1>2, Zenon DEF TInv, WaitersHaveReason, NoMissedExit

\* What holds when exit has finished reparent: it has no children left, and no
\* parent but init is in the middle of a scan.
LEMMA Zombie ==
  ASSUME TInv, NEW p \in Slot, At(p, "reparent"), np[p] > NPROC
  PROVE  /\ opar[p] \in Slot \ {p} /\ parent[p] \in {opar[p], initproc}
         /\ lock[opar[p]] = p /\ lock[p] = p /\ p # initproc
         /\ \A t \in Slot : parent[t] # p
         /\ \A q \in Slot \ {initproc} : pc[q] = "wait" => parent[p] # q
<1>1. /\ opar[p] \in Slot \ {p} /\ parent[p] \in {opar[p], initproc}
      /\ lock[opar[p]] = p /\ lock[p] = p /\ p # initproc
  BY Zenon DEF At, TInv, ParentCopied, LocksHeld, Placed, Exiting
<1>2. \A t \in Slot : t < np[p]
  BY ProcAssumption DEF Slot, TInv, TableSound, TypeOK
<1>3. \A t \in Slot : parent[t] # p
  BY <1>2, Zenon DEF At, TInv, GivenAway
<1>4. \A q \in Slot \ {initproc} : pc[q] = "wait" => parent[p] # q
  BY <1>1, Zenon DEF TInv, LocksHeld
<1> QED
  BY <1>1, <1>3, <1>4, Zenon

\* userinit establishes the invariant.
LEMMA InitTInv == Init => TInv
BY ProcAssumption DEF Init, Slot, initproc, Exiting, TInv, TableSound,
   WaitersHaveReason, TypeOK, StackExclusive, NoOrphans, NoMissedExit,
   KilledLeavesWait, Family, Placed, ParentCopied, LocksHeld, OnCpu, GivenAway,
   Scanned

\* fork succeeds.
LEMMA ForkKeeps ==
  ASSUME TInv, NEW p \in Slot, Fork(p)
  PROVE  TInv'
<1>1. PICK s \in Slot :
      /\ state[p] = "RUNNING" /\ pc[p] = "user" /\ state[s] = "UNUSED"
      /\ lock[s] = None
      /\ \A q \in Slot : state'[q] = IF q = s THEN "RUNNABLE" ELSE state[q]
      /\ \A q \in Slot : parent'[q] = IF q = s THEN p ELSE parent[q]
      /\ \A q \in Slot : pid'[q] = IF q = s THEN nextpid ELSE pid[q]
      /\ \A q \in Slot : pc'[q] = IF q = s THEN "user" ELSE pc[q]
      /\ nextpid' = nextpid + 1 /\ nextpid <= MaxPid
      /\ UNCHANGED <<chan, killed, lock, cpu, np, havekids, opar, kills>>
  BY Zenon DEF TInv, TableSound, TypeOK, Fork, InSyscall, At, Free, Goto, local
<1>2. TypeOK'
  BY <1>1, ProcAssumption DEF TInv, TableSound, TypeOK, Fork, Goto
<1>3. StackExclusive'
  BY <1>1, OnSlot DEF TInv, TableSound, StackExclusive
<1>4. NoOrphans'
  BY <1>1 DEF TInv, TableSound, NoOrphans
<1>5. NoMissedExit'
  BY <1>1 DEF TInv, WaitersHaveReason, NoMissedExit
<1>6. KilledLeavesWait'
  BY <1>1, Zenon DEF TInv, WaitersHaveReason, KilledLeavesWait
<1>7. Family'
  BY <1>1, SlotFacts DEF TInv, Family
<1>8. Placed'
  BY <1>1 DEF TInv, Placed, Exiting
<1>9. ParentCopied'
  BY <1>1, Zenon DEF TInv, ParentCopied
<1>10. LocksHeld'
  BY <1>1, Zenon DEF TInv, LocksHeld
<1>11. OnCpu'
  BY <1>1, OnSlot, Zenon DEF TInv, OnCpu
<1>12. GivenAway'
  BY <1>1 DEF TInv, GivenAway
<1>13. Scanned'
  BY <1>1, Zenon DEF TInv, Scanned
<1> QED
  BY <1>2, <1>3, <1>4, <1>5, <1>6, <1>7, <1>8, <1>9, <1>10, <1>11, <1>12, <1>13,
     Zenon DEF TInv, TableSound, WaitersHaveReason

\* fork fails in allocproc before the slot is cleared.
LEMMA ForkHalfway ==
  ASSUME TInv, NEW p \in Slot, NEW s \in Slot, InSyscall(p), nextpid <= MaxPid,
         state[s] = "UNUSED", pid' = [pid EXCEPT ![s] = nextpid], nextpid' = nextpid + 1,
         UNCHANGED <<state, parent, chan, killed, lock, cpu, pc, local, kills>>
  PROVE  TInv'
<1>1. /\ \A q \in Slot : pid'[q] = IF q = s THEN nextpid ELSE pid[q]
      /\ nextpid' = nextpid + 1 /\ nextpid <= MaxPid
      /\ UNCHANGED <<state, parent, chan, killed, lock, cpu, pc, np, havekids, opar,
                kills>>
  BY Zenon DEF TInv, TableSound, TypeOK, local
<1>2. TypeOK'
  BY <1>1, ProcAssumption DEF TInv, TableSound, TypeOK
<1>3. StackExclusive' /\ NoOrphans' /\ NoMissedExit' /\ KilledLeavesWait'
  BY Zenon DEF TInv, TableSound, WaitersHaveReason, StackExclusive, NoOrphans,
     NoMissedExit, KilledLeavesWait
<1>4. Family' /\ Placed' /\ ParentCopied' /\ LocksHeld' /\ OnCpu' /\ GivenAway' /\ Scanned'
  BY <1>1 DEF TInv, Family, Placed, ParentCopied, LocksHeld, OnCpu, GivenAway,
     Scanned
<1> QED
  BY <1>2, <1>3, <1>4, Zenon DEF TInv, TableSound, WaitersHaveReason

\* fork fails in uvmcopy and freeproc clears the slot.
LEMMA ForkUndone ==
  ASSUME TInv, NEW p \in Slot, NEW s \in Slot, InSyscall(p), nextpid <= MaxPid,
         state[s] = "UNUSED", Cleared(s), nextpid' = nextpid + 1,
         UNCHANGED <<lock, cpu, pc, local, kills>>
  PROVE  TInv'
<1>0. /\ state[s] = "UNUSED"
  BY Zenon
<1>1. /\ \A q \in Slot : state'[q] = IF q = s THEN "UNUSED" ELSE state[q]
      /\ \A q \in Slot : parent'[q] = IF q = s THEN None ELSE parent[q]
      /\ \A q \in Slot : chan'[q] = IF q = s THEN None ELSE chan[q]
      /\ \A q \in Slot : killed'[q] = IF q = s THEN FALSE ELSE killed[q]
      /\ \A q \in Slot : pid'[q] = IF q = s THEN 0 ELSE pid[q]
      /\ nextpid' = nextpid + 1 /\ nextpid <= MaxPid
      /\ UNCHANGED <<lock, cpu, pc, np, havekids, opar, kills>>
  BY Zenon DEF TInv, TableSound, TypeOK, Cleared, local
<1>2. TypeOK'
  BY <1>1, ProcAssumption DEF TInv, TableSound, TypeOK, Cleared
<1>3. StackExclusive'
  BY <1>1, OnSlot DEF TInv, TableSound, StackExclusive
<1>4. NoOrphans'
  BY <1>1, Zenon DEF TInv, TableSound, NoOrphans
<1>5. NoMissedExit'
  BY <1>1 DEF TInv, WaitersHaveReason, NoMissedExit
<1>6. KilledLeavesWait'
  BY <1>1, Zenon DEF TInv, WaitersHaveReason, KilledLeavesWait
<1>7. Family'
  <2>a. parent[s] = None
    BY <1>0, Zenon DEF TInv, Family
  <2>1. \A q \in Slot : state'[q] = state[q] /\ parent'[q] = parent[q]
    BY <1>0, <1>1, <2>a, Zenon
  <2>2. Family
    BY Zenon DEF TInv
  <2> QED
    BY <2>1, <2>2, SlotFacts, Zenon DEF Family
<1>8. Placed'
  BY <1>1 DEF TInv, Placed
<1>9. ParentCopied'
  BY <1>1, Zenon DEF TInv, ParentCopied, Placed
<1>10. OnCpu'
  BY <1>1, OnSlot DEF TInv, OnCpu
<1>11. GivenAway'
  BY <1>1, SlotFacts DEF TInv, GivenAway
<1>12. Scanned'
  BY <1>1 DEF TInv, Scanned
<1>13. LocksHeld'
  BY <1>1, Zenon DEF TInv, LocksHeld
<1> QED
  BY <1>2, <1>3, <1>4, <1>5, <1>6, <1>7, <1>8, <1>9, <1>10, <1>11, <1>12, <1>13,
     Zenon DEF TInv, TableSound, WaitersHaveReason

\* exit begins.
LEMMA ExitKeeps ==
  ASSUME TInv, NEW p \in Slot, Exit(p)
  PROVE  TInv'
<1>0. /\ state[p] = "RUNNING" /\ pc[p] = "user" /\ p # initproc
  BY Zenon DEF Exit, At
<1>1. /\ \A q \in Slot : pc'[q] = IF q = p THEN "exit_init" ELSE pc[q]
      /\ UNCHANGED <<state, parent, chan, killed, pid, lock, cpu, np, havekids, opar,
                nextpid, kills>>
  BY Zenon DEF TInv, TableSound, TypeOK, Exit, Goto, table, local
<1>2. TypeOK'
  BY <1>1, Zenon DEF TInv, TableSound, TypeOK, Exit, Goto
<1>3. NoMissedExit'
  BY <1>1, Zenon DEF TInv, WaitersHaveReason, NoMissedExit
<1>4. KilledLeavesWait'
  BY <1>1, Zenon DEF TInv, WaitersHaveReason, KilledLeavesWait
<1>5. Placed'
  BY <1>0, <1>1, Zenon DEF TInv, Placed
<1>6. ParentCopied'
  BY <1>1, Zenon DEF TInv, ParentCopied
<1>7. LocksHeld'
  BY <1>1, Zenon DEF TInv, LocksHeld
<1>8. GivenAway'
  BY <1>1, Zenon DEF TInv, GivenAway
<1>9. Scanned'
  BY <1>1, Zenon DEF TInv, Scanned
<1>10. StackExclusive' /\ NoOrphans' /\ Family' /\ OnCpu'
  BY <1>1, Zenon DEF TInv, TableSound, StackExclusive, NoOrphans, Family, OnCpu
<1> QED
  BY <1>2, <1>3, <1>4, <1>5, <1>6, <1>7, <1>8, <1>9, <1>10, Zenon DEF TInv,
     TableSound, WaitersHaveReason

\* exit wakes init, which sleeps in wait.
LEMMA ExitWakesInit ==
  ASSUME TInv, NEW p \in Slot, ExitWakeInit(p), state[initproc] = "SLEEPING",
         chan[initproc] = initproc
  PROVE  TInv'
<1>0. /\ state[p] = "RUNNING" /\ pc[p] = "exit_init"
      /\ lock[initproc] = None /\ p # initproc
  BY Zenon DEF ExitWakeInit, At, Free
<1>1. /\ \A q \in Slot : state'[q] = IF q = initproc THEN "RUNNABLE" ELSE state[q]
      /\ \A q \in Slot : pc'[q] = IF q = p THEN "exit_copy" ELSE pc[q]
      /\ UNCHANGED <<parent, chan, killed, pid, lock, cpu, np, havekids, opar, nextpid,
                kills>>
  BY Zenon DEF TInv, TableSound, TypeOK, ExitWakeInit, Wakeup1, Goto, local
<1>2. TypeOK'
  BY <1>1, SlotFacts, Zenon DEF TInv, TableSound, TypeOK, ExitWakeInit, Wakeup1,
     Goto
<1>3. StackExclusive'
  BY <1>1, OnSlot, Zenon DEF TInv, TableSound, StackExclusive
<1>4. NoOrphans'
  BY <1>1, Zenon DEF TInv, TableSound, NoOrphans
<1>5. NoMissedExit'
  BY <1>1, Zenon DEF TInv, WaitersHaveReason, NoMissedExit
<1>6. KilledLeavesWait'
  BY <1>1, Zenon DEF TInv, WaitersHaveReason, KilledLeavesWait
<1>7. Family'
  BY <1>1, SlotFacts, Zenon DEF TInv, Family
<1>8. Placed'
  BY <1>0, <1>1, Zenon DEF TInv, Placed
<1>9. ParentCopied'
  BY <1>1, Zenon DEF TInv, ParentCopied
<1>10. LocksHeld'
  BY <1>1, Zenon DEF TInv, LocksHeld
<1>11. OnCpu'
  BY <1>1, OnSlot, Zenon DEF TInv, OnCpu
<1>12. GivenAway'
  BY <1>1, Zenon DEF TInv, GivenAway
<1>13. Scanned'
  BY <1>1, Zenon DEF TInv, Scanned
<1> QED
  BY <1>2, <1>3, <1>4, <1>5, <1>6, <1>7, <1>8, <1>9, <1>10, <1>11, <1>12, <1>13,
     Zenon DEF TInv, TableSound, WaitersHaveReason

\* exit finds init awake.
LEMMA ExitFindsInitAwake ==
  ASSUME TInv, NEW p \in Slot, ExitWakeInit(p),
         ~(state[initproc] = "SLEEPING" /\ chan[initproc] = initproc)
  PROVE  TInv'
<1>0. /\ state[p] = "RUNNING" /\ pc[p] = "exit_init"
  BY Zenon DEF ExitWakeInit, At
<1>1. /\ \A q \in Slot : pc'[q] = IF q = p THEN "exit_copy" ELSE pc[q]
      /\ UNCHANGED <<state, parent, chan, killed, pid, lock, cpu, np, havekids, opar,
                nextpid, kills>>
  BY Zenon DEF TInv, TableSound, TypeOK, ExitWakeInit, Wakeup1, Goto, local
<1>2. TypeOK'
  BY <1>1, Zenon DEF TInv, TableSound, TypeOK, ExitWakeInit, Goto
<1>3. NoMissedExit'
  BY <1>1, Zenon DEF TInv, WaitersHaveReason, NoMissedExit
<1>4. KilledLeavesWait'
  BY <1>1, Zenon DEF TInv, WaitersHaveReason, KilledLeavesWait
<1>5. Placed'
  BY <1>0, <1>1, Zenon DEF TInv, Placed, Exiting
<1>6. ParentCopied'
  BY <1>1, Zenon DEF TInv, ParentCopied
<1>7. LocksHeld'
  BY <1>1, Zenon DEF TInv, LocksHeld
<1>8. GivenAway'
  BY <1>1, Zenon DEF TInv, GivenAway
<1>9. Scanned'
  BY <1>1, Zenon DEF TInv, Scanned
<1>10. StackExclusive' /\ NoOrphans' /\ Family' /\ OnCpu'
  BY <1>1, Zenon DEF TInv, TableSound, StackExclusive, NoOrphans, Family, OnCpu
<1> QED
  BY <1>2, <1>3, <1>4, <1>5, <1>6, <1>7, <1>8, <1>9, <1>10, Zenon DEF TInv,
     TableSound, WaitersHaveReason

\* exit copies p->parent.
LEMMA ExitCopyParentKeeps ==
  ASSUME TInv, NEW p \in Slot, ExitCopyParent(p)
  PROVE  TInv'
<1>0. /\ state[p] = "RUNNING" /\ pc[p] = "exit_copy"
      /\ p # initproc /\ parent[p] \in Slot \ {p}
  BY Zenon DEF TInv, ExitCopyParent, At, Placed, Exiting, Family
<1>1. /\ \A q \in Slot : opar'[q] = IF q = p THEN parent[p] ELSE opar[q]
      /\ \A q \in Slot : pc'[q] = IF q = p THEN "exit_lock" ELSE pc[q]
      /\ UNCHANGED <<state, parent, chan, killed, pid, lock, cpu, np, havekids, nextpid,
                kills>>
  BY Zenon DEF TInv, TableSound, TypeOK, ExitCopyParent, CopyReleases, Goto,
     table
<1>2. TypeOK'
  BY <1>1, Zenon DEF TInv, TableSound, TypeOK, ExitCopyParent, Goto
<1>3. NoMissedExit'
  BY <1>1, Zenon DEF TInv, WaitersHaveReason, NoMissedExit
<1>4. KilledLeavesWait'
  BY <1>1, Zenon DEF TInv, WaitersHaveReason, KilledLeavesWait
<1>5. Placed'
  <2>1. \A q \in Slot : q # p => state'[q] = state[q] /\ pc'[q] = pc[q] /\ chan'[q] = chan[q]
    BY <1>1, Zenon
  <2>2. /\ pc'[p] \in Exiting => p # initproc
        /\ state'[p] = "ZOMBIE" => pc'[p] = "dead"
        /\ state'[p] = "UNUSED" => pc'[p] \in {"user", "dead"}
        /\ pc'[p] \in {"wait", "exit_self", "reparent"} => state'[p] = "RUNNING"
        /\ state'[p] = "SLEEPING" /\ pc'[p] = "wait_sleep" => chan'[p] = p
    BY <1>0, <1>1, Zenon DEF TInv, Placed, Exiting
  <2> QED
    BY <2>1, <2>2, PlacedKept, Zenon
<1>6. ParentCopied'
  BY <1>0, <1>1, Zenon DEF TInv, ParentCopied
<1>7. LocksHeld'
  BY <1>1, Zenon DEF TInv, LocksHeld
<1>8. GivenAway'
  BY <1>1, Zenon DEF TInv, GivenAway
<1>9. Scanned'
  BY <1>1, Zenon DEF TInv, Scanned
<1>10. StackExclusive' /\ NoOrphans' /\ Family' /\ OnCpu'
  BY <1>1 DEF TInv, TableSound, StackExclusive, NoOrphans, Family, OnCpu
<1> QED
  BY <1>2, <1>3, <1>4, <1>5, <1>6, <1>7, <1>8, <1>9, <1>10 DEF TInv, TableSound,
     WaitersHaveReason

\* exit locks the parent it copied.
LEMMA ExitLockParentKeeps ==
  ASSUME TInv, NEW p \in Slot, ExitLockParent(p)
  PROVE  TInv'
<1>0. /\ state[p] = "RUNNING" /\ pc[p] = "exit_lock" /\ opar[p] \in Slot
      /\ lock[opar[p]] = None
  BY Zenon DEF TInv, ExitLockParent, At, Free, ParentCopied
<1>1. /\ \A q \in Slot : lock'[q] = IF q = opar[p] THEN p ELSE lock[q]
      /\ \A q \in Slot : pc'[q] = IF q = p THEN "exit_self" ELSE pc[q]
      /\ UNCHANGED <<state, parent, chan, killed, pid, cpu, np, havekids, opar, nextpid,
                kills>>
  BY Zenon DEF TInv, TableSound, TypeOK, ExitLockParent, Goto, table, local
<1>2. TypeOK'
  BY <1>1, Zenon DEF TInv, TableSound, TypeOK, ExitLockParent, Goto
<1>3. NoMissedExit'
  BY <1>1, Zenon DEF TInv, WaitersHaveReason, NoMissedExit
<1>4. KilledLeavesWait'
  BY <1>1, Zenon DEF TInv, WaitersHaveReason, KilledLeavesWait
<1>5. Placed'
  <2>1. \A q \in Slot : q # p => state'[q] = state[q] /\ pc'[q] = pc[q] /\ chan'[q] = chan[q]
    BY <1>1, Zenon
  <2>2. /\ pc'[p] \in Exiting => p # initproc
        /\ state'[p] = "ZOMBIE" => pc'[p] = "dead"
        /\ state'[p] = "UNUSED" => pc'[p] \in {"user", "dead"}
        /\ pc'[p] \in {"wait", "exit_self", "reparent"} => state'[p] = "RUNNING"
        /\ state'[p] = "SLEEPING" /\ pc'[p] = "wait_sleep" => chan'[p] = p
    BY <1>0, <1>1, Zenon DEF TInv, Placed, Exiting
  <2> QED
    BY <2>1, <2>2, PlacedKept, Zenon
<1>6. ParentCopied'
  BY <1>0, <1>1, Zenon DEF TInv, ParentCopied
<1>7. LocksHeld'
  BY <1>0, <1>1, SlotFacts DEF TInv, LocksHeld, ParentCopied
<1>8. OnCpu'
  BY <1>0, <1>1, OnSlot, Zenon DEF TInv, OnCpu
<1>9. GivenAway'
  BY <1>1, Zenon DEF TInv, GivenAway
<1>10. Scanned'
  BY <1>1, Zenon DEF TInv, Scanned
<1>11. StackExclusive' /\ NoOrphans' /\ Family'
  BY <1>1, Zenon DEF TInv, TableSound, StackExclusive, NoOrphans, Family
<1> QED
  BY <1>2, <1>3, <1>4, <1>5, <1>6, <1>7, <1>8, <1>9, <1>10, <1>11, Zenon DEF
     TInv, TableSound, WaitersHaveReason

\* exit locks itself.
LEMMA ExitLockSelfKeeps ==
  ASSUME TInv, NEW p \in Slot, ExitLockSelf(p)
  PROVE  TInv'
<1>0. /\ state[p] = "RUNNING" /\ pc[p] = "exit_self" /\ lock[p] = None
      /\ \A t \in Slot : ~(t < 1)
  BY DEF ExitLockSelf, At, Free, Slot
<1>1. /\ \A q \in Slot : lock'[q] = IF q = p THEN p ELSE lock[q]
      /\ \A q \in Slot : np'[q] = IF q = p THEN 1 ELSE np[q]
      /\ \A q \in Slot : pc'[q] = IF q = p THEN "reparent" ELSE pc[q]
      /\ UNCHANGED <<state, parent, chan, killed, pid, cpu, havekids, opar, nextpid,
                kills>>
  BY Zenon DEF TInv, TableSound, TypeOK, ExitLockSelf, Goto, table
<1>2. TypeOK'
  BY <1>1, ProcAssumption DEF TInv, TableSound, TypeOK, ExitLockSelf, Goto
<1>3. NoMissedExit'
  BY <1>1, Zenon DEF TInv, WaitersHaveReason, NoMissedExit
<1>4. KilledLeavesWait'
  BY <1>1, Zenon DEF TInv, WaitersHaveReason, KilledLeavesWait
<1>5. Placed'
  <2>1. \A q \in Slot : q # p => state'[q] = state[q] /\ pc'[q] = pc[q] /\ chan'[q] = chan[q]
    BY <1>1, Zenon
  <2>2. /\ pc'[p] \in Exiting => p # initproc
        /\ state'[p] = "ZOMBIE" => pc'[p] = "dead"
        /\ state'[p] = "UNUSED" => pc'[p] \in {"user", "dead"}
        /\ pc'[p] \in {"wait", "exit_self", "reparent"} => state'[p] = "RUNNING"
        /\ state'[p] = "SLEEPING" /\ pc'[p] = "wait_sleep" => chan'[p] = p
    BY <1>0, <1>1, Zenon DEF TInv, Placed, Exiting
  <2> QED
    BY <2>1, <2>2, PlacedKept, Zenon
<1>6. ParentCopied'
  BY <1>0, <1>1, Zenon DEF TInv, ParentCopied
<1>7. LocksHeld'
  BY <1>0, <1>1, SlotFacts DEF TInv, LocksHeld, ParentCopied
<1>8. OnCpu'
  BY <1>1, OnSlot, Zenon DEF TInv, OnCpu
<1>9. GivenAway'
  BY <1>0, <1>1, Zenon DEF TInv, GivenAway
<1>10. Scanned'
  BY <1>1, Zenon DEF TInv, Scanned
<1>11. StackExclusive' /\ NoOrphans' /\ Family'
  BY <1>1, Zenon DEF TInv, TableSound, StackExclusive, NoOrphans, Family
<1> QED
  BY <1>2, <1>3, <1>4, <1>5, <1>6, <1>7, <1>8, <1>9, <1>10, <1>11 DEF TInv,
     TableSound, WaitersHaveReason

\* reparent gives a child to init.
LEMMA ReparentGives ==
  ASSUME TInv, NEW p \in Slot, Reparent(p), parent[np[p]] = p
  PROVE  TInv'
<1>0. /\ state[p] = "RUNNING" /\ pc[p] = "reparent" /\ np[p] \in Slot
      /\ parent[np[p]] = p
  BY ProcAssumption DEF TInv, TableSound, TypeOK, Reparent, At, Slot
<1>t. \A t \in Slot : t < np[p] + 1 => t < np[p] \/ t = np[p]
  BY <1>0, ProcAssumption DEF Slot
<1>1. /\ \A q \in Slot : parent'[q] = IF q = np[p] THEN initproc ELSE parent[q]
      /\ \A q \in Slot : np'[q] = IF q = p THEN np[p] + 1 ELSE np[q]
      /\ UNCHANGED <<state, chan, killed, pid, lock, cpu, pc, havekids, opar, nextpid,
                kills>>
  BY Zenon DEF TInv, TableSound, TypeOK, Reparent, Abandoned, Advance
<1>2. TypeOK'
  BY <1>1, SlotFacts, ProcAssumption DEF TInv, TableSound, TypeOK, Reparent
<1>3. NoOrphans'
  BY <1>1 DEF TInv, TableSound, NoOrphans, Family
<1>4. NoMissedExit'
  <2>1. \A q \in Slot \ {initproc} : state'[q] = "SLEEPING" /\ pc'[q] = "wait_sleep"
          => state[q] = "SLEEPING" /\ pc[q] = "wait_sleep"
    BY <1>1, Zenon
  <2>2. \A q \in Slot \ {initproc}, t \in Slot : parent'[t] = q /\ state'[t] = "ZOMBIE"
          => parent[t] = q /\ state[t] = "ZOMBIE"
    BY <1>1, Zenon
  <2> QED
    BY <2>1, <2>2, NoMissedExitKept, Zenon
<1>5. Family'
  BY <1>1, SlotFacts DEF TInv, Family
<1>6. ParentCopied'
  BY <1>1, Zenon DEF TInv, ParentCopied
<1>7. GivenAway'
  BY <1>0, <1>t, <1>1, SlotFacts DEF TInv, GivenAway, Placed, Exiting
<1>8. Scanned'
  BY <1>0, <1>1 DEF TInv, Scanned
<1>9. StackExclusive' /\ KilledLeavesWait' /\ Placed' /\ LocksHeld' /\ OnCpu'
  BY <1>1, Zenon DEF TInv, TableSound, WaitersHaveReason, StackExclusive,
     KilledLeavesWait, Placed, LocksHeld, OnCpu
<1> QED
  BY <1>2, <1>3, <1>4, <1>5, <1>6, <1>7, <1>8, <1>9, Zenon DEF TInv, TableSound,
     WaitersHaveReason

\* reparent passes a slot that is no child.
LEMMA ReparentPasses ==
  ASSUME TInv, NEW p \in Slot, Reparent(p), parent[np[p]] # p
  PROVE  TInv'
<1>0. /\ state[p] = "RUNNING" /\ pc[p] = "reparent" /\ np[p] \in Slot
      /\ parent[np[p]] # p
      /\ \A t \in Slot : t < np[p] + 1 => t < np[p] \/ t = np[p]
  BY DEF TInv, TableSound, TypeOK, Reparent, At, Slot
<1>1. /\ \A q \in Slot : np'[q] = IF q = p THEN np[p] + 1 ELSE np[q]
      /\ UNCHANGED <<state, parent, chan, killed, pid, lock, cpu, pc, havekids, opar,
                nextpid, kills>>
  BY Zenon DEF TInv, TableSound, TypeOK, Reparent, Abandoned, Advance
<1>2. TypeOK'
  BY <1>1, ProcAssumption DEF TInv, TableSound, TypeOK, Reparent
<1>3. GivenAway'
  BY <1>0, <1>1, Zenon DEF TInv, GivenAway
<1>4. Scanned'
  BY <1>0, <1>1, Zenon DEF TInv, Scanned
<1>5. StackExclusive' /\ NoOrphans' /\ NoMissedExit' /\ KilledLeavesWait'
  BY <1>1, Zenon DEF TInv, TableSound, WaitersHaveReason, StackExclusive,
     NoOrphans, NoMissedExit, KilledLeavesWait
<1>6. Family' /\ Placed' /\ ParentCopied' /\ LocksHeld' /\ OnCpu'
  BY <1>1, Zenon DEF TInv, Family, Placed, ParentCopied, LocksHeld, OnCpu
<1> QED
  BY <1>2, <1>3, <1>4, <1>5, <1>6, Zenon DEF TInv, TableSound, WaitersHaveReason

\* exit ends and wakes its old parent.
LEMMA ExitZombieWakes ==
  ASSUME TInv, NEW p \in Slot, ExitZombie(p), state[opar[p]] = "SLEEPING",
         chan[opar[p]] = opar[p]
  PROVE  TInv'
<1>0. /\ state[p] = "RUNNING" /\ pc[p] = "reparent" /\ np[p] > NPROC
      /\ opar[p] \in Slot \ {p} /\ lock[opar[p]] = p /\ lock[p] = p
      /\ p # initproc /\ parent[p] \in {opar[p], initproc}
      /\ \A t \in Slot : parent[t] # p
      /\ \A q \in Slot \ {initproc} : pc[q] = "wait" => parent[p] # q
      /\ state[opar[p]] = "SLEEPING"
  BY Zombie, Zenon DEF ExitZombie, At
<1>1. /\ \A q \in Slot : state'[q] = IF q = p THEN "ZOMBIE"
                                    ELSE IF q = opar[p] THEN "RUNNABLE" ELSE state[q]
      /\ \A q \in Slot : lock'[q] = IF q = opar[p] THEN None ELSE lock[q]
      /\ \A q \in Slot : pc'[q] = IF q = p THEN "dead" ELSE pc[q]
      /\ UNCHANGED <<parent, chan, killed, pid, cpu, np, havekids, opar, nextpid, kills>>
  BY Zenon DEF TInv, TableSound, TypeOK, ExitZombie, ExitWakes, Wakeup1, Goto,
     local
<1>2. TypeOK'
  BY <1>0, <1>1, Zenon DEF TInv, TableSound, TypeOK, ExitZombie, ExitWakes,
     Wakeup1, Goto
<1>3. StackExclusive'
  BY <1>1, OnSlot, Zenon DEF TInv, TableSound, StackExclusive
<1>4. NoOrphans'
  BY <1>0, <1>1 DEF TInv, TableSound, NoOrphans
<1>5. NoMissedExit'
  BY <1>0, <1>1 DEF TInv, WaitersHaveReason, NoMissedExit
<1>6. KilledLeavesWait'
  BY <1>1, Zenon DEF TInv, WaitersHaveReason, KilledLeavesWait
<1>7. Family'
  BY <1>0, <1>1, SlotFacts DEF TInv, Family
<1>8. Placed'
  BY <1>0, <1>1 DEF TInv, Placed
<1>9. ParentCopied'
  BY <1>1, Zenon DEF TInv, ParentCopied
<1>10. LocksHeld'
  BY <1>0, <1>1 DEF TInv, LocksHeld, ParentCopied
<1>11. OnCpu'
  BY <1>0, <1>1, OnSlot DEF TInv, OnCpu
<1>12. GivenAway'
  BY <1>1, Zenon DEF TInv, GivenAway
<1>13. Scanned'
  BY <1>0, <1>1 DEF TInv, Scanned
<1> QED
  BY <1>2, <1>3, <1>4, <1>5, <1>6, <1>7, <1>8, <1>9, <1>10, <1>11, <1>12, <1>13,
     Zenon DEF TInv, TableSound, WaitersHaveReason

\* exit ends and its old parent is not asleep in wait.
LEMMA ExitZombieQuiet ==
  ASSUME TInv, NEW p \in Slot, ExitZombie(p),
         ~(state[opar[p]] = "SLEEPING" /\ chan[opar[p]] = opar[p])
  PROVE  TInv'
<1>0. /\ state[p] = "RUNNING" /\ pc[p] = "reparent" /\ np[p] > NPROC
      /\ opar[p] \in Slot \ {p} /\ lock[opar[p]] = p /\ lock[p] = p
      /\ p # initproc /\ parent[p] \in {opar[p], initproc}
      /\ \A t \in Slot : parent[t] # p
      /\ \A q \in Slot \ {initproc} : pc[q] = "wait" => parent[p] # q
      /\ ~(state[opar[p]] = "SLEEPING" /\ chan[opar[p]] = opar[p])
  BY Zombie, Zenon DEF ExitZombie, At
<1>1. /\ \A q \in Slot : state'[q] = IF q = p THEN "ZOMBIE" ELSE state[q]
      /\ \A q \in Slot : lock'[q] = IF q = opar[p] THEN None ELSE lock[q]
      /\ \A q \in Slot : pc'[q] = IF q = p THEN "dead" ELSE pc[q]
      /\ UNCHANGED <<parent, chan, killed, pid, cpu, np, havekids, opar, nextpid, kills>>
  BY Zenon DEF TInv, TableSound, TypeOK, ExitZombie, ExitWakes, Wakeup1, Goto,
     local
<1>2. TypeOK'
  BY <1>0, <1>1, Zenon DEF TInv, TableSound, TypeOK, ExitZombie, ExitWakes,
     Wakeup1, Goto
<1>3. StackExclusive'
  BY <1>1, OnSlot, Zenon DEF TInv, TableSound, StackExclusive
<1>4. NoOrphans'
  <2> SUFFICES ASSUME NEW s \in Slot, state'[s] \in {"ZOMBIE", "UNUSED"},
                      NEW t \in Slot, state'[t] # "UNUSED"
               PROVE  parent[t] # s
    BY <1>1, Zenon DEF NoOrphans
  <2>1. state[t] # "UNUSED"
    BY <1>0, <1>1, Zenon
  <2>2. CASE s = p
    BY <1>0, <2>2, Zenon
  <2>3. CASE s # p
    <3>1. state[s] \in {"ZOMBIE", "UNUSED"}
      BY <1>1, <2>3, Zenon
    <3> QED
      BY <2>1, <3>1, Zenon DEF TInv, TableSound, NoOrphans
  <2> QED
    BY <2>2, <2>3, Zenon
<1>5. NoMissedExit'
  <2> SUFFICES ASSUME NEW q \in Slot \ {initproc}, state'[q] = "SLEEPING",
                      pc'[q] = "wait_sleep",
                      NEW t \in Slot, parent[t] = q
               PROVE  state'[t] # "ZOMBIE"
    BY <1>1, Zenon DEF NoMissedExit
  <2>1. q # p /\ state[q] = "SLEEPING" /\ pc[q] = "wait_sleep"
    BY <1>1, Zenon
  <2>2. state[t] # "ZOMBIE"
    BY <2>1, Zenon DEF TInv, WaitersHaveReason, NoMissedExit
  <2>3. t # p
    <3>1. chan[q] = q
      BY <2>1, Zenon DEF TInv, Placed
    <3> QED
      BY <1>0, <2>1, <3>1, Zenon
  <2> QED
    BY <1>1, <2>2, <2>3, Zenon
<1>6. KilledLeavesWait'
  BY <1>1, Zenon DEF TInv, WaitersHaveReason, KilledLeavesWait
<1>7. Family'
  <2>1. state'[p] \notin {"UNUSED", "RUNNING"} /\ \A q \in Slot : q # p => state'[q] = state[q]
    BY <1>1, Zenon
  <2>2. p = initproc => state'[p] # "ZOMBIE"
    BY <1>0, <1>1, Zenon
  <2> QED
    BY <1>0, <1>1, <2>1, <2>2, FamilyKept, Zenon
<1>8. Placed'
  <2> SUFFICES ASSUME NEW q \in Slot
               PROVE  /\ pc'[q] \in Exiting => q # initproc
                      /\ state'[q] = "ZOMBIE" => pc'[q] = "dead"
                      /\ state'[q] = "UNUSED" => pc'[q] \in {"user", "dead"}
                      /\ pc'[q] \in {"wait", "exit_self", "reparent"} => state'[q] = "RUNNING"
                      /\ state'[q] = "SLEEPING" /\ pc'[q] = "wait_sleep" => chan'[q] = q
    BY Zenon DEF Placed
  <2>1. CASE q = p
    <3>1. state'[q] = "ZOMBIE" /\ pc'[q] = "dead"
      BY <1>1, <2>1, Zenon
    <3> QED
      BY <3>1, Zenon DEF Exiting
  <2>2. CASE q # p
    <3>1. state'[q] = state[q] /\ pc'[q] = pc[q] /\ chan'[q] = chan[q]
      BY <1>1, <2>2, Zenon
    <3> QED
      BY <3>1, Zenon DEF TInv, Placed
  <2> QED
    BY <2>1, <2>2, Zenon
<1>9. ParentCopied'
  BY <1>1, Zenon DEF TInv, ParentCopied
<1>10. LocksHeld'
  <2> SUFFICES ASSUME NEW q \in Slot
               PROVE  /\ pc'[q] \in {"wait", "reparent"} => lock'[q] = q
                      /\ pc'[q] \in {"exit_self", "reparent"} => lock'[opar[q]] = q
    BY <1>1, Zenon DEF LocksHeld
  <2>1. CASE q = p
    BY <1>1, <2>1, Zenon
  <2>2. CASE q # p
    <3>1. pc'[q] = pc[q]
      BY <1>1, <2>2, Zenon
    <3>2. ASSUME NEW r \in Slot, lock[r] = q PROVE lock'[r] = q
      BY <1>0, <1>1, <2>2, <3>2, Zenon
    <3>3. pc[q] \in {"wait", "reparent"} => lock[q] = q
      BY Zenon DEF TInv, LocksHeld
    <3>4. pc[q] \in {"exit_self", "reparent"} => opar[q] \in Slot /\ lock[opar[q]] = q
      BY Zenon DEF TInv, LocksHeld, ParentCopied
    <3> QED
      BY <3>1, <3>2, <3>3, <3>4, Zenon
  <2> QED
    BY <2>1, <2>2, Zenon
<1>11. OnCpu'
  BY <1>0, <1>1, OnSlot, Zenon DEF TInv, OnCpu
<1>12. GivenAway'
  BY <1>1, Zenon DEF TInv, GivenAway
<1>13. Scanned'
  BY <1>0, <1>1 DEF TInv, Scanned
<1> QED
  BY <1>2, <1>3, <1>4, <1>5, <1>6, <1>7, <1>8, <1>9, <1>10, <1>11, <1>12, <1>13,
     Zenon DEF TInv, TableSound, WaitersHaveReason

\* wait begins.
LEMMA WaitKeeps ==
  ASSUME TInv, NEW p \in Slot, Wait(p)
  PROVE  TInv'
<1>0. /\ state[p] = "RUNNING" /\ pc[p] = "user" /\ lock[p] = None
      /\ \A t \in Slot : ~(t < 1)
  BY DEF Wait, InSyscall, At, Free, Slot
<1>1. /\ \A q \in Slot : lock'[q] = IF q = p THEN p ELSE lock[q]
      /\ \A q \in Slot : np'[q] = IF q = p THEN 1 ELSE np[q]
      /\ \A q \in Slot : havekids'[q] = IF q = p THEN FALSE ELSE havekids[q]
      /\ \A q \in Slot : pc'[q] = IF q = p THEN "wait" ELSE pc[q]
      /\ UNCHANGED <<state, parent, chan, killed, pid, cpu, opar, nextpid, kills>>
  BY Zenon DEF TInv, TableSound, TypeOK, Wait, Goto, table
<1>2. TypeOK'
  BY <1>1, ProcAssumption DEF TInv, TableSound, TypeOK, Wait, Goto
<1>3. NoMissedExit'
  BY <1>1, Zenon DEF TInv, WaitersHaveReason, NoMissedExit
<1>4. KilledLeavesWait'
  BY <1>1, Zenon DEF TInv, WaitersHaveReason, KilledLeavesWait
<1>5. Placed'
  <2>1. \A q \in Slot : q # p => state'[q] = state[q] /\ pc'[q] = pc[q] /\ chan'[q] = chan[q]
    BY <1>1, Zenon
  <2>2. /\ pc'[p] \in Exiting => p # initproc
        /\ state'[p] = "ZOMBIE" => pc'[p] = "dead"
        /\ state'[p] = "UNUSED" => pc'[p] \in {"user", "dead"}
        /\ pc'[p] \in {"wait", "exit_self", "reparent"} => state'[p] = "RUNNING"
        /\ state'[p] = "SLEEPING" /\ pc'[p] = "wait_sleep" => chan'[p] = p
    BY <1>0, <1>1, Zenon DEF TInv, Placed, Exiting
  <2> QED
    BY <2>1, <2>2, PlacedKept, Zenon
<1>6. ParentCopied'
  BY <1>1, Zenon DEF TInv, ParentCopied
<1>7. LocksHeld'
  BY <1>0, <1>1, SlotFacts DEF TInv, LocksHeld, ParentCopied
<1>8. OnCpu'
  BY <1>1, OnSlot, Zenon DEF TInv, OnCpu
<1>9. GivenAway'
  BY <1>1, Zenon DEF TInv, GivenAway
<1>10. Scanned'
  BY <1>0, <1>1, Zenon DEF TInv, Scanned
<1>11. StackExclusive' /\ NoOrphans' /\ Family'
  BY <1>1, Zenon DEF TInv, TableSound, StackExclusive, NoOrphans, Family
<1> QED
  BY <1>2, <1>3, <1>4, <1>5, <1>6, <1>7, <1>8, <1>9, <1>10, <1>11 DEF TInv,
     TableSound, WaitersHaveReason

\* wait passes a slot that is no child.
LEMMA WaitScanSkips ==
  ASSUME TInv, NEW p \in Slot, WaitScan(p), parent[np[p]] # p
  PROVE  TInv'
<1>0. /\ state[p] = "RUNNING" /\ pc[p] = "wait" /\ np[p] \in Slot
      /\ lock[p] = p /\ parent[np[p]] # p
      /\ \A t \in Slot : t < np[p] + 1 => t < np[p] \/ t = np[p]
  BY DEF TInv, TableSound, TypeOK, WaitScan, At, Slot, LocksHeld
<1>1. /\ \A q \in Slot : np'[q] = IF q = p THEN np[p] + 1 ELSE np[q]
      /\ UNCHANGED <<state, parent, chan, killed, pid, lock, cpu, pc, havekids, opar,
                nextpid, kills>>
  BY Zenon DEF TInv, TableSound, TypeOK, WaitScan, Advance, table, table
<1>2. TypeOK'
  BY <1>1, ProcAssumption DEF TInv, TableSound, TypeOK, WaitScan
<1>3. GivenAway'
  BY <1>0, <1>1, Zenon DEF TInv, GivenAway
<1>4. Scanned'
  BY <1>0, <1>1, Zenon DEF TInv, Scanned
<1>5. StackExclusive' /\ NoOrphans' /\ NoMissedExit' /\ KilledLeavesWait'
  BY <1>1 DEF TInv, TableSound, WaitersHaveReason, StackExclusive, NoOrphans,
     NoMissedExit, KilledLeavesWait
<1>6. Family' /\ Placed' /\ ParentCopied' /\ LocksHeld' /\ OnCpu'
  BY <1>1 DEF TInv, Family, Placed, ParentCopied, LocksHeld, OnCpu
<1> QED
  BY <1>2, <1>3, <1>4, <1>5, <1>6 DEF TInv, TableSound, WaitersHaveReason

\* wait frees a zombie child.
LEMMA WaitScanReaps ==
  ASSUME TInv, NEW p \in Slot, WaitScan(p), parent[np[p]] = p, state[np[p]] = "ZOMBIE"
  PROVE  TInv'
<1>0. /\ state[p] = "RUNNING" /\ pc[p] = "wait" /\ np[p] \in Slot
      /\ lock[p] = p /\ parent[np[p]] = p /\ state[np[p]] = "ZOMBIE"
      /\ lock[np[p]] = None /\ np[p] # p
  BY DEF TInv, TableSound, TypeOK, WaitScan, At, ChildLocked, Free, Slot,
     LocksHeld
<1>a. /\ Cleared(np[p]) /\ Goto(p, "user") /\ lock' = [lock EXCEPT ![p] = None]
      /\ UNCHANGED <<cpu, np, havekids, opar, nextpid, kills>>
  BY <1>0, Zenon DEF WaitScan
<1>1. /\ \A q \in Slot : state'[q] = IF q = np[p] THEN "UNUSED" ELSE state[q]
      /\ \A q \in Slot : parent'[q] = IF q = np[p] THEN None ELSE parent[q]
      /\ \A q \in Slot : chan'[q] = IF q = np[p] THEN None ELSE chan[q]
      /\ \A q \in Slot : killed'[q] = IF q = np[p] THEN FALSE ELSE killed[q]
      /\ \A q \in Slot : pid'[q] = IF q = np[p] THEN 0 ELSE pid[q]
      /\ \A q \in Slot : lock'[q] = IF q = p THEN None ELSE lock[q]
      /\ \A q \in Slot : pc'[q] = IF q = p THEN "user" ELSE pc[q]
      /\ UNCHANGED <<cpu, np, havekids, opar, nextpid, kills>>
  BY <1>a, Zenon DEF TInv, TableSound, TypeOK, Cleared, Goto
<1>2. TypeOK'
  BY <1>0, <1>a, ProcAssumption DEF TInv, TableSound, TypeOK, Cleared, Goto
<1>3. StackExclusive'
  BY <1>0, <1>1, OnSlot DEF TInv, TableSound, StackExclusive, OnCpu
<1>4. NoOrphans'
  <2> SUFFICES ASSUME NEW s \in Slot, state'[s] \in {"ZOMBIE", "UNUSED"},
                      NEW t \in Slot, state'[t] # "UNUSED"
               PROVE  parent'[t] # s
    BY Zenon DEF NoOrphans
  <2> QED
    BY <1>0, <1>1 DEF TInv, TableSound, NoOrphans
<1>5. NoMissedExit'
  <2>1. \A q \in Slot \ {initproc} : state'[q] = "SLEEPING" /\ pc'[q] = "wait_sleep"
          => state[q] = "SLEEPING" /\ pc[q] = "wait_sleep"
    BY <1>1, Zenon
  <2>2. \A q \in Slot \ {initproc}, t \in Slot : parent'[t] = q /\ state'[t] = "ZOMBIE"
          => parent[t] = q /\ state[t] = "ZOMBIE"
    BY <1>1, Zenon
  <2> QED
    BY <2>1, <2>2, NoMissedExitKept, Zenon
<1>6. KilledLeavesWait'
  <2> SUFFICES ASSUME NEW q \in Slot, pc'[q] = "wait_sleep", killed'[q]
               PROVE  state'[q] # "SLEEPING"
    BY Zenon DEF KilledLeavesWait
  <2>1. CASE q = np[p]
    BY <1>1, <2>1, Zenon
  <2>2. CASE q # np[p]
    <3>1. state'[q] = state[q]
      BY <1>1, <2>2, Zenon
    <3>2. killed'[q] = IF q = np[p] THEN FALSE ELSE killed[q]
      BY <1>1, Zenon
    <3>3. killed[q]
      BY <2>2, <3>2, Zenon
    <3>4. pc'[q] = IF q = p THEN "user" ELSE pc[q]
      BY <1>1, Zenon
    <3>5. pc[q] = "wait_sleep"
      BY <3>4, Zenon
    <3> QED
      BY <3>1, <3>3, <3>5, Zenon DEF TInv, WaitersHaveReason, KilledLeavesWait
  <2> QED
    BY <2>1, <2>2, Zenon
<1>7. Family'
  <2>1. parent'[initproc] = None /\ state'[initproc] \notin {"UNUSED", "ZOMBIE"}
    BY <1>0, <1>1, SlotFacts, Zenon DEF TInv, Family
  <2>2. ASSUME NEW s \in Slot
        PROVE  /\ parent'[s] # s
               /\ state'[s] = "UNUSED" => parent'[s] = None
               /\ s # initproc /\ state'[s] # "UNUSED" => parent'[s] \in Slot
    <3>1. CASE s = np[p]
      <4>1. state'[s] = "UNUSED" /\ parent'[s] = None
        BY <1>1, <3>1, Zenon
      <4>2. None # s
        BY SlotFacts, Zenon
      <4> QED
        BY <4>1, <4>2, Zenon
    <3>2. CASE s # np[p]
      <4>1. state'[s] = state[s] /\ parent'[s] = parent[s]
        BY <1>1, <3>2, Zenon
      <4> QED
        BY <4>1, Zenon DEF TInv, Family
    <3> QED
      BY <3>1, <3>2, Zenon
  <2> QED
    BY <2>1, <2>2, Zenon DEF Family
<1>b. pc[np[p]] = "dead" /\ pc'[np[p]] = "dead"
  <2>1. pc[np[p]] = "dead"
    BY <1>0, Zenon DEF TInv, Placed
  <2>2. pc'[np[p]] = pc[np[p]]
    BY <1>0, <1>1, Zenon
  <2> QED
    BY <2>1, <2>2, Zenon
<1>8. Placed'
  <2> SUFFICES ASSUME NEW q \in Slot
               PROVE  /\ pc'[q] \in Exiting => q # initproc
                      /\ state'[q] = "ZOMBIE" => pc'[q] = "dead"
                      /\ state'[q] = "UNUSED" => pc'[q] \in {"user", "dead"}
                      /\ pc'[q] \in {"wait", "exit_self", "reparent"} => state'[q] = "RUNNING"
                      /\ state'[q] = "SLEEPING" /\ pc'[q] = "wait_sleep" => chan'[q] = q
    BY Zenon DEF Placed
  <2>1. CASE q = p
    <3>1. pc'[q] = "user" /\ state'[q] = "RUNNING"
      BY <1>0, <1>1, <2>1, Zenon
    <3> QED
      BY <3>1, Zenon DEF Exiting
  <2>2. CASE q = np[p]
    <3>1. pc'[q] = "dead" /\ pc[q] = "dead" /\ state'[q] = "UNUSED"
      BY <1>1, <1>b, <2>2, Zenon
    <3>2. pc[q] \in Exiting => q # initproc
      BY Zenon DEF TInv, Placed
    <3> QED
      BY <3>1, <3>2, Zenon
  <2>3. CASE q # p /\ q # np[p]
    <3>1. pc'[q] = pc[q] /\ state'[q] = state[q] /\ chan'[q] = chan[q]
      BY <1>1, <2>3, Zenon
    <3> QED
      BY <3>1, Zenon DEF TInv, Placed
  <2> QED
    BY <2>1, <2>2, <2>3, Zenon
<1>9. ParentCopied'
  <2> SUFFICES ASSUME NEW q \in Slot, pc'[q] \in {"exit_lock", "exit_self", "reparent"}
               PROVE  opar[q] \in Slot \ {q} /\ parent'[q] \in {opar[q], initproc}
    BY <1>1, Zenon DEF ParentCopied
  <2>1. pc'[q] = pc[q] /\ parent'[q] = parent[q]
    BY <1>1, <1>b, Zenon
  <2> QED
    BY <2>1, Zenon DEF TInv, ParentCopied
<1>10. LocksHeld'
  <2> SUFFICES ASSUME NEW q \in Slot
               PROVE  /\ pc'[q] \in {"wait", "reparent"} => lock'[q] = q
                      /\ pc'[q] \in {"exit_self", "reparent"} => lock'[opar[q]] = q
    BY <1>1, Zenon DEF LocksHeld
  <2>1. CASE q = p
    BY <1>1, <2>1, Zenon
  <2>2. CASE q # p
    <3>1. pc'[q] = pc[q] /\ lock'[q] = lock[q]
      BY <1>1, <2>2, Zenon
    <3>2. ASSUME pc[q] \in {"exit_self", "reparent"}
          PROVE  lock'[opar[q]] = q
      <4>1. opar[q] \in Slot /\ lock[opar[q]] = q
        BY <3>2, Zenon DEF TInv, LocksHeld, ParentCopied
      <4>2. opar[q] # p
        BY <1>0, <2>2, <4>1, Zenon
      <4> QED
        BY <1>1, <4>1, <4>2, Zenon
    <3> QED
      BY <3>1, <3>2, Zenon DEF TInv, LocksHeld
  <2> QED
    BY <2>1, <2>2, Zenon
<1>11. OnCpu'
  <2> SUFFICES ASSUME NEW d \in CPU, cpu[d] # None
               PROVE  state'[cpu[d]] = "RUNNING" \/ lock'[cpu[d]] = cpu[d]
    BY <1>1, Zenon DEF OnCpu
  <2>1. cpu[d] \in Slot /\ (state[cpu[d]] = "RUNNING" \/ lock[cpu[d]] = cpu[d])
    BY OnSlot, Zenon DEF TInv, OnCpu
  <2>2. cpu[d] # np[p]
    BY <1>0, <2>1, SlotFacts, Zenon
  <2>3. state'[cpu[d]] = state[cpu[d]]
    BY <1>1, <2>1, <2>2, Zenon
  <2>4. cpu[d] # p => lock'[cpu[d]] = lock[cpu[d]]
    BY <1>1, <2>1, Zenon
  <2> QED
    BY <1>0, <2>1, <2>3, <2>4, Zenon
<1>12. GivenAway'
  BY <1>1, SlotFacts DEF TInv, GivenAway
<1>13. Scanned'
  BY <1>1 DEF TInv, Scanned
<1> QED
  BY <1>2, <1>3, <1>4, <1>5, <1>6, <1>7, <1>8, <1>9, <1>10, <1>11, <1>12, <1>13,
     Zenon DEF TInv, TableSound, WaitersHaveReason

\* wait passes a child that is alive.
LEMMA WaitScanPasses ==
  ASSUME TInv, NEW p \in Slot, WaitScan(p), parent[np[p]] = p, state[np[p]] # "ZOMBIE"
  PROVE  TInv'
<1>0. /\ state[p] = "RUNNING" /\ pc[p] = "wait" /\ np[p] \in Slot
      /\ lock[p] = p /\ parent[np[p]] = p /\ state[np[p]] # "ZOMBIE"
      /\ \A t \in Slot : t < np[p] + 1 => t < np[p] \/ t = np[p]
  BY DEF TInv, TableSound, TypeOK, WaitScan, At, Slot, LocksHeld
<1>a. /\ havekids' = [havekids EXCEPT ![p] = TRUE]
      /\ np' = [np EXCEPT ![p] = np[p] + 1]
      /\ UNCHANGED <<state, parent, chan, killed, pid, lock, cpu, pc, opar, nextpid, kills>>
  BY Zenon DEF WaitScan, Advance, table
<1>1. /\ \A q \in Slot : np'[q] = IF q = p THEN np[p] + 1 ELSE np[q]
      /\ \A q \in Slot : havekids'[q] = IF q = p THEN TRUE ELSE havekids[q]
      /\ UNCHANGED <<state, parent, chan, killed, pid, lock, cpu, pc, opar, nextpid,
                kills>>
  BY <1>a, Zenon DEF TInv, TableSound, TypeOK
<1>b. np[p] + 1 \in 1..(NPROC + 1)
  BY <1>0, ProcAssumption DEF Slot
<1>2. TypeOK'
  BY <1>a, <1>b, Zenon DEF TInv, TableSound, TypeOK
<1>3. GivenAway'
  BY <1>0, <1>1, Zenon DEF TInv, GivenAway
<1>4. Scanned'
  BY <1>0, <1>1, Zenon DEF TInv, Scanned
<1>5. StackExclusive' /\ NoOrphans' /\ NoMissedExit' /\ KilledLeavesWait'
  BY <1>1, Zenon DEF TInv, TableSound, WaitersHaveReason, StackExclusive,
     NoOrphans, NoMissedExit, KilledLeavesWait
<1>6. Family' /\ Placed' /\ ParentCopied' /\ LocksHeld' /\ OnCpu'
  BY <1>1, Zenon DEF TInv, Family, Placed, ParentCopied, LocksHeld, OnCpu
<1> QED
  BY <1>2, <1>3, <1>4, <1>5, <1>6, Zenon DEF TInv, TableSound, WaitersHaveReason

\* wait fails to copy the status out.
LEMMA WaitFaultKeeps ==
  ASSUME TInv, NEW p \in Slot, WaitFault(p)
  PROVE  TInv'
<1>0. /\ state[p] = "RUNNING" /\ pc[p] = "wait" /\ lock[p] = p
  BY Zenon DEF TInv, WaitFault, At, LocksHeld
<1>1. /\ \A q \in Slot : lock'[q] = IF q = p THEN None ELSE lock[q]
      /\ \A q \in Slot : pc'[q] = IF q = p THEN "user" ELSE pc[q]
      /\ UNCHANGED <<state, parent, chan, killed, pid, cpu, np, havekids, opar, nextpid,
                kills>>
  BY Zenon DEF TInv, TableSound, TypeOK, WaitFault, Goto, table, local
<1>2. TypeOK'
  BY <1>1, Zenon DEF TInv, TableSound, TypeOK, WaitFault, Goto
<1>3. NoMissedExit'
  BY <1>1, Zenon DEF TInv, WaitersHaveReason, NoMissedExit
<1>4. KilledLeavesWait'
  BY <1>1, Zenon DEF TInv, WaitersHaveReason, KilledLeavesWait
<1>5. Placed'
  BY <1>0, <1>1, Zenon DEF TInv, Placed, Exiting
<1>6. ParentCopied'
  BY <1>1, Zenon DEF TInv, ParentCopied
<1>7. LocksHeld'
  <2> SUFFICES ASSUME NEW q \in Slot
               PROVE  /\ pc'[q] \in {"wait", "reparent"} => lock'[q] = q
                      /\ pc'[q] \in {"exit_self", "reparent"} => lock'[opar[q]] = q
    BY <1>1, Zenon DEF LocksHeld
  <2>1. CASE q = p
    BY <1>1, <2>1, Zenon
  <2>2. CASE q # p
    <3>1. pc'[q] = pc[q] /\ lock'[q] = lock[q]
      BY <1>1, <2>2, Zenon
    <3>2. ASSUME pc[q] \in {"exit_self", "reparent"} PROVE lock'[opar[q]] = q
      <4>1. opar[q] \in Slot /\ lock[opar[q]] = q
        BY <3>2, Zenon DEF TInv, LocksHeld, ParentCopied
      <4>2. opar[q] # p
        BY <1>0, <2>2, <4>1, Zenon
      <4> QED
        BY <1>1, <4>1, <4>2, Zenon
    <3> QED
      BY <3>1, <3>2, Zenon DEF TInv, LocksHeld
  <2> QED
    BY <2>1, <2>2, Zenon
<1>8. OnCpu'
  BY <1>0, <1>1, OnSlot, Zenon DEF TInv, OnCpu
<1>9. GivenAway'
  BY <1>1, Zenon DEF TInv, GivenAway
<1>10. Scanned'
  BY <1>1, Zenon DEF TInv, Scanned
<1>11. StackExclusive' /\ NoOrphans' /\ Family'
  BY <1>1, Zenon DEF TInv, TableSound, StackExclusive, NoOrphans, Family
<1> QED
  BY <1>2, <1>3, <1>4, <1>5, <1>6, <1>7, <1>8, <1>9, <1>10, <1>11 DEF TInv,
     TableSound, WaitersHaveReason

\* wait has no children, or was killed.
LEMMA WaitEndReturns ==
  ASSUME TInv, NEW p \in Slot, WaitEnd(p), WaitGivesUp(p)
  PROVE  TInv'
<1>0. /\ state[p] = "RUNNING" /\ pc[p] = "wait" /\ lock[p] = p
  BY Zenon DEF TInv, WaitEnd, At, LocksHeld
<1>1. /\ \A q \in Slot : lock'[q] = IF q = p THEN None ELSE lock[q]
      /\ \A q \in Slot : pc'[q] = IF q = p THEN "user" ELSE pc[q]
      /\ UNCHANGED <<state, parent, chan, killed, pid, cpu, np, havekids, opar, nextpid,
                kills>>
  BY Zenon DEF TInv, TableSound, TypeOK, WaitEnd, Goto, local
<1>2. TypeOK'
  BY <1>1 DEF TInv, TableSound, TypeOK, WaitEnd, Goto
<1>3. NoMissedExit'
  BY <1>1, Zenon DEF TInv, WaitersHaveReason, NoMissedExit
<1>4. KilledLeavesWait'
  BY <1>1, Zenon DEF TInv, WaitersHaveReason, KilledLeavesWait
<1>5. Placed'
  BY <1>0, <1>1, Zenon DEF TInv, Placed, Exiting
<1>6. ParentCopied'
  BY <1>1, Zenon DEF TInv, ParentCopied
<1>7. LocksHeld'
  <2> SUFFICES ASSUME NEW q \in Slot
               PROVE  /\ pc'[q] \in {"wait", "reparent"} => lock'[q] = q
                      /\ pc'[q] \in {"exit_self", "reparent"} => lock'[opar[q]] = q
    BY <1>1, Zenon DEF LocksHeld
  <2>1. CASE q = p
    BY <1>1, <2>1, Zenon
  <2>2. CASE q # p
    <3>1. pc'[q] = pc[q] /\ lock'[q] = lock[q]
      BY <1>1, <2>2, Zenon
    <3>2. ASSUME pc[q] \in {"exit_self", "reparent"}
          PROVE  lock'[opar[q]] = q
      <4>1. opar[q] \in Slot /\ lock[opar[q]] = q
        BY <3>2, Zenon DEF TInv, LocksHeld, ParentCopied
      <4>2. opar[q] # p
        BY <1>0, <2>2, <4>1, Zenon
      <4> QED
        BY <1>1, <4>1, <4>2, Zenon
    <3> QED
      BY <3>1, <3>2, Zenon DEF TInv, LocksHeld
  <2> QED
    BY <2>1, <2>2, Zenon
<1>8. OnCpu'
  BY <1>0, <1>1, OnSlot, Zenon DEF TInv, OnCpu
<1>9. GivenAway'
  BY <1>1, Zenon DEF TInv, GivenAway
<1>10. Scanned'
  BY <1>1, Zenon DEF TInv, Scanned
<1>11. StackExclusive' /\ NoOrphans' /\ Family'
  BY <1>1, Zenon DEF TInv, TableSound, StackExclusive, NoOrphans, Family
<1> QED
  BY <1>2, <1>3, <1>4, <1>5, <1>6, <1>7, <1>8, <1>9, <1>10, <1>11, Zenon DEF
     TInv, TableSound, WaitersHaveReason

\* wait goes to sleep: no child was a zombie during the scan.
LEMMA WaitEndSleeps ==
  ASSUME TInv, NEW p \in Slot, WaitEnd(p), ~WaitGivesUp(p)
  PROVE  TInv'
<1>0. /\ state[p] = "RUNNING" /\ pc[p] = "wait" /\ lock[p] = p
      /\ np[p] > NPROC /\ ~killed[p]
      /\ \A t \in Slot : p # initproc /\ parent[t] = p => state[t] # "ZOMBIE"
  BY ProcAssumption DEF TInv, TableSound, TypeOK, WaitEnd, WaitGivesUp, At,
     LocksHeld, Scanned, Slot
<1>1. /\ \A q \in Slot : chan'[q] = IF q = p THEN p ELSE chan[q]
      /\ \A q \in Slot : state'[q] = IF q = p THEN "SLEEPING" ELSE state[q]
      /\ \A q \in Slot : pc'[q] = IF q = p THEN "wait_sleep" ELSE pc[q]
      /\ UNCHANGED <<parent, killed, pid, lock, cpu, np, havekids, opar, nextpid, kills>>
  BY DEF TInv, TableSound, TypeOK, WaitEnd, Goto, local
<1>2. TypeOK'
  BY <1>1 DEF TInv, TableSound, TypeOK, WaitEnd, Goto
<1>3. StackExclusive'
  BY <1>1, OnSlot, Zenon DEF TInv, TableSound, StackExclusive
<1>4. NoOrphans'
  <2> SUFFICES ASSUME NEW s \in Slot, state'[s] \in {"ZOMBIE", "UNUSED"},
                      NEW t \in Slot, state'[t] # "UNUSED"
               PROVE  parent[t] # s
    BY <1>1, Zenon DEF NoOrphans
  <2>1. state[t] # "UNUSED"
    BY <1>0, <1>1, Zenon
  <2>2. state[s] \in {"ZOMBIE", "UNUSED"}
    BY <1>1, Zenon
  <2> QED
    BY <2>1, <2>2, Zenon DEF TInv, TableSound, NoOrphans
<1>5. NoMissedExit'
  BY <1>0, <1>1, Zenon DEF TInv, WaitersHaveReason, NoMissedExit
<1>6. KilledLeavesWait'
  BY <1>0, <1>1, Zenon DEF TInv, WaitersHaveReason, KilledLeavesWait
<1>7. Family'
  <2>1. state'[p] \notin {"UNUSED", "RUNNING"} /\ \A q \in Slot : q # p => state'[q] = state[q]
    BY <1>1, Zenon
  <2>2. p = initproc => state'[p] # "ZOMBIE"
    BY <1>0, <1>1, Zenon
  <2> QED
    BY <1>0, <1>1, <2>1, <2>2, FamilyKept, Zenon
<1>8. Placed'
  <2>1. \A q \in Slot : q # p => state'[q] = state[q] /\ pc'[q] = pc[q] /\ chan'[q] = chan[q]
    BY <1>1, Zenon
  <2>2. /\ pc'[p] \in Exiting => p # initproc
        /\ state'[p] = "ZOMBIE" => pc'[p] = "dead"
        /\ state'[p] = "UNUSED" => pc'[p] \in {"user", "dead"}
        /\ pc'[p] \in {"wait", "exit_self", "reparent"} => state'[p] = "RUNNING"
        /\ state'[p] = "SLEEPING" /\ pc'[p] = "wait_sleep" => chan'[p] = p
    BY <1>0, <1>1, Zenon DEF TInv, Placed, Exiting
  <2> QED
    BY <2>1, <2>2, PlacedKept, Zenon
<1>9. ParentCopied'
  BY <1>1, Zenon DEF TInv, ParentCopied
<1>10. LocksHeld'
  BY <1>1, Zenon DEF TInv, LocksHeld
<1>11. OnCpu'
  BY <1>0, <1>1, OnSlot, Zenon DEF TInv, OnCpu
<1>12. GivenAway'
  BY <1>1, Zenon DEF TInv, GivenAway
<1>13. Scanned'
  BY <1>1, Zenon DEF TInv, Scanned
<1> QED
  BY <1>2, <1>3, <1>4, <1>5, <1>6, <1>7, <1>8, <1>9, <1>10, <1>11, <1>12, <1>13,
     Zenon DEF TInv, TableSound, WaitersHaveReason

\* A process sleeps on another channel.
LEMMA SleepOtherKeeps ==
  ASSUME TInv, NEW p \in Slot, SleepOther(p)
  PROVE  TInv'
<1>0. /\ state[p] = "RUNNING" /\ pc[p] = "user" /\ lock[p] = None
  BY Zenon DEF SleepOther, InSyscall, At, Free
<1>1. /\ \A q \in Slot : lock'[q] = IF q = p THEN p ELSE lock[q]
      /\ \A q \in Slot : chan'[q] = IF q = p THEN Other ELSE chan[q]
      /\ \A q \in Slot : state'[q] = IF q = p THEN "SLEEPING" ELSE state[q]
      /\ \A q \in Slot : pc'[q] = IF q = p THEN "sleep" ELSE pc[q]
      /\ UNCHANGED <<parent, killed, pid, cpu, np, havekids, opar, nextpid, kills>>
  BY Zenon DEF TInv, TableSound, TypeOK, SleepOther, Goto, local
<1>2. TypeOK'
  BY <1>1, Zenon DEF TInv, TableSound, TypeOK, SleepOther, Goto
<1>3. StackExclusive'
  BY <1>1, OnSlot, Zenon DEF TInv, TableSound, StackExclusive
<1>4. NoOrphans'
  <2>1. parent' = parent
    BY <1>1, Zenon
  <2>2. \A q \in Slot : state'[q] \in {"ZOMBIE", "UNUSED"} => state[q] \in {"ZOMBIE", "UNUSED"}
    BY <1>1, Zenon
  <2>3. \A q \in Slot : state[q] = "UNUSED" => state'[q] = "UNUSED"
    BY <1>0, <1>1, Zenon
  <2> QED
    BY <2>1, <2>2, <2>3, NoOrphansKept, Zenon
<1>5. NoMissedExit'
  BY <1>1, Zenon DEF TInv, WaitersHaveReason, NoMissedExit
<1>6. KilledLeavesWait'
  BY <1>1, Zenon DEF TInv, WaitersHaveReason, KilledLeavesWait
<1>7. Family'
  <2>1. state'[p] = "SLEEPING" /\ \A q \in Slot : q # p => state'[q] = state[q]
    BY <1>1, Zenon
  <2> QED
    BY <1>0, <1>1, <2>1, FamilyKept, Zenon
<1>8. Placed'
  <2>1. \A q \in Slot : q # p => state'[q] = state[q] /\ pc'[q] = pc[q] /\ chan'[q] = chan[q]
    BY <1>1, Zenon
  <2>2. /\ pc'[p] \in Exiting => p # initproc
        /\ state'[p] = "ZOMBIE" => pc'[p] = "dead"
        /\ state'[p] = "UNUSED" => pc'[p] \in {"user", "dead"}
        /\ pc'[p] \in {"wait", "exit_self", "reparent"} => state'[p] = "RUNNING"
        /\ state'[p] = "SLEEPING" /\ pc'[p] = "wait_sleep" => chan'[p] = p
    BY <1>0, <1>1, Zenon DEF TInv, Placed, Exiting
  <2> QED
    BY <2>1, <2>2, PlacedKept, Zenon
<1>9. ParentCopied'
  BY <1>1, Zenon DEF TInv, ParentCopied
<1>10. LocksHeld'
  <2> SUFFICES ASSUME NEW q \in Slot
               PROVE  /\ pc'[q] \in {"wait", "reparent"} => lock'[q] = q
                      /\ pc'[q] \in {"exit_self", "reparent"} => lock'[opar[q]] = q
    BY <1>1, Zenon DEF LocksHeld
  <2>1. CASE q = p
    BY <1>1, <2>1, Zenon
  <2>2. CASE q # p
    <3>1. pc'[q] = pc[q] /\ lock'[q] = lock[q]
      BY <1>1, <2>2, Zenon
    <3>2. ASSUME pc[q] \in {"exit_self", "reparent"} PROVE lock'[opar[q]] = q
      <4>1. opar[q] \in Slot /\ lock[opar[q]] = q
        BY <3>2, Zenon DEF TInv, LocksHeld, ParentCopied
      <4>2. opar[q] # p
        BY <1>0, <4>1, SlotFacts, Zenon
      <4> QED
        BY <1>1, <4>1, <4>2, Zenon
    <3> QED
      BY <3>1, <3>2, Zenon DEF TInv, LocksHeld
  <2> QED
    BY <2>1, <2>2, Zenon
<1>11. OnCpu'
  BY <1>1, OnSlot, Zenon DEF TInv, OnCpu
<1>12. GivenAway'
  BY <1>1, Zenon DEF TInv, GivenAway
<1>13. Scanned'
  BY <1>1, Zenon DEF TInv, Scanned
<1> QED
  BY <1>2, <1>3, <1>4, <1>5, <1>6, <1>7, <1>8, <1>9, <1>10, <1>11, <1>12, <1>13,
     Zenon DEF TInv, TableSound, WaitersHaveReason

\* The wakeup of that channel.
LEMMA WakeupKeeps ==
  ASSUME TInv, NEW p \in Slot, Wakeup(p)
  PROVE  TInv'
<1>0. /\ state[p] = "SLEEPING" /\ lock[p] = None
  BY Zenon DEF Wakeup, Free
<1>1. /\ \A q \in Slot : state'[q] = IF q = p THEN "RUNNABLE" ELSE state[q]
      /\ UNCHANGED <<parent, chan, killed, pid, lock, cpu, pc, np, havekids, opar,
                nextpid, kills>>
  BY Zenon DEF TInv, TableSound, TypeOK, Wakeup, local
<1>2. TypeOK'
  BY <1>1, Zenon DEF TInv, TableSound, TypeOK, Wakeup
<1>3. StackExclusive'
  BY <1>1, OnSlot, Zenon DEF TInv, TableSound, StackExclusive
<1>4. NoOrphans'
  BY <1>0, <1>1, Zenon DEF TInv, TableSound, NoOrphans
<1>5. NoMissedExit'
  BY <1>1, Zenon DEF TInv, WaitersHaveReason, NoMissedExit
<1>6. KilledLeavesWait'
  BY <1>1, Zenon DEF TInv, WaitersHaveReason, KilledLeavesWait
<1>7. Family'
  BY <1>0, <1>1, SlotFacts, Zenon DEF TInv, Family
<1>8. Placed'
  BY <1>0, <1>1, Zenon DEF TInv, Placed
<1>9. OnCpu'
  BY <1>0, <1>1, OnSlot, Zenon DEF TInv, OnCpu
<1>10. Scanned'
  BY <1>1, Zenon DEF TInv, Scanned
<1>11. ParentCopied' /\ LocksHeld' /\ GivenAway'
  BY <1>1, Zenon DEF TInv, ParentCopied, LocksHeld, GivenAway
<1> QED
  BY <1>2, <1>3, <1>4, <1>5, <1>6, <1>7, <1>8, <1>9, <1>10, <1>11, Zenon DEF
     TInv, TableSound, WaitersHaveReason

\* kill of a sleeping process.
LEMMA KillWakes ==
  ASSUME TInv, NEW p \in Slot, Kill(p), state[p] = "SLEEPING"
  PROVE  TInv'
<1>0. /\ state[p] = "SLEEPING" /\ lock[p] = None
  BY Zenon DEF Kill, Free
<1>1. /\ \A q \in Slot : state'[q] = IF q = p THEN "RUNNABLE" ELSE state[q]
      /\ \A q \in Slot : killed'[q] = IF q = p THEN TRUE ELSE killed[q]
      /\ kills' = kills + 1 /\ kills < MaxKills
      /\ UNCHANGED <<parent, chan, pid, lock, cpu, pc, np, havekids, opar, nextpid>>
  BY Zenon DEF TInv, TableSound, TypeOK, Kill, local
<1>2. TypeOK'
  BY <1>1, ProcAssumption DEF TInv, TableSound, TypeOK, Kill
<1>3. StackExclusive'
  BY <1>1, OnSlot, Zenon DEF TInv, TableSound, StackExclusive
<1>4. NoOrphans'
  BY <1>1, Zenon DEF TInv, TableSound, NoOrphans
<1>5. NoMissedExit'
  BY <1>1, Zenon DEF TInv, WaitersHaveReason, NoMissedExit
<1>6. KilledLeavesWait'
  BY <1>1, Zenon DEF TInv, WaitersHaveReason, KilledLeavesWait
<1>7. Family'
  BY <1>1, SlotFacts, Zenon DEF TInv, Family
<1>8. Placed'
  BY <1>1, Zenon DEF TInv, Placed
<1>9. OnCpu'
  BY <1>1, OnSlot, Zenon DEF TInv, OnCpu
<1>10. Scanned'
  BY <1>1, Zenon DEF TInv, Scanned
<1>11. ParentCopied' /\ LocksHeld' /\ GivenAway'
  BY <1>1, Zenon DEF TInv, ParentCopied, LocksHeld, GivenAway
<1> QED
  BY <1>2, <1>3, <1>4, <1>5, <1>6, <1>7, <1>8, <1>9, <1>10, <1>11, Zenon DEF
     TInv, TableSound, WaitersHaveReason

\* kill of any other process.
LEMMA KillMarks ==
  ASSUME TInv, NEW p \in Slot, Kill(p), state[p] # "SLEEPING"
  PROVE  TInv'
<1>0. /\ state[p] # "SLEEPING"
  BY Zenon
<1>1. /\ \A q \in Slot : killed'[q] = IF q = p THEN TRUE ELSE killed[q]
      /\ kills' = kills + 1 /\ kills < MaxKills
      /\ UNCHANGED <<state, parent, chan, pid, lock, cpu, pc, np, havekids, opar,
                nextpid>>
  BY Zenon DEF TInv, TableSound, TypeOK, Kill, local
<1>2. TypeOK'
  BY <1>1, ProcAssumption DEF TInv, TableSound, TypeOK, Kill
<1>3. KilledLeavesWait'
  BY <1>1, Zenon DEF TInv, WaitersHaveReason, KilledLeavesWait
<1>4. StackExclusive' /\ NoOrphans' /\ NoMissedExit' /\ Family'
  BY <1>1, Zenon DEF TInv, TableSound, WaitersHaveReason,
     StackExclusive, NoOrphans, NoMissedExit, Family
<1>5. Placed' /\ ParentCopied' /\ LocksHeld' /\ OnCpu' /\ GivenAway' /\ Scanned'
  BY <1>1 DEF TInv, Placed, ParentCopied, LocksHeld, OnCpu, GivenAway, Scanned
<1> QED
  BY <1>2, <1>3, <1>4, <1>5, Zenon DEF TInv, TableSound, WaitersHaveReason

\* The timer takes the CPU away.
LEMMA YieldKeeps ==
  ASSUME TInv, NEW p \in Slot, Yield(p)
  PROVE  TInv'
<1>0. /\ state[p] = "RUNNING" /\ \A q \in Slot : lock[q] # p
      /\ lock[p] = None /\ pc[p] \notin {"wait", "exit_self", "reparent"}
  BY Zenon DEF TInv, Yield, Free, LocksHeld, ParentCopied
<1>1. /\ \A q \in Slot : lock'[q] = IF q = p THEN p ELSE lock[q]
      /\ \A q \in Slot : state'[q] = IF q = p THEN "RUNNABLE" ELSE state[q]
      /\ UNCHANGED <<parent, chan, killed, pid, cpu, pc, np, havekids, opar, nextpid,
                kills>>
  BY Zenon DEF TInv, TableSound, TypeOK, Yield, local
<1>2. TypeOK'
  BY <1>1, Zenon DEF TInv, TableSound, TypeOK, Yield
<1>3. StackExclusive'
  BY <1>1, OnSlot, Zenon DEF TInv, TableSound, StackExclusive
<1>4. NoOrphans'
  BY <1>0, <1>1, Zenon DEF TInv, TableSound, NoOrphans
<1>5. NoMissedExit'
  BY <1>1, Zenon DEF TInv, WaitersHaveReason, NoMissedExit
<1>6. KilledLeavesWait'
  BY <1>1, Zenon DEF TInv, WaitersHaveReason, KilledLeavesWait
<1>7. Family'
  <2>1. state'[p] = "RUNNABLE" /\ \A q \in Slot : q # p => state'[q] = state[q]
    BY <1>1, Zenon
  <2> QED
    BY <1>0, <1>1, <2>1, FamilyKept, Zenon
<1>8. Placed'
  BY <1>0, <1>1, Zenon DEF TInv, Placed
<1>9. LocksHeld'
  <2> SUFFICES ASSUME NEW q \in Slot
               PROVE  /\ pc'[q] \in {"wait", "reparent"} => lock'[q] = q
                      /\ pc'[q] \in {"exit_self", "reparent"} => lock'[opar[q]] = q
    BY <1>1, Zenon DEF LocksHeld
  <2>1. pc'[q] \in {"wait", "reparent"} => lock'[q] = q
    BY <1>1, Zenon DEF TInv, LocksHeld
  <2>2. ASSUME pc'[q] \in {"exit_self", "reparent"}
        PROVE  lock'[opar[q]] = q
    <3>1. pc[q] \in {"exit_self", "reparent"}
      BY <1>1, <2>2, Zenon
    <3>2. opar[q] \in Slot /\ lock[opar[q]] = q
      BY <3>1, Zenon DEF TInv, LocksHeld, ParentCopied
    <3>3. opar[q] # p
      BY <1>0, <3>2, SlotFacts, Zenon
    <3> QED
      BY <1>1, <3>2, <3>3, Zenon
  <2> QED
    BY <2>1, <2>2, Zenon
<1>10. OnCpu'
  BY <1>1, OnSlot, Zenon DEF TInv, OnCpu
<1>11. Scanned'
  BY <1>1, Zenon DEF TInv, Scanned
<1>12. ParentCopied' /\ GivenAway'
  BY <1>1, Zenon DEF TInv, ParentCopied, GivenAway
<1> QED
  BY <1>2, <1>3, <1>4, <1>5, <1>6, <1>7, <1>8, <1>9, <1>10, <1>11, <1>12, Zenon
     DEF TInv, TableSound, WaitersHaveReason

\* The scheduler runs a process that slept in wait.
LEMMA RunWaiter ==
  ASSUME TInv, NEW c \in CPU, NEW p \in Slot, Run(c, p), pc[p] = "wait_sleep"
  PROVE  TInv'
<1>0. /\ cpu[c] = None /\ state[p] = "RUNNABLE" /\ lock[p] = None
      /\ pc[p] = "wait_sleep" /\ \A t \in Slot : ~(t < 1)
  BY DEF Run, Free, Slot
<1>a. /\ state' = [state EXCEPT ![p] = "RUNNING"]
      /\ cpu' = [cpu EXCEPT ![c] = p] /\ chan' = [chan EXCEPT ![p] = None]
      /\ lock' = [lock EXCEPT ![p] = p] /\ np' = [np EXCEPT ![p] = 1]
      /\ havekids' = [havekids EXCEPT ![p] = FALSE] /\ Goto(p, "wait")
      /\ UNCHANGED <<parent, killed, pid, opar, nextpid, kills>>
  BY <1>0, Zenon DEF Run
<1>1. /\ \A q \in Slot : state'[q] = IF q = p THEN "RUNNING" ELSE state[q]
      /\ \A d \in CPU : cpu'[d] = IF d = c THEN p ELSE cpu[d]
      /\ \A q \in Slot : chan'[q] = IF q = p THEN None ELSE chan[q]
      /\ \A q \in Slot : lock'[q] = IF q = p THEN p ELSE lock[q]
      /\ \A q \in Slot : np'[q] = IF q = p THEN 1 ELSE np[q]
      /\ \A q \in Slot : havekids'[q] = IF q = p THEN FALSE ELSE havekids[q]
      /\ \A q \in Slot : pc'[q] = IF q = p THEN "wait" ELSE pc[q]
      /\ UNCHANGED <<parent, killed, pid, opar, nextpid, kills>>
  BY <1>a, Zenon DEF TInv, TableSound, TypeOK, Goto
<1>2. TypeOK'
  BY <1>a, ProcAssumption DEF TInv, TableSound, TypeOK, Goto
<1>3. StackExclusive'
  <2>1. \A d \in CPU : cpu[d] # p
    BY <1>0, SlotFacts, Zenon DEF TInv, OnCpu
  <2>2. ASSUME NEW d \in CPU, NEW e \in CPU, cpu'[d] = cpu'[e], cpu'[d] # None
        PROVE  d = e
    <3>1. cpu'[d] = (IF d = c THEN p ELSE cpu[d]) /\ cpu'[e] = (IF e = c THEN p ELSE cpu[e])
      BY <1>1, Zenon
    <3>2. cpu[d] # p /\ cpu[e] # p
      BY <2>1, Zenon
    <3>3. CASE d = c \/ e = c
      BY <2>2, <3>1, <3>2, <3>3, Zenon
    <3>4. CASE d # c /\ e # c
      BY <2>2, <3>1, <3>4, Zenon DEF TInv, TableSound, StackExclusive
    <3> QED
      BY <3>3, <3>4, Zenon
  <2>3. ASSUME NEW d \in CPU, cpu'[d] # None
        PROVE  state'[cpu'[d]] # "UNUSED"
    <3>1. CASE d = c
      BY <1>1, <3>1, Zenon
    <3>2. CASE d # c
      <4>1. cpu'[d] = cpu[d] /\ cpu[d] \in Slot \ {p}
        BY <1>1, <2>1, <2>3, <3>2, OnSlot, Zenon
      <4>2. state'[cpu[d]] = state[cpu[d]]
        BY <1>1, <4>1, Zenon
      <4> QED
        BY <2>3, <4>1, <4>2, Zenon DEF TInv, TableSound, StackExclusive
    <3> QED
      BY <3>1, <3>2, Zenon
  <2> QED
    BY <2>2, <2>3, Zenon DEF StackExclusive
<1>4. NoOrphans'
  <2> SUFFICES ASSUME NEW s \in Slot, state'[s] \in {"ZOMBIE", "UNUSED"},
                      NEW t \in Slot, state'[t] # "UNUSED"
               PROVE  parent[t] # s
    BY <1>1, Zenon DEF NoOrphans
  <2>1. state[t] # "UNUSED"
    BY <1>0, <1>1, Zenon
  <2>2. state[s] \in {"ZOMBIE", "UNUSED"}
    BY <1>1, Zenon
  <2> QED
    BY <2>1, <2>2, Zenon DEF TInv, TableSound, NoOrphans
<1>5. NoMissedExit'
  <2> SUFFICES ASSUME NEW q \in Slot \ {initproc}, state'[q] = "SLEEPING",
                      pc'[q] = "wait_sleep",
                      NEW t \in Slot, parent[t] = q
               PROVE  state'[t] # "ZOMBIE"
    BY <1>1, Zenon DEF NoMissedExit
  <2>1. q # p /\ state[q] = "SLEEPING" /\ pc[q] = "wait_sleep"
    BY <1>1, Zenon
  <2>2. state[t] # "ZOMBIE"
    BY <2>1, Zenon DEF TInv, WaitersHaveReason, NoMissedExit
  <2> QED
    BY <1>1, <2>2, Zenon
<1>6. KilledLeavesWait'
  BY <1>1, Zenon DEF TInv, WaitersHaveReason, KilledLeavesWait
<1>7. Family'
  <2>1. state'[p] = "RUNNING" /\ \A q \in Slot : q # p => state'[q] = state[q]
    BY <1>1, Zenon
  <2> QED
    BY <1>0, <1>1, <2>1, FamilyKept, Zenon
<1>8. Placed'
  <2>1. \A q \in Slot : q # p => state'[q] = state[q] /\ pc'[q] = pc[q] /\ chan'[q] = chan[q]
    BY <1>1, Zenon
  <2>2. /\ pc'[p] \in Exiting => p # initproc
        /\ state'[p] = "ZOMBIE" => pc'[p] = "dead"
        /\ state'[p] = "UNUSED" => pc'[p] \in {"user", "dead"}
        /\ pc'[p] \in {"wait", "exit_self", "reparent"} => state'[p] = "RUNNING"
        /\ state'[p] = "SLEEPING" /\ pc'[p] = "wait_sleep" => chan'[p] = p
    BY <1>0, <1>1, Zenon DEF TInv, Placed, Exiting
  <2> QED
    BY <2>1, <2>2, PlacedKept, Zenon
<1>9. ParentCopied'
  BY <1>1, Zenon DEF TInv, ParentCopied
<1>10. LocksHeld'
  <2> SUFFICES ASSUME NEW q \in Slot
               PROVE  /\ pc'[q] \in {"wait", "reparent"} => lock'[q] = q
                      /\ pc'[q] \in {"exit_self", "reparent"} => lock'[opar[q]] = q
    BY <1>1, Zenon DEF LocksHeld
  <2>1. pc'[q] \in {"wait", "reparent"} => lock'[q] = q
    BY <1>1, Zenon DEF TInv, LocksHeld
  <2>2. ASSUME pc'[q] \in {"exit_self", "reparent"}
        PROVE  lock'[opar[q]] = q
    <3>1. pc[q] \in {"exit_self", "reparent"}
      BY <1>1, <2>2, Zenon
    <3>2. opar[q] \in Slot /\ lock[opar[q]] = q
      BY <3>1, Zenon DEF TInv, LocksHeld, ParentCopied
    <3>3. opar[q] # p
      BY <1>0, <3>2, SlotFacts, Zenon
    <3> QED
      BY <1>1, <3>2, <3>3, Zenon
  <2> QED
    BY <2>1, <2>2, Zenon
<1>11. OnCpu'
  <2> SUFFICES ASSUME NEW d \in CPU, cpu'[d] # None
               PROVE  state'[cpu'[d]] = "RUNNING" \/ lock'[cpu'[d]] = cpu'[d]
    BY Zenon DEF OnCpu
  <2>1. CASE cpu'[d] = p
    BY <1>1, <2>1, Zenon
  <2>2. CASE cpu'[d] # p
    <3>1. cpu'[d] = cpu[d] /\ cpu[d] \in Slot
      BY <1>1, <2>2, OnSlot, Zenon
    <3>2. state'[cpu[d]] = state[cpu[d]] /\ lock'[cpu[d]] = lock[cpu[d]]
      BY <1>1, <2>2, <3>1, Zenon
    <3> QED
      BY <3>1, <3>2, Zenon DEF TInv, OnCpu
  <2> QED
    BY <2>1, <2>2, Zenon
<1>12. GivenAway'
  BY <1>1, Zenon DEF TInv, GivenAway
<1>13. Scanned'
  <2> SUFFICES ASSUME NEW q \in Slot \ {initproc}, pc'[q] = "wait",
                      NEW t \in Slot, t < np'[q], parent[t] = q
               PROVE  state'[t] # "ZOMBIE"
    BY <1>1, Zenon DEF Scanned
  <2>1. q # p
    BY <1>0, <1>1, Zenon
  <2>2. pc[q] = "wait" /\ t < np[q]
    BY <1>1, <2>1, Zenon
  <2>3. state[t] # "ZOMBIE"
    BY <2>2, Zenon DEF TInv, Scanned
  <2> QED
    BY <1>1, <2>3, Zenon
<1> QED
  BY <1>2, <1>3, <1>4, <1>5, <1>6, <1>7, <1>8, <1>9, <1>10, <1>11, <1>12, <1>13,
     Zenon DEF TInv, TableSound, WaitersHaveReason

\* The scheduler runs a process that slept elsewhere.
LEMMA RunSleeper ==
  ASSUME TInv, NEW c \in CPU, NEW p \in Slot, Run(c, p), pc[p] = "sleep"
  PROVE  TInv'
<1>0. /\ cpu[c] = None /\ state[p] = "RUNNABLE" /\ lock[p] = None
      /\ pc[p] = "sleep"
  BY Zenon DEF Run, Free
<1>1. /\ \A q \in Slot : state'[q] = IF q = p THEN "RUNNING" ELSE state[q]
      /\ \A d \in CPU : cpu'[d] = IF d = c THEN p ELSE cpu[d]
      /\ \A q \in Slot : chan'[q] = IF q = p THEN None ELSE chan[q]
      /\ \A q \in Slot : pc'[q] = IF q = p THEN "user" ELSE pc[q]
      /\ UNCHANGED <<parent, killed, pid, lock, np, havekids, opar, nextpid, kills>>
  BY Zenon DEF TInv, TableSound, TypeOK, Run, Goto
<1>2. TypeOK'
  BY Zenon DEF TInv, TableSound, TypeOK, Run, Goto
<1>3. StackExclusive'
  BY <1>0, <1>1, OnSlot DEF TInv, TableSound, StackExclusive, OnCpu
<1>4. NoOrphans'
  <2>1. parent' = parent
    BY <1>1, Zenon
  <2>2. \A q \in Slot : state'[q] \in {"ZOMBIE", "UNUSED"} => state[q] \in {"ZOMBIE", "UNUSED"}
    BY <1>1, Zenon
  <2>3. \A q \in Slot : state[q] = "UNUSED" => state'[q] = "UNUSED"
    BY <1>0, <1>1, Zenon
  <2> QED
    BY <2>1, <2>2, <2>3, NoOrphansKept, Zenon
<1>5. NoMissedExit'
  BY <1>1, Zenon DEF TInv, WaitersHaveReason, NoMissedExit
<1>6. KilledLeavesWait'
  BY <1>1, Zenon DEF TInv, WaitersHaveReason, KilledLeavesWait
<1>7. Family'
  <2>1. state'[p] = "RUNNING" /\ \A q \in Slot : q # p => state'[q] = state[q]
    BY <1>1, Zenon
  <2> QED
    BY <1>0, <1>1, <2>1, FamilyKept, Zenon
<1>8. Placed'
  <2>1. \A q \in Slot : q # p => state'[q] = state[q] /\ pc'[q] = pc[q] /\ chan'[q] = chan[q]
    BY <1>1, Zenon
  <2>2. /\ pc'[p] \in Exiting => p # initproc
        /\ state'[p] = "ZOMBIE" => pc'[p] = "dead"
        /\ state'[p] = "UNUSED" => pc'[p] \in {"user", "dead"}
        /\ pc'[p] \in {"wait", "exit_self", "reparent"} => state'[p] = "RUNNING"
        /\ state'[p] = "SLEEPING" /\ pc'[p] = "wait_sleep" => chan'[p] = p
    BY <1>0, <1>1, Zenon DEF TInv, Placed, Exiting
  <2> QED
    BY <2>1, <2>2, PlacedKept, Zenon
<1>9. ParentCopied'
  BY <1>1, Zenon DEF TInv, ParentCopied
<1>10. LocksHeld'
  BY <1>1, Zenon DEF TInv, LocksHeld
<1>11. OnCpu'
  BY <1>1, OnSlot, Zenon DEF TInv, OnCpu
<1>12. GivenAway'
  BY <1>1, Zenon DEF TInv, GivenAway
<1>13. Scanned'
  BY <1>1, Zenon DEF TInv, Scanned
<1> QED
  BY <1>2, <1>3, <1>4, <1>5, <1>6, <1>7, <1>8, <1>9, <1>10, <1>11, <1>12, <1>13,
     Zenon DEF TInv, TableSound, WaitersHaveReason

\* The scheduler runs a process that was preempted.
LEMMA RunPreempted ==
  ASSUME TInv, NEW c \in CPU, NEW p \in Slot, Run(c, p),
         pc[p] \notin {"wait_sleep", "sleep"}
  PROVE  TInv'
<1>0. /\ cpu[c] = None /\ state[p] = "RUNNABLE" /\ lock[p] = None
      /\ pc[p] \notin {"wait_sleep", "sleep"}
  BY Zenon DEF Run, Free
<1>1. /\ \A q \in Slot : state'[q] = IF q = p THEN "RUNNING" ELSE state[q]
      /\ \A d \in CPU : cpu'[d] = IF d = c THEN p ELSE cpu[d]
      /\ \A q \in Slot : chan'[q] = IF q = p THEN None ELSE chan[q]
      /\ UNCHANGED <<parent, killed, pid, lock, pc, np, havekids, opar, nextpid, kills>>
  BY Zenon DEF TInv, TableSound, TypeOK, Run, Goto
<1>2. TypeOK'
  BY <1>1, Zenon DEF TInv, TableSound, TypeOK, Run
<1>3. StackExclusive'
  <2>1. \A d \in CPU : cpu[d] # p
    BY <1>0, SlotFacts, Zenon DEF TInv, OnCpu
  <2> QED
    BY <1>0, <1>1, <2>1, OnSlot DEF TInv, TableSound, StackExclusive
<1>4. NoOrphans'
  <2>1. parent' = parent
    BY <1>1, Zenon
  <2>2. \A q \in Slot : state'[q] \in {"ZOMBIE", "UNUSED"} => state[q] \in {"ZOMBIE", "UNUSED"}
    BY <1>1, Zenon
  <2>3. \A q \in Slot : state[q] = "UNUSED" => state'[q] = "UNUSED"
    BY <1>0, <1>1, Zenon
  <2> QED
    BY <2>1, <2>2, <2>3, NoOrphansKept, Zenon
<1>5. NoMissedExit'
  BY <1>1, Zenon DEF TInv, WaitersHaveReason, NoMissedExit
<1>6. KilledLeavesWait'
  BY <1>1, Zenon DEF TInv, WaitersHaveReason, KilledLeavesWait
<1>7. Family'
  <2>1. state'[p] = "RUNNING" /\ \A q \in Slot : q # p => state'[q] = state[q]
    BY <1>1, Zenon
  <2> QED
    BY <1>0, <1>1, <2>1, FamilyKept, Zenon
<1>8. Placed'
  <2>1. \A q \in Slot : q # p => state'[q] = state[q] /\ pc'[q] = pc[q] /\ chan'[q] = chan[q]
    BY <1>1, Zenon
  <2>2. /\ pc'[p] \in Exiting => p # initproc
        /\ state'[p] = "ZOMBIE" => pc'[p] = "dead"
        /\ state'[p] = "UNUSED" => pc'[p] \in {"user", "dead"}
        /\ pc'[p] \in {"wait", "exit_self", "reparent"} => state'[p] = "RUNNING"
        /\ state'[p] = "SLEEPING" /\ pc'[p] = "wait_sleep" => chan'[p] = p
    BY <1>0, <1>1, Zenon DEF TInv, Placed, Exiting
  <2> QED
    BY <2>1, <2>2, PlacedKept, Zenon
<1>9. OnCpu'
  BY <1>1, OnSlot, Zenon DEF TInv, OnCpu
<1>10. Scanned'
  BY <1>1, Zenon DEF TInv, Scanned
<1>11. ParentCopied' /\ LocksHeld' /\ GivenAway'
  BY <1>1, Zenon DEF TInv, ParentCopied, LocksHeld, GivenAway
<1> QED
  BY <1>2, <1>3, <1>4, <1>5, <1>6, <1>7, <1>8, <1>9, <1>10, <1>11, Zenon DEF
     TInv, TableSound, WaitersHaveReason

\* A process gets back to the scheduler.
LEMMA SwitchOutKeeps ==
  ASSUME TInv, NEW c \in CPU, SwitchOut(c)
  PROVE  TInv'
<1>0. /\ cpu[c] \in Slot /\ state[cpu[c]] # "RUNNING"
      /\ lock[cpu[c]] = cpu[c]
  BY Zenon DEF TInv, TableSound, TypeOK, SwitchOut
<1>1. /\ \A q \in Slot : lock'[q] = IF q = cpu[c] THEN None ELSE lock[q]
      /\ \A d \in CPU : cpu'[d] = IF d = c THEN None ELSE cpu[d]
      /\ UNCHANGED <<state, parent, chan, killed, pid, pc, np, havekids, opar, nextpid,
                kills>>
  BY Zenon DEF TInv, TableSound, TypeOK, SwitchOut, table, local
<1>2. TypeOK'
  BY <1>1, Zenon DEF TInv, TableSound, TypeOK, SwitchOut
<1>3. StackExclusive'
  BY <1>1, Zenon DEF TInv, TableSound, StackExclusive
<1>4. LocksHeld'
  BY <1>0, <1>1 DEF TInv, LocksHeld, ParentCopied, Placed
<1>5. OnCpu'
  BY <1>1, OnSlot, Zenon DEF TInv, TableSound, OnCpu, StackExclusive
<1>6. NoOrphans' /\ NoMissedExit' /\ KilledLeavesWait' /\ Family'
  BY <1>1, Zenon DEF TInv, TableSound, WaitersHaveReason, NoOrphans,
     NoMissedExit, KilledLeavesWait, Family
<1>7. Placed' /\ ParentCopied' /\ GivenAway' /\ Scanned'
  BY <1>1, Zenon DEF TInv, Placed, ParentCopied, GivenAway, Scanned
<1> QED
  BY <1>2, <1>3, <1>4, <1>5, <1>6, <1>7, Zenon DEF TInv, TableSound,
     WaitersHaveReason

\* Every step preserves the invariant.
LEMMA StepTInv == TInv /\ [Next]_vars => TInv'
<1> SUFFICES ASSUME TInv, [Next]_vars PROVE TInv'
  BY Zenon
<1>1. CASE UNCHANGED vars
  <2>1. UNCHANGED <<state, parent, chan, killed, pid, lock, cpu, pc, np, havekids, opar,
                    nextpid, kills>>
    BY <1>1, Zenon DEF vars, table, local
  <2>2. TypeOK'
    BY <2>1, Zenon DEF TInv, TableSound, TypeOK
  <2>3. StackExclusive' /\ NoOrphans' /\ NoMissedExit' /\ KilledLeavesWait' /\ Family'
    BY <2>1, Zenon DEF TInv, TableSound, WaitersHaveReason, StackExclusive,
       NoOrphans, NoMissedExit, KilledLeavesWait, Family
  <2>4. Placed' /\ ParentCopied' /\ LocksHeld' /\ OnCpu' /\ GivenAway' /\ Scanned'
    BY <2>1, Zenon DEF TInv, Placed, ParentCopied, LocksHeld, OnCpu, GivenAway,
       Scanned
  <2> QED
    BY <2>2, <2>3, <2>4, Zenon DEF TInv, TableSound, WaitersHaveReason
<1>2. ASSUME NEW p \in Slot, ForkFails(p) PROVE TInv'
  BY <1>2, ForkHalfway, ForkUndone, Zenon DEF ForkFails
<1>3. ASSUME NEW p \in Slot, ExitStep(p) PROVE TInv'
  BY <1>3, ExitWakesInit, ExitFindsInitAwake, ExitCopyParentKeeps,
     ExitLockParentKeeps, ExitLockSelfKeeps, ReparentGives, ReparentPasses,
     ExitZombieWakes, ExitZombieQuiet, Zenon DEF ExitStep
<1>4. ASSUME NEW p \in Slot, WaitStep(p) PROVE TInv'
  BY <1>4, WaitScanSkips, WaitScanReaps, WaitScanPasses, WaitEndReturns,
     WaitEndSleeps, Zenon DEF WaitStep
<1>5. ASSUME NEW p \in Slot, Kill(p) PROVE TInv'
  BY <1>5, KillWakes, KillMarks, Zenon
<1>6. ASSUME NEW c \in CPU, NEW p \in Slot, Run(c, p) PROVE TInv'
  BY <1>6, RunWaiter, RunSleeper, RunPreempted, Zenon
<1>7. CASE Next
  BY <1>2, <1>3, <1>4, <1>5, <1>6, <1>7, ForkKeeps, ExitKeeps, WaitKeeps,
     WaitFaultKeeps, SleepOtherKeeps, WakeupKeeps, YieldKeeps, SwitchOutKeeps,
     Zenon DEF Next
<1> QED
  BY <1>1, <1>7, Zenon

\* So it holds in every reachable state.
LEMMA InvariantTInv == Spec => []TInv
BY InitTInv, StepTInv, PTL DEF Spec

\* Theorem: no two CPUs ever run on one kernel stack, no CPU runs in a freed
\* slot, and a process that exited or was freed has no children left, for every
\* number of slots and CPUs (scheduler, exit, reparent, wait, freeproc).
THEOREM TableStaysSound == Spec => []TableSound
BY InvariantTInv, PTL DEF TInv

\* Theorem: no process but init sleeps in wait with a zombie child, although
\* exit reads its parent without a lock and reparent changes it, and no killed
\* process sleeps on in wait (wait, exit, reparent, kill).
THEOREM NoMissedWakeup == Spec => []WaitersHaveReason
BY InvariantTInv, PTL DEF TInv
=============================================================================
